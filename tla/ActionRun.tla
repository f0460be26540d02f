------------------------------- MODULE ActionRun -------------------------------
(***************************************************************************)
(* ActionPipeline with the job of its run: the row of the queue that a     *)
(* suspended run is parked on and that a decision wakes (_park and execute *)
(* of service/runs.py, wake_run and its callers in actions/store.py).      *)
(* RunQueue models the queue itself; here it is one job, for what becomes  *)
(* of the decisions.                                                       *)
(***************************************************************************)
EXTENDS ActionPipeline

VARIABLE job

\* "open": queued or running.  "waiting": set waiting, so that nothing claims it
\* until it is woken.  "lost": waiting like any other, but set so after the
\* decision it waits for had been made; none is left to wake it.  "over": its run
\* got an outcome before it came to the step.

jobVars == <<vars, job>>

JobInit == Init /\ job = "open"

-----------------------------------------------------------------------------
(* What the steps of the pipeline do to the job                            *)

StepsDone == \E a \in Actions : told[a] # "none"

\* RunService.claim takes a job that is queued, or running on a lapsed lease.
\* A worker that has reported a step goes on with the next without a claim.
TakesUp(w) ==
    /\ job = "open" \/ StepsDone
    /\ Perform(w)
    /\ UNCHANGED job

\* _park sets the job waiting by its id, whatever it was and whatever became
\* of the request meanwhile.  A run that has its outcome stays concluded.
Parks(w) ==
    /\ Park(w)
    /\ job' = IF job = "over" THEN "over"
              ELSE IF row[worker[w].act].status = "pending" THEN "waiting"
              ELSE "lost"

WakesNothing == UNCHANGED job           \* mutant: the decision does not wake the run

\* store.wake_run, in the transaction of the decision.
Wakes == job' = IF job = "waiting" THEN "open" ELSE job

\* decide and _collect wake the run, and so does the sweep that expires a request.
Decides(a) == (Person(a) \/ Sweep(a)) /\ Wakes

\* A worker that fails to park its run puts the job back on the queue.
Fails(w) ==
    /\ InfraError(w)
    /\ job' = IF At(w, "parking") /\ job # "over" THEN "open" ELSE job

\* A run that is claimed may get its outcome before it comes to the step: its
\* ticket was taken by a person, its SOP version is gone, or the job has been
\* attempted too often (IncidentProcessor._claim and _run, RunService._abandon).
EndsElsewhere ==
    /\ job = "open"
    /\ job' = "over"
    /\ UNCHANGED vars

-----------------------------------------------------------------------------
JobStep(w) ==
    \/ TakesUp(w) \/ Parks(w)
    \/ WorkerStep(w) /\ Busy(w) /\ ~At(w, "parking") /\ UNCHANGED job
    \/ Fails(w)
    \/ Crash(w) /\ UNCHANGED job

JobNext ==
    \/ \E w \in Workers : JobStep(w)
    \/ \E a \in Actions : Decides(a) \/ ((ExpiryPasses(a) \/ ValidityPasses(a)) /\ UNCHANGED job)
    \/ Throw /\ UNCHANGED job
    \/ EndsElsewhere

JobSpec == JobInit /\ [][JobNext]_jobVars

\* A worker goes on with what it has begun.  Workers poll, and the lease of a
\* dead one lapses, so a job that stays open is taken up; nothing is assumed of
\* a job that waits.  The clock of a request runs, and the sweep comes round.
Fairness ==
    /\ \A w \in Workers :
        /\ WF_jobVars(Busy(w) /\ (Parks(w) \/ (WorkerStep(w) /\ ~At(w, "parking") /\ UNCHANGED job)))
        /\ WF_jobVars(job = "open" /\ TakesUp(w))
    /\ \A a \in Actions :
        /\ WF_jobVars(ExpiryPasses(a) /\ UNCHANGED job)
        /\ WF_jobVars(Sweep(a) /\ Wakes)

FairSpec == JobSpec /\ Fairness

-----------------------------------------------------------------------------
(* Liveness                                                                *)

\* Nobody is at work on the run, and nothing will take it up again: it was set
\* waiting after its decision, or it was concluded without it.
Stranded == job \in {"lost", "over"} /\ \A w \in Workers : ~Busy(w)

\* A decision that was recorded comes to an end: carried out, refused, expired
\* with nobody having to decide it; or its step was reported as one that could
\* not be run.  Only two things leave it half way: the decision that commits
\* before the run is parked, which wakes nothing, and an end of the run by
\* another way.  Every other park is woken, through crashes and a second attempt.
DecisionsSettle == \A a \in Actions :
    row[a].status # "none" ~> row[a].status \in Final \/ told[a] = "error" \/ Stranded
=============================================================================
