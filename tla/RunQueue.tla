------------------------------- MODULE RunQueue -------------------------------
(***************************************************************************)
(* Durable runs: the jobs table as a leased queue, the run's journal, the  *)
(* ServiceNow ticket, and the workers that take a run to its outcome       *)
(* (service/runs.py, engine/incident_processor.py, the claim of            *)
(* connectors/itsm/servicenow.py, escalation/escalator.py).                *)
(*                                                                         *)
(* A worker is a process; its record is the memory it loses in a crash.    *)
(* Everything else is in the database or in ServiceNow.  One action is one *)
(* transaction or one call to ServiceNow, so workers, people and the clock *)
(* interleave between them.  The SOP is a list of steps with no failure    *)
(* edges; its step ApprovalStep is a change a person must approve first.   *)
(***************************************************************************)
EXTENDS Naturals, FiniteSets

CONSTANTS
    NumRuns,        \* incidents delivered, numbered in the order of arrival
    Workers,        \* worker processes
    NoWorker,       \* a job nobody has claimed yet
    NumSteps,       \* steps of the SOP
    ApprovalStep,   \* the step that needs a person's approval
    MaxAttempts,    \* WORKER_MAX_ATTEMPTS
    MaxCrashes,     \* bound: how often a worker process dies
    MaxStalls,      \* bound: how often the lease of a live worker lapses
    MaxErrors,      \* bound: how often the database or ServiceNow fails a call
    Outage          \* may ServiceNow fail every call, beyond that bound?

ASSUME CountsAssumption ==
    /\ NumRuns \in Nat /\ NumSteps \in Nat /\ MaxAttempts \in Nat
    /\ MaxCrashes \in Nat /\ MaxStalls \in Nat /\ MaxErrors \in Nat
ASSUME StepAssumption == ApprovalStep \in 1..NumSteps
ASSUME WorkerAssumption == NoWorker \notin Workers
ASSUME OutageAssumption == Outage \in BOOLEAN

Runs == 1..NumRuns
Steps == 1..NumSteps
Outcomes == {"resolved", "escalated", "needs_human", "aborted"}
Results == {"ok", "failed", "error"}

VARIABLES
    job,      \* jobs: status, attempts, locked_by, is the lease running, is it due
    run,      \* runs: outcome, the state shown, has an SOP been chosen
    results,  \* run_steps: the recorded result of each step
    request,  \* the approval request of the run's ApprovalStep
    ticket,   \* ServiceNow: who it is assigned to, is it open, is it with an L2 team
    worker,   \* each worker's memory
    faults    \* how much of each bound is used up

vars == <<job, run, results, request, ticket, worker, faults>>

JobStatus == {"absent", "queued", "running", "waiting", "done", "dead"}
Job == [status: JobStatus, attempts: Nat, owner: Workers \cup {NoWorker},
        leased: BOOLEAN, due: BOOLEAN]
Run == [outcome: Outcomes \cup {"none"}, matched: BOOLEAN,
        state: Outcomes \cup {"received", "executing", "awaiting_approval"}]
Journal == [Steps -> Results \cup {"none"}]
Ticket == [owner: {"nobody", "agent", "person"}, open: BOOLEAN, routed: BOOLEAN]
Requests == {"none", "pending", "approved", "refused"}

\* Where a worker is.  The lease is renewed only inside run_once.
InRunOnce == {"reading", "patching", "readback", "matching", "marking", "step", "called",
              "resolving", "handing"}
Pcs == InRunOnce \cup {"idle", "loading", "journal", "finishing", "abandoning",
                       "parking", "concluding", "releasing"}
\* Where it has made up its mind about the outcome.
HasOutcome == {"resolving", "handing", "abandoning", "concluding"}
Worker == [pc: Pcs, run: Runs \cup {0}, attempts: Nat, outcome: Outcomes \cup {"none"},
           final: {"done", "dead"}, matched: BOOLEAN, done: Journal]

EmptyJournal == [s \in Steps |-> "none"]
AbsentJob == [status |-> "absent", attempts |-> 0, owner |-> NoWorker,
              leased |-> FALSE, due |-> FALSE]
NewRun == [outcome |-> "none", matched |-> FALSE, state |-> "received"]
NewTicket == [owner |-> "nobody", open |-> TRUE, routed |-> FALSE]
Idle == [pc |-> "idle", run |-> 0, attempts |-> 0, outcome |-> "none",
         final |-> "done", matched |-> FALSE, done |-> EmptyJournal]

TypeOK ==
    /\ job \in [Runs -> Job]
    /\ run \in [Runs -> Run]
    /\ results \in [Runs -> Journal]
    /\ request \in [Runs -> Requests]
    /\ ticket \in [Runs -> Ticket]
    /\ worker \in [Workers -> Worker]
    /\ \A w \in Workers :
        /\ worker[w].pc # "idle" => worker[w].run \in Runs
        /\ worker[w].pc \in HasOutcome => worker[w].outcome # "none"
    /\ faults \in [crashes: 0..MaxCrashes, stalls: 0..MaxStalls, errors: 0..MaxErrors]

Init ==
    /\ job = [r \in Runs |-> AbsentJob]
    /\ run = [r \in Runs |-> NewRun]
    /\ results = [r \in Runs |-> EmptyJournal]
    /\ request = [r \in Runs |-> "none"]
    /\ ticket = [r \in Runs |-> NewTicket]
    /\ worker = [w \in Workers |-> Idle]
    /\ faults = [crashes |-> 0, stalls |-> 0, errors |-> 0]

-----------------------------------------------------------------------------
(* Helpers: one worker's program counter, the bounds on faults.            *)

At(w, pc) == worker[w].pc = pc
Goto(w, pc) == worker' = [worker EXCEPT ![w].pc = pc]
Decided(w, pc, o) == worker' = [worker EXCEPT ![w] = [@ EXCEPT !.pc = pc, !.outcome = o]]
Rest(w) == worker' = [worker EXCEPT ![w] = Idle]

OneMoreError ==
    /\ faults.errors < MaxErrors
    /\ faults' = [faults EXCEPT !.errors = @ + 1]

ItsmError == IF Outage THEN UNCHANGED faults ELSE OneMoreError

\* An update of the ticket in ServiceNow: it is made; or the call fails, of
\* which the caller does not learn whether the update was made all the same.
Updates(r, t) == ticket' = [ticket EXCEPT ![r] = t] /\ UNCHANGED faults
FailsToUpdate(r, t) == ItsmError /\ ticket' \in {ticket, [ticket EXCEPT ![r] = t]}

-----------------------------------------------------------------------------
(* Intake                                                                  *)

\* RunService.ingest.  A delivery of an incident that is already there
\* (webhook and poller both deliver) conflicts and changes nothing.
Ingest(r) ==
    /\ job[r].status = "absent"
    /\ \A q \in Runs : q < r => job[q].status # "absent"
    /\ job' = [job EXCEPT ![r] = [@ EXCEPT !.status = "queued", !.due = TRUE]]
    /\ UNCHANGED <<run, results, request, ticket, worker, faults>>

-----------------------------------------------------------------------------
(* The queue                                                               *)

ClaimableEvenIfLeased(r) ==     \* mutant: the lease is not looked at
    \/ job[r].status = "queued" /\ job[r].due
    \/ job[r].status = "running"

Claimable(r) ==
    \/ job[r].status = "queued" /\ job[r].due
    \/ job[r].status = "running" /\ ~job[r].leased

ClaimUncounted(w) == \E r \in Runs :        \* mutant: the attempt is not counted
    LET n == job[r].attempts IN
    /\ At(w, "idle")
    /\ Claimable(r)
    /\ \A q \in Runs : q < r => ~Claimable(q)
    /\ job' = [job EXCEPT ![r] = [@ EXCEPT !.status = "running", !.leased = TRUE, !.owner = w]]
    /\ worker' = [worker EXCEPT ![w] = [Idle EXCEPT !.pc = "loading", !.run = r,
                                                    !.attempts = n]]
    /\ UNCHANGED <<run, results, request, ticket, faults>>

\* RunService.claim: the oldest job that is due or whose lease has expired.
Claim(w) == \E r \in Runs :
    LET n == job[r].attempts + 1 IN
    /\ At(w, "idle")
    /\ Claimable(r)
    /\ \A q \in Runs : q < r => ~Claimable(q)
    /\ job' = [job EXCEPT ![r] = [@ EXCEPT !.status = "running", !.leased = TRUE,
                                           !.attempts = n, !.owner = w]]
    /\ worker' = [worker EXCEPT ![w] = [Idle EXCEPT !.pc = "loading", !.run = r,
                                                    !.attempts = n]]
    /\ UNCHANGED <<run, results, request, ticket, faults>>

\* RunService._heartbeat renews by locked_by alone.
Heartbeat(w) ==
    LET r == worker[w].run IN
    /\ worker[w].pc \in InRunOnce
    /\ job[r].owner = w
    /\ ~job[r].leased
    /\ job' = [job EXCEPT ![r].leased = TRUE]
    /\ UNCHANGED <<run, results, request, ticket, worker, faults>>

\* The clock passes locked_until.  The heartbeat keeps a live worker's lease
\* except in a stall: an event loop or a database held up for a whole lease.
Held(r) == \E w \in Workers : worker[w].pc # "idle" /\ worker[w].run = r /\ job[r].owner = w
LeaseLapses(r) ==
    /\ job[r].status = "running" /\ job[r].leased
    /\ IF Held(r)
       THEN faults.stalls < MaxStalls /\ faults' = [faults EXCEPT !.stalls = @ + 1]
       ELSE faults' = faults
    /\ job' = [job EXCEPT ![r].leased = FALSE]
    /\ UNCHANGED <<run, results, request, ticket, worker>>

\* The clock passes available_at.
BecomesDue(r) ==
    /\ job[r].status = "queued" /\ ~job[r].due
    /\ job' = [job EXCEPT ![r].due = TRUE]
    /\ UNCHANGED <<run, results, request, ticket, worker, faults>>

-----------------------------------------------------------------------------
(* RunService.execute: what a worker does with a claimed job               *)

\* _load, and the choice it leads to.
Load(w) ==
    LET r == worker[w].run IN
    /\ At(w, "loading")
    /\ \/ /\ run[r].outcome # "none"
          /\ Goto(w, "finishing")
       \/ /\ run[r].outcome = "none" /\ worker[w].attempts > MaxAttempts
          /\ worker' = [worker EXCEPT ![w] = [@ EXCEPT !.pc = "abandoning", !.final = "dead",
                                                       !.outcome = "needs_human"]]
       \/ /\ run[r].outcome = "none" /\ worker[w].attempts <= MaxAttempts
          /\ Goto(w, "journal")
    /\ UNCHANGED <<job, run, results, request, ticket, faults>>

LoadJournalAfresh(w) ==         \* mutant: a resumed run starts from nothing
    /\ At(w, "journal")
    /\ Goto(w, "reading")
    /\ UNCHANGED <<job, run, results, request, ticket, faults>>

\* DbJournal.load: the chosen SOP and the results of completed steps.
LoadJournal(w) ==
    LET r == worker[w].run IN
    /\ At(w, "journal")
    /\ worker' = [worker EXCEPT ![w] = [@ EXCEPT !.pc = "reading", !.matched = run[r].matched,
                                                 !.done = results[r]]]
    /\ UNCHANGED <<job, run, results, request, ticket, faults>>

\* _finish_job: the run had its outcome already.
FinishJob(w) ==
    /\ At(w, "finishing")
    /\ job' = [job EXCEPT ![worker[w].run] = [@ EXCEPT !.status = "done", !.leased = FALSE]]
    /\ Rest(w)
    /\ UNCHANGED <<run, results, request, ticket, faults>>

-----------------------------------------------------------------------------
(* IncidentProcessor._claim: take the ticket.  Read, patch, read back.     *)

ReadTicket(w) ==
    LET t == ticket[worker[w].run] IN
    /\ At(w, "reading")
    /\ \/ t.owner = "agent" /\ Goto(w, "matching")
       \/ t.owner = "nobody" /\ t.open /\ Goto(w, "patching")
       \/ (t.owner = "person" \/ (t.owner = "nobody" /\ ~t.open))
          /\ Decided(w, "concluding", "aborted")
    /\ UNCHANGED <<job, run, results, request, ticket, faults>>

\* The Table API has no conditional update: the patch overwrites a person
\* who took the ticket since it was read.
PatchTicket(w) ==
    LET r == worker[w].run
        taken == [ticket[r] EXCEPT !.owner = "agent", !.open = TRUE] IN
    /\ At(w, "patching")
    /\ \/ Updates(r, taken) /\ Goto(w, "readback")
       \/ FailsToUpdate(r, taken) /\ Goto(w, "releasing")       \* ItsmUnavailable
    /\ UNCHANGED <<job, run, results, request>>

ReadBack(w) ==
    /\ At(w, "readback")
    /\ IF ticket[worker[w].run].owner = "agent"
       THEN Goto(w, "matching")
       ELSE Decided(w, "concluding", "aborted")
    /\ UNCHANGED <<job, run, results, request, ticket, faults>>

\* A person assigns the ticket to themselves.
PersonTakes(r) ==
    /\ job[r].status # "absent"
    /\ ticket[r].owner # "person" /\ ticket[r].open
    /\ ticket' = [ticket EXCEPT ![r].owner = "person"]
    /\ UNCHANGED <<job, run, results, request, worker, faults>>

-----------------------------------------------------------------------------
(* IncidentProcessor._run: choose an SOP, or resume with the one chosen    *)

\* A resumed run keeps its SOP.
ResumeMatch(w) ==
    /\ At(w, "matching") /\ worker[w].matched
    /\ Goto(w, "step")
    /\ UNCHANGED <<job, run, results, request, ticket, faults>>

\* The version it started with was retired: nothing to resume.
SopGone(w) ==
    /\ At(w, "matching") /\ worker[w].matched
    /\ Decided(w, "handing", "needs_human")
    /\ UNCHANGED <<job, run, results, request, ticket, faults>>

\* No SOP applies, or none scores above the threshold.
NoMatch(w) ==
    /\ At(w, "matching") /\ ~worker[w].matched
    /\ Decided(w, "handing", "escalated")
    /\ UNCHANGED <<job, run, results, request, ticket, faults>>

\* DbJournal.record_match.
RecordMatch(w) ==
    LET r == worker[w].run IN
    /\ At(w, "matching") /\ ~worker[w].matched
    /\ run' = [run EXCEPT ![r] = [@ EXCEPT !.matched = TRUE, !.state = "executing"]]
    /\ worker' = [worker EXCEPT ![w] = [@ EXCEPT !.pc = "marking", !.matched = TRUE]]
    /\ UNCHANGED <<job, results, request, ticket, faults>>

\* _update_state: the ticket is In Progress.  A failure is logged, no more.
MarkInProgress(w) ==
    LET r == worker[w].run
        inProgress == [ticket[r] EXCEPT !.open = TRUE] IN
    /\ At(w, "marking")
    /\ Updates(r, inProgress) \/ FailsToUpdate(r, inProgress)
    /\ Goto(w, "step")
    /\ UNCHANGED <<job, run, results, request>>

-----------------------------------------------------------------------------
(* SOPExecutor._run_steps: walk the steps, replaying what the journal holds *)

Failed(j) == \E s \in Steps : j[s] = "failed"
Errored(j) == \E s \in Steps : j[s] = "error"
Finished(j) == \A s \in Steps : j[s] = "ok"
\* The step to execute next: the first that has no result.
IsNext(j, s) == j[s] = "none" /\ \A t \in Steps : t < s => j[t] = "ok"

\* step_started commits, and the step's call is on its way to its target.
CallStep(w) == \E s \in Steps :
    /\ At(w, "step")
    /\ IsNext(worker[w].done, s)
    /\ s = ApprovalStep => request[worker[w].run] \in {"approved", "refused"}
    /\ Goto(w, "called")
    /\ UNCHANGED <<job, run, results, request, ticket, faults>>

\* ActionService.perform finds no decision: it records the request the first
\* time, and raises RunSuspended.
AwaitApproval(w) ==
    LET r == worker[w].run IN
    /\ At(w, "step")
    /\ IsNext(worker[w].done, ApprovalStep)
    /\ request[r] \in {"none", "pending"}
    /\ request' = [request EXCEPT ![r] = "pending"]
    /\ Goto(w, "parking")
    /\ UNCHANGED <<job, run, results, ticket, faults>>

RecordStepInMemory(w) == \E s \in Steps, v \in Results :   \* mutant: not committed
    LET r == worker[w].run IN
    /\ At(w, "called")
    /\ IsNext(worker[w].done, s)
    /\ s = ApprovalStep /\ request[r] = "refused" => v # "ok"
    /\ worker' = [worker EXCEPT ![w] = [@ EXCEPT !.pc = "step", !.done[s] = v]]
    /\ UNCHANGED <<job, run, results, request, ticket, faults>>

\* DbJournal.step_completed.  A refused change was not made: its step
\* did not pass.
RecordStep(w) == \E s \in Steps, v \in Results :
    LET r == worker[w].run IN
    /\ At(w, "called")
    /\ IsNext(worker[w].done, s)
    /\ s = ApprovalStep /\ request[r] = "refused" => v # "ok"
    /\ results' = [results EXCEPT ![r][s] = v]
    /\ worker' = [worker EXCEPT ![w] = [@ EXCEPT !.pc = "step", !.done[s] = v]]
    /\ UNCHANGED <<job, run, request, ticket, faults>>

\* The walk ends: every step passed, one failed and has no failure edge, or
\* one could not be run.
WalkEnds(w) ==
    /\ At(w, "step")
    /\ \/ Finished(worker[w].done) /\ Decided(w, "resolving", "resolved")
       \/ Failed(worker[w].done) /\ Decided(w, "handing", "escalated")
       \/ Errored(worker[w].done) /\ Decided(w, "handing", "needs_human")
    /\ UNCHANGED <<job, run, results, request, ticket, faults>>

Resolved(r) == [ticket[r] EXCEPT !.open = FALSE]

ResolveTicketBestEffort(w) ==   \* mutant: a refused update is only logged
    LET r == worker[w].run IN
    /\ At(w, "resolving")
    /\ Updates(r, Resolved(r)) \/ FailsToUpdate(r, Resolved(r))
    /\ Goto(w, "concluding")
    /\ UNCHANGED <<job, run, results, request>>

\* _resolve_in_itsm.  An update that fails turns the run into needs_human, also
\* when ServiceNow made it and the answer was lost.
ResolveTicket(w) ==
    LET r == worker[w].run IN
    /\ At(w, "resolving")
    /\ \/ Updates(r, Resolved(r)) /\ Goto(w, "concluding")
       \/ FailsToUpdate(r, Resolved(r)) /\ Decided(w, "handing", "needs_human")
    /\ UNCHANGED <<job, run, results, request>>

\* escalate_to_l2: the assignment group becomes an L2 team and the assignment
\* is given up.  A failure of the update is logged and nothing more.
HandOver(w) ==
    LET r == worker[w].run
        routed == [ticket[r] EXCEPT !.routed = TRUE, !.owner = "nobody"] IN
    /\ worker[w].pc \in {"handing", "abandoning"}
    /\ Updates(r, routed) \/ FailsToUpdate(r, routed)
    /\ Goto(w, "concluding")
    /\ UNCHANGED <<job, run, results, request>>

\* A journal write fails inside the engine: an internal error, so needs_human.
EngineError(w) ==
    /\ worker[w].pc \in {"matching", "marking", "step", "called"}
    /\ OneMoreError
    /\ Decided(w, "handing", "needs_human")
    /\ UNCHANGED <<job, run, results, request, ticket>>

-----------------------------------------------------------------------------
(* How a worker lets go of a job                                           *)

ConcludeAnyway(w) ==            \* mutant: the last conclusion stands
    LET r == worker[w].run IN
    /\ At(w, "concluding")
    /\ run' = [run EXCEPT ![r] = [@ EXCEPT !.outcome = worker[w].outcome,
                                                !.state = worker[w].outcome]]
    /\ job' = [job EXCEPT ![r] = [@ EXCEPT !.status = worker[w].final, !.leased = FALSE]]
    /\ Rest(w)
    /\ UNCHANGED <<results, request, ticket, faults>>

\* _conclude: the first conclusion stands; the job is closed either way.
Conclude(w) ==
    LET r == worker[w].run IN
    /\ At(w, "concluding")
    /\ IF run[r].outcome = "none"
       THEN run' = [run EXCEPT ![r] = [@ EXCEPT !.outcome = worker[w].outcome,
                                                !.state = worker[w].outcome]]
       ELSE run' = run
    /\ job' = [job EXCEPT ![r] = [@ EXCEPT !.status = worker[w].final, !.leased = FALSE]]
    /\ Rest(w)
    /\ UNCHANGED <<results, request, ticket, faults>>

\* _park: the job waits for the decision.  Neither the job's owner nor the
\* request is looked at again.
Park(w) ==
    LET r == worker[w].run IN
    /\ At(w, "parking")
    /\ job' = [job EXCEPT ![r] = [@ EXCEPT !.status = "waiting", !.leased = FALSE,
                                           !.attempts = 0]]
    /\ run' = [run EXCEPT ![r].state = "awaiting_approval"]
    /\ Rest(w)
    /\ UNCHANGED <<results, request, ticket, faults>>

\* ItsmUnavailable from the claim of the ticket, or a database error outside
\* the engine.
ReadingTicket == {"reading", "readback"}
OutsideEngine == {"loading", "journal", "finishing", "parking", "concluding"}
InfraError(w) ==
    /\ \/ worker[w].pc \in ReadingTicket /\ ItsmError
       \/ worker[w].pc \in OutsideEngine /\ OneMoreError
    /\ Goto(w, "releasing")
    /\ UNCHANGED <<job, run, results, request, ticket>>

ReleaseAsDone(w) ==             \* mutant: a job that failed is dropped
    /\ At(w, "releasing")
    /\ job' = [job EXCEPT ![worker[w].run] = [@ EXCEPT !.status = "done", !.leased = FALSE]]
    /\ Rest(w)
    /\ UNCHANGED <<run, results, request, ticket, faults>>

ReleaseUnlisted(w) ==           \* mutant: a status the queue does not know
    /\ At(w, "releasing")
    /\ job' = [job EXCEPT ![worker[w].run] = [@ EXCEPT !.status = "failed", !.leased = FALSE]]
    /\ Rest(w)
    /\ UNCHANGED <<run, results, request, ticket, faults>>

\* _release: back on the queue, after a delay.
Release(w) ==
    /\ At(w, "releasing")
    /\ job' = [job EXCEPT ![worker[w].run] = [@ EXCEPT !.status = "queued", !.leased = FALSE,
                                                       !.due = FALSE]]
    /\ Rest(w)
    /\ UNCHANGED <<run, results, request, ticket, faults>>

\* The process dies, or _release itself fails: only the lease is left.
Crash(w) ==
    /\ worker[w].pc # "idle"
    /\ faults.crashes < MaxCrashes
    /\ faults' = [faults EXCEPT !.crashes = @ + 1]
    /\ Rest(w)
    /\ UNCHANGED <<job, run, results, request, ticket>>

-----------------------------------------------------------------------------
(* Decisions.  Each wakes the run in its own transaction (store.wake_run). *)

WakesNothing(r) == job' = job   \* mutant: the wake-up is left out

Wakes(r) ==
    IF job[r].status = "waiting"
    THEN job' = [job EXCEPT ![r] = [@ EXCEPT !.status = "queued", !.due = TRUE,
                                             !.attempts = 0, !.leased = FALSE]]
    ELSE job' = job

\* A person approves or rejects (store.decide).
Decide(r, d) ==
    /\ request[r] = "pending"
    /\ request' = [request EXCEPT ![r] = d]
    /\ Wakes(r)
    /\ UNCHANGED <<run, results, ticket, worker, faults>>

\* The request expires: a worker's sweep between two jobs finds it so, or the
\* worker that reads it does (ActionService.sweep, _continue).
Expire(w, r) ==
    /\ request[r] = "pending"
    /\ \/ At(w, "idle") /\ Wakes(r)
       \/ /\ At(w, "step") /\ worker[w].run = r /\ IsNext(worker[w].done, ApprovalStep)
          /\ UNCHANGED job                    \* wake=False: the worker is at work on it
    /\ request' = [request EXCEPT ![r] = "refused"]
    /\ UNCHANGED <<run, results, ticket, worker, faults>>

-----------------------------------------------------------------------------
WorkerStep(w) ==
    \/ Claim(w) \/ Load(w) \/ LoadJournal(w) \/ FinishJob(w)
    \/ ReadTicket(w) \/ PatchTicket(w) \/ ReadBack(w)
    \/ ResumeMatch(w) \/ SopGone(w) \/ NoMatch(w) \/ RecordMatch(w) \/ MarkInProgress(w)
    \/ CallStep(w) \/ AwaitApproval(w) \/ RecordStep(w) \/ WalkEnds(w)
    \/ ResolveTicket(w) \/ HandOver(w)
    \/ Conclude(w) \/ Park(w) \/ Release(w)

Fault(w) == EngineError(w) \/ InfraError(w) \/ Crash(w)

Clock(r) == LeaseLapses(r) \/ BecomesDue(r)

People(r) == PersonTakes(r) \/ \E d \in {"approved", "refused"} : Decide(r, d)

Next ==
    \/ \E w \in Workers : WorkerStep(w) \/ Fault(w) \/ Heartbeat(w)
    \/ \E r \in Runs : Ingest(r) \/ Clock(r) \/ People(r)
    \/ \E w \in Workers, r \in Runs : Expire(w, r)

Spec == Init /\ [][Next]_vars

\* A worker that is alive goes on with its job and polls for the next one;
\* clocks run; a sweep comes round again and again, so a request that nobody
\* decides expires.  Nothing is assumed of people, or of faults.
Fairness ==
    /\ \A w \in Workers : WF_vars(WorkerStep(w))
    /\ \A r \in Runs : WF_vars(Clock(r)) /\ WF_vars(\E w \in Workers : Expire(w, r))

FairSpec == Spec /\ Fairness

-----------------------------------------------------------------------------
(* Safety.  The ones that hold only while no live worker's lease lapses    *)
(* say so; the others hold with stalled workers that write late, too.      *)

\* Exactly one of the queue and the record answers for a run that was taken
\* in: no release, park, give-up or late write of a stalled worker drops a
\* job whose run has no outcome (jobs.status against runs.outcome).
RunHeld == \A r \in Runs :
    run[r].outcome = "none" => job[r].status \notin {"done", "dead"}

\* Two workers are never on one run: what the lease, the heartbeat and the
\* claim query together are for.
OneWorkerPerRun ==
    faults.stalls = 0 =>
        \A v, w \in Workers :
            v # w /\ worker[v].pc # "idle" /\ worker[w].pc # "idle"
                => worker[v].run # worker[w].run

\* A resumed run does not repeat a step whose result is on record: while a
\* call is out, the journal has no result for it.
RecordedNotRepeated ==
    faults.stalls = 0 =>
        \A w \in Workers, s \in Steps :
            At(w, "called") /\ IsNext(worker[w].done, s) => results[worker[w].run][s] = "none"

\* The outcome on record is the one the recorded results lead to, however
\* many workers had a part in them: the walk is replayed, not redone.
OutcomeFollowsJournal ==
    faults.stalls = 0 =>
        \A r \in Runs :
            /\ run[r].outcome = "resolved" => Finished(results[r])
            /\ run[r].outcome = "escalated" /\ run[r].matched => Failed(results[r])

\* A run recorded as resolved has a ticket that was resolved and that no
\* worker takes up again.
ResolvedTicketStays ==
    faults.stalls = 0 =>
        \A r \in Runs : run[r].outcome = "resolved" => ~ticket[r].open

-----------------------------------------------------------------------------
(* The abstract specification                                              *)

Custody(r) ==
    IF job[r].status = "absent" THEN "absent"
    ELSE IF run[r].outcome # "none" THEN "record"
    ELSE IF job[r].status \in {"queued", "running", "waiting"} THEN "queue"
    ELSE "lost"

Ledger == INSTANCE RunLedger WITH
    None <- "none",
    custody <- [r \in Runs |-> Custody(r)],
    outcome <- [r \in Runs |-> run[r].outcome],
    recorded <- [r \in Runs |-> {s \in Steps : results[r][s] # "none"}]

\* However workers crash, stall and race, a run keeps RunLedger's promise.
ImplementsLedger == Ledger!Spec

-----------------------------------------------------------------------------
(* Liveness                                                                *)

\* A run that was taken in is concluded, or set aside for a decision.
SettlesOrParks == \A r \in Runs :
    job[r].status # "absent" ~> (run[r].outcome # "none" \/ job[r].status = "waiting")

\* A run set aside while its request is open does not wait for ever: the
\* decision or the expiry puts it back on the queue.
OpenRequestWakes == \A r \in Runs :
    (job[r].status = "waiting" /\ request[r] = "pending") ~> job[r].status # "waiting"

\* engine/journal.py: "An approval, a rejection or the expiry of the request
\* puts it back on the queue, and the run resumes from its journal."
DecisionWakesRun == \A r \in Runs :
    (job[r].status = "waiting" /\ request[r] \in {"approved", "refused"})
        ~> job[r].status # "waiting"

\* README.md: needs_human "The incident stays open and is routed to a person."
NeedsHumanIsRouted == \A r \in Runs :
    run[r].outcome = "needs_human" => ticket[r].routed \/ ticket[r].owner = "person"

\* service/runs.py: "the first conclusion stands", in what the record shows.
ConcludedStateStands == \A r \in Runs :
    run[r].outcome # "none" => run[r].state = run[r].outcome
=============================================================================
