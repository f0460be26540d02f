---------------------------- MODULE RunQueueProofs ----------------------------
(***************************************************************************)
(* Proofs about RunQueue for every number of runs, workers, steps and      *)
(* faults.  Typing first, then what holds whatever stalls, the refinement  *)
(* of RunLedger, and what holds while no live worker's lease lapses.       *)
(***************************************************************************)
EXTENDS RunQueue, TLAPS

-----------------------------------------------------------------------------
(* Typing                                                                  *)

USE DEF At

\* What TypeOK says of each worker: its record, and the two clauses on its pc.
WorkersTyped ==
    /\ worker \in [Workers -> Worker]
    /\ \A w \in Workers :
        /\ worker[w].pc # "idle" => worker[w].run \in Runs
        /\ worker[w].pc \in HasOutcome => worker[w].outcome # "none"

FaultsTyped ==
    faults \in [crashes: 0..MaxCrashes, stalls: 0..MaxStalls, errors: 0..MaxErrors]

LEMMA TypeOKParts ==
    TypeOK <=> /\ job \in [Runs -> Job]
               /\ run \in [Runs -> Run]
               /\ results \in [Runs -> Journal]
               /\ request \in [Runs -> Requests]
               /\ ticket \in [Runs -> Ticket]
               /\ WorkersTyped
               /\ FaultsTyped
  BY DEF TypeOK, WorkersTyped, FaultsTyped

LEMMA TypeOKNext ==
    ASSUME job' \in [Runs -> Job], run' \in [Runs -> Run], results' \in [Runs -> Journal],
           request' \in [Runs -> Requests], ticket' \in [Runs -> Ticket],
           WorkersTyped', FaultsTyped'
    PROVE  TypeOK'
  BY DEF TypeOK, WorkersTyped, FaultsTyped

\* Updates of one job, by the fields an action sets.
LEMMA JobSet ==
    ASSUME NEW j \in Job, NEW st \in JobStatus, NEW l \in BOOLEAN, NEW d \in BOOLEAN,
           NEW n \in Nat, NEW w \in Workers
    PROVE  /\ [j EXCEPT !.status = st, !.leased = l] \in Job
           /\ [j EXCEPT !.status = st, !.leased = l, !.due = d] \in Job
           /\ [j EXCEPT !.status = st, !.leased = l, !.attempts = n] \in Job
           /\ [j EXCEPT !.status = st, !.leased = l, !.attempts = n, !.owner = w] \in Job
           /\ [j EXCEPT !.status = st, !.due = d, !.attempts = n, !.leased = l] \in Job
  BY DEF Job

\* And of one ticket and one run.
LEMMA TicketSet ==
    ASSUME NEW t \in Ticket, NEW b \in BOOLEAN
    PROVE  /\ [t EXCEPT !.open = b] \in Ticket
           /\ [t EXCEPT !.routed = b, !.owner = "nobody"] \in Ticket
           /\ [t EXCEPT !.owner = "agent", !.open = b] \in Ticket
  BY DEF Ticket

LEMMA RunSet ==
    ASSUME NEW v \in Run, NEW o \in Outcomes
    PROVE  [v EXCEPT !.outcome = o, !.state = o] \in Run
  BY DEF Run

LEMMA IdleTyped == Idle \in Worker
  BY DEF Worker, Idle, Pcs, Journal, EmptyJournal

\* The worker updates the actions are built from.
LEMMA GotoTyped ==
    ASSUME WorkersTyped, NEW w \in Workers, worker[w].pc # "idle", NEW pc \in Pcs,
           pc \in HasOutcome => worker[w].outcome # "none", Goto(w, pc)
    PROVE  WorkersTyped'
  BY DEF WorkersTyped, Goto, Worker

LEMMA DecidedTyped ==
    ASSUME WorkersTyped, NEW w \in Workers, worker[w].pc # "idle", NEW pc \in Pcs,
           NEW o \in Outcomes, Decided(w, pc, o)
    PROVE  WorkersTyped'
  BY DEF WorkersTyped, Decided, Worker, Outcomes

LEMMA RestTyped ==
    ASSUME WorkersTyped, NEW w \in Workers, Rest(w)
    PROVE  WorkersTyped'
<1>1. Idle.pc = "idle" /\ "idle" \notin HasOutcome
  BY DEF Idle, HasOutcome
<1> QED
  BY <1>1, IdleTyped DEF WorkersTyped, Rest

\* Any other update of one worker.
LEMMA WorkerTyped ==
    ASSUME WorkersTyped, NEW w \in Workers, NEW u \in Worker,
           u.pc # "idle" => u.run \in Runs,
           u.pc \in HasOutcome => u.outcome # "none",
           worker' = [worker EXCEPT ![w] = u]
    PROVE  WorkersTyped'
  BY DEF WorkersTyped

LEMMA ErrorTyped ==
    ASSUME FaultsTyped, OneMoreError \/ ItsmError
    PROVE  FaultsTyped'
  BY CountsAssumption, OutageAssumption DEF FaultsTyped, OneMoreError, ItsmError

\* An update of a ticket, whether or not the call is answered.
LEMMA UpdateTyped ==
    ASSUME ticket \in [Runs -> Ticket], FaultsTyped, NEW r \in Runs, NEW t \in Ticket,
           Updates(r, t) \/ FailsToUpdate(r, t)
    PROVE  /\ ticket' \in [Runs -> Ticket]
           /\ FaultsTyped'
<1>1. ticket' \in [Runs -> Ticket]
  BY DEF Updates, FailsToUpdate
<1>2. CASE Updates(r, t)
  BY <1>1, <1>2 DEF Updates, FaultsTyped
<1>3. CASE FailsToUpdate(r, t)
  BY <1>1, <1>3, ErrorTyped DEF FailsToUpdate
<1> QED
  BY <1>2, <1>3

LEMMA WakesTyped ==
    ASSUME job \in [Runs -> Job], NEW r \in Runs, Wakes(r)
    PROVE  job' \in [Runs -> Job]
<1>1. "queued" \in JobStatus /\ 0 \in Nat
  BY DEF JobStatus
<1>2. [job[r] EXCEPT !.status = "queued", !.due = TRUE, !.attempts = 0, !.leased = FALSE] \in Job
  BY <1>1 DEF Job
<1> QED
  BY <1>2 DEF Wakes

LEMMA InitTyped == Init => TypeOK
<1> SUFFICES ASSUME Init PROVE TypeOK
  OBVIOUS
<1>1. worker \in [Workers -> Worker] /\ \A w \in Workers : worker[w].pc = "idle"
  BY IdleTyped DEF Init, Idle
<1>2. FaultsTyped
  BY CountsAssumption DEF Init, FaultsTyped
<1>3. AbsentJob \in Job
  BY DEF Job, JobStatus, AbsentJob
<1>4. NewRun \in Run /\ NewTicket \in Ticket /\ EmptyJournal \in Journal /\ "none" \in Requests
  BY DEF NewRun, Run, NewTicket, Ticket, EmptyJournal, Journal, Requests
<1> QED
  BY <1>1, <1>2, <1>3, <1>4, TypeOKParts DEF Init, WorkersTyped, HasOutcome

LEMMA WorkerStepTyped ==
    ASSUME TypeOK, NEW w \in Workers, WorkerStep(w)
    PROVE  TypeOK'
<1> DEFINE r == worker[w].run
<1> USE TypeOKParts, TypeOKNext
<1>a. {"done", "dead", "waiting", "queued", "running"} \subseteq JobStatus
  BY DEF JobStatus
<1>b. Pcs = InRunOnce \cup {"idle", "loading", "journal", "finishing", "abandoning",
                            "parking", "concluding", "releasing"}
      /\ InRunOnce = {"reading", "patching", "readback", "matching", "marking", "step", "called",
                      "resolving", "handing"}
      /\ HasOutcome = {"resolving", "handing", "abandoning", "concluding"}
      /\ Outcomes = {"resolved", "escalated", "needs_human", "aborted"}
  BY DEF Pcs, InRunOnce, HasOutcome, Outcomes
<1>c. worker[w].pc # "idle" => r \in Runs /\ job[r] \in Job
  BY DEF WorkersTyped
<1>1. CASE Claim(w)
  <2> PICK q \in Runs :
        /\ job' = [job EXCEPT ![q] = [@ EXCEPT !.status = "running", !.leased = TRUE,
                                               !.attempts = job[q].attempts + 1, !.owner = w]]
        /\ worker' = [worker EXCEPT ![w] = [Idle EXCEPT !.pc = "loading", !.run = q,
                                                        !.attempts = job[q].attempts + 1]]
        /\ UNCHANGED <<run, results, request, ticket, faults>>
    BY <1>1 DEF Claim
  <2>0. PICK n \in Nat : n = job[q].attempts + 1
    BY DEF Job
  <2>1. job' \in [Runs -> Job]
    <3>1. [job[q] EXCEPT !.status = "running", !.leased = TRUE, !.attempts = n, !.owner = w] \in Job
      BY <1>a, JobSet
    <3>2. PICK x \in Job : job' = [job EXCEPT ![q] = x]
      BY <2>0, <3>1
    <3>3. job \in [Runs -> Job]
      OBVIOUS
    <3> QED
      BY ONLY <3>2, <3>3
  <2>2. WorkersTyped'
    <3>1. [Idle EXCEPT !.pc = "loading", !.run = q, !.attempts = n] \in Worker
      BY <1>b, IdleTyped DEF Worker
    <3>2. worker' = [worker EXCEPT ![w] = [Idle EXCEPT !.pc = "loading", !.run = q, !.attempts = n]]
      BY <2>0
    <3> QED
      BY <1>b, <3>1, <3>2 DEF WorkersTyped, Idle
  <2> QED
    BY <2>1, <2>2 DEF FaultsTyped
<1>2. CASE Load(w)
  <2>1. CASE worker' = [worker EXCEPT ![w] = [@ EXCEPT !.pc = "abandoning", !.final = "dead",
                                                       !.outcome = "needs_human"]]
    <3> DEFINE u == [worker[w] EXCEPT !.pc = "abandoning", !.final = "dead",
                                      !.outcome = "needs_human"]
    <3>1. u \in Worker /\ u.run = worker[w].run /\ u.outcome = "needs_human"
      <4>1. worker[w] \in Worker
        BY DEF WorkersTyped
      <4>2. "abandoning" \in Pcs /\ "needs_human" \in Outcomes
        BY <1>b
      <4> QED
        BY ONLY <4>1, <4>2 DEF u, Worker
    <3>2. r \in Runs
      BY <1>2, <1>c DEF Load
    <3>3. WorkersTyped'
      BY <2>1, <3>1, <3>2, WorkerTyped
    <3> QED
      BY <1>2, <3>3 DEF Load, FaultsTyped
  <2>2. CASE Goto(w, "finishing") \/ Goto(w, "journal")
    BY <1>2, <1>b, <2>2, GotoTyped DEF Load, FaultsTyped
  <2> QED
    BY <1>2, <2>1, <2>2 DEF Load
<1>3. CASE LoadJournal(w)
  <2>1. run[r].matched \in BOOLEAN /\ results[r] \in Journal
    BY <1>3, <1>c DEF LoadJournal, Run
  <2> DEFINE u == [worker[w] EXCEPT !.pc = "reading", !.matched = run[r].matched,
                                    !.done = results[r]]
  <2>3. u \in Worker /\ u.run = r /\ u.pc = "reading"
    <3>1. worker[w] \in Worker /\ "reading" \in Pcs
      BY <1>b DEF WorkersTyped
    <3> QED
      BY ONLY <2>1, <3>1 DEF u, Worker
  <2>2. WorkersTyped'
    <3>1. r \in Runs /\ worker' = [worker EXCEPT ![w] = u]
      BY <1>3, <1>c DEF LoadJournal
    <3> HIDE DEF u
    <3> QED
      BY <1>b, <2>3, <3>1, WorkerTyped
  <2> QED
    BY <1>3, <2>2 DEF LoadJournal, FaultsTyped
<1>4. CASE FinishJob(w)
  <2>1. [job[r] EXCEPT !.status = "done", !.leased = FALSE] \in Job
    BY <1>4, <1>a, <1>c DEF FinishJob, Job
  <2> QED
    BY <1>4, <1>c, <2>1, RestTyped DEF FinishJob, FaultsTyped
<1>5. CASE ReadTicket(w)
  <2>1. Goto(w, "matching") \/ Goto(w, "patching") \/ Decided(w, "concluding", "aborted")
    BY <1>5 DEF ReadTicket
  <2>2. WorkersTyped'
    BY <1>5, <1>b, <2>1, GotoTyped, DecidedTyped DEF ReadTicket
  <2> QED
    BY <1>5, <2>2 DEF ReadTicket, FaultsTyped
<1>6. CASE PatchTicket(w)
  <2>1. ticket' \in [Runs -> Ticket] /\ FaultsTyped'
    <3> DEFINE t == [ticket[r] EXCEPT !.owner = "agent", !.open = TRUE]
    <3>1. t \in Ticket /\ r \in Runs
      BY <1>6, <1>c, TicketSet DEF PatchTicket
    <3>2. Updates(r, t) \/ FailsToUpdate(r, t)
      BY <1>6 DEF PatchTicket
    <3> QED
      BY <3>1, <3>2, UpdateTyped
  <2>2. WorkersTyped'
    <3>1. Goto(w, "readback") \/ Goto(w, "releasing")
      BY <1>6 DEF PatchTicket
    <3> QED
      BY <1>6, <1>b, <3>1, GotoTyped DEF PatchTicket
  <2> QED
    BY <1>6, <2>1, <2>2 DEF PatchTicket
<1>7. CASE ReadBack(w)
  <2>1. Goto(w, "matching") \/ Decided(w, "concluding", "aborted")
    BY <1>7 DEF ReadBack
  <2>2. WorkersTyped'
    BY <1>7, <1>b, <2>1, GotoTyped, DecidedTyped DEF ReadBack
  <2> QED
    BY <1>7, <2>2 DEF ReadBack, FaultsTyped
<1>8. CASE ResumeMatch(w)
  <2>1. WorkersTyped'
    BY <1>8, <1>b, GotoTyped DEF ResumeMatch
  <2> QED
    BY <1>8, <2>1 DEF ResumeMatch, FaultsTyped
<1>9. CASE SopGone(w) \/ NoMatch(w)
  <2>1. Decided(w, "handing", "needs_human") \/ Decided(w, "handing", "escalated")
    BY <1>9 DEF SopGone, NoMatch
  <2>2. WorkersTyped'
    BY <1>9, <1>b, <2>1, DecidedTyped DEF SopGone, NoMatch
  <2> QED
    BY <1>9, <2>2 DEF SopGone, NoMatch, FaultsTyped
<1>10. CASE RecordMatch(w)
  <2>1. run' \in [Runs -> Run]
    <3>1. [run[r] EXCEPT !.matched = TRUE, !.state = "executing"] \in Run
      <4>1. run[r] \in Run
        BY <1>10, <1>c DEF RecordMatch
      <4> QED
        BY <4>1 DEF Run
    <3> QED
      BY <1>10, <3>1 DEF RecordMatch
  <2>2. WorkersTyped'
    <3> DEFINE u == [worker[w] EXCEPT !.pc = "marking", !.matched = TRUE]
    <3>1. u \in Worker /\ u.run = r /\ u.pc = "marking"
      <4>1. worker[w] \in Worker /\ "marking" \in Pcs
        BY <1>b DEF WorkersTyped
      <4> QED
        BY ONLY <4>1 DEF u, Worker
    <3>2. r \in Runs /\ worker' = [worker EXCEPT ![w] = u]
      BY <1>10, <1>c DEF RecordMatch
    <3> HIDE DEF u
    <3> QED
      BY <1>b, <3>1, <3>2, WorkerTyped
  <2> QED
    BY <1>10, <2>1, <2>2 DEF RecordMatch, FaultsTyped
<1>11. CASE CallStep(w)
  <2>1. WorkersTyped'
    BY <1>11, <1>b, GotoTyped DEF CallStep
  <2> QED
    BY <1>11, <2>1 DEF CallStep, FaultsTyped
<1>12. CASE AwaitApproval(w)
  <2>1. WorkersTyped'
    BY <1>12, <1>b, GotoTyped DEF AwaitApproval
  <2>2. request' \in [Runs -> Requests]
    BY <1>12 DEF AwaitApproval, Requests
  <2> QED
    BY <1>12, <2>1, <2>2 DEF AwaitApproval, FaultsTyped
<1>13. CASE RecordStep(w)
  <2> PICK s \in Steps, v \in Results :
        /\ worker[w].pc = "called"
        /\ results' = [results EXCEPT ![r][s] = v]
        /\ worker' = [worker EXCEPT ![w] = [@ EXCEPT !.pc = "step", !.done[s] = v]]
        /\ UNCHANGED <<job, run, request, ticket, faults>>
    BY <1>13 DEF RecordStep
  <2>1. results' \in [Runs -> Journal]
    BY <1>c DEF Journal
  <2>2. WorkersTyped'
    <3>1. [worker[w].done EXCEPT ![s] = v] \in Journal
      BY DEF WorkersTyped, Worker, Journal
    <3>2. [worker[w] EXCEPT !.pc = "step", !.done = [worker[w].done EXCEPT ![s] = v]] \in Worker
      <4>1. PICK d \in Journal : d = [worker[w].done EXCEPT ![s] = v]
        BY <3>1
      <4>2. worker[w] \in Worker /\ "step" \in Pcs
        BY <1>b DEF WorkersTyped
      <4>3. [worker[w] EXCEPT !.pc = "step", !.done = d] \in Worker
        BY <4>2 DEF Worker
      <4> QED
        BY <4>1, <4>3
    <3>3. worker' = [worker EXCEPT
            ![w] = [worker[w] EXCEPT !.pc = "step", !.done = [worker[w].done EXCEPT ![s] = v]]]
      BY DEF WorkersTyped, Worker
    <3>4. worker' \in [Workers -> Worker]
      BY <3>2, <3>3 DEF WorkersTyped
    <3>5. \A u \in Workers : /\ worker'[u].run = worker[u].run
                             /\ worker'[u].outcome = worker[u].outcome
                             /\ worker'[u].pc = IF u = w THEN "step" ELSE worker[u].pc
      BY DEF WorkersTyped, Worker
    <3> QED
      BY <1>b, <3>4, <3>5 DEF WorkersTyped
  <2> QED
    BY <2>1, <2>2 DEF FaultsTyped
<1>14. CASE WalkEnds(w)
  <2>1. \/ Decided(w, "resolving", "resolved") \/ Decided(w, "handing", "escalated")
        \/ Decided(w, "handing", "needs_human")
    BY <1>14 DEF WalkEnds
  <2>2. WorkersTyped'
    BY <1>14, <1>b, <2>1, DecidedTyped DEF WalkEnds
  <2> QED
    BY <1>14, <2>2 DEF WalkEnds, FaultsTyped
<1>15. CASE ResolveTicket(w)
  <2>1. WorkersTyped'
    <3>1. CASE Goto(w, "concluding")
      BY <1>15, <1>b, <3>1, GotoTyped DEF ResolveTicket, WorkersTyped
    <3>2. CASE Decided(w, "handing", "needs_human")
      BY <1>15, <1>b, <3>2, DecidedTyped DEF ResolveTicket
    <3> QED
      BY <1>15, <3>1, <3>2 DEF ResolveTicket
  <2>2. ticket' \in [Runs -> Ticket] /\ FaultsTyped'
    <3> DEFINE t == Resolved(r)
    <3>1. t \in Ticket /\ r \in Runs
      BY <1>15, <1>c, TicketSet DEF Resolved, ResolveTicket
    <3>2. Updates(r, t) \/ FailsToUpdate(r, t)
      BY <1>15 DEF ResolveTicket
    <3> QED
      BY <3>1, <3>2, UpdateTyped
  <2> QED
    BY <1>15, <2>1, <2>2 DEF ResolveTicket
<1>16. CASE HandOver(w)
  <2>1. WorkersTyped'
    BY <1>16, <1>b, GotoTyped DEF HandOver, WorkersTyped
  <2>2. ticket' \in [Runs -> Ticket] /\ FaultsTyped'
    <3> DEFINE t == [ticket[r] EXCEPT !.routed = TRUE, !.owner = "nobody"]
    <3>1. t \in Ticket /\ r \in Runs
      BY <1>16, <1>c, TicketSet DEF HandOver
    <3>2. Updates(r, t) \/ FailsToUpdate(r, t)
      BY <1>16 DEF HandOver
    <3> QED
      BY <3>1, <3>2, UpdateTyped
  <2> QED
    BY <1>16, <2>1, <2>2 DEF HandOver
<1>17. CASE Conclude(w)
  <2>1. [job[r] EXCEPT !.status = worker[w].final, !.leased = FALSE] \in Job
    <3>1. worker[w].final \in JobStatus
      BY <1>a DEF WorkersTyped, Worker
    <3> QED
      BY <1>17, <1>c, <3>1 DEF Conclude, Job
  <2>2. run' \in [Runs -> Run]
    <3>1. worker[w].outcome \in Outcomes
      BY <1>17, <1>b DEF Conclude, WorkersTyped, Worker
    <3>2. [run[r] EXCEPT !.outcome = worker[w].outcome, !.state = worker[w].outcome] \in Run
      BY <1>17, <1>c, <3>1, RunSet DEF Conclude
    <3> QED
      BY <1>17, <3>2 DEF Conclude
  <2> QED
    BY <1>17, <1>c, <2>1, <2>2, RestTyped DEF Conclude, FaultsTyped
<1>18. CASE Park(w)
  <2>1. [job[r] EXCEPT !.status = "waiting", !.leased = FALSE, !.attempts = 0] \in Job
    BY <1>18, <1>a, <1>c DEF Park, Job
  <2>2. run' \in [Runs -> Run]
    BY <1>18 DEF Park, Run
  <2> QED
    BY <1>18, <1>c, <2>1, <2>2, RestTyped DEF Park, FaultsTyped
<1>19. CASE Release(w)
  <2>1. [job[r] EXCEPT !.status = "queued", !.leased = FALSE, !.due = FALSE] \in Job
    BY <1>19, <1>a, <1>c DEF Release, Job
  <2> QED
    BY <1>19, <1>c, <2>1, RestTyped DEF Release, FaultsTyped
<1>20. CASE MarkInProgress(w)
  <2>1. WorkersTyped'
    BY <1>20, <1>b, GotoTyped DEF MarkInProgress
  <2>2. ticket' \in [Runs -> Ticket] /\ FaultsTyped'
    <3> DEFINE t == [ticket[r] EXCEPT !.open = TRUE]
    <3>1. t \in Ticket /\ r \in Runs
      BY <1>20, <1>c, TicketSet DEF MarkInProgress
    <3>2. Updates(r, t) \/ FailsToUpdate(r, t)
      BY <1>20 DEF MarkInProgress
    <3> QED
      BY <3>1, <3>2, UpdateTyped
  <2> QED
    BY <1>20, <2>1, <2>2 DEF MarkInProgress
<1> QED
  BY <1>1, <1>2, <1>3, <1>4, <1>5, <1>6, <1>7, <1>8, <1>9, <1>10, <1>11, <1>12, <1>13, <1>14,
     <1>15, <1>16, <1>17, <1>18, <1>19, <1>20 DEF WorkerStep

\* TypeOK is kept by every step.
LEMMA NextTyped ==
    ASSUME TypeOK, [Next]_vars
    PROVE  TypeOK'
<1> USE TypeOKParts, TypeOKNext
<1>1. ASSUME NEW w \in Workers, WorkerStep(w) PROVE TypeOK'
  BY <1>1, WorkerStepTyped
<1>2. ASSUME NEW w \in Workers, EngineError(w) PROVE TypeOK'
  <2>1. worker[w].pc # "idle" /\ "handing" \in Pcs /\ "needs_human" \in Outcomes
    BY <1>2 DEF EngineError, Pcs, InRunOnce, Outcomes
  <2> QED
    BY <1>2, <2>1, ErrorTyped, DecidedTyped DEF EngineError
<1>3. ASSUME NEW w \in Workers, InfraError(w) PROVE TypeOK'
  <2>1. worker[w].pc # "idle" /\ "releasing" \in Pcs /\ "releasing" \notin HasOutcome
    BY <1>3 DEF InfraError, OutsideEngine, ReadingTicket, Pcs, HasOutcome
  <2> QED
    BY <1>3, <2>1, ErrorTyped, GotoTyped DEF InfraError
<1>4. ASSUME NEW w \in Workers, Crash(w) PROVE TypeOK'
  <2>1. FaultsTyped'
    BY <1>4, CountsAssumption DEF Crash, FaultsTyped
  <2> QED
    BY <1>4, <2>1, RestTyped DEF Crash
<1>5. ASSUME NEW w \in Workers, Heartbeat(w) PROVE TypeOK'
  <2>1. job' \in [Runs -> Job]
    BY <1>5 DEF Heartbeat, Job
  <2> QED
    BY <1>5, <2>1 DEF Heartbeat, FaultsTyped, WorkersTyped
<1>6. ASSUME NEW r \in Runs, Ingest(r) PROVE TypeOK'
  <2>1. job' \in [Runs -> Job]
    BY <1>6 DEF Ingest, Job, JobStatus
  <2> QED
    BY <1>6, <2>1 DEF Ingest, FaultsTyped, WorkersTyped
<1>7. ASSUME NEW r \in Runs, Clock(r) PROVE TypeOK'
  <2>1. job' \in [Runs -> Job]
    <3>1. [job[r] EXCEPT !.leased = FALSE] \in Job /\ [job[r] EXCEPT !.due = TRUE] \in Job
      BY DEF Job
    <3> QED
      BY <1>7, <3>1 DEF Clock, LeaseLapses, BecomesDue
  <2>2. FaultsTyped'
    BY <1>7, CountsAssumption DEF Clock, LeaseLapses, BecomesDue, FaultsTyped
  <2> QED
    BY <1>7, <2>1, <2>2 DEF Clock, LeaseLapses, BecomesDue, WorkersTyped
<1>8. ASSUME NEW r \in Runs, PersonTakes(r) PROVE TypeOK'
  <2>1. ticket' \in [Runs -> Ticket]
    BY <1>8 DEF PersonTakes, Ticket
  <2> QED
    BY <1>8, <2>1 DEF PersonTakes, FaultsTyped, WorkersTyped
<1>9. ASSUME NEW r \in Runs, NEW d \in {"approved", "refused"}, Decide(r, d) PROVE TypeOK'
  <2>1. request' \in [Runs -> Requests]
    BY <1>9 DEF Decide, Requests
  <2> QED
    BY <1>9, <2>1, WakesTyped DEF Decide, FaultsTyped, WorkersTyped
<1>10. ASSUME NEW w \in Workers, NEW r \in Runs, Expire(w, r) PROVE TypeOK'
  <2>1. request' \in [Runs -> Requests]
    BY <1>10 DEF Expire, Requests
  <2> QED
    BY <1>10, <2>1, WakesTyped DEF Expire, FaultsTyped, WorkersTyped
<1>11. CASE UNCHANGED vars
  BY <1>11 DEF vars, FaultsTyped, WorkersTyped
<1> QED
  BY <1>1, <1>2, <1>3, <1>4, <1>5, <1>6, <1>7, <1>8, <1>9, <1>10, <1>11
  DEF Next, Fault, People

\* Every state of every execution is well typed: jobs and runs hold only the
\* statuses the service knows, and a worker that is about to conclude a run
\* has an outcome for it.
THEOREM TypeCorrect == Spec => []TypeOK
  BY InitTyped, NextTyped, PTL DEF Spec

-----------------------------------------------------------------------------
(* What a step does to the queue and the record, all a run's custody is    *)
(* about.  Every action is one of these four.                              *)

SameOutcomes == \A r \in Runs : run'[r].outcome = run[r].outcome
InQueue == {"queued", "running", "waiting"}

TakesIn(r) ==
    /\ job[r].status = "absent" /\ job'[r].status = "queued"
    /\ \A q \in Runs : q # r => job'[q].status = job[q].status
    /\ SameOutcomes /\ results' = results

MovesJobs ==
    /\ SameOutcomes /\ results' = results
    /\ \A r \in Runs :
        \/ job'[r].status = job[r].status
        \/ /\ job[r].status # "absent"
           /\ \/ job'[r].status \in InQueue
              \/ run[r].outcome # "none" /\ job'[r].status \in {"done", "dead"}

RecordsResult(r, s) ==
    /\ SameOutcomes /\ UNCHANGED job
    /\ job[r].status # "absent"
    /\ \E v \in Results : results' = [results EXCEPT ![r][s] = v]

GivesOutcome(r, o) ==
    /\ job[r].status # "absent" /\ run[r].outcome = "none"
    /\ job'[r].status \in {"done", "dead"} /\ run'[r].outcome = o
    /\ \A q \in Runs : q # r => /\ job'[q].status = job[q].status
                                /\ run'[q].outcome = run[q].outcome
    /\ results' = results

Effect ==
    \/ \E r \in Runs : TakesIn(r)
    \/ MovesJobs
    \/ \E r \in Runs, s \in Steps : RecordsResult(r, s)
    \/ \E r \in Runs, o \in Outcomes : GivesOutcome(r, o)

\* A worker has a job that was taken in, and goes to close a job unconcluded
\* only because its run has the outcome already.
WorkerKnows(w) ==
    /\ worker[w].pc # "idle" => job[worker[w].run].status # "absent"
    /\ worker[w].pc = "finishing" => run[worker[w].run].outcome # "none"

\* The inductive strengthening of RunHeld.
HeldInv ==
    /\ TypeOK
    /\ RunHeld
    /\ \A r \in Runs : job[r].status = "absent" => run[r].outcome = "none"
    /\ \A w \in Workers : WorkerKnows(w)

\* Worker steps that leave jobs, outcomes and results alone.
LEMMA QuietEffect ==
    ASSUME UNCHANGED <<job, results>>, SameOutcomes
    PROVE  Effect
  BY DEF Effect, MovesJobs

\* A step that sets the status of one job, and no outcome.
LEMMA OneJobEffect ==
    ASSUME job \in [Runs -> Job], NEW r \in Runs, NEW j \in Job,
           job[r].status # "absent",
           \/ j.status \in InQueue
           \/ run[r].outcome # "none" /\ j.status \in {"done", "dead"},
           job' = [job EXCEPT ![r] = j], UNCHANGED results, SameOutcomes
    PROVE  Effect
  BY DEF Effect, MovesJobs

LEMMA WakesEffect ==
    ASSUME job \in [Runs -> Job], NEW r \in Runs, Wakes(r), UNCHANGED <<run, results>>
    PROVE  Effect
<1>1. CASE job[r].status = "waiting"
  <2> DEFINE j == [job[r] EXCEPT !.status = "queued", !.due = TRUE, !.attempts = 0,
                                 !.leased = FALSE]
  <2>1. j \in Job /\ j.status = "queued" /\ job' = [job EXCEPT ![r] = j]
    BY <1>1 DEF Wakes, Job, JobStatus
  <2> HIDE DEF j
  <2> QED
    BY <1>1, <2>1, OneJobEffect DEF InQueue, SameOutcomes
<1>2. CASE job[r].status # "waiting"
  BY <1>2, QuietEffect DEF Wakes, SameOutcomes
<1> QED
  BY <1>1, <1>2

LEMMA WorkerStepEffect ==
    ASSUME HeldInv, NEW w \in Workers, WorkerStep(w)
    PROVE  Effect
<1> DEFINE r == worker[w].run
<1> USE DEF HeldInv
<1>a. TypeOK /\ job \in [Runs -> Job] /\ run \in [Runs -> Run] /\ WorkersTyped
  BY TypeOKParts
<1>b. worker[w].pc # "idle" => r \in Runs /\ job[r] \in Job /\ job[r].status # "absent"
  BY <1>a DEF WorkersTyped, WorkerKnows
<1>1. CASE Claim(w)
  <2> PICK q \in Runs :
        /\ Claimable(q)
        /\ job' = [job EXCEPT ![q] = [@ EXCEPT !.status = "running", !.leased = TRUE,
                                               !.attempts = job[q].attempts + 1, !.owner = w]]
        /\ UNCHANGED <<run, results>>
    BY <1>1, Zenon DEF Claim
  <2>1. PICK n \in Nat : n = job[q].attempts + 1
    BY <1>a DEF Job
  <2> DEFINE j == [job[q] EXCEPT !.status = "running", !.leased = TRUE, !.attempts = n,
                                 !.owner = w]
  <2>2. j \in Job /\ j.status \in InQueue /\ job[q].status # "absent"
    BY <1>a DEF Job, JobStatus, InQueue, Claimable
  <2>3. job' = [job EXCEPT ![q] = j]
    BY <2>1
  <2> HIDE DEF j
  <2> QED
    BY <1>a, <2>2, <2>3, OneJobEffect DEF SameOutcomes
<1>2. CASE FinishJob(w)
  <2> DEFINE j == [job[r] EXCEPT !.status = "done", !.leased = FALSE]
  <2>1. j \in Job /\ j.status = "done" /\ job' = [job EXCEPT ![r] = j]
    BY <1>2, <1>b DEF FinishJob, Job, JobStatus
  <2>2. run[r].outcome # "none"
    BY <1>2 DEF FinishJob, WorkerKnows
  <2>3. UNCHANGED <<run, results>>
    BY <1>2 DEF FinishJob
  <2>4. r \in Runs /\ job[r].status # "absent"
    BY <1>2, <1>b DEF FinishJob
  <2> HIDE DEF j
  <2> QED
    BY <1>a, <2>1, <2>2, <2>3, <2>4, OneJobEffect DEF SameOutcomes
<1>3. CASE Park(w)
  <2> DEFINE j == [job[r] EXCEPT !.status = "waiting", !.leased = FALSE, !.attempts = 0]
  <2>1. j \in Job /\ j.status \in InQueue /\ job' = [job EXCEPT ![r] = j]
    BY <1>3, <1>b DEF Park, Job, JobStatus, InQueue
  <2>2. r \in Runs /\ job[r].status # "absent" /\ UNCHANGED results
    BY <1>3, <1>b DEF Park
  <2>3. run[r].outcome = [run[r] EXCEPT !.state = "awaiting_approval"].outcome
    BY <1>a, <2>2 DEF Run
  <2>4. SameOutcomes
    BY <1>3, <1>a, <2>3 DEF Park, SameOutcomes
  <2> HIDE DEF j
  <2> QED
    BY <1>a, <2>1, <2>2, <2>4, OneJobEffect
<1>4. CASE Release(w)
  <2> DEFINE j == [job[r] EXCEPT !.status = "queued", !.leased = FALSE, !.due = FALSE]
  <2>1. j \in Job /\ j.status \in InQueue /\ job' = [job EXCEPT ![r] = j]
    BY <1>4, <1>b DEF Release, Job, JobStatus, InQueue
  <2>2. r \in Runs /\ job[r].status # "absent" /\ UNCHANGED <<run, results>>
    BY <1>4, <1>b DEF Release
  <2> HIDE DEF j
  <2> QED
    BY <1>a, <2>1, <2>2, OneJobEffect DEF SameOutcomes
<1>5. CASE Conclude(w)
  <2> DEFINE j == [job[r] EXCEPT !.status = worker[w].final, !.leased = FALSE]
             u == [run[r] EXCEPT !.outcome = worker[w].outcome, !.state = worker[w].outcome]
  <2>1. r \in Runs /\ job[r].status # "absent" /\ UNCHANGED results
        /\ worker[w].outcome \in Outcomes /\ worker[w].final \in {"done", "dead"}
    <3>1. worker[w].pc = "concluding" /\ worker[w] \in Worker
      BY <1>5, <1>a DEF Conclude, WorkersTyped
    <3>2. worker[w].outcome # "none"
      BY <1>a, <3>1 DEF WorkersTyped, HasOutcome
    <3> QED
      BY <1>5, <1>b, <3>1, <3>2 DEF Conclude, Worker
  <2>2. j \in Job /\ j.status \in {"done", "dead"} /\ job' = [job EXCEPT ![r] = j]
    BY <1>5, <1>b, <2>1 DEF Conclude, Job, JobStatus
  <2>3. CASE run[r].outcome = "none"
    <3>1. run' = [run EXCEPT ![r] = u] /\ u.outcome = worker[w].outcome
      BY <1>5, <1>a, <2>1, <2>3 DEF Conclude, Run
    <3> HIDE DEF j, u
    <3>2. GivesOutcome(r, worker[w].outcome)
      BY <1>a, <2>1, <2>2, <2>3, <3>1 DEF GivesOutcome
    <3> QED
      BY <2>1, <3>2 DEF Effect
  <2>4. CASE run[r].outcome # "none"
    <3>1. run' = run
      BY <1>5, <2>4 DEF Conclude
    <3> HIDE DEF j, u
    <3> QED
      BY <1>a, <2>1, <2>2, <2>4, <3>1, OneJobEffect DEF SameOutcomes
  <2> QED
    BY <2>3, <2>4
<1>6. CASE RecordMatch(w)
  <2>1. [run[r] EXCEPT !.matched = TRUE, !.state = "executing"].outcome = run[r].outcome
    BY <1>a, <1>b, <1>6 DEF RecordMatch, Run
  <2> QED
    BY <1>6, <1>a, <2>1, QuietEffect DEF RecordMatch, SameOutcomes
<1>7. CASE RecordStep(w)
  <2> PICK s \in Steps, v \in Results :
        /\ worker[w].pc = "called" /\ UNCHANGED <<job, run>>
        /\ results' = [results EXCEPT ![r][s] = v]
    BY <1>7 DEF RecordStep
  <2>1. RecordsResult(r, s)
    BY <1>b DEF RecordsResult, SameOutcomes
  <2> QED
    BY <1>b, <2>1 DEF Effect
<1>8. CASE UNCHANGED <<job, run, results>>
  BY <1>8, QuietEffect DEF SameOutcomes
<1> QED
  <2>1. \/ Load(w) \/ LoadJournal(w) \/ ReadTicket(w) \/ PatchTicket(w) \/ ReadBack(w)
        \/ ResumeMatch(w) \/ SopGone(w) \/ NoMatch(w) \/ MarkInProgress(w) \/ CallStep(w)
        \/ AwaitApproval(w) \/ WalkEnds(w) \/ ResolveTicket(w) \/ HandOver(w)
        => UNCHANGED <<job, run, results>>
    BY DEF Load, LoadJournal, ReadTicket, PatchTicket, ReadBack, ResumeMatch, SopGone,
           NoMatch, MarkInProgress, CallStep, AwaitApproval, WalkEnds, ResolveTicket, HandOver
  <2> QED
    BY <1>1, <1>2, <1>3, <1>4, <1>5, <1>6, <1>7, <1>8, <2>1 DEF WorkerStep

LEMMA NextEffect ==
    ASSUME HeldInv, [Next]_vars
    PROVE  Effect
<1>a. TypeOK /\ job \in [Runs -> Job]
  BY TypeOKParts DEF HeldInv
<1>1. ASSUME NEW w \in Workers, WorkerStep(w) PROVE Effect
  BY <1>1, WorkerStepEffect
<1>2. ASSUME NEW w \in Workers, Fault(w) PROVE Effect
  BY <1>2, QuietEffect DEF Fault, EngineError, InfraError, Crash, SameOutcomes
<1>4. ASSUME NEW w \in Workers, Heartbeat(w) PROVE Effect
  <2>1. \A q \in Runs : job'[q].status = job[q].status
    BY <1>a, <1>4 DEF Heartbeat, Job
  <2> QED
    BY <1>4, <2>1 DEF Effect, MovesJobs, SameOutcomes, Heartbeat
<1>5. ASSUME NEW r \in Runs, Clock(r) PROVE Effect
  <2>1. \A q \in Runs : job'[q].status = job[q].status
    BY <1>a, <1>5 DEF Clock, LeaseLapses, BecomesDue, Job
  <2> QED
    BY <1>5, <2>1 DEF Effect, MovesJobs, SameOutcomes, Clock, LeaseLapses, BecomesDue
<1>6. ASSUME NEW r \in Runs, Ingest(r) PROVE Effect
  <2>1. TakesIn(r)
    BY <1>a, <1>6 DEF Ingest, TakesIn, SameOutcomes, Job
  <2> QED
    BY <2>1 DEF Effect
<1>7. ASSUME NEW r \in Runs, PersonTakes(r) PROVE Effect
  BY <1>7, QuietEffect DEF PersonTakes, SameOutcomes
<1>8. ASSUME NEW r \in Runs, NEW d \in {"approved", "refused"}, Decide(r, d) PROVE Effect
  BY <1>8, <1>a, WakesEffect DEF Decide
<1>9. ASSUME NEW w \in Workers, NEW r \in Runs, Expire(w, r) PROVE Effect
  <2>1. UNCHANGED job => Effect
    BY <1>9, QuietEffect DEF Expire, SameOutcomes
  <2> QED
    BY <1>9, <1>a, <2>1, WakesEffect DEF Expire
<1>10. CASE UNCHANGED vars
  BY <1>10, QuietEffect DEF vars, SameOutcomes
<1> QED
  BY <1>1, <1>2, <1>4, <1>5, <1>6, <1>7, <1>8, <1>9, <1>10 DEF Next, People

\* An outcome stays, and a job that was taken in stays taken in.
LEMMA EffectKeeps ==
    ASSUME TypeOK, Effect, NEW r \in Runs
    PROVE  /\ job[r].status # "absent" => job'[r].status # "absent"
           /\ run[r].outcome # "none" => run'[r].outcome = run[r].outcome
  BY DEF Effect, TakesIn, MovesJobs, RecordsResult, GivesOutcome, SameOutcomes, InQueue

\* Where a worker can be after a step that claims nothing: at rest, or with
\* the job it had.
Stays(w) ==
    \/ worker'[w].pc = "idle"
    \/ /\ worker[w].pc # "idle" /\ worker'[w].run = worker[w].run
       /\ worker'[w].pc = "finishing" =>
            worker[w].pc = "finishing" \/ run[worker[w].run].outcome # "none"

\* A step that updates one worker, which keeps its job.
LEMMA KeepsJob ==
    ASSUME WorkersTyped, NEW w \in Workers, worker[w].pc # "idle", NEW u \in Worker,
           u.run = worker[w].run,
           u.pc = "finishing" => run[worker[w].run].outcome # "none",
           worker' = [worker EXCEPT ![w] = u]
    PROVE  \A v \in Workers : Stays(v)
  BY DEF WorkersTyped, Stays

LEMMA GotoStays ==
    ASSUME WorkersTyped, NEW w \in Workers, worker[w].pc # "idle", NEW pc \in Pcs,
           pc = "finishing" => run[worker[w].run].outcome # "none", Goto(w, pc)
    PROVE  \A v \in Workers : Stays(v)
  BY DEF WorkersTyped, Worker, Goto, Stays

LEMMA DecidedStays ==
    ASSUME WorkersTyped, NEW w \in Workers, worker[w].pc # "idle", NEW pc \in Pcs,
           pc # "finishing", NEW o \in Outcomes, Decided(w, pc, o)
    PROVE  \A v \in Workers : Stays(v)
<1> DEFINE u == [worker[w] EXCEPT !.pc = pc, !.outcome = o]
<1>1. u \in Worker /\ u.run = worker[w].run /\ u.pc = pc /\ worker' = [worker EXCEPT ![w] = u]
  BY DEF WorkersTyped, Worker, Decided
<1> HIDE DEF u
<1> QED
  BY <1>1, KeepsJob

LEMMA RestStays ==
    ASSUME WorkersTyped, NEW w \in Workers, Rest(w)
    PROVE  \A v \in Workers : Stays(v)
  BY DEF WorkersTyped, Worker, Rest, Stays, Idle

\* What a claim does, with the job's new number of attempts by name.
ClaimOf(w, q, n) ==
    /\ Claimable(q)
    /\ n = job[q].attempts + 1
    /\ job' = [job EXCEPT ![q] = [@ EXCEPT !.status = "running", !.leased = TRUE,
                                           !.attempts = n, !.owner = w]]
    /\ worker' = [worker EXCEPT ![w] = [Idle EXCEPT !.pc = "loading", !.run = q,
                                                    !.attempts = n]]
    /\ UNCHANGED <<run, results, request, ticket, faults>>

LEMMA ClaimPicks ==
    ASSUME TypeOK, NEW w \in Workers, Claim(w)
    PROVE  \E q \in Runs, n \in Nat : ClaimOf(w, q, n)
<1> PICK q \in Runs :
        /\ Claimable(q)
        /\ job' = [job EXCEPT ![q] = [@ EXCEPT !.status = "running", !.leased = TRUE,
                                               !.attempts = job[q].attempts + 1, !.owner = w]]
        /\ worker' = [worker EXCEPT ![w] = [Idle EXCEPT !.pc = "loading", !.run = q,
                                                        !.attempts = job[q].attempts + 1]]
        /\ UNCHANGED <<run, results, request, ticket, faults>>
  BY Zenon DEF Claim
<1>1. job[q].attempts + 1 \in Nat
  BY TypeOKParts DEF Job
<1>2. ClaimOf(w, q, job[q].attempts + 1)
  BY Zenon DEF ClaimOf
<1> QED
  BY <1>1, <1>2, Zenon

LEMMA ClaimMoves ==
    ASSUME TypeOK, NEW w \in Workers, NEW q \in Runs, NEW n \in Nat, ClaimOf(w, q, n)
    PROVE  /\ job'[q].status = "running" /\ job'[q].owner = w /\ job'[q].leased
           /\ worker'[w].pc = "loading" /\ worker'[w].run = q
           /\ \A v \in Workers : v # w => worker'[v] = worker[v]
           /\ \A r \in Runs : r # q => job'[r] = job[r]
<1>1. job \in [Runs -> Job] /\ worker \in [Workers -> Worker]
  BY TypeOKParts DEF WorkersTyped
<1>2. /\ [job[q] EXCEPT !.status = "running", !.leased = TRUE, !.attempts = n,
                        !.owner = w].status = "running"
      /\ [job[q] EXCEPT !.status = "running", !.leased = TRUE, !.attempts = n,
                        !.owner = w].owner = w
      /\ [job[q] EXCEPT !.status = "running", !.leased = TRUE, !.attempts = n,
                        !.owner = w].leased
  BY <1>1 DEF Job
<1>3. /\ [Idle EXCEPT !.pc = "loading", !.run = q, !.attempts = n].pc = "loading"
      /\ [Idle EXCEPT !.pc = "loading", !.run = q, !.attempts = n].run = q
  BY DEF Idle
<1> QED
  BY <1>1, <1>2, <1>3 DEF ClaimOf

LEMMA NextStays ==
    ASSUME TypeOK, [Next]_vars, \A w \in Workers : ~Claim(w), NEW v \in Workers
    PROVE  Stays(v)
<1>a. job \in [Runs -> Job] /\ run \in [Runs -> Run] /\ results \in [Runs -> Journal]
      /\ WorkersTyped
  BY TypeOKParts
<1>b. Pcs = InRunOnce \cup {"idle", "loading", "journal", "finishing", "abandoning",
                            "parking", "concluding", "releasing"}
      /\ InRunOnce = {"reading", "patching", "readback", "matching", "marking", "step", "called",
                      "resolving", "handing"}
      /\ Outcomes = {"resolved", "escalated", "needs_human", "aborted"}
  BY DEF Pcs, InRunOnce, Outcomes
<1>1. ASSUME UNCHANGED worker PROVE Stays(v)
  BY <1>1 DEF Stays
<1>3. ASSUME NEW w \in Workers, worker[w].pc # "idle",
             NEW pc \in Pcs, pc # "finishing",
             Goto(w, pc) \/ Rest(w) \/ \E o \in Outcomes : Decided(w, pc, o)
      PROVE  Stays(v)
  BY <1>3, <1>a, GotoStays, DecidedStays, RestStays
<1>4. ASSUME NEW w \in Workers, Load(w) PROVE Stays(v)
  <2>1. CASE Goto(w, "finishing") /\ run[worker[w].run].outcome # "none"
    BY <1>4, <1>a, <1>b, <2>1, GotoStays DEF Load
  <2>2. CASE Goto(w, "journal")
    BY <1>4, <1>b, <2>2, <1>3 DEF Load
  <2>3. CASE worker' = [worker EXCEPT ![w] = [@ EXCEPT !.pc = "abandoning", !.final = "dead",
                                                       !.outcome = "needs_human"]]
    <3> DEFINE u == [worker[w] EXCEPT !.pc = "abandoning", !.final = "dead",
                                      !.outcome = "needs_human"]
    <3>1. u \in Worker /\ u.run = worker[w].run /\ u.pc = "abandoning"
      <4>1. worker[w] \in Worker /\ "abandoning" \in Pcs /\ "needs_human" \in Outcomes
        BY <1>a, <1>b DEF WorkersTyped, Outcomes
      <4> QED
        BY ONLY <4>1 DEF u, Worker
    <3>3. worker' = [worker EXCEPT ![w] = u]
      BY <2>3
    <3>2. worker[w].pc # "idle"
      BY <1>4 DEF Load
    <3> HIDE DEF u
    <3> QED
      BY <1>a, <3>1, <3>2, <3>3, KeepsJob
  <2> QED
    BY <1>4, <2>1, <2>2, <2>3 DEF Load
<1>5. ASSUME NEW w \in Workers, LoadJournal(w) PROVE Stays(v)
  <2> DEFINE r == worker[w].run
             u == [worker[w] EXCEPT !.pc = "reading", !.matched = run[r].matched,
                                    !.done = results[r]]
  <2>1. worker[w].pc # "idle" /\ worker[w].run \in Runs /\ worker' = [worker EXCEPT ![w] = u]
    BY <1>5, <1>a DEF LoadJournal, WorkersTyped
  <2>2. run[r].matched \in BOOLEAN /\ results[r] \in Journal
    BY <1>a, <2>1 DEF Run
  <2>3. u \in Worker /\ u.run = worker[w].run /\ u.pc = "reading"
    <3>1. worker[w] \in Worker /\ "reading" \in Pcs
      BY <1>a, <1>b DEF WorkersTyped
    <3> QED
      BY ONLY <2>2, <3>1 DEF u, Worker
  <2> HIDE DEF u
  <2> QED
    BY <1>a, <2>1, <2>3, KeepsJob
<1>6. ASSUME NEW w \in Workers, RecordMatch(w) PROVE Stays(v)
  <2> DEFINE u == [worker[w] EXCEPT !.pc = "marking", !.matched = TRUE]
  <2>1. u \in Worker /\ u.run = worker[w].run /\ u.pc = "marking"
    <3>1. worker[w] \in Worker /\ "marking" \in Pcs
      BY <1>a, <1>b DEF WorkersTyped
    <3> QED
      BY ONLY <3>1 DEF u, Worker
  <2>2. worker[w].pc # "idle" /\ worker' = [worker EXCEPT ![w] = u]
    BY <1>6 DEF RecordMatch
  <2> HIDE DEF u
  <2> QED
    BY <1>a, <2>1, <2>2, KeepsJob
<1>7. ASSUME NEW w \in Workers, RecordStep(w) PROVE Stays(v)
  <2> PICK s \in Steps, x \in Results :
        /\ worker[w].pc = "called"
        /\ worker' = [worker EXCEPT ![w] = [@ EXCEPT !.pc = "step", !.done[s] = x]]
    BY <1>7, Zenon DEF RecordStep
  <2> DEFINE u == [worker[w] EXCEPT !.pc = "step", !.done = [worker[w].done EXCEPT ![s] = x]]
  <2>1. [worker[w].done EXCEPT ![s] = x] \in Journal
    BY <1>a DEF WorkersTyped, Worker, Journal
  <2>2. u \in Worker /\ u.run = worker[w].run /\ u.pc = "step"
    <3>1. worker[w] \in Worker /\ "step" \in Pcs
      BY <1>a, <1>b DEF WorkersTyped
    <3> QED
      BY ONLY <2>1, <3>1 DEF u, Worker
  <2>3. worker' = [worker EXCEPT ![w] = u]
    OBVIOUS
  <2> HIDE DEF u
  <2> QED
    BY <1>a, <2>2, <2>3, KeepsJob
<1>8. ASSUME NEW w \in Workers, WorkerStep(w) PROVE Stays(v)
  <2>1. FinishJob(w) \/ Conclude(w) \/ Park(w) \/ Release(w) => Stays(v)
    BY <1>a, RestStays DEF FinishJob, Conclude, Park, Release
  <2>2. ReadTicket(w) \/ ReadBack(w) => Stays(v)
    BY <1>b, <1>3 DEF ReadTicket, ReadBack
  <2>3. PatchTicket(w) \/ ResumeMatch(w) \/ CallStep(w) \/ AwaitApproval(w) => Stays(v)
    BY <1>b, <1>3 DEF PatchTicket, ResumeMatch, CallStep, AwaitApproval
  <2>4. SopGone(w) \/ NoMatch(w) \/ WalkEnds(w) => Stays(v)
    BY <1>b, <1>3 DEF SopGone, NoMatch, WalkEnds
  <2>5. MarkInProgress(w) \/ ResolveTicket(w) \/ HandOver(w) => Stays(v)
    BY <1>b, <1>3 DEF MarkInProgress, ResolveTicket, HandOver
  <2> QED
    BY <1>8, <1>4, <1>5, <1>6, <1>7, <2>1, <2>2, <2>3, <2>4, <2>5 DEF WorkerStep
<1>9. ASSUME NEW w \in Workers, Fault(w) PROVE Stays(v)
  <2>1. EngineError(w) => Stays(v)
    BY <1>b, <1>3 DEF EngineError
  <2>2. InfraError(w) => Stays(v)
    BY <1>b, <1>3 DEF InfraError, OutsideEngine, ReadingTicket
  <2>3. Crash(w) => Stays(v)
    BY <1>a, RestStays DEF Crash
  <2> QED
    BY <1>9, <2>1, <2>2, <2>3 DEF Fault
<1>10. \A w \in Workers : /\ Heartbeat(w) => UNCHANGED worker
                          /\ \A r \in Runs : Expire(w, r) => UNCHANGED worker
  BY Zenon DEF Heartbeat, Expire
<1>11. \A r \in Runs : Ingest(r) \/ Clock(r) \/ People(r) => UNCHANGED worker
  BY Zenon DEF Ingest, Clock, LeaseLapses, BecomesDue, People, PersonTakes, Decide
<1>12. UNCHANGED vars => UNCHANGED worker
  BY DEF vars
<1> QED
  <2>1. CASE UNCHANGED vars
    BY <1>1, <1>12, <2>1
  <2>2. CASE Next
    BY <1>1, <1>8, <1>9, <1>10, <1>11, <2>2, Zenon DEF Next
  <2> QED
    BY <2>1, <2>2

LEMMA HeldKept ==
    ASSUME HeldInv, [Next]_vars
    PROVE  HeldInv'
<1>1. TypeOK' /\ Effect
  BY NextTyped, NextEffect DEF HeldInv
<1>2. RunHeld'
  BY <1>1 DEF HeldInv, RunHeld, Effect, TakesIn, MovesJobs, RecordsResult, GivesOutcome,
              SameOutcomes, InQueue, Outcomes
<1>3. ASSUME NEW w \in Workers PROVE WorkerKnows(w)'
  <2>1. worker[w].pc # "idle" => worker[w].run \in Runs
    BY TypeOKParts DEF HeldInv, WorkersTyped
  <2>2. \A r \in Runs : /\ job[r].status # "absent" => job'[r].status # "absent"
                        /\ run[r].outcome # "none" => run'[r].outcome = run[r].outcome
    BY <1>1, EffectKeeps DEF HeldInv
  <2>3. CASE \A v \in Workers : ~Claim(v)
    BY <2>1, <2>2, <2>3, NextStays DEF HeldInv, WorkerKnows, Stays
  <2>4. CASE \E v \in Workers : Claim(v)
    <3> PICK v \in Workers, q \in Runs, n \in Nat : ClaimOf(v, q, n)
      BY <2>4, ClaimPicks DEF HeldInv
    <3> QED
      BY <2>1, <2>2, ClaimMoves DEF HeldInv, WorkerKnows
  <2> QED
    BY <2>3, <2>4
<1>4. (\A r \in Runs : job[r].status = "absent" => run[r].outcome = "none")'
  BY <1>1 DEF HeldInv, Effect, TakesIn, MovesJobs, RecordsResult, GivesOutcome, SameOutcomes,
              InQueue
<1> QED
  BY <1>1, <1>2, <1>3, <1>4 DEF HeldInv

LEMMA HeldInit == Init => HeldInv
<1> SUFFICES ASSUME Init PROVE HeldInv
  OBVIOUS
<1>1. TypeOK /\ RunHeld
  BY InitTyped DEF Init, RunHeld, AbsentJob
<1>2. \A w \in Workers : worker[w].pc = "idle"
  BY DEF Init, Idle
<1>3. \A r \in Runs : run[r].outcome = "none"
  BY DEF Init, NewRun
<1> QED
  BY <1>1, <1>2, <1>3 DEF HeldInv, WorkerKnows

\* A job is closed only when its run has an outcome, however workers crash,
\* stall and write late (jobs.status against runs.outcome).
THEOREM RunsAreHeld == Spec => []RunHeld
<1>1. Spec => []HeldInv
  BY HeldInit, HeldKept, PTL DEF Spec
<1> QED
  BY <1>1, PTL DEF HeldInv

-----------------------------------------------------------------------------
(* RunQueue implements RunLedger                                           *)

CustodyOf == [r \in Runs |-> Custody(r)]
OutcomeOf == [r \in Runs |-> run[r].outcome]
RecordedOf == [r \in Runs |-> {s \in Steps : results[r][s] # "none"}]

\* What Custody comes to for a run with a legal job.
Held3(st, o) ==
    IF st = "absent" THEN "absent" ELSE IF o # "none" THEN "record" ELSE "queue"

CustodyRight == \A r \in Runs : Custody(r) = Held3(job[r].status, run[r].outcome)

LEMMA CustodyIs == HeldInv => CustodyRight
<1> SUFFICES ASSUME HeldInv, NEW r \in Runs
             PROVE  Custody(r) = Held3(job[r].status, run[r].outcome)
  BY DEF CustodyRight
<1>1. job[r].status \in JobStatus
  BY TypeOKParts DEF HeldInv, Job
<1>2. run[r].outcome = "none" => job[r].status \notin {"done", "dead"}
  BY DEF HeldInv, RunHeld
<1> QED
  BY <1>1, <1>2 DEF Custody, Held3, JobStatus

LEMMA LedgerInit == Init => Ledger!Init
<1> SUFFICES ASSUME Init PROVE Ledger!Init
  OBVIOUS
<1>1. \A r \in Runs : Custody(r) = "absent" /\ run[r].outcome = "none"
                      /\ {s \in Steps : results[r][s] # "none"} = {}
  BY DEF Init, Custody, AbsentJob, NewRun, EmptyJournal
<1> QED
  BY <1>1 DEF Ledger!Init

LEMMA LedgerStep ==
    ASSUME HeldInv, HeldInv', [Next]_vars
    PROVE  [Ledger!Next]_(Ledger!vars)
<1> USE DEF Held3
<1>a. job \in [Runs -> Job] /\ run \in [Runs -> Run] /\ results \in [Runs -> Journal]
  BY TypeOKParts DEF HeldInv
<1>b. \A r \in Runs : Custody(r) = Held3(job[r].status, run[r].outcome)
  BY CustodyIs DEF CustodyRight
<1>c. \A r \in Runs : Custody(r)' = Held3(job'[r].status, run'[r].outcome)
  <2>1. CustodyRight'
    BY CustodyIs, PTL
  <2> QED
    BY <2>1 DEF CustodyRight
<1>1. ASSUME NEW r \in Runs, TakesIn(r) PROVE Ledger!Accept(r)
  BY <1>1, <1>b, <1>c DEF Ledger!Accept, TakesIn, SameOutcomes, HeldInv
<1>2. CASE MovesJobs
  BY <1>2, <1>b, <1>c DEF Ledger!vars, MovesJobs, SameOutcomes, InQueue
<1>3. ASSUME NEW r \in Runs, NEW s \in Steps, RecordsResult(r, s) PROVE Ledger!Record(r, s)
  <2> PICK v \in Results : results' = [results EXCEPT ![r][s] = v]
    BY <1>3 DEF RecordsResult
  <2>1. \A q \in Runs : {t \in Steps : results'[q][t] # "none"}
                      = IF q = r THEN {t \in Steps : results[q][t] # "none"} \cup {s}
                                 ELSE {t \in Steps : results[q][t] # "none"}
    BY <1>a DEF Results, Journal
  <2>2. \A q \in Runs : Custody(q)' = Custody(q) /\ run'[q].outcome = run[q].outcome
    BY <1>3, <1>b, <1>c DEF RecordsResult, SameOutcomes
  <2>3. Custody(r) # "absent"
    BY <1>3, <1>b DEF RecordsResult
  <2> HIDE DEF Custody
  <2> QED
    BY <2>1, <2>2, <2>3 DEF Ledger!Record
<1>4. ASSUME NEW r \in Runs, NEW o \in Outcomes, GivesOutcome(r, o) PROVE Ledger!Conclude(r, o)
  BY <1>4, <1>a, <1>b, <1>c DEF Ledger!Conclude, GivesOutcome, Outcomes
<1> QED
  BY <1>1, <1>2, <1>3, <1>4, NextEffect DEF Effect, Ledger!Next

\* However workers crash, stall and race: a run taken in stays in the queue's
\* custody until it gets its outcome, the outcome is given once, and the
\* result of a step, once on record, stays there (RunLedger).
THEOREM Refinement == Spec => ImplementsLedger
<1>1. Spec => []HeldInv
  BY HeldInit, HeldKept, PTL DEF Spec
<1>2. Spec => Ledger!Init /\ [][Ledger!Next]_(Ledger!vars)
  BY <1>1, LedgerInit, LedgerStep, PTL DEF Spec
<1> QED
  BY <1>2 DEF ImplementsLedger, Ledger!Spec

-----------------------------------------------------------------------------
(* What the lease is for: as long as no live worker's lease lapses, a run  *)
(* has one worker, what that worker read of the journal is what the        *)
(* journal holds, and the outcome is the one the journal leads to.         *)

\* A worker with a job holds that job's running lease.
HoldsLease(w) ==
    worker[w].pc # "idle" =>
        /\ job[worker[w].run].status = "running"
        /\ job[worker[w].run].owner = w
        /\ job[worker[w].run].leased

LeaseInv == faults.stalls = 0 => \A w \in Workers : HoldsLease(w)

LEMMA LeaseExcludes == LeaseInv => OneWorkerPerRun
  BY DEF LeaseInv, HoldsLease, OneWorkerPerRun

\* The count of stalls never goes down.
LEMMA StallsKept ==
    ASSUME TypeOK, [Next]_vars, faults'.stalls = 0
    PROVE  faults.stalls = 0
<1>a. FaultsTyped
  BY TypeOKParts
<1>d. ItsmError => UNCHANGED faults \/ OneMoreError
  BY OutageAssumption DEF ItsmError
<1>1. CASE UNCHANGED faults
  BY <1>1
<1>2. CASE \E r \in Runs : LeaseLapses(r)
  BY <1>2, <1>a, CountsAssumption DEF LeaseLapses, FaultsTyped
<1>3. CASE OneMoreError
  BY <1>3, <1>a DEF OneMoreError, FaultsTyped
<1>4. CASE \E w \in Workers : Crash(w)
  BY <1>4, <1>a DEF Crash, FaultsTyped
<1>5. ASSUME NEW w \in Workers, WorkerStep(w) PROVE UNCHANGED faults \/ OneMoreError
  BY <1>5, <1>d, Zenon DEF WorkerStep, Updates, FailsToUpdate, Claim, Load, LoadJournal, FinishJob, ReadTicket, PatchTicket,
     ReadBack, ResumeMatch, SopGone, NoMatch, RecordMatch, MarkInProgress, CallStep, AwaitApproval, RecordStep,
     WalkEnds, ResolveTicket, HandOver, Conclude, Park, Release
<1>6. ASSUME NEW w \in Workers, EngineError(w) \/ InfraError(w)
      PROVE  UNCHANGED faults \/ OneMoreError
  BY <1>6, <1>d DEF EngineError, InfraError
<1>7. ASSUME NEW w \in Workers, NEW r \in Runs, Expire(w, r) PROVE UNCHANGED faults
  BY <1>7 DEF Expire
<1>8. ASSUME NEW r \in Runs, Ingest(r) \/ BecomesDue(r) \/ People(r) PROVE UNCHANGED faults
  BY <1>8 DEF Ingest, BecomesDue, People, PersonTakes, Decide
<1>9. CASE UNCHANGED vars
  BY <1>9 DEF vars
<1> QED
  <2>1. ASSUME NEW w \in Workers, WorkerStep(w) \/ Fault(w) PROVE faults.stalls = 0
    BY <2>1, <1>1, <1>3, <1>4, <1>5, <1>6 DEF Fault
  <2>2. ASSUME NEW r \in Runs, Clock(r) PROVE faults.stalls = 0
    BY <2>2, <1>1, <1>2, <1>8 DEF Clock
  <2>4. ASSUME NEW w \in Workers, NEW r \in Runs, Expire(w, r) PROVE faults.stalls = 0
    BY <2>4, <1>1, <1>7
  <2>5. ASSUME NEW w \in Workers, Heartbeat(w) PROVE faults.stalls = 0
    BY <2>5, <1>1 DEF Heartbeat
  <2>6. ASSUME NEW r \in Runs, Ingest(r) \/ People(r) PROVE faults.stalls = 0
    BY <2>6, <1>1, <1>8
  <2>3. ASSUME Next PROVE faults.stalls = 0
    BY <2>1, <2>2, <2>3, <2>4, <2>5, <2>6, Zenon DEF Next
  <2> QED
    BY <2>3, <1>1, <1>9

\* A step that gives no worker a job, and changes no job that a worker goes
\* on with, keeps the leases.
LEMMA LeaseFrame ==
    ASSUME LeaseInv, faults'.stalls = 0 => faults.stalls = 0,
           \A v \in Workers : Stays(v),
           \A v \in Workers : worker'[v].pc # "idle" => job'[worker[v].run] = job[worker[v].run]
    PROVE  LeaseInv'
  BY DEF LeaseInv, HoldsLease, Stays

\* A worker lets go of its job: the others have other jobs.
LEMMA LeaseLetGo ==
    ASSUME TypeOK, LeaseInv, faults'.stalls = 0 => faults.stalls = 0,
           NEW w \in Workers, worker[w].pc # "idle", Rest(w),
           NEW j, job' = [job EXCEPT ![worker[w].run] = j]
    PROVE  LeaseInv'
<1>1. SUFFICES ASSUME faults.stalls = 0, faults'.stalls = 0 PROVE LeaseInv'
  BY DEF LeaseInv
<1>2. \A v \in Workers : Stays(v)
  BY RestStays, TypeOKParts
<1>3. worker'[w].pc = "idle"
  BY TypeOKParts DEF Rest, Idle, WorkersTyped
<1>4. ASSUME NEW v \in Workers, worker'[v].pc # "idle"
      PROVE  job'[worker[v].run] = job[worker[v].run]
  <2>1. v # w /\ worker[v].pc # "idle"
    BY <1>2, <1>3, <1>4 DEF Stays
  <2>2. worker[v].run # worker[w].run
    BY <1>1, <2>1 DEF LeaseInv, HoldsLease
  <2> QED
    BY <2>1, <2>2, TypeOKParts DEF WorkersTyped
<1> QED
  BY <1>1, <1>2, <1>4, LeaseFrame

LEMMA LeaseKept ==
    ASSUME TypeOK, LeaseInv, [Next]_vars
    PROVE  LeaseInv'
<1>1. SUFFICES ASSUME faults.stalls = 0, faults'.stalls = 0 PROVE LeaseInv'
  BY StallsKept DEF LeaseInv
<1>a. job \in [Runs -> Job] /\ WorkersTyped /\ FaultsTyped
  BY TypeOKParts
<1>b. \A v \in Workers : worker[v].pc # "idle" => worker[v].run \in Runs
  BY <1>a DEF WorkersTyped
<1>2. ASSUME NEW w \in Workers, Claim(w) PROVE LeaseInv'
  <2> PICK q \in Runs, n \in Nat : ClaimOf(w, q, n)
    BY <1>2, ClaimPicks
  <2>1. \A v \in Workers : worker[v].pc # "idle" => worker[v].run # q
    BY <1>1 DEF ClaimOf, Claimable, LeaseInv, HoldsLease
  <2> QED
    BY <1>1, <1>b, <2>1, ClaimMoves DEF LeaseInv, HoldsLease
<1>3. CASE UNCHANGED job /\ \A w \in Workers : ~Claim(w)
  <2>1. \A v \in Workers : Stays(v)
    BY <1>3, NextStays
  <2> QED
    BY <1>1, <1>3, <2>1, LeaseFrame
<1>4. ASSUME NEW w \in Workers, FinishJob(w) \/ Conclude(w) \/ Park(w) \/ Release(w)
      PROVE  LeaseInv'
  <2>1. worker[w].pc # "idle" /\ Rest(w)
    <3>1. FinishJob(w) => worker[w].pc = "finishing" /\ Rest(w)
      BY DEF FinishJob
    <3>2. Conclude(w) => worker[w].pc = "concluding" /\ Rest(w)
      BY DEF Conclude
    <3>3. Park(w) => worker[w].pc = "parking" /\ Rest(w)
      BY DEF Park
    <3>4. Release(w) => worker[w].pc = "releasing" /\ Rest(w)
      BY DEF Release
    <3> QED
      BY <1>4, <3>1, <3>2, <3>3, <3>4
  <2> DEFINE r == worker[w].run
  <2>2. PICK j : job' = [job EXCEPT ![r] = j]
    <3>1. FinishJob(w) => job' = [job EXCEPT ![r] =
            [job[r] EXCEPT !.status = "done", !.leased = FALSE]]
      BY DEF FinishJob
    <3>2. Conclude(w) => job' = [job EXCEPT ![r] =
            [job[r] EXCEPT !.status = worker[w].final, !.leased = FALSE]]
      BY DEF Conclude
    <3>3. Park(w) => job' = [job EXCEPT ![r] =
            [job[r] EXCEPT !.status = "waiting", !.leased = FALSE, !.attempts = 0]]
      BY DEF Park
    <3>4. Release(w) => job' = [job EXCEPT ![r] =
            [job[r] EXCEPT !.status = "queued", !.leased = FALSE, !.due = FALSE]]
      BY DEF Release
    <3> QED
      BY <1>4, <3>1, <3>2, <3>3, <3>4
  <2> QED
    BY <1>1, <2>1, <2>2, LeaseLetGo
<1>5. ASSUME UNCHANGED worker, NEW r \in Runs,
             \A q \in Runs : q # r => job'[q] = job[q],
             \A v \in Workers : worker[v].pc # "idle" => worker[v].run # r
      PROVE  LeaseInv'
  BY <1>1, <1>5, <1>b DEF LeaseInv, HoldsLease
<1>6. ASSUME NEW w \in Workers, Heartbeat(w) PROVE LeaseInv'
  BY <1>1, <1>6, <1>a, <1>b DEF Heartbeat, LeaseInv, HoldsLease, InRunOnce
<1>7. ASSUME NEW r \in Runs, LeaseLapses(r) PROVE LeaseInv'
  <2>1. ~Held(r)
    BY <1>1, <1>7, <1>a DEF LeaseLapses, FaultsTyped
  <2>2. \A v \in Workers : worker[v].pc # "idle" => worker[v].run # r
    BY <1>1, <2>1 DEF LeaseInv, HoldsLease, Held
  <2>3. UNCHANGED worker /\ \A q \in Runs : q # r => job'[q] = job[q]
    BY <1>7, <1>a DEF LeaseLapses
  <2> QED
    BY <1>5, <2>2, <2>3
<1>8. ASSUME NEW r \in Runs, job[r].status # "running", UNCHANGED worker,
             \A q \in Runs : q # r => job'[q] = job[q]
      PROVE  LeaseInv'
  <2>1. \A v \in Workers : worker[v].pc # "idle" => worker[v].run # r
    BY <1>1, <1>8 DEF LeaseInv, HoldsLease
  <2> QED
    BY <1>5, <1>8, <2>1
<1>9. ASSUME NEW r \in Runs, Ingest(r) \/ BecomesDue(r) PROVE LeaseInv'
  BY <1>8, <1>9, <1>a DEF Ingest, BecomesDue
<1>10. ASSUME NEW r \in Runs, Wakes(r), UNCHANGED worker PROVE LeaseInv'
  <2>1. CASE job[r].status = "waiting"
    BY <1>8, <1>10, <1>a, <2>1 DEF Wakes
  <2>2. CASE job[r].status # "waiting"
    BY <1>1, <1>10, <2>2 DEF Wakes, LeaseInv, HoldsLease
  <2> QED
    BY <2>1, <2>2
<1>11. ASSUME NEW r \in Runs, People(r) PROVE LeaseInv'
  <2>1. PersonTakes(r) => LeaseInv'
    BY <1>1 DEF PersonTakes, LeaseInv, HoldsLease
  <2> QED
    BY <1>10, <1>11, <2>1 DEF People, Decide
<1>12. ASSUME NEW w \in Workers, NEW r \in Runs, Expire(w, r) PROVE LeaseInv'
  <2>1. UNCHANGED job => LeaseInv'
    BY <1>1, <1>12 DEF Expire, LeaseInv, HoldsLease
  <2> QED
    BY <1>10, <1>12, <2>1 DEF Expire
<1>13. ASSUME NEW w \in Workers, WorkerStep(w) \/ Fault(w)
       PROVE  \/ Claim(w) \/ FinishJob(w) \/ Conclude(w) \/ Park(w) \/ Release(w)
              \/ UNCHANGED job
  BY <1>13, Zenon DEF WorkerStep, Load, LoadJournal, ReadTicket, PatchTicket, ReadBack,
     ResumeMatch, SopGone, NoMatch, RecordMatch, MarkInProgress, CallStep, AwaitApproval, RecordStep,
     WalkEnds, ResolveTicket, HandOver, Fault, EngineError, InfraError, Crash
<1>14. CASE UNCHANGED vars
  BY <1>1, <1>14 DEF vars, LeaseInv, HoldsLease
<1> QED
  <2>1. ASSUME NEW w \in Workers, WorkerStep(w) \/ Fault(w) PROVE LeaseInv'
    BY <2>1, <1>2, <1>3, <1>4, <1>13
  <2>2. ASSUME Next PROVE LeaseInv'
    BY <2>1, <2>2, <1>6, <1>7, <1>9, <1>11, <1>12 DEF Next, Clock
  <2> QED
    BY <1>14, <2>2

LEMMA LeaseInit == Init => LeaseInv
  BY DEF Init, LeaseInv, HoldsLease, Idle

\* While no live worker's lease lapses, two workers are never on one run:
\* claim, heartbeat and lease together are a lock (service/runs.py).
THEOREM Exclusion == Spec => []OneWorkerPerRun
<1>1. Spec => [](TypeOK /\ LeaseInv)
  <2>1. Init => TypeOK /\ LeaseInv
    BY InitTyped, LeaseInit
  <2>2. (TypeOK /\ LeaseInv) /\ [Next]_vars => (TypeOK /\ LeaseInv)'
    BY NextTyped, LeaseKept
  <2> QED
    BY <2>1, <2>2, PTL DEF Spec
<1> QED
  BY <1>1, LeaseExcludes, PTL

-----------------------------------------------------------------------------
(* What the lease protects: the worker's copy of the journal, and the way  *)
(* from it to the ticket and the outcome.                                  *)

\* What the worker read of the journal is what the journal holds.
JournalRead(w) ==
    worker[w].pc \in InRunOnce \cup {"parking"} =>
        /\ worker[w].matched = run[worker[w].run].matched
        /\ worker[w].done = results[worker[w].run]

\* The outcome it has decided on is the one the journal leads to.
OutcomeRight(w) ==
    LET r == worker[w].run IN
    /\ worker[w].pc = "resolving" => worker[w].outcome = "resolved"
    /\ worker[w].pc \in {"handing", "abandoning"} => worker[w].outcome # "resolved"
    /\ worker[w].pc = "abandoning" => worker[w].outcome = "needs_human"
    /\ worker[w].pc \in HasOutcome =>
        /\ worker[w].outcome = "resolved" => Finished(results[r])
        /\ worker[w].outcome = "escalated" /\ run[r].matched => Failed(results[r])
    /\ worker[w].pc = "concluding" /\ worker[w].outcome = "resolved" => ~ticket[r].open

\* A run with an outcome is closed, and its journal and ticket bear it out.
Settled(r) ==
    run[r].outcome # "none" =>
        /\ job[r].status \in {"done", "dead"}
        /\ run[r].outcome = "resolved" => Finished(results[r]) /\ ~ticket[r].open
        /\ run[r].outcome = "escalated" /\ run[r].matched => Failed(results[r])

SettledInv ==
    /\ TypeOK /\ LeaseInv
    /\ faults.stalls = 0 =>
        /\ \A w \in Workers : JournalRead(w) /\ OutcomeRight(w)
        /\ \A r \in Runs : Settled(r)

LEMMA SettledGives ==
    ASSUME SettledInv
    PROVE  RecordedNotRepeated /\ OutcomeFollowsJournal /\ ResolvedTicketStays
<1>1. RecordedNotRepeated
  BY DEF SettledInv, RecordedNotRepeated, JournalRead, InRunOnce, IsNext
<1>2. OutcomeFollowsJournal
  BY DEF SettledInv, OutcomeFollowsJournal, Settled
<1>3. ResolvedTicketStays
  BY DEF SettledInv, ResolvedTicketStays, Settled
<1> QED
  BY <1>1, <1>2, <1>3

LEMMA SettledInit == Init => SettledInv
<1> SUFFICES ASSUME Init PROVE SettledInv
  OBVIOUS
<1>1. TypeOK /\ LeaseInv
  BY InitTyped, LeaseInit
<1>2. \A w \in Workers : worker[w].pc = "idle"
  BY DEF Init, Idle
<1>3. \A r \in Runs : run[r].outcome = "none"
  BY DEF Init, NewRun
<1> QED
  BY <1>1, <1>2, <1>3 DEF SettledInv, JournalRead, OutcomeRight, Settled, InRunOnce, HasOutcome

\* What the steps of one worker w on its run r need not touch: the other
\* workers have other runs.
Apart(w) ==
    /\ \A v \in Workers : v # w => worker'[v] = worker[v]
    /\ \A q \in Runs : q # worker[w].run =>
        /\ job'[q].status = job[q].status /\ run'[q] = run[q]
        /\ results'[q] = results[q] /\ ticket'[q].open = ticket[q].open

LEMMA SettledFrame ==
    ASSUME SettledInv, [Next]_vars, NEW w \in Workers, worker[w].pc # "idle", Apart(w),
           NEW r \in Runs, r = worker[w].run,
           faults.stalls = 0 => JournalRead(w)' /\ OutcomeRight(w)' /\ Settled(r)'
    PROVE  SettledInv'
<1>1. TypeOK' /\ LeaseInv'
  BY NextTyped, LeaseKept DEF SettledInv
<1>2. SUFFICES ASSUME faults.stalls = 0, faults'.stalls = 0
               PROVE  /\ \A v \in Workers : JournalRead(v)' /\ OutcomeRight(v)'
                      /\ \A q \in Runs : Settled(q)'
  BY <1>1, StallsKept DEF SettledInv
<1>3. \A v \in Workers : worker[v].pc # "idle" => worker[v].run \in Runs
  BY TypeOKParts DEF SettledInv, WorkersTyped
<1>4. ASSUME NEW v \in Workers, v # w PROVE JournalRead(v)' /\ OutcomeRight(v)'
  <2>1. JournalRead(v) /\ OutcomeRight(v) /\ worker'[v] = worker[v]
    BY <1>2, <1>4 DEF SettledInv, Apart
  <2>2. CASE worker[v].pc = "idle"
    BY <2>1, <2>2 DEF JournalRead, OutcomeRight, InRunOnce, HasOutcome
  <2>3. CASE worker[v].pc # "idle"
    <3>1. worker[v].run # worker[w].run /\ worker[v].run \in Runs
      BY <1>2, <1>3, <1>4, <2>3 DEF SettledInv, LeaseInv, HoldsLease
    <3> QED
      BY <2>1, <3>1 DEF Apart, JournalRead, OutcomeRight
  <2> QED
    BY <2>2, <2>3
<1>5. ASSUME NEW q \in Runs, q # worker[w].run PROVE Settled(q)'
  BY <1>2, <1>5 DEF SettledInv, Settled, Apart
<1>6. JournalRead(w)' /\ OutcomeRight(w)' /\ Settled(r)'
  BY <1>2
<1>7. \A v \in Workers : JournalRead(v)' /\ OutcomeRight(v)'
  BY <1>4, <1>6, Zenon
<1>8. \A q \in Runs : Settled(q)'
  BY <1>5, <1>6, Zenon
<1> QED
  BY <1>7, <1>8

LEMMA WorkerStepSettled ==
    ASSUME SettledInv, [Next]_vars, NEW w \in Workers, worker[w].pc # "idle",
           WorkerStep(w) \/ Fault(w)
    PROVE  SettledInv'
<1>0. worker[w].run \in Runs
  BY TypeOKParts DEF SettledInv, WorkersTyped
<1> PICK r \in Runs : r = worker[w].run
  BY <1>0
<1>a. job \in [Runs -> Job] /\ run \in [Runs -> Run] /\ results \in [Runs -> Journal]
      /\ ticket \in [Runs -> Ticket] /\ WorkersTyped /\ FaultsTyped /\ worker[w] \in Worker
  BY TypeOKParts DEF SettledInv, WorkersTyped
<1>b. faults.stalls = 0 =>
        JournalRead(w) /\ OutcomeRight(w) /\ run[r].outcome = "none"
  BY <1>a DEF SettledInv, LeaseInv, HoldsLease, Settled
<1> USE DEF HasOutcome, InRunOnce
<1>c. worker \in [Workers -> Worker]
  BY <1>a DEF WorkersTyped
\* It lets go of the job without an outcome.
<1>1. ASSUME Rest(w), UNCHANGED <<results, ticket>>,
             run'[r].outcome = run[r].outcome, \A q \in Runs : q # r => run'[q] = run[q],
             \A q \in Runs : q # r => job'[q] = job[q]
      PROVE  SettledInv'
  <2>1. worker'[w].pc = "idle" /\ \A v \in Workers : v # w => worker'[v] = worker[v]
    BY <1>1, <1>c DEF Rest, Idle
  <2>2. JournalRead(w)' /\ OutcomeRight(w)'
    BY <2>1 DEF JournalRead, OutcomeRight
  <2>3. faults.stalls = 0 => Settled(r)'
    BY <1>1, <1>b DEF Settled
  <2>4. Apart(w)
    BY <1>1, <2>1 DEF Apart
  <2> QED
    BY <1>a, <2>2, <2>3, <2>4, SettledFrame
<1>2. CASE FinishJob(w) \/ Release(w) \/ Crash(w)
  <2>1. Rest(w) /\ UNCHANGED <<run, results, ticket>>
    BY <1>2 DEF FinishJob, Release, Crash
  <2>2. \A q \in Runs : q # r => job'[q] = job[q]
    BY <1>2, <1>a DEF FinishJob, Release, Crash
  <2> QED
    BY <1>1, <2>1, <2>2
<1>3. CASE Park(w)
  <2>1. [run[r] EXCEPT !.state = "awaiting_approval"].outcome = run[r].outcome
    BY <1>a DEF Run
  <2>2. Rest(w) /\ UNCHANGED <<results, ticket>>
    BY <1>3 DEF Park
  <2>3. run'[r].outcome = run[r].outcome /\ \A q \in Runs : q # r => run'[q] = run[q]
    BY <1>3, <1>a, <2>1 DEF Park
  <2>4. \A q \in Runs : q # r => job'[q] = job[q]
    BY <1>3, <1>a DEF Park
  <2> QED
    BY <1>1, <2>2, <2>3, <2>4
<1>4. CASE Conclude(w)
  <2> DEFINE j == [job[r] EXCEPT !.status = worker[w].final, !.leased = FALSE]
             u == [run[r] EXCEPT !.outcome = worker[w].outcome, !.state = worker[w].outcome]
  <2>1. j.status \in {"done", "dead"} /\ u.outcome = worker[w].outcome
        /\ u.matched = run[r].matched
    BY <1>a DEF Worker, Job, Run
  <2>2. job' = [job EXCEPT ![r] = j] /\ Rest(w) /\ UNCHANGED <<results, ticket>>
        /\ worker[w].pc = "concluding"
    BY <1>4 DEF Conclude
  <2>3. run' = [run EXCEPT ![r] = u] \/ run' = run
    BY <1>4 DEF Conclude
  <2>4. run[r].outcome = "none" => run' = [run EXCEPT ![r] = u]
    BY <1>4 DEF Conclude
  <2> HIDE DEF j, u
  <2>5. worker'[w].pc = "idle" /\ \A v \in Workers : v # w => worker'[v] = worker[v]
    BY <2>2, <1>c DEF Rest, Idle
  <2>6. JournalRead(w)' /\ OutcomeRight(w)'
    BY <2>5 DEF JournalRead, OutcomeRight
  <2>7. Apart(w)
    BY <1>a, <2>2, <2>3, <2>5 DEF Apart
  <2>8. faults.stalls = 0 => Settled(r)'
    BY <1>a, <1>b, <2>1, <2>2, <2>4 DEF OutcomeRight, Settled
  <2> QED
    BY <1>a, <2>6, <2>7, <2>8, SettledFrame
\* It goes on, and of the run's state changes the ticket at most.
<1>5. ASSUME NEW u \in Worker, worker' = [worker EXCEPT ![w] = u], u.run = r,
             UNCHANGED <<job, run, results>>,
             \A q \in Runs : q # r => ticket'[q].open = ticket[q].open,
             faults.stalls = 0 => JournalRead(w)' /\ OutcomeRight(w)'
      PROVE  SettledInv'
  <2>1. Apart(w)
    BY <1>5, <1>c DEF Apart
  <2>2. faults.stalls = 0 => Settled(r)'
    BY <1>5, <1>b DEF Settled
  <2> QED
    BY <1>5, <1>a, <2>1, <2>2, SettledFrame
<1>6. ASSUME NEW pc \in Pcs, Goto(w, pc), UNCHANGED <<job, run, results>>,
             \A q \in Runs : q # r => ticket'[q].open = ticket[q].open,
             pc \in InRunOnce \cup {"parking"} => worker[w].pc \in InRunOnce,
             pc \notin HasOutcome
      PROVE  SettledInv'
  <2> DEFINE u == [worker[w] EXCEPT !.pc = pc]
  <2>1. u \in Worker /\ u.run = r /\ u.pc = pc /\ u.done = worker[w].done
        /\ u.matched = worker[w].matched /\ worker' = [worker EXCEPT ![w] = u]
    BY <1>6, <1>a DEF Goto, Worker
  <2> HIDE DEF u
  <2>2. worker'[w] = u
    BY <2>1, <1>c
  <2>3. faults.stalls = 0 => JournalRead(w)' /\ OutcomeRight(w)'
    BY <1>6, <1>b, <2>1, <2>2 DEF JournalRead, OutcomeRight
  <2> QED
    BY <1>5, <1>6, <2>1, <2>3
<1>7. ASSUME NEW pc \in {"concluding", "handing", "resolving"}, NEW o \in Outcomes,
             Decided(w, pc, o), UNCHANGED <<job, run, results>>,
             \A q \in Runs : q # r => ticket'[q].open = ticket[q].open,
             worker[w].pc \in InRunOnce,
             faults.stalls = 0 =>
                /\ o = "resolved" <=> pc = "resolving"
                /\ o = "resolved" => Finished(results[r])
                /\ o = "escalated" /\ run[r].matched => Failed(results[r])
      PROVE  SettledInv'
  <2> DEFINE u == [worker[w] EXCEPT !.pc = pc, !.outcome = o]
  <2>1. u \in Worker /\ u.run = r /\ u.pc = pc /\ u.outcome = o /\ u.done = worker[w].done
        /\ u.matched = worker[w].matched /\ worker' = [worker EXCEPT ![w] = u]
    BY <1>7, <1>a DEF Decided, Worker, Pcs
  <2> HIDE DEF u
  <2>2. worker'[w] = u
    BY <2>1, <1>c
  <2>3. faults.stalls = 0 => JournalRead(w)' /\ OutcomeRight(w)'
    BY <1>7, <1>b, <2>1, <2>2 DEF JournalRead, OutcomeRight
  <2> QED
    BY <1>5, <1>7, <2>1, <2>3
<1>8. CASE Load(w)
  <2>1. UNCHANGED <<job, run, results, ticket>> /\ worker[w].pc = "loading"
    BY <1>8 DEF Load
  <2>2. CASE Goto(w, "finishing") \/ Goto(w, "journal")
    BY <1>6, <2>1, <2>2 DEF Pcs
  <2>3. CASE worker' = [worker EXCEPT ![w] = [@ EXCEPT !.pc = "abandoning", !.final = "dead",
                                                       !.outcome = "needs_human"]]
    <3> DEFINE u == [worker[w] EXCEPT !.pc = "abandoning", !.final = "dead",
                                      !.outcome = "needs_human"]
    <3>1. u \in Worker /\ u.run = r /\ u.pc = "abandoning" /\ u.outcome = "needs_human"
          /\ worker' = [worker EXCEPT ![w] = u]
      BY <1>a, <2>3 DEF Worker, Pcs, Outcomes
    <3> HIDE DEF u
    <3>2. JournalRead(w)' /\ OutcomeRight(w)'
      BY <1>c, <3>1 DEF JournalRead, OutcomeRight
    <3> QED
      BY <1>5, <2>1, <3>1, <3>2
  <2> QED
    BY <1>8, <2>2, <2>3 DEF Load
<1>9. CASE LoadJournal(w)
  <2> DEFINE u == [worker[w] EXCEPT !.pc = "reading", !.matched = run[r].matched,
                                    !.done = results[r]]
  <2>1. worker' = [worker EXCEPT ![w] = u] /\ UNCHANGED <<job, run, results, ticket>>
    BY <1>9 DEF LoadJournal
  <2>2. run[r].matched \in BOOLEAN /\ results[r] \in Journal
    BY <1>a DEF Run
  <2>3. u \in Worker /\ u.run = r /\ u.pc = "reading" /\ u.matched = run[r].matched
        /\ u.done = results[r]
    BY <1>a, <2>2 DEF Worker, Pcs
  <2> HIDE DEF u
  <2>4. JournalRead(w)' /\ OutcomeRight(w)'
    BY <1>c, <2>1, <2>3 DEF JournalRead, OutcomeRight
  <2> QED
    BY <1>5, <2>1, <2>3, <2>4
<1>10. CASE ReadTicket(w) \/ ReadBack(w)
  <2>1. UNCHANGED <<job, run, results, ticket>> /\ worker[w].pc \in {"reading", "readback"}
    BY <1>10 DEF ReadTicket, ReadBack
  <2>2. Goto(w, "matching") \/ Goto(w, "patching") \/ Decided(w, "concluding", "aborted")
    BY <1>10 DEF ReadTicket, ReadBack
  <2>3. CASE Goto(w, "matching") \/ Goto(w, "patching")
    BY <1>6, <2>1, <2>3 DEF Pcs
  <2>4. CASE Decided(w, "concluding", "aborted")
    BY <1>7, <2>1, <2>4 DEF Outcomes
  <2> QED
    BY <2>2, <2>3, <2>4
<1>11. CASE PatchTicket(w)
  <2>1. Goto(w, "readback") \/ Goto(w, "releasing")
    BY <1>11 DEF PatchTicket
  <2>2. UNCHANGED <<job, run, results>> /\ worker[w].pc = "patching"
    BY <1>11 DEF PatchTicket
  <2>3. \A q \in Runs : q # r => ticket'[q].open = ticket[q].open
    BY <1>11, <1>a DEF PatchTicket, Updates, FailsToUpdate
  <2> QED
    BY <1>6, <2>1, <2>2, <2>3 DEF Pcs
<1>12. CASE ResumeMatch(w) \/ CallStep(w) \/ AwaitApproval(w)
  <2>1. UNCHANGED <<job, run, results, ticket>> /\ worker[w].pc \in {"matching", "step"}
    BY <1>12 DEF ResumeMatch, CallStep, AwaitApproval
  <2>2. Goto(w, "step") \/ Goto(w, "called") \/ Goto(w, "parking")
    BY <1>12 DEF ResumeMatch, CallStep, AwaitApproval
  <2> QED
    BY <1>6, <2>1, <2>2 DEF Pcs
<1>13. CASE SopGone(w) \/ NoMatch(w)
  <2>1. UNCHANGED <<job, run, results, ticket>> /\ worker[w].pc = "matching"
    BY <1>13 DEF SopGone, NoMatch
  <2>2. CASE Decided(w, "handing", "needs_human")
    BY <1>7, <2>1, <2>2 DEF Outcomes
  <2>3. CASE Decided(w, "handing", "escalated") /\ ~worker[w].matched
    BY <1>7, <1>b, <2>1, <2>3 DEF Outcomes, JournalRead
  <2> QED
    BY <1>13, <2>2, <2>3 DEF SopGone, NoMatch
<1>14. CASE WalkEnds(w)
  <2>1. UNCHANGED <<job, run, results, ticket>> /\ worker[w].pc = "step"
    BY <1>14 DEF WalkEnds
  <2>2. CASE Decided(w, "resolving", "resolved") /\ Finished(worker[w].done)
    BY <1>7, <1>b, <2>1, <2>2 DEF Outcomes, JournalRead
  <2>3. CASE Decided(w, "handing", "escalated") /\ Failed(worker[w].done)
    BY <1>7, <1>b, <2>1, <2>3 DEF Outcomes, JournalRead
  <2>4. CASE Decided(w, "handing", "needs_human")
    BY <1>7, <2>1, <2>4 DEF Outcomes
  <2> QED
    BY <1>14, <2>2, <2>3, <2>4 DEF WalkEnds
\* On to the conclusion, with the outcome it had.
<1>15. ASSUME Goto(w, "concluding"), UNCHANGED <<job, run, results>>,
              \A q \in Runs : q # r => ticket'[q].open = ticket[q].open,
              worker[w].pc \in {"resolving", "handing", "abandoning"},
              worker[w].pc = "resolving" => ~ticket'[r].open
       PROVE  SettledInv'
  <2> DEFINE u == [worker[w] EXCEPT !.pc = "concluding"]
  <2>1. u \in Worker /\ u.run = r /\ u.pc = "concluding" /\ u.outcome = worker[w].outcome
        /\ worker' = [worker EXCEPT ![w] = u]
    BY <1>15, <1>a DEF Goto, Worker, Pcs
  <2> HIDE DEF u
  <2>2. worker'[w] = u
    BY <2>1, <1>c
  <2>3. faults.stalls = 0 => JournalRead(w)' /\ OutcomeRight(w)'
    BY <1>15, <1>b, <2>1, <2>2 DEF JournalRead, OutcomeRight
  <2> QED
    BY <1>5, <1>15, <2>1, <2>3
<1>16. CASE ResolveTicket(w)
  <2>1. UNCHANGED <<job, run, results>> /\ worker[w].pc = "resolving"
    BY <1>16 DEF ResolveTicket
  <2>2. CASE Updates(r, Resolved(r)) /\ Goto(w, "concluding")
    <3>1. ~ticket'[r].open /\ \A q \in Runs : q # r => ticket'[q] = ticket[q]
      BY <1>a, <2>2 DEF Updates, Resolved, Ticket
    <3> QED
      BY <1>15, <2>1, <2>2, <3>1
  \* The error may come after the update: the run is not resolved all the same.
  <2>3. CASE FailsToUpdate(r, Resolved(r)) /\ Decided(w, "handing", "needs_human")
    <3>1. \A q \in Runs : q # r => ticket'[q].open = ticket[q].open
      BY <1>a, <2>3 DEF FailsToUpdate
    <3> QED
      BY <1>7, <2>1, <2>3, <3>1 DEF Outcomes
  <2> QED
    BY <1>16, <2>2, <2>3 DEF ResolveTicket
<1>17. CASE HandOver(w)
  <2>1. UNCHANGED <<job, run, results>> /\ worker[w].pc \in {"handing", "abandoning"}
        /\ Goto(w, "concluding")
    BY <1>17 DEF HandOver
  <2>2. \A q \in Runs : q # r => ticket'[q].open = ticket[q].open
    BY <1>17, <1>a DEF HandOver, Updates, FailsToUpdate
  <2> QED
    BY <1>15, <2>1, <2>2
<1>18. CASE EngineError(w)
  <2>1. UNCHANGED <<job, run, results, ticket>> /\ worker[w].pc \in {"matching", "marking", "step", "called"}
        /\ Decided(w, "handing", "needs_human")
    BY <1>18 DEF EngineError
  <2> QED
    BY <1>7, <2>1 DEF Outcomes
<1>19. CASE InfraError(w)
  <2>1. UNCHANGED <<job, run, results, ticket>> /\ Goto(w, "releasing")
    BY <1>19 DEF InfraError
  <2> QED
    BY <1>6, <2>1 DEF Pcs
<1>20. CASE RecordMatch(w)
  <2> DEFINE u == [worker[w] EXCEPT !.pc = "marking", !.matched = TRUE]
             x == [run[r] EXCEPT !.matched = TRUE, !.state = "executing"]
  <2>1. u.run = r /\ u.pc = "marking" /\ u.matched = TRUE /\ u.done = worker[w].done
        /\ x.matched = TRUE /\ x.outcome = run[r].outcome
    BY <1>a DEF Worker, Run
  <2>2. worker' = [worker EXCEPT ![w] = u] /\ run' = [run EXCEPT ![r] = x]
        /\ UNCHANGED <<job, results, ticket>> /\ worker[w].pc = "matching"
    BY <1>20 DEF RecordMatch
  <2> HIDE DEF u, x
  <2>3. Apart(w)
    BY <1>a, <1>c, <2>2 DEF Apart
  <2>4. faults.stalls = 0 => JournalRead(w)' /\ OutcomeRight(w)'
    BY <1>a, <1>b, <1>c, <2>1, <2>2 DEF JournalRead, OutcomeRight
  <2>5. faults.stalls = 0 => Settled(r)'
    BY <1>a, <1>b, <2>1, <2>2 DEF Settled
  <2> QED
    BY <2>3, <2>4, <2>5, SettledFrame
<1>21. CASE RecordStep(w)
  <2> PICK s \in Steps, v \in Results :
        /\ worker[w].pc = "called"
        /\ results' = [results EXCEPT ![r][s] = v]
        /\ worker' = [worker EXCEPT ![w] = [@ EXCEPT !.pc = "step", !.done[s] = v]]
        /\ UNCHANGED <<job, run, request, ticket, faults>>
    BY <1>21, Zenon DEF RecordStep
  <2> DEFINE u == [worker[w] EXCEPT !.pc = "step", !.done = [worker[w].done EXCEPT ![s] = v]]
             x == [results[r] EXCEPT ![s] = v]
  <2>1. u.run = r /\ u.pc = "step" /\ u.matched = worker[w].matched
        /\ (worker[w].done = results[r] => u.done = x)
    BY <1>a DEF Worker
  <2>2. worker' = [worker EXCEPT ![w] = u] /\ results' = [results EXCEPT ![r] = x]
    OBVIOUS
  <2> HIDE DEF u, x
  <2>3. Apart(w)
    BY <1>a, <1>c, <2>2 DEF Apart
  <2>4. faults.stalls = 0 => JournalRead(w)' /\ OutcomeRight(w)'
    BY <1>a, <1>b, <1>c, <2>1, <2>2 DEF JournalRead, OutcomeRight
  <2>5. faults.stalls = 0 => Settled(r)'
    BY <1>b DEF Settled
  <2> QED
    BY <2>3, <2>4, <2>5, SettledFrame
<1>22. CASE MarkInProgress(w)
  <2>1. UNCHANGED <<job, run, results>> /\ worker[w].pc = "marking" /\ Goto(w, "step")
    BY <1>22 DEF MarkInProgress
  <2>2. \A q \in Runs : q # r => ticket'[q].open = ticket[q].open
    BY <1>22, <1>a DEF MarkInProgress, Updates, FailsToUpdate
  <2> QED
    BY <1>6, <2>1, <2>2 DEF Pcs
<1> QED
  <2>1. Fault(w) => SettledInv'
    BY <1>2, <1>18, <1>19 DEF Fault
  <2>2. ~Claim(w)
    BY Zenon DEF Claim
  <2> QED
    BY <1>2, <1>3, <1>4, <1>8, <1>9, <1>10, <1>11, <1>12, <1>13, <1>14, <1>16, <1>17, <1>20,
       <1>21, <1>22, <2>1, <2>2 DEF WorkerStep

LEMMA SettledKept ==
    ASSUME SettledInv, [Next]_vars
    PROVE  SettledInv'
<1>1. TypeOK' /\ LeaseInv'
  BY NextTyped, LeaseKept DEF SettledInv
<1>2. faults'.stalls = 0 => faults.stalls = 0
  BY StallsKept DEF SettledInv
<1>a. job \in [Runs -> Job] /\ ticket \in [Runs -> Ticket] /\ WorkersTyped
  BY TypeOKParts DEF SettledInv
\* Steps that touch no worker with a job, and no run, result or open ticket.
<1>3. ASSUME UNCHANGED <<run, results>>,
             \A r \in Runs : ticket'[r].open = ticket[r].open,
             \A r \in Runs : job[r].status \in {"done", "dead"} => job'[r].status = job[r].status,
             \A v \in Workers : worker'[v] = worker[v] \/ worker'[v].pc \in {"idle", "loading"}
      PROVE  SettledInv'
  <2>1. SUFFICES ASSUME faults.stalls = 0
                 PROVE  /\ \A v \in Workers : JournalRead(v)' /\ OutcomeRight(v)'
                        /\ \A r \in Runs : Settled(r)'
    BY <1>1, <1>2 DEF SettledInv
  <2>2. \A r \in Runs : Settled(r)'
    BY <1>3, <2>1 DEF SettledInv, Settled
  <2>3. ASSUME NEW v \in Workers PROVE JournalRead(v)' /\ OutcomeRight(v)'
    <3>1. CASE worker'[v].pc \in {"idle", "loading"}
      BY <3>1 DEF JournalRead, OutcomeRight, InRunOnce, HasOutcome
    <3>2. CASE worker'[v] = worker[v] /\ worker[v].pc # "idle"
      <4>1. worker[v].run \in Runs /\ JournalRead(v) /\ OutcomeRight(v)
        BY <1>a, <2>1, <3>2 DEF SettledInv, WorkersTyped
      <4> QED
        BY <1>3, <3>2, <4>1 DEF JournalRead, OutcomeRight
    <3> QED
      BY <1>3, <3>1, <3>2
  <2> QED
    BY <2>2, <2>3
<1>4. ASSUME NEW w \in Workers, WorkerStep(w) \/ Fault(w) PROVE SettledInv'
  <2>1. CASE worker[w].pc # "idle"
    BY <1>4, <2>1, WorkerStepSettled
  <2>2. CASE Claim(w)
    <3> PICK q \in Runs, n \in Nat : ClaimOf(w, q, n)
      BY <2>2, ClaimPicks DEF SettledInv
    <3>1. job[q].status \notin {"done", "dead"} /\ UNCHANGED <<run, results, ticket>>
      BY DEF ClaimOf, Claimable
    <3> QED
      BY <1>3, <3>1, ClaimMoves DEF SettledInv
  <2>3. worker[w].pc = "idle" => Claim(w)
    BY <1>4 DEF WorkerStep, Fault, Load, LoadJournal, FinishJob, ReadTicket, PatchTicket,
       ReadBack, ResumeMatch, SopGone, NoMatch, RecordMatch, MarkInProgress, CallStep, AwaitApproval, RecordStep,
       WalkEnds, ResolveTicket, HandOver, Conclude, Park, Release, EngineError, InfraError,
       OutsideEngine, ReadingTicket, Crash
  <2> QED
    BY <2>1, <2>2, <2>3
<1>5. ASSUME NEW w \in Workers, Heartbeat(w) PROVE SettledInv'
  BY <1>3, <1>5, <1>a DEF Heartbeat, Job
<1>6. ASSUME NEW r \in Runs, Ingest(r) PROVE SettledInv'
  BY <1>3, <1>6, <1>a DEF Ingest
<1>7. ASSUME NEW r \in Runs, Clock(r) PROVE SettledInv'
  BY <1>3, <1>7, <1>a DEF Clock, LeaseLapses, BecomesDue
<1>8. ASSUME NEW r \in Runs, PersonTakes(r) PROVE SettledInv'
  BY <1>3, <1>8, <1>a DEF PersonTakes, Ticket
<1>9. ASSUME NEW r \in Runs, Wakes(r), UNCHANGED <<run, results, ticket, worker>>
      PROVE  SettledInv'
  BY <1>3, <1>9, <1>a DEF Wakes
<1>10. ASSUME NEW r \in Runs, NEW d \in {"approved", "refused"}, Decide(r, d) PROVE SettledInv'
  BY <1>9, <1>10 DEF Decide
<1>11. ASSUME NEW w \in Workers, NEW r \in Runs, Expire(w, r) PROVE SettledInv'
  <2>1. UNCHANGED job => SettledInv'
    BY <1>3, <1>11 DEF Expire
  <2> QED
    BY <1>9, <1>11, <2>1 DEF Expire
<1>12. CASE UNCHANGED vars
  BY <1>3, <1>12 DEF vars
<1> QED
  BY <1>4, <1>5, <1>6, <1>7, <1>8, <1>10, <1>11, <1>12, Zenon DEF Next, People

LEMMA SettledAlways == Spec => []SettledInv
  BY SettledInit, SettledKept, PTL DEF Spec

\* While no live worker's lease lapses, a resumed run does not repeat a step
\* whose result is on record (engine/journal.py, service/runs.py DbJournal).
THEOREM NoStepRepeated == Spec => []RecordedNotRepeated
  BY SettledAlways, SettledGives, PTL

\* The outcome a run is given is the one its recorded results lead to.
THEOREM OutcomesFollow == Spec => []OutcomeFollowsJournal
  BY SettledAlways, SettledGives, PTL

\* A run recorded as resolved has a resolved ticket.
THEOREM ResolvedStays == Spec => []ResolvedTicketStays
  BY SettledAlways, SettledGives, PTL
=============================================================================
