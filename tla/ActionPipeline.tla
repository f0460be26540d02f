---------------------------- MODULE ActionPipeline ----------------------------
(***************************************************************************)
(* The action pipeline: what an ACTION step goes through between the       *)
(* engine's call of ActionService.perform and the step result it returns   *)
(* (actions/service.py, actions/store.py, connectors/sdk/base.py, the      *)
(* change record of connectors/itsm/servicenow.py).                        *)
(*                                                                         *)
(* The actions are those of one run, in the order of its walk.  A worker   *)
(* is an attempt at one of them; its record is the memory a crash loses,   *)
(* with the status of the row as it last read it.  One action is one       *)
(* transaction or one call to a system outside.  A second attempt runs     *)
(* beside the first only when the first was held up for longer than its    *)
(* lease.                                                                  *)
(***************************************************************************)
EXTENDS Naturals, FiniteSets

CONSTANTS
    NumActions,     \* ACTION steps of the run, numbered in the order of the walk
    CallOf,         \* [Actions -> calls]: the capability and parameters of each
    HasRollback,    \* the actions whose capability declares a rollback
    Workers,        \* worker processes
    People,         \* who may approve
    Author,         \* the author of the SOP version, or NoOne if not on record
    NoOne,
    Emailed,        \* the people whose e-mail address is known
    MaxCrashes,     \* bound: how often a worker process dies
    MaxStalls,      \* bound: how often an attempt begins beside another
    MaxErrors,      \* bound: how often an infrastructure call raises
    MaxFlips        \* bound: how often the kill switch is thrown

ASSUME CountsAssumption ==
    /\ NumActions \in Nat
    /\ MaxCrashes \in Nat /\ MaxStalls \in Nat /\ MaxErrors \in Nat /\ MaxFlips \in Nat
ASSUME PeopleAssumption ==
    NoOne \notin People /\ Author \in People \cup {NoOne} /\ Emailed \subseteq People

Actions == 1..NumActions

VARIABLES
    row,       \* actions: one row for each step, once the policy has decided
    told,      \* run_steps: the status of the step's recorded result
    changes,   \* ServiceNow: how many changes carry the correlation of a call
    sent,      \* how often the write left for its target
    undone,    \* how often its rollback did
    kill,      \* is a kill switch on
    worker,    \* each worker's memory
    faults     \* how much of each bound is used up

vars == <<row, told, changes, sent, undone, kill, worker, faults>>

\* Statuses (db/models.py ACTION_STATUSES, actions/store.py FINAL).
Waiting == {"pending", "approved", "allowed"}
Ready == {"approved", "allowed"}
Acting == {"executing", "executed", "rolling_back"}
NotMade == {"denied", "shadowed", "recommended", "rejected", "expired", "invalid",
            "not_done", "aborted"}
Final == NotMade \cup {"verified", "failed", "rolled_back", "rollback_failed"}
Statuses == Waiting \cup Acting \cup Final

Verdicts == {"deny", "shadow", "recommend", "require_approval", "allow"}
VerdictAsStatus == [v \in Verdicts |-> v]     \* mutant: the verdict is stored itself

VerdictStatus == [deny |-> "denied", shadow |-> "shadowed", recommend |-> "recommended",
                  require_approval |-> "pending", allow |-> "allowed"]

Tiers == {"T1", "T2"}
StepStatus == {"none", "success", "skip", "fail", "escalated", "error"}

Row == [status: Statuses \cup {"none"}, verdict: Verdicts, tier: Tiers,
        change: BOOLEAN,                \* change_number is set
        asked: BOOLEAN,                 \* requested_at is set
        approver: People \cup {NoOne},
        late: BOOLEAN,                  \* expires_at has passed
        stale: BOOLEAN,                 \* valid_until has passed
        started: BOOLEAN,               \* execution_started_at is set
        unknown: BOOLEAN]               \* the result says it is not known
Pcs == {"idle", "finding", "voiding", "deciding", "recording", "lookup", "opening", "noting",
        "denying", "asking", "checking", "parking", "switch", "authorising", "settling",
        "redeeming", "writing", "written", "verifying", "rollback", "redeem_undo", "undoing", "leaving",
        "reporting", "raised"}
Worker == [pc: Pcs, act: Actions \cup {0},
           seen: Statuses \cup {"none"}, unknown: BOOLEAN,     \* the row as last read
           verdict: Verdicts, tier: Tiers,                     \* the ruling, not yet recorded
           to: Final,                                          \* the status to settle on
           stopped: BOOLEAN]                                   \* the switch refused the grant

NoRow == [status |-> "none", verdict |-> "deny", tier |-> "T1", change |-> FALSE,
          asked |-> FALSE, approver |-> NoOne, late |-> FALSE, stale |-> FALSE,
          started |-> FALSE, unknown |-> FALSE]
Idle == [pc |-> "idle", act |-> 0, seen |-> "none", unknown |-> FALSE, verdict |-> "deny",
         tier |-> "T1", to |-> "denied", stopped |-> FALSE]

Calls == {CallOf[a] : a \in Actions}

TypeOK ==
    /\ row \in [Actions -> Row]
    /\ told \in [Actions -> StepStatus]
    /\ changes \in [Calls -> Nat]
    /\ sent \in [Actions -> Nat]
    /\ undone \in [Actions -> Nat]
    /\ kill \in BOOLEAN
    /\ worker \in [Workers -> Worker]
    /\ \A w \in Workers : worker[w].pc # "idle" => worker[w].act \in Actions
    /\ faults \in [crashes: 0..MaxCrashes, stalls: 0..MaxStalls, errors: 0..MaxErrors,
                   flips: 0..MaxFlips]

Init ==
    /\ row = [a \in Actions |-> NoRow]
    /\ told = [a \in Actions |-> "none"]
    /\ changes = [c \in Calls |-> 0]
    /\ sent = [a \in Actions |-> 0]
    /\ undone = [a \in Actions |-> 0]
    /\ kill = FALSE
    /\ worker = [w \in Workers |-> Idle]
    /\ faults = [crashes |-> 0, stalls |-> 0, errors |-> 0, flips |-> 0]

-----------------------------------------------------------------------------
(* Helpers                                                                 *)

At(w, pc) == worker[w].pc = pc
Goto(w, pc) == worker' = [worker EXCEPT ![w].pc = pc]
\* The worker goes on with the row as it has just written or read it.
Reads(w, pc, r) ==
    worker' = [worker EXCEPT ![w] = [Idle EXCEPT
        !.pc = pc, !.act = worker[w].act, !.stopped = worker[w].stopped,
        !.seen = r.status, !.unknown = r.unknown]]
Settling(w, status) ==
    worker' = [worker EXCEPT ![w] = [@ EXCEPT !.pc = "settling", !.to = status]]
Rest(w) == worker' = [worker EXCEPT ![w] = Idle]
Count(bound, kind) ==
    /\ faults[kind] < bound
    /\ faults' = [faults EXCEPT ![kind] = @ + 1]

\* store.transition: the row with a new status.  The trigger on the table and
\* the callers between them leave everything else of it alone.
Moved(r, status, unknown) == [r EXCEPT !.status = status, !.unknown = unknown]

Moves(w, from, status, unknown) ==
    row' = [row EXCEPT ![worker[w].act] = IF @.status \in from THEN Moved(@, status, unknown)
                                                               ELSE @]

FinishBlindly(w, from, status, unknown) ==      \* mutant: _finish does not read again
    LET a == worker[w].act IN
    /\ Moves(w, from, status, unknown)
    /\ Reads(w, "reporting", Moved(row[a], status, unknown))

\* ActionService._finish: the move is made only from one of the statuses
\* given; if another attempt moved the row first, its status stands and is
\* read again.
Finish(w, from, status, unknown) ==
    /\ Moves(w, from, status, unknown)
    /\ Reads(w, "reporting", row'[worker[w].act])

\* _continue: what is left to do depends on the row alone.
NextPc(r) ==
    CASE r.status \in Waiting /\ ~r.change -> "lookup"
      [] r.status = "pending" /\ r.change -> IF r.asked THEN "checking" ELSE "asking"
      [] r.status \in Ready /\ r.change -> "switch"
      [] r.status \in {"executing", "executed"} -> "verifying"
      [] r.status = "rolling_back" -> "leaving"
      [] OTHER -> "reporting"
Continue(w, r) == Reads(w, NextPc(r), r)

-----------------------------------------------------------------------------
(* perform: find the row, decide, or void what no longer is what was decided *)

GoesOn == {"success", "skip", "fail"}   \* "fail" where the step has a failure edge
Busy(w) == worker[w].pc # "idle"

\* The engine executes the first ACTION step that has no result.
Perform(w) == \E a \in Actions :
    /\ At(w, "idle")
    /\ told[a] = "none"
    /\ \A b \in Actions : b < a => told[b] \in GoesOn
    /\ IF \E v \in Workers : Busy(v)
       THEN Count(MaxStalls, "stalls")
       ELSE UNCHANGED faults
    /\ worker' = [worker EXCEPT ![w] = [Idle EXCEPT !.pc = "finding", !.act = a]]
    /\ UNCHANGED <<row, told, changes, sent, undone, kill>>

\* store.find.  The step may no longer render to what was decided on.
Find(w) ==
    LET a == worker[w].act IN
    /\ At(w, "finding")
    /\ \/ row[a].status = "none" /\ Goto(w, "deciding")
       \/ row[a].status # "none" /\ Continue(w, row[a])
       \/ row[a].status \in Waiting \cup Acting /\ Reads(w, "voiding", row[a])
    /\ UNCHANGED <<row, told, changes, sent, undone, kill, faults>>

Void(w) ==
    /\ At(w, "voiding")
    /\ Moves(w, Waiting, "invalid", FALSE)
    /\ Continue(w, row'[worker[w].act])
    /\ UNCHANGED <<told, changes, sent, undone, kill, faults>>

\* evaluate: the kill switch denies; nothing above T1 is allowed unattended.
Permissible(v, t) ==
    /\ kill => v = "deny"
    /\ v = "allow" => t = "T1"

Evaluate(w) == \E v \in Verdicts, t \in Tiers :
    /\ At(w, "deciding")
    /\ Permissible(v, t)
    /\ worker' = [worker EXCEPT ![w] = [@ EXCEPT !.pc = "recording", !.verdict = v, !.tier = t]]
    /\ UNCHANGED <<row, told, changes, sent, undone, kill, faults>>

\* store.record_decision: the first decision for the step stands (uq_actions_step).
RecordDecision(w) ==
    LET a == worker[w].act
        v == worker[w].verdict IN
    /\ At(w, "recording")
    /\ row' = IF row[a].status = "none"
              THEN [row EXCEPT ![a] = [NoRow EXCEPT !.status = VerdictStatus[v], !.verdict = v,
                                                    !.tier = worker[w].tier]]
              ELSE row
    /\ Continue(w, row'[a])
    /\ UNCHANGED <<told, changes, sent, undone, kill, faults>>

\* A rollback that was interrupted is not repeated.
LeaveRollback(w) ==
    /\ At(w, "leaving")
    /\ Finish(w, {"rolling_back"}, "failed", TRUE)
    /\ UNCHANGED <<told, changes, sent, undone, kill, faults>>

-----------------------------------------------------------------------------
(* The change record, the request for approval                             *)

LookUpNothing(w) ==             \* mutant: open_change does not look first
    /\ At(w, "lookup")
    /\ Goto(w, "opening")
    /\ UNCHANGED <<row, told, changes, sent, undone, kill, faults>>

\* open_change looks for a change with the action's correlation first.
LookUpChange(w) ==
    LET c == CallOf[worker[w].act] IN
    /\ At(w, "lookup")
    /\ \/ changes[c] > 0 /\ Goto(w, "noting")
       \/ changes[c] = 0 /\ Goto(w, "opening")
       \/ Goto(w, "denying")
    /\ UNCHANGED <<row, told, changes, sent, undone, kill, faults>>

\* The change may have been opened although the answer was an error.
OpenChange(w) ==
    LET c == CallOf[worker[w].act] IN
    /\ At(w, "opening")
    /\ \/ /\ changes' = [changes EXCEPT ![c] = @ + 1]
          /\ Goto(w, "noting") \/ Goto(w, "denying")
       \/ UNCHANGED changes /\ Goto(w, "denying")
    /\ UNCHANGED <<row, told, sent, undone, kill, faults>>

\* store.note does not look at the status.
NoteChange(w) ==
    LET a == worker[w].act IN
    /\ At(w, "noting")
    /\ row' = [row EXCEPT ![a].change = TRUE]
    /\ Continue(w, row'[a])
    /\ UNCHANGED <<told, changes, sent, undone, kill, faults>>

\* Without a change record the decision is a denial.
DenyUnbacked(w) ==
    LET a == worker[w].act IN
    /\ At(w, "denying")
    /\ row' = [row EXCEPT ![a] = IF @.status \in Waiting
                                 THEN [Moved(@, "denied", FALSE) EXCEPT !.verdict = "deny"]
                                 ELSE @]
    /\ Continue(w, row'[a])
    /\ UNCHANGED <<told, changes, sent, undone, kill, faults>>

\* _request_approval.  A failure to ask in ServiceNow changes nothing.  A row
\* that somebody has moved on is gone on with as the note returned it, unless
\* the clock of the request has run out as well.
AskApproval(w) ==
    LET a == worker[w].act IN
    /\ At(w, "asking")
    /\ row' = [row EXCEPT ![a].asked = TRUE]
    /\ \/ Reads(w, "checking", row'[a])
       \/ row[a].status # "pending" /\ ~row[a].late /\ Continue(w, row'[a])
    /\ UNCHANGED <<told, changes, sent, undone, kill, faults>>

\* An expired request is closed and read again; one that was open when it was
\* read suspends the run.  The clock of a request is not followed once it is
\* decided, so it may have run out.
CheckExpiry(w) ==
    LET a == worker[w].act IN
    /\ At(w, "checking")
    /\ \/ /\ row[a].late \/ row[a].status # "pending"
          /\ Moves(w, {"pending"}, "expired", FALSE)
          /\ Continue(w, row'[a])
       \/ ~row[a].late /\ worker[w].seen = "pending" /\ Goto(w, "parking") /\ UNCHANGED row
    /\ UNCHANGED <<told, changes, sent, undone, kill, faults>>

\* RunSuspended reaches RunService.execute, whose _park commits after that and
\* does not look at the request again.
Park(w) ==
    /\ At(w, "parking")
    /\ Rest(w)
    /\ UNCHANGED <<row, told, changes, sent, undone, kill, faults>>

-----------------------------------------------------------------------------
(* _act: kill switch, validity, pre-checks and dry run, then the one step   *)
(* that lets the write go ahead                                            *)

\* The pre-checks are reads; a capability may have a dry run as well.
ReadSwitch(w) ==
    /\ At(w, "switch")
    /\ \/ kill /\ Settling(w, "aborted")
       \/ ~kill /\ row[worker[w].act].stale /\ Settling(w, "invalid")
       \/ ~kill /\ ~row[worker[w].act].stale /\ (Settling(w, "not_done") \/ Goto(w, "authorising"))
    /\ UNCHANGED <<row, told, changes, sent, undone, kill, faults>>

CarriedOutNever(a) == FALSE     \* mutant: no unique index

\* The unique index uq_actions_once_per_incident.
CarriedOut(a) == \E b \in Actions \ {a} : CallOf[b] = CallOf[a] /\ row[b].started

\* store.authorise_execution, then mint: the grant is this worker's alone.
Authorise(w) ==
    LET a == worker[w].act
        authorised == row[a].status \in Ready /\ ~row[a].stale IN
    /\ At(w, "authorising")
    /\ \/ kill /\ Settling(w, "aborted") /\ UNCHANGED row
       \/ ~kill /\ ~authorised /\ Settling(w, "invalid") /\ UNCHANGED row
       \/ ~kill /\ authorised /\ CarriedOut(a) /\ Settling(w, "not_done") /\ UNCHANGED row
       \/ /\ ~kill /\ authorised /\ ~CarriedOut(a)
          /\ row' = [row EXCEPT ![a] = [@ EXCEPT !.status = "executing", !.started = TRUE]]
          /\ Reads(w, "redeeming", row'[a])
    /\ UNCHANGED <<told, changes, sent, undone, kill, faults>>

\* Connector.invoke: the call is refused (schema, allow list), or the grant is
\* (kill switch, expired), or the write leaves for its target.
Redeem(w) ==
    /\ At(w, "redeeming")
    /\ \/ /\ worker' = [worker EXCEPT ![w] = [@ EXCEPT !.pc = "rollback", !.stopped = kill]]
          /\ UNCHANGED sent
       \/ /\ ~kill
          /\ sent' = [sent EXCEPT ![worker[w].act] = @ + 1]
          /\ Goto(w, "writing")
    /\ UNCHANGED <<row, told, changes, undone, kill, faults>>

\* The target accepts the write, or it fails, or a runner took it and did not
\* answer (OutcomeUnknown).
WriteAnswered(w) ==
    /\ At(w, "writing")
    /\ \/ Goto(w, "written")
       \/ Goto(w, "rollback")
       \/ Goto(w, "verifying")
    /\ UNCHANGED <<row, told, changes, sent, undone, kill, faults>>

\* transition returns None when another attempt moved the row: _note_change
\* is then called without a row, and raises.
RecordExecuted(w) ==
    LET a == worker[w].act IN
    /\ At(w, "written")
    /\ IF row[a].status = "executing"
       THEN /\ row' = [row EXCEPT ![a] = Moved(@, "executed", FALSE)]
            /\ Reads(w, "verifying", row'[a])
       ELSE Goto(w, "raised") /\ UNCHANGED row
    /\ UNCHANGED <<told, changes, sent, undone, kill, faults>>

-----------------------------------------------------------------------------
(* Verify, roll back                                                       *)

SendAgain(w) ==                 \* mutant: an interrupted write is sent again
    /\ At(w, "verifying")
    /\ \/ Finish(w, {"executed", "executing"}, "verified", FALSE)
       \/ worker[w].seen = "executing" /\ Goto(w, "redeeming") /\ UNCHANGED row
       \/ worker[w].seen = "executed" /\ Goto(w, "rollback") /\ UNCHANGED row
    /\ UNCHANGED <<told, changes, sent, undone, kill, faults>>

\* The reads show the result, or they do not.  A write of which it is not
\* known whether it was made is not rolled back.
Verify(w) ==
    /\ At(w, "verifying")
    /\ \/ Finish(w, {"executed", "executing"}, "verified", FALSE)
       \/ worker[w].seen = "executing" /\ Finish(w, {"executing"}, "failed", TRUE)
       \/ worker[w].seen = "executed" /\ Goto(w, "rollback") /\ UNCHANGED row
    /\ UNCHANGED <<told, changes, sent, undone, kill, faults>>

RollBackAgain(w) ==             \* mutant: a rollback in progress is begun again
    /\ At(w, "rollback")
    /\ Moves(w, Acting, "rolling_back", FALSE)
    /\ Goto(w, "redeem_undo")
    /\ UNCHANGED <<told, changes, sent, undone, kill, faults>>

\* _roll_back and _authorise_rollback.  The switch is read before the row is
\* moved; thrown between the two, it is met again in RedeemUndo.
RollBack(w) ==
    LET a == worker[w].act
        moves == ~kill /\ row[a].status \in {"executing", "executed"} IN
    /\ At(w, "rollback")
    /\ \/ a \notin HasRollback /\ Finish(w, Acting, "failed", FALSE)
       \/ /\ a \in HasRollback /\ moves
          /\ row' = [row EXCEPT ![a] = Moved(@, "rolling_back", FALSE)]
          /\ Goto(w, "redeem_undo")
       \/ a \in HasRollback /\ ~moves /\ Settling(w, "rollback_failed") /\ UNCHANGED row
    /\ UNCHANGED <<told, changes, sent, undone, kill, faults>>

RedeemUndo(w) ==
    /\ At(w, "redeem_undo")
    /\ \/ Settling(w, "rollback_failed") /\ UNCHANGED undone
       \/ /\ ~kill
          /\ undone' = [undone EXCEPT ![worker[w].act] = @ + 1]
          /\ Goto(w, "undoing")
    /\ UNCHANGED <<row, told, changes, sent, kill, faults>>

UndoAnswered(w) ==
    /\ At(w, "undoing")
    /\ Settling(w, "rolled_back") \/ Settling(w, "rollback_failed")
    /\ UNCHANGED <<row, told, changes, sent, undone, kill, faults>>

FromAnything(status) == Statuses    \* mutant: the move is not conditional

\* The statuses each conclusion is reached from.
From(status) == IF status \in {"rolled_back", "rollback_failed"} THEN Acting ELSE Ready

Settle(w) ==
    /\ At(w, "settling")
    /\ Finish(w, From(worker[w].to), worker[w].to, FALSE)
    /\ UNCHANGED <<told, changes, sent, undone, kill, faults>>

-----------------------------------------------------------------------------
(* The step result, and what goes wrong on the way to it                   *)

\* mutant: the result of the attempt, not of the record
ResultOfAttempt(status, unknown) == IF status \in Acting THEN "success" ELSE "escalated"

\* _final, from the record alone.  A status that is not final is not in its
\* table: it raises, and the engine records an error.
Result(status, unknown) ==
    CASE status = "shadowed" -> "skip"
      [] status = "verified" -> "success"
      [] status = "not_done" -> "fail"
      [] status = "failed" /\ unknown -> "error"
      [] status \in Final \ {"shadowed", "verified", "not_done", "failed"} -> "escalated"
      [] status = "failed" /\ ~unknown -> "escalated"
      [] OTHER -> "error"

Report(w) ==
    /\ At(w, "reporting")
    /\ told' = [told EXCEPT ![worker[w].act] = Result(worker[w].seen, worker[w].unknown)]
    /\ Rest(w)
    /\ UNCHANGED <<row, changes, sent, undone, kill, faults>>

\* SOPExecutor._execute_step: an exception is a step that could not be run.
ReportError(w) ==
    /\ At(w, "raised")
    /\ told' = [told EXCEPT ![worker[w].act] = "error"]
    /\ Rest(w)
    /\ UNCHANGED <<row, changes, sent, undone, kill, faults>>

\* A database call raises.  At every other place an exception is an answer.  A
\* verified or rolled-back action has its change closed before the result is
\* returned; that the change is closed is noted, and the note may raise.
Database == {"finding", "voiding", "deciding", "recording", "leaving", "noting", "denying",
             "asking", "checking", "switch", "authorising", "settling", "written", "verifying",
             "rollback"}
ClosesChange == {"verified", "failed", "rolled_back", "rollback_failed"}
InfraError(w) ==
    /\ \/ worker[w].pc \in Database /\ Goto(w, "raised")
       \/ At(w, "reporting") /\ worker[w].seen \in ClosesChange /\ Goto(w, "raised")
       \/ At(w, "parking") /\ Rest(w)         \* _release: the job is queued again
    /\ Count(MaxErrors, "errors")
    /\ UNCHANGED <<row, told, changes, sent, undone, kill>>

Crash(w) ==
    /\ Busy(w)
    /\ Count(MaxCrashes, "crashes")
    /\ Rest(w)
    /\ UNCHANGED <<row, told, changes, sent, undone, kill>>

-----------------------------------------------------------------------------
(* People, the clock, the sweep                                            *)

MayDecideAny(a, p, yes) == p \in People     \* mutant: no two-person rule

\* store.decide: for T2 somebody other than the author, who is on record.  The
\* database refuses the author's rejection of a T2 action as well.
MayDecide(a, p, yes) ==
    row[a].tier = "T2" => p # Author /\ (yes => Author # NoOne)

DecidedBy(a, p, yes) ==
    row' = [row EXCEPT ![a] = [@ EXCEPT !.status = IF yes THEN "approved" ELSE "rejected",
                                        !.approver = p]]

\* In the product.  A decision that comes late closes the request instead.
Decide(a, p, yes) ==
    /\ row[a].status = "pending"
    /\ \/ row[a].late /\ row' = [row EXCEPT ![a] = Moved(@, "expired", FALSE)]
       \/ ~row[a].late /\ MayDecide(a, p, yes) /\ DecidedBy(a, p, yes)
    /\ UNCHANGED <<told, changes, sent, undone, kill, worker, faults>>

\* _collect: a decision on the change record in ServiceNow, if the change
\* still carries the action's hash.  For T2 the two e-mail addresses decide.
ShownToDiffer(p) == p # Author /\ {p, Author} \subseteq Emailed
Collect(a, p, yes) ==
    /\ row[a].status = "pending" /\ row[a].change /\ ~row[a].late
    /\ \/ row' = [row EXCEPT ![a] = Moved(@, "invalid", FALSE)]
       \/ (yes /\ row[a].tier = "T2" => ShownToDiffer(p)) /\ DecidedBy(a, p, yes)
    /\ UNCHANGED <<told, changes, sent, undone, kill, worker, faults>>

\* sweep: expire a request that nobody decided in time.
Sweep(a) ==
    /\ row[a].status = "pending" /\ row[a].late
    /\ row' = [row EXCEPT ![a] = Moved(@, "expired", FALSE)]
    /\ UNCHANGED <<told, changes, sent, undone, kill, worker, faults>>

\* The clock passes expires_at, or valid_until.
ExpiryPasses(a) ==
    /\ row[a].status = "pending" /\ ~row[a].late
    /\ row' = [row EXCEPT ![a].late = TRUE]
    /\ UNCHANGED <<told, changes, sent, undone, kill, worker, faults>>
ValidityPasses(a) ==
    /\ row[a].status \in Ready /\ ~row[a].stale
    /\ row' = [row EXCEPT ![a].stale = TRUE]
    /\ UNCHANGED <<told, changes, sent, undone, kill, worker, faults>>

\* A person throws the kill switch, either way.
Throw ==
    /\ Count(MaxFlips, "flips")
    /\ kill' = ~kill
    /\ UNCHANGED <<row, told, changes, sent, undone, worker>>

-----------------------------------------------------------------------------
WorkerStep(w) ==
    \/ Perform(w) \/ Find(w) \/ Void(w) \/ Evaluate(w) \/ RecordDecision(w)
    \/ LeaveRollback(w)
    \/ LookUpChange(w) \/ OpenChange(w) \/ NoteChange(w) \/ DenyUnbacked(w)
    \/ AskApproval(w) \/ CheckExpiry(w) \/ Park(w)
    \/ ReadSwitch(w) \/ Authorise(w)
    \/ Redeem(w) \/ WriteAnswered(w) \/ RecordExecuted(w)
    \/ Verify(w) \/ RollBack(w) \/ RedeemUndo(w) \/ UndoAnswered(w)
    \/ Settle(w) \/ Report(w) \/ ReportError(w)

Person(a) == \E p \in People, yes \in BOOLEAN : Decide(a, p, yes) \/ Collect(a, p, yes)

Next ==
    \/ \E w \in Workers : WorkerStep(w) \/ InfraError(w) \/ Crash(w)
    \/ \E a \in Actions : Person(a) \/ Sweep(a) \/ ExpiryPasses(a) \/ ValidityPasses(a)
    \/ Throw

Spec == Init /\ [][Next]_vars

-----------------------------------------------------------------------------
(* Safety.  Only OneChangePerCall needs attempts to be one at a time.      *)

\* The same write leaves at most once for the incident, whichever step and
\* whichever attempt sends it: through crashes, lost answers and a second
\* attempt beside the first (uq_actions_once_per_incident, the grant).
AtMostOnce == \A a, b \in Actions :
    /\ sent[a] <= 1
    /\ a # b /\ CallOf[a] = CallOf[b] => sent[a] = 0 \/ sent[b] = 0

\* A rollback leaves at most once, and never while the write it undoes can
\* still leave (_authorise_rollback, the interrupted branch of _verify_and_finish).
RollbackFollowsWrite == \A a \in Actions :
    /\ undone[a] <= 1
    /\ undone[a] = 1 => \A w \in Workers :
        worker[w].act = a => worker[w].pc \notin {"redeeming", "writing"}

\* Whatever became of the row since, a write that left had been allowed by
\* policy at T1, or approved by a person who for T2 is not the SOP's author;
\* and a change record was open.
Permitted(r) ==
    \/ r.verdict = "allow" /\ r.tier = "T1"
    \/ /\ r.verdict = "require_approval" /\ r.approver \in People
       /\ r.tier = "T2" => Author # NoOne /\ r.approver # Author
SentWasPermitted == \A a \in Actions :
    sent[a] > 0 => Permitted(row[a]) /\ row[a].change /\ changes[CallOf[a]] > 0

\* When the record says that nothing was changed, nothing was sent and no
\* attempt can still send it.
NothingWasChanged == \A a \in Actions :
    row[a].status \in NotMade =>
        /\ sent[a] = 0 /\ undone[a] = 0
        /\ \A w \in Workers : worker[w].act = a => worker[w].pc # "redeeming"

\* What the journal tells the engine is what the record says: a step counts
\* as passed, skipped or not done only if its row ended so.
ReportIsTheRecord == \A a \in Actions :
    /\ told[a] = "success" => row[a].status = "verified"
    /\ told[a] = "skip" => row[a].status = "shadowed"
    /\ told[a] = "fail" => row[a].status = "not_done"

\* A finished row is never moved again, by no late attempt, approval, expiry or
\* sweep; and its decision stays as it was.
FinalStands == [][\A a \in Actions : row[a].status \in Final =>
    /\ row'[a].status = row[a].status
    /\ row'[a].approver = row[a].approver /\ row'[a].unknown = row[a].unknown]_vars

\* One change record for a call, though attempts die between opening it and
\* noting it.
OneChangePerCall ==
    faults.stalls = 0 => \A c \in Calls : changes[c] <= 1

-----------------------------------------------------------------------------
(* The abstract specification                                              *)

Stage(r) ==
    IF r.status \in {"none", "pending"} THEN "open"
    ELSE IF r.status \in Ready THEN "permitted"
    ELSE IF r.status \in Acting THEN "begun"
    ELSE IF r.status \in NotMade THEN "refused"
    ELSE "closed"

Permit == INSTANCE WritePermit WITH
    stage <- [a \in Actions |-> Stage(row[a])]

\* However attempts crash, stall and race, a write keeps WritePermit's promise.
ImplementsPermit == Permit!Spec

-----------------------------------------------------------------------------
(* What documentation and comments say                                     *)

\* docs/adr/0008: "A run that meets the switch ends `ABORTED`".
SwitchMeansAborted == \A w \in Workers :
    At(w, "reporting") /\ worker[w].stopped => worker[w].seen = "aborted"

\* _final: "The step result for an action that has finished, from its record
\* alone."
ReportsFinished == \A w \in Workers :
    At(w, "reporting") => worker[w].seen \in Final
=============================================================================
