------------------------- MODULE ActionPipelineProofs -------------------------
(***************************************************************************)
(* Proofs about ActionPipeline for every number of actions, workers and    *)
(* faults.  Typing first; then who may still send or undo a write, which   *)
(* gives the safety of the writes; then what a decision permits.           *)
(***************************************************************************)
EXTENDS ActionPipeline, TLAPS

-----------------------------------------------------------------------------
(* Typing                                                                  *)

USE DEF At

RowsTyped == row \in [Actions -> Row]

CountsTyped ==
    /\ told \in [Actions -> StepStatus]
    /\ changes \in [Calls -> Nat]
    /\ sent \in [Actions -> Nat]
    /\ undone \in [Actions -> Nat]
    /\ kill \in BOOLEAN

\* What TypeOK says of each worker.
WorkersTyped ==
    /\ worker \in [Workers -> Worker]
    /\ \A w \in Workers : worker[w].pc # "idle" => worker[w].act \in Actions

FaultsTyped ==
    faults \in [crashes: 0..MaxCrashes, stalls: 0..MaxStalls, errors: 0..MaxErrors,
                flips: 0..MaxFlips]

LEMMA TypeOKParts == TypeOK <=> RowsTyped /\ CountsTyped /\ WorkersTyped /\ FaultsTyped
  BY DEF TypeOK, RowsTyped, CountsTyped, WorkersTyped, FaultsTyped

LEMMA TypeOKNext ==
    ASSUME RowsTyped', CountsTyped', WorkersTyped', FaultsTyped'
    PROVE  TypeOK'
  BY DEF TypeOK, RowsTyped, CountsTyped, WorkersTyped, FaultsTyped

LEMMA FinalStatuses == Final \subseteq Statuses /\ "none" \notin Statuses
  BY DEF Final, NotMade, Statuses, Waiting, Acting

LEMMA NoRowTyped == NoRow \in Row
  BY DEF NoRow, Row, Verdicts, Tiers

LEMMA IdleTyped == Idle \in Worker
  BY DEF Idle, Worker, Pcs, Statuses, Verdicts, Tiers, Final, NotMade

LEMMA MovedTyped ==
    ASSUME NEW r \in Row, NEW s \in Statuses, NEW u \in BOOLEAN
    PROVE  Moved(r, s, u) \in Row
  BY DEF Moved, Row

LEMMA InitTyped == Init => TypeOK
<1> SUFFICES ASSUME Init PROVE TypeOK
  OBVIOUS
<1>1. RowsTyped
  BY NoRowTyped DEF Init, RowsTyped
<1>2. CountsTyped
  BY DEF Init, CountsTyped, StepStatus
<1>3. WorkersTyped
  BY IdleTyped DEF Init, WorkersTyped, Idle
<1>4. FaultsTyped
  BY CountsAssumption DEF Init, FaultsTyped
<1> QED
  BY <1>1, <1>2, <1>3, <1>4, TypeOKParts

\* The updates the actions are built from.
LEMMA MovesTyped ==
    ASSUME RowsTyped, NEW w \in Workers, worker[w].act \in Actions, NEW from,
           NEW s \in Statuses, NEW u \in BOOLEAN, Moves(w, from, s, u)
    PROVE  RowsTyped'
<1>1. Moved(row[worker[w].act], s, u) \in Row
  BY MovedTyped DEF RowsTyped
<1> QED
  BY <1>1 DEF RowsTyped, Moves

LEMMA WorkerTyped ==
    ASSUME WorkersTyped, NEW w \in Workers, NEW u \in Worker, u.pc # "idle" => u.act \in Actions,
           worker' = [worker EXCEPT ![w] = u]
    PROVE  WorkersTyped'
  BY DEF WorkersTyped

LEMMA GotoTyped ==
    ASSUME WorkersTyped, NEW w \in Workers, worker[w].act \in Actions, NEW pc \in Pcs, Goto(w, pc)
    PROVE  WorkersTyped'
  BY DEF WorkersTyped, Goto, Worker

LEMMA SettlingTyped ==
    ASSUME WorkersTyped, NEW w \in Workers, worker[w].act \in Actions, NEW s \in Final,
           Settling(w, s)
    PROVE  WorkersTyped'
<1> DEFINE u == [worker[w] EXCEPT !.pc = "settling", !.to = s]
<1>1. "settling" \in Pcs
  BY DEF Pcs
<1>2. u \in Worker /\ u.act = worker[w].act
  BY <1>1 DEF WorkersTyped, Worker
<1>3. worker' = [worker EXCEPT ![w] = u]
  BY DEF Settling
<1> HIDE DEF u
<1> QED
  BY <1>2, <1>3, WorkerTyped

LEMMA ReadsTyped ==
    ASSUME WorkersTyped, NEW w \in Workers, worker[w].act \in Actions, NEW pc \in Pcs,
           NEW r \in Row, Reads(w, pc, r)
    PROVE  WorkersTyped'
<1> DEFINE u == [Idle EXCEPT !.pc = pc, !.act = worker[w].act, !.stopped = worker[w].stopped,
                             !.seen = r.status, !.unknown = r.unknown]
<1>1. worker[w].stopped \in BOOLEAN /\ r.status \in Statuses \cup {"none"} /\ r.unknown \in BOOLEAN
  BY DEF WorkersTyped, Worker, Row
<1>2. u \in Worker /\ u.act = worker[w].act
  BY <1>1, IdleTyped DEF Worker
<1>3. worker' = [worker EXCEPT ![w] = u]
  BY DEF Reads
<1> HIDE DEF u
<1> QED
  BY <1>2, <1>3, WorkerTyped

LEMMA RestTyped ==
    ASSUME WorkersTyped, NEW w \in Workers, Rest(w)
    PROVE  WorkersTyped'
<1>1. Idle.pc = "idle"
  BY DEF Idle
<1> QED
  BY <1>1, IdleTyped, WorkerTyped DEF Rest

LEMMA NextPcTyped == ASSUME NEW r PROVE NextPc(r) \in Pcs
<1>1. NextPc(r) \in {"lookup", "checking", "asking", "switch", "verifying", "leaving", "reporting"}
  BY DEF NextPc
<1> QED
  BY <1>1 DEF Pcs

LEMMA ContinueTyped ==
    ASSUME WorkersTyped, NEW w \in Workers, worker[w].act \in Actions, NEW r \in Row,
           Continue(w, r)
    PROVE  WorkersTyped'
  BY NextPcTyped, ReadsTyped DEF Continue

LEMMA FinishTyped ==
    ASSUME RowsTyped, WorkersTyped, NEW w \in Workers, worker[w].act \in Actions, NEW from,
           NEW s \in Statuses, NEW u \in BOOLEAN, Finish(w, from, s, u)
    PROVE  RowsTyped' /\ WorkersTyped'
<1>1. RowsTyped'
  BY MovesTyped DEF Finish
<1>2. row'[worker[w].act] \in Row /\ "reporting" \in Pcs
  BY <1>1 DEF RowsTyped, Pcs
<1> QED
  BY <1>1, <1>2, ReadsTyped DEF Finish

LEMMA CountTyped ==
    ASSUME FaultsTyped,
           \/ UNCHANGED faults
           \/ Count(MaxCrashes, "crashes") \/ Count(MaxStalls, "stalls")
           \/ Count(MaxErrors, "errors") \/ Count(MaxFlips, "flips")
    PROVE  FaultsTyped'
  BY CountsAssumption DEF FaultsTyped, Count

LEMMA WorkerStepTyped ==
    ASSUME TypeOK, NEW w \in Workers, WorkerStep(w)
    PROVE  TypeOK'
<1> DEFINE a == worker[w].act
<1> USE TypeOKParts, TypeOKNext
<1>a. worker[w].pc # "idle" => a \in Actions /\ row[a] \in Row
  BY DEF WorkersTyped, RowsTyped
<1>b. {"voiding", "deciding", "recording", "opening", "noting", "denying", "checking",
       "authorising", "redeeming", "writing", "written", "verifying", "rollback",
       "redeem_undo", "undoing", "raised", "finding", "parking"} \subseteq Pcs
  BY DEF Pcs
<1>c. /\ {"verified", "failed", "rolled_back", "rollback_failed", "aborted", "invalid",
           "not_done", "denied", "expired"} \subseteq Final
      /\ {"executing", "executed", "rolling_back"} \subseteq Statuses
      /\ Final \subseteq Statuses
  BY DEF Final, NotMade, Statuses, Waiting, Acting
<1>d. ASSUME NEW r \in Row, worker[w].act \in Actions, row' = [row EXCEPT ![a] = r]
      PROVE  RowsTyped' /\ row'[a] = r
  BY <1>d DEF RowsTyped
<1> HIDE DEF a
<1>1. CASE Perform(w)
  <2> PICK b \in Actions : worker' = [worker EXCEPT ![w] = [Idle EXCEPT !.pc = "finding", !.act = b]]
    BY <1>1 DEF Perform
  <2>1. [Idle EXCEPT !.pc = "finding", !.act = b] \in Worker
    BY <1>b, IdleTyped DEF Worker
  <2>2. WorkersTyped'
    BY <2>1, WorkerTyped DEF Idle
  <2>3. FaultsTyped'
    BY <1>1, CountTyped DEF Perform
  <2> QED
    BY <1>1, <2>2, <2>3 DEF Perform, RowsTyped, CountsTyped
<1>2. CASE Find(w)
  <2>1. WorkersTyped'
    BY <1>2, <1>a, <1>b, GotoTyped, ContinueTyped, ReadsTyped DEF Find, a
  <2> QED
    BY <1>2, <2>1 DEF Find, RowsTyped, CountsTyped, FaultsTyped
<1>3. CASE Void(w)
  <2>1. RowsTyped' /\ row'[a] \in Row
    BY <1>3, <1>a, <1>c, MovesTyped DEF Void, RowsTyped, a
  <2>2. WorkersTyped'
    BY <1>3, <1>a, <2>1, ContinueTyped DEF Void, a
  <2> QED
    BY <1>3, <2>1, <2>2 DEF Void, CountsTyped, FaultsTyped
<1>4. CASE Evaluate(w)
  <2> PICK v \in Verdicts, t \in Tiers :
        worker' = [worker EXCEPT ![w] = [@ EXCEPT !.pc = "recording", !.verdict = v, !.tier = t]]
    BY <1>4 DEF Evaluate
  <2> DEFINE u == [worker[w] EXCEPT !.pc = "recording", !.verdict = v, !.tier = t]
  <2>1. u \in Worker /\ u.act = a
    BY <1>b DEF WorkersTyped, Worker, a
  <2>2. WorkersTyped'
    BY <1>4, <1>a, <2>1, WorkerTyped DEF Evaluate
  <2> QED
    BY <1>4, <2>2 DEF Evaluate, RowsTyped, CountsTyped, FaultsTyped
<1>5. CASE RecordDecision(w)
  <2>0. a \in Actions /\ row[a] \in Row
    BY <1>5, <1>a DEF RecordDecision
  <2> DEFINE v == worker[w].verdict
             r == [NoRow EXCEPT !.status = VerdictStatus[v], !.verdict = v, !.tier = worker[w].tier]
  <2>1. r \in Row
    <3>1. v \in Verdicts /\ worker[w].tier \in Tiers
      BY DEF WorkersTyped, Worker
    <3>2. VerdictStatus[v] \in Statuses
      BY <3>1 DEF VerdictStatus, Verdicts, Statuses, Waiting, Acting, Final, NotMade
    <3> QED
      BY <3>1, <3>2, NoRowTyped DEF Row
  <2>2. RowsTyped' /\ row'[a] \in Row
    <3>1. row' = [row EXCEPT ![a] = r] \/ row' = row
      BY <1>5 DEF RecordDecision, a
    <3> HIDE DEF r
    <3> QED
      BY <2>0, <2>1, <3>1 DEF RowsTyped
  <2>3. WorkersTyped'
    BY <1>5, <2>0, <2>2, ContinueTyped DEF RecordDecision, a
  <2> QED
    BY <1>5, <2>2, <2>3 DEF RecordDecision, CountsTyped, FaultsTyped
<1>6. CASE LeaveRollback(w)
  BY <1>6, <1>a, <1>c, FinishTyped DEF LeaveRollback, CountsTyped, FaultsTyped, a
<1>7. CASE LookUpChange(w)
  <2>1. WorkersTyped'
    BY <1>7, <1>a, <1>b, GotoTyped DEF LookUpChange, a
  <2> QED
    BY <1>7, <2>1 DEF LookUpChange, RowsTyped, CountsTyped, FaultsTyped
<1>8. CASE OpenChange(w)
  <2>1. WorkersTyped'
    BY <1>8, <1>a, <1>b, GotoTyped DEF OpenChange, a
  <2>2. changes' \in [Calls -> Nat]
    BY <1>8 DEF OpenChange, CountsTyped
  <2> QED
    BY <1>8, <2>1, <2>2 DEF OpenChange, RowsTyped, CountsTyped, FaultsTyped
<1>9. CASE NoteChange(w)
  <2>1. a \in Actions /\ [row[a] EXCEPT !.change = TRUE] \in Row
    BY <1>9, <1>a DEF NoteChange, Row
  <2>2. RowsTyped' /\ row'[a] \in Row
    BY <1>9, <1>d, <2>1 DEF NoteChange, a
  <2>3. WorkersTyped'
    BY <1>9, <2>1, <2>2, ContinueTyped DEF NoteChange, a
  <2> QED
    BY <1>9, <2>2, <2>3 DEF NoteChange, CountsTyped, FaultsTyped
<1>10. CASE DenyUnbacked(w)
  <2>1. a \in Actions /\ [Moved(row[a], "denied", FALSE) EXCEPT !.verdict = "deny"] \in Row
    <3>1. a \in Actions /\ Moved(row[a], "denied", FALSE) \in Row /\ "deny" \in Verdicts
      BY <1>10, <1>a, <1>c, MovedTyped DEF DenyUnbacked, Verdicts
    <3> QED
      BY <3>1 DEF Row
  <2>2. RowsTyped' /\ row'[a] \in Row
    <3> HIDE DEF Moved
    <3> QED
      BY <1>10, <1>a, <2>1 DEF DenyUnbacked, RowsTyped, a
  <2>3. WorkersTyped'
    BY <1>10, <2>1, <2>2, ContinueTyped DEF DenyUnbacked, a
  <2> QED
    BY <1>10, <2>2, <2>3 DEF DenyUnbacked, CountsTyped, FaultsTyped
<1>11. CASE AskApproval(w)
  <2>1. a \in Actions /\ [row[a] EXCEPT !.asked = TRUE] \in Row
    BY <1>11, <1>a DEF AskApproval, Row
  <2>2. RowsTyped' /\ row'[a] \in Row
    BY <1>11, <1>d, <2>1 DEF AskApproval, a
  <2>3. WorkersTyped'
    BY <1>11, <1>b, <2>1, <2>2, ReadsTyped, ContinueTyped DEF AskApproval, a
  <2> QED
    BY <1>11, <2>2, <2>3 DEF AskApproval, CountsTyped, FaultsTyped
<1>12. CASE CheckExpiry(w)
  <2>1. RowsTyped' /\ row'[a] \in Row /\ a \in Actions
    BY <1>12, <1>a, <1>c, MovesTyped DEF CheckExpiry, RowsTyped, a
  <2>2. WorkersTyped'
    BY <1>12, <1>a, <1>b, <2>1, ContinueTyped, GotoTyped DEF CheckExpiry, a
  <2> QED
    BY <1>12, <2>1, <2>2 DEF CheckExpiry, CountsTyped, FaultsTyped
<1>13. CASE ReadSwitch(w)
  <2>1. WorkersTyped'
    BY <1>13, <1>a, <1>b, <1>c, GotoTyped, SettlingTyped DEF ReadSwitch, a
  <2> QED
    BY <1>13, <2>1 DEF ReadSwitch, RowsTyped, CountsTyped, FaultsTyped
<1>14. CASE Authorise(w)
  <2>0. a \in Actions /\ row[a] \in Row
    BY <1>14, <1>a DEF Authorise
  <2>1. CASE UNCHANGED row /\ \E s \in {"aborted", "invalid", "not_done"} : Settling(w, s)
    <3>1. WorkersTyped'
      BY <1>c, <2>0, <2>1, SettlingTyped DEF a
    <3> QED
      BY <1>14, <2>1, <3>1 DEF Authorise, RowsTyped, CountsTyped, FaultsTyped
  <2>2. CASE /\ row' = [row EXCEPT ![a] = [@ EXCEPT !.status = "executing", !.started = TRUE]]
             /\ Reads(w, "redeeming", row'[a])
    <3>1. [row[a] EXCEPT !.status = "executing", !.started = TRUE] \in Row
      BY <1>c, <2>0 DEF Row
    <3>2. RowsTyped' /\ row'[a] \in Row
      BY <1>d, <2>0, <2>2, <3>1 DEF a
    <3>3. WorkersTyped'
      BY <1>b, <2>0, <2>2, <3>2, ReadsTyped DEF a
    <3> QED
      BY <1>14, <3>2, <3>3 DEF Authorise, CountsTyped, FaultsTyped
  <2> QED
    BY <1>14, <2>1, <2>2 DEF Authorise, a
<1>15. CASE Redeem(w)
  <2>0. a \in Actions
    BY <1>15, <1>a DEF Redeem
  <2>1. WorkersTyped'
    <3>1. CASE Goto(w, "writing")
      BY <1>b, <2>0, <3>1, GotoTyped DEF a
    <3>2. CASE worker' = [worker EXCEPT ![w] = [@ EXCEPT !.pc = "rollback", !.stopped = kill]]
      <4> DEFINE u == [worker[w] EXCEPT !.pc = "rollback", !.stopped = kill]
      <4>1. u \in Worker /\ u.act = a
        BY <1>b DEF WorkersTyped, Worker, CountsTyped, a
      <4> QED
        BY <2>0, <3>2, <4>1, WorkerTyped
    <3> QED
      BY <1>15, <3>1, <3>2 DEF Redeem
  <2>2. sent' \in [Actions -> Nat]
    BY <1>15, <2>0 DEF Redeem, CountsTyped, a
  <2> QED
    BY <1>15, <2>1, <2>2 DEF Redeem, RowsTyped, CountsTyped, FaultsTyped
<1>16. CASE WriteAnswered(w)
  <2>1. WorkersTyped'
    BY <1>16, <1>a, <1>b, GotoTyped DEF WriteAnswered, a
  <2> QED
    BY <1>16, <2>1 DEF WriteAnswered, RowsTyped, CountsTyped, FaultsTyped
<1>17. CASE RecordExecuted(w)
  <2>0. a \in Actions /\ Moved(row[a], "executed", FALSE) \in Row
    BY <1>17, <1>a, <1>c, MovedTyped DEF RecordExecuted
  <2>1. CASE row' = [row EXCEPT ![a] = Moved(@, "executed", FALSE)] /\ Reads(w, "verifying", row'[a])
    <3>1. RowsTyped' /\ row'[a] \in Row
      BY <1>d, <2>0, <2>1 DEF a
    <3>2. WorkersTyped'
      BY <1>b, <2>0, <2>1, <3>1, ReadsTyped DEF a
    <3> QED
      BY <1>17, <3>1, <3>2 DEF RecordExecuted, CountsTyped, FaultsTyped
  <2>2. CASE Goto(w, "raised") /\ UNCHANGED row
    <3>1. WorkersTyped'
      BY <1>b, <2>0, <2>2, GotoTyped DEF a
    <3> QED
      BY <1>17, <2>2, <3>1 DEF RecordExecuted, RowsTyped, CountsTyped, FaultsTyped
  <2> QED
    BY <1>17, <2>1, <2>2 DEF RecordExecuted, a
<1>18. CASE Verify(w)
  <2>0. a \in Actions
    BY <1>18, <1>a DEF Verify
  <2>1. RowsTyped' /\ WorkersTyped'
    BY <1>18, <1>b, <1>c, <2>0, FinishTyped, GotoTyped DEF Verify, RowsTyped, a
  <2> QED
    BY <1>18, <2>1 DEF Verify, CountsTyped, FaultsTyped
<1>19. CASE RollBack(w)
  <2>0. a \in Actions /\ Moved(row[a], "rolling_back", FALSE) \in Row
    BY <1>19, <1>a, <1>c, MovedTyped DEF RollBack
  <2>1. CASE Finish(w, Acting, "failed", FALSE)
    BY <1>19, <1>c, <2>0, <2>1, FinishTyped DEF RollBack, CountsTyped, FaultsTyped, a
  <2>2. CASE row' = [row EXCEPT ![a] = Moved(@, "rolling_back", FALSE)] /\ Goto(w, "redeem_undo")
    <3>1. RowsTyped'
      BY <1>d, <2>0, <2>2 DEF a
    <3>2. WorkersTyped'
      BY <1>b, <2>0, <2>2, GotoTyped DEF a
    <3> QED
      BY <1>19, <3>1, <3>2 DEF RollBack, CountsTyped, FaultsTyped
  <2>3. CASE Settling(w, "rollback_failed") /\ UNCHANGED row
    <3>1. WorkersTyped'
      BY <1>c, <2>0, <2>3, SettlingTyped DEF a
    <3> QED
      BY <1>19, <2>3, <3>1 DEF RollBack, RowsTyped, CountsTyped, FaultsTyped
  <2> QED
    BY <1>19, <2>1, <2>2, <2>3 DEF RollBack, a
<1>20. CASE RedeemUndo(w)
  <2>0. a \in Actions
    BY <1>20, <1>a DEF RedeemUndo
  <2>1. WorkersTyped'
    BY <1>20, <1>b, <1>c, <2>0, GotoTyped, SettlingTyped DEF RedeemUndo, a
  <2>2. undone' \in [Actions -> Nat]
    BY <1>20, <2>0 DEF RedeemUndo, CountsTyped, a
  <2> QED
    BY <1>20, <2>1, <2>2 DEF RedeemUndo, RowsTyped, CountsTyped, FaultsTyped
<1>21. CASE UndoAnswered(w)
  <2>1. WorkersTyped'
    BY <1>21, <1>a, <1>c, SettlingTyped DEF UndoAnswered, a
  <2> QED
    BY <1>21, <2>1 DEF UndoAnswered, RowsTyped, CountsTyped, FaultsTyped
<1>22. CASE Settle(w)
  <2>1. a \in Actions /\ worker[w].to \in Statuses
    BY <1>22, <1>a, <1>c DEF Settle, WorkersTyped, Worker
  <2>2. RowsTyped' /\ WorkersTyped'
    BY <1>22, <2>1, FinishTyped DEF Settle, a
  <2> QED
    BY <1>22, <2>2 DEF Settle, CountsTyped, FaultsTyped
<1>23. CASE Report(w) \/ ReportError(w)
  <2>1. WorkersTyped'
    BY <1>23, RestTyped DEF Report, ReportError
  <2>2. Result(worker[w].seen, worker[w].unknown) \in StepStatus /\ "error" \in StepStatus
    BY DEF Result, StepStatus
  <2>3. told' \in [Actions -> StepStatus]
    BY <1>23, <2>2 DEF Report, ReportError, CountsTyped
  <2> QED
    BY <1>23, <2>1, <2>3 DEF Report, ReportError, RowsTyped, CountsTyped, FaultsTyped
<1>24. CASE Park(w)
  BY <1>24, RestTyped DEF Park, RowsTyped, CountsTyped, FaultsTyped
<1> QED
  BY <1>1, <1>2, <1>3, <1>4, <1>5, <1>6, <1>7, <1>8, <1>9, <1>10, <1>11, <1>12, <1>13, <1>14,
     <1>15, <1>16, <1>17, <1>18, <1>19, <1>20, <1>21, <1>22, <1>23, <1>24
  DEF WorkerStep

LEMMA NextTyped ==
    ASSUME TypeOK, [Next]_vars
    PROVE  TypeOK'
<1> USE TypeOKParts, TypeOKNext
<1>a. /\ {"approved", "rejected", "expired", "invalid"} \subseteq Statuses
      /\ \A a \in Actions : row[a] \in Row
  BY DEF Statuses, Waiting, Acting, Final, NotMade, RowsTyped
<1>b. ASSUME NEW a \in Actions, NEW r \in Row, row' = [row EXCEPT ![a] = r]
      PROVE  RowsTyped'
  BY <1>b DEF RowsTyped
<1>c. ASSUME NEW a \in Actions, NEW s \in {"expired", "invalid"},
             row' = [row EXCEPT ![a] = Moved(@, s, FALSE)]
      PROVE  RowsTyped'
  <2>1. Moved(row[a], s, FALSE) \in Row
    BY <1>a, MovedTyped
  <2> QED
    BY <1>b, <1>c, <2>1
<1>d. ASSUME NEW a \in Actions, NEW p \in People, NEW yes \in BOOLEAN, DecidedBy(a, p, yes)
      PROVE  RowsTyped'
  <2> DEFINE s == IF yes THEN "approved" ELSE "rejected"
  <2>1. s \in Statuses
    BY <1>a
  <2> HIDE DEF s
  <2>2. [row[a] EXCEPT !.status = s, !.approver = p] \in Row
    BY <1>a, <2>1 DEF Row
  <2>3. row' = [row EXCEPT ![a] = [@ EXCEPT !.status = s, !.approver = p]]
    BY <1>d DEF DecidedBy, s
  <2> QED
    BY <1>b, <2>2, <2>3
<1>1. ASSUME NEW w \in Workers, WorkerStep(w) PROVE TypeOK'
  BY <1>1, WorkerStepTyped
<1>2. ASSUME NEW w \in Workers, InfraError(w) PROVE TypeOK'
  <2>1. worker[w].act \in Actions /\ "raised" \in Pcs
    BY <1>2 DEF InfraError, Database, WorkersTyped, Pcs
  <2>2. WorkersTyped' /\ FaultsTyped'
    BY <1>2, <2>1, GotoTyped, RestTyped, CountTyped DEF InfraError
  <2> QED
    BY <1>2, <2>2 DEF InfraError, RowsTyped, CountsTyped
<1>3. ASSUME NEW w \in Workers, Crash(w) PROVE TypeOK'
  <2>1. WorkersTyped' /\ FaultsTyped'
    BY <1>3, RestTyped, CountTyped DEF Crash
  <2> QED
    BY <1>3, <2>1 DEF Crash, RowsTyped, CountsTyped
<1>4. ASSUME NEW a \in Actions, NEW p \in People, NEW yes \in BOOLEAN,
             Decide(a, p, yes) \/ Collect(a, p, yes)
      PROVE  TypeOK'
  <2>1. RowsTyped'
    BY <1>4, <1>c, <1>d DEF Decide, Collect
  <2> QED
    BY <1>4, <2>1 DEF Decide, Collect, CountsTyped, WorkersTyped, FaultsTyped
<1>5. ASSUME NEW a \in Actions, Sweep(a) PROVE TypeOK'
  <2>1. RowsTyped'
    BY <1>5, <1>c DEF Sweep
  <2> QED
    BY <1>5, <2>1 DEF Sweep, CountsTyped, WorkersTyped, FaultsTyped
<1>6. ASSUME NEW a \in Actions, ExpiryPasses(a) \/ ValidityPasses(a) PROVE TypeOK'
  <2>1. [row[a] EXCEPT !.late = TRUE] \in Row /\ [row[a] EXCEPT !.stale = TRUE] \in Row
    BY <1>a DEF Row
  <2>2. RowsTyped'
    BY <1>6, <1>b, <2>1 DEF ExpiryPasses, ValidityPasses
  <2> QED
    BY <1>6, <2>2 DEF ExpiryPasses, ValidityPasses, CountsTyped, WorkersTyped, FaultsTyped
<1>7. CASE Throw
  <2>1. FaultsTyped'
    BY <1>7, CountTyped DEF Throw
  <2> QED
    BY <1>7, <2>1 DEF Throw, RowsTyped, CountsTyped, WorkersTyped
<1>8. CASE UNCHANGED vars
  BY <1>8 DEF vars, RowsTyped, CountsTyped, WorkersTyped, FaultsTyped
<1> QED
  BY <1>1, <1>2, <1>3, <1>4, <1>5, <1>6, <1>7, <1>8 DEF Next, Person

\* Every state of every execution is well typed: a row holds only statuses the
\* table knows, and a worker that is at work is at work on an action of the run.
THEOREM TypeCorrect == Spec => []TypeOK
  BY InitTyped, NextTyped, PTL DEF Spec

=============================================================================
