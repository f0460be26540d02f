---------------------- MODULE ActionPipelineDecisionProofs ----------------------
(***************************************************************************)
(* The decisions of ActionPipeline, for every number of actions, workers   *)
(* and faults: that a finished row stands (FinalStands), that what was     *)
(* sent was permitted (SentWasPermitted), that what the engine is told is  *)
(* what the row says (ReportIsTheRecord), and that a call has one change   *)
(* record (OneChangePerCall).                                              *)
(***************************************************************************)
EXTENDS ActionPipelineWriteProofs

USE DEF At

-----------------------------------------------------------------------------
(* The invariant                                                           *)

\* What a row may count on.
Sound(a) ==
    /\ row[a].status = "pending" => row[a].verdict = "require_approval"
    /\ row[a].status = "allowed" => row[a].verdict = "allow" /\ row[a].tier = "T1"
    /\ row[a].status = "approved" => Permitted(row[a])
    /\ row[a].started => Permitted(row[a]) /\ row[a].change
    /\ row[a].change => changes[CallOf[a]] > 0

\* What an attempt may count on.
Backed(w) == LET u == worker[w]
                 a == worker[w].act IN
    /\ u.pc = "recording" /\ u.verdict = "allow" => u.tier = "T1"
    /\ u.pc = "noting" => changes[CallOf[a]] > 0
    /\ u.pc \in {"switch", "authorising"} => row[a].change
    /\ u.pc = "reporting" /\ u.seen \in Final => row[a].status = u.seen

DecidedInv ==
    /\ WriteInv
    /\ \A a \in Actions : Sound(a)
    /\ \A w \in Workers : Backed(w)

-----------------------------------------------------------------------------
(* What a step does to a row, and to the place of an attempt               *)

SameDecision(r, q) == q.verdict = r.verdict /\ q.tier = r.tier /\ q.approver = r.approver

\* Its change record, its request or its clocks are noted.
Noted(a, r, q) ==
    /\ SameDecision(r, q)
    /\ q.status = r.status /\ q.started = r.started /\ q.unknown = r.unknown
    /\ r.change => q.change
    /\ q.change => r.change \/ changes[CallOf[a]] > 0

\* It is moved on, after the decision.
MovedOn(r, q) ==
    /\ SameDecision(r, q)
    /\ r.status \notin Final /\ q.status \notin Waiting \cup {"none"}
    /\ q.started = r.started /\ q.change = r.change

\* The policy's decision is recorded.
Ruled(r, q) ==
    /\ r.status = "none" /\ ~q.change /\ ~q.started /\ q.status # "approved"
    /\ q.status = "pending" => q.verdict = "require_approval"
    /\ q.status = "allowed" => q.verdict = "allow" /\ q.tier = "T1"

Denied(r, q) ==
    r.status \in Waiting /\ q.status = "denied" /\ q.started = r.started /\ q.change = r.change

\* A person decides.
Decided(r, q) ==
    /\ r.status = "pending" /\ q.status \in {"approved", "rejected"}
    /\ q.verdict = r.verdict /\ q.tier = r.tier
    /\ q.started = r.started /\ q.change = r.change
    /\ q.approver \in People
    /\ q.status = "approved" /\ q.tier = "T2" => Author # NoOne /\ q.approver # Author

Authorised(r, q) ==
    /\ r.status \in Ready /\ r.change
    /\ q.status = "executing" /\ q.started /\ q.change
    /\ SameDecision(r, q)

RowStep(a) == LET r == row[a]
                  q == row'[a] IN
    /\ SameRows(a)
    /\ \/ Noted(a, r, q) \/ MovedOn(r, q) \/ Ruled(r, q) \/ Denied(r, q) \/ Decided(r, q)
       \/ Authorised(r, q)

\* The worker has come to a place with what Backed asks for there.
Comes(w) == SameOthers(w) /\ Backed(w)'

ChangesKept == \A c \in Calls : changes[c] > 0 => changes'[c] > 0

Traced ==
    /\ ChangesKept
    /\ UNCHANGED row \/ \E a \in Actions : RowStep(a)
    /\ UNCHANGED worker \/ \E w \in Workers : Comes(w)

-----------------------------------------------------------------------------
(* Every step does                                                         *)

LEMMA MovedKeeps ==
    ASSUME NEW r \in Row, NEW s, NEW u \in BOOLEAN
    PROVE  /\ SameDecision(r, Moved(r, s, u))
           /\ Moved(r, s, u).status = s /\ Moved(r, s, u).started = r.started
           /\ Moved(r, s, u).change = r.change
  BY DEF Moved, Row, SameDecision

LEMMA MoveTraced ==
    ASSUME RowsTyped, NEW a \in Actions, row[a].status \notin Final, NEW s, NEW u \in BOOLEAN,
           s \notin Waiting \cup {"none"}, row' = [row EXCEPT ![a] = Moved(@, s, u)]
    PROVE  RowStep(a)
<1> DEFINE q == Moved(row[a], s, u)
<1>1. MovedOn(row[a], q)
  BY MovedKeeps DEF MovedOn, RowsTyped
<1>2. row' = [row EXCEPT ![a] = q]
  OBVIOUS
<1> HIDE DEF q
<1> QED
  BY <1>1, <1>2 DEF RowStep, RowsTyped, SameRows

LEMMA MovesTraced ==
    ASSUME RowsTyped, NEW w \in Workers, worker[w].act \in Actions, NEW from,
           from \cap Final = {}, NEW s, NEW u \in BOOLEAN, s \notin Waiting \cup {"none"},
           Moves(w, from, s, u)
    PROVE  UNCHANGED row \/ RowStep(worker[w].act)
<1> DEFINE a == worker[w].act
<1>1. CASE row[a].status \in from
  <2>1. row' = [row EXCEPT ![a] = Moved(@, s, u)]
    BY <1>1 DEF Moves
  <2> QED
    BY <1>1, <2>1, MoveTraced
<1>2. CASE row[a].status \notin from
  BY <1>2 DEF Moves, RowsTyped
<1> QED
  BY <1>1, <1>2

LEMMA ReadsComes ==
    ASSUME WorkersTyped, NEW w \in Workers, NEW pc, Reads(w, pc, row'[worker[w].act]),
           pc \notin {"recording", "noting", "switch", "authorising"}
    PROVE  Comes(w)
<1>1. /\ SameOthers(w) /\ worker'[w].pc = pc /\ worker'[w].act = worker[w].act
      /\ worker'[w].seen = row'[worker[w].act].status
  BY ReadsGives
<1> QED
  BY <1>1 DEF Comes, Backed

LEMMA ContinueComes ==
    ASSUME WorkersTyped, NEW w \in Workers, Continue(w, row'[worker[w].act])
    PROVE  Comes(w)
<1> DEFINE q == row'[worker[w].act]
<1>1. /\ SameOthers(w) /\ worker'[w].pc = NextPc(q) /\ worker'[w].act = worker[w].act
      /\ worker'[w].seen = q.status
  BY ReadsGives DEF Continue
<1>2. /\ NextPc(q) \notin {"recording", "noting", "authorising"}
      /\ NextPc(q) = "switch" => q.change
  BY DEF NextPc
<1> QED
  BY <1>1, <1>2 DEF Comes, Backed

LEMMA GotoComes ==
    ASSUME WorkersTyped, NEW w \in Workers, NEW pc, Goto(w, pc),
           pc \notin {"recording", "noting", "switch", "authorising", "reporting"}
    PROVE  Comes(w)
  BY GotoGives DEF Comes, Backed

LEMMA SettlingComes ==
    ASSUME WorkersTyped, NEW w \in Workers, NEW s, Settling(w, s)
    PROVE  Comes(w)
  BY SettlingGives DEF Comes, Backed

LEMMA RestComes ==
    ASSUME WorkersTyped, NEW w \in Workers, Rest(w)
    PROVE  Comes(w)
  BY RestGives DEF Comes, Backed

LEMMA FinishTraced ==
    ASSUME RowsTyped, WorkersTyped, NEW w \in Workers, worker[w].act \in Actions, NEW from,
           from \cap Final = {}, NEW s, NEW u \in BOOLEAN, s \notin Waiting \cup {"none"},
           Finish(w, from, s, u)
    PROVE  (UNCHANGED row \/ RowStep(worker[w].act)) /\ Comes(w)
<1>1. Moves(w, from, s, u) /\ Reads(w, "reporting", row'[worker[w].act])
  BY DEF Finish
<1> QED
  BY <1>1, MovesTraced, ReadsComes

LEMMA WorkerTraced ==
    ASSUME DecidedInv, TypeOK', NEW w \in Workers, WorkerStep(w)
    PROVE  Traced
<1> DEFINE a == worker[w].act
<1> USE TypeOKParts
<1>0. RowsTyped' /\ WorkersTyped /\ RowsTyped /\ CountsTyped
  BY DEF DecidedInv, WriteInv, TypeOK, RowsTyped
<1>a. worker[w].pc # "idle" => a \in Actions /\ row[a] \in Row
  BY <1>0 DEF WorkersTyped, RowsTyped
<1>b. Backed(w) /\ Placed(w)
  BY DEF DecidedInv, WriteInv, PlaceInv
<1>c. UNCHANGED changes => ChangesKept
  BY DEF ChangesKept
<1>n. /\ {"invalid", "expired", "verified", "failed", "executed", "rolling_back"} \cap (Waiting \cup {"none"}) = {}
      /\ Waiting \cap Final = {} /\ Acting \cap Final = {} /\ Ready \subseteq Waiting
      /\ Final \cap (Waiting \cup {"none"}) = {}
  BY DEF Waiting, Acting, Final, NotMade, Ready
<1>t. ASSUME UNCHANGED changes, Comes(w), UNCHANGED row \/ (a \in Actions /\ RowStep(a))
      PROVE  Traced
  BY <1>c, <1>t DEF Traced
<1>r. ASSUME a \in Actions, NEW q, row' = [row EXCEPT ![a] = q],
             \/ Noted(a, row[a], q) \/ MovedOn(row[a], q) \/ Ruled(row[a], q)
             \/ Denied(row[a], q) \/ Authorised(row[a], q)
      PROVE  RowStep(a)
  BY <1>0, <1>r DEF RowStep, RowsTyped, SameRows
<1> HIDE DEF a
<1>1. CASE Perform(w)
  <2> PICK b \in Actions : worker' = [worker EXCEPT ![w] = [Idle EXCEPT !.pc = "finding", !.act = b]]
    BY <1>1 DEF Perform
  <2>1. Comes(w)
    BY <1>0 DEF Comes, SameOthers, Backed, WorkersTyped, Idle
  <2> QED
    BY <1>1, <1>t, <2>1 DEF Perform
<1>2. CASE Find(w)
  <2>1. Comes(w)
    BY <1>0, <1>2, GotoComes, ContinueComes, ReadsComes DEF Find, a
  <2> QED
    BY <1>2, <1>t, <2>1 DEF Find
<1>3. CASE Void(w)
  <2>1. a \in Actions /\ (UNCHANGED row \/ RowStep(a))
    BY <1>0, <1>3, <1>a, <1>n, MovesTraced DEF Void, a
  <2>2. Comes(w)
    BY <1>0, <1>3, ContinueComes DEF Void, a
  <2> QED
    BY <1>3, <1>t, <2>1, <2>2 DEF Void
<1>4. CASE Evaluate(w)
  <2> PICK v \in Verdicts, t \in Tiers :
        /\ Permissible(v, t)
        /\ worker' = [worker EXCEPT ![w] = [@ EXCEPT !.pc = "recording", !.verdict = v, !.tier = t]]
    BY <1>4 DEF Evaluate
  <2>1. Comes(w)
    BY <1>0 DEF Comes, SameOthers, Backed, WorkersTyped, Worker, Permissible
  <2> QED
    BY <1>4, <1>t, <2>1 DEF Evaluate
<1>5. CASE RecordDecision(w)
  <2> DEFINE v == worker[w].verdict
             q == [NoRow EXCEPT !.status = VerdictStatus[v], !.verdict = v, !.tier = worker[w].tier]
  <2>0. /\ a \in Actions /\ row[a] \in Row /\ worker[w].pc = "recording"
        /\ row' = IF row[a].status = "none" THEN [row EXCEPT ![a] = q] ELSE row
    BY <1>5, <1>a DEF RecordDecision, a
  <2>1. row[a].status = "none" => Ruled(row[a], q)
    <3>1. v \in Verdicts /\ (v = "allow" => worker[w].tier = "T1")
      BY <1>0, <1>b, <2>0 DEF WorkersTyped, Worker, Backed
    <3>2. /\ q.verdict = v /\ q.tier = worker[w].tier /\ ~q.change /\ ~q.started
          /\ q.status = VerdictStatus[v]
      BY DEF NoRow
    <3>3. /\ VerdictStatus[v] # "approved"
          /\ VerdictStatus[v] = "pending" => v = "require_approval"
          /\ VerdictStatus[v] = "allowed" => v = "allow"
      BY <3>1 DEF VerdictStatus, Verdicts
    <3> QED
      BY <3>1, <3>2, <3>3 DEF Ruled
  <2> HIDE DEF q
  <2>2. UNCHANGED row \/ RowStep(a)
    BY <1>r, <2>0, <2>1
  <2>3. Comes(w)
    BY <1>0, <1>5, ContinueComes DEF RecordDecision, a
  <2> QED
    BY <1>5, <1>t, <2>0, <2>2, <2>3 DEF RecordDecision
<1>6. CASE LeaveRollback(w)
  <2>1. {"rolling_back"} \cap Final = {} /\ a \in Actions
    BY <1>6, <1>a DEF LeaveRollback, Final, NotMade
  <2> QED
    BY <1>0, <1>6, <1>n, <1>t, <2>1, FinishTraced DEF LeaveRollback, a
<1>7. CASE LookUpChange(w)
  <2>1. CASE changes[CallOf[a]] > 0 /\ Goto(w, "noting")
    <3>1. worker'[w].pc = "noting" /\ worker'[w].act = a /\ SameOthers(w)
      BY <1>0, <2>1, GotoGives DEF a
    <3> QED
      BY <1>7, <1>t, <2>1, <3>1 DEF LookUpChange, Comes, Backed
  <2>2. CASE Goto(w, "opening") \/ Goto(w, "denying")
    BY <1>0, <1>7, <1>t, <2>2, GotoComes DEF LookUpChange
  <2> QED
    BY <1>7, <2>1, <2>2 DEF LookUpChange, a
<1>8. CASE OpenChange(w)
  <2>0. UNCHANGED row /\ a \in Actions /\ CallOf[a] \in Calls
    BY <1>8, <1>a DEF OpenChange, Calls
  <2>1. CASE changes' = [changes EXCEPT ![CallOf[a]] = @ + 1] /\ Goto(w, "noting")
    <3>1. ChangesKept /\ changes'[CallOf[a]] > 0
      BY <1>0, <2>0, <2>1 DEF ChangesKept, CountsTyped
    <3>2. worker'[w].pc = "noting" /\ worker'[w].act = a /\ SameOthers(w)
      BY <1>0, <2>1, GotoGives DEF a
    <3> QED
      BY <2>0, <3>1, <3>2 DEF Traced, Comes, Backed
  <2>2. CASE changes' = [changes EXCEPT ![CallOf[a]] = @ + 1] /\ Goto(w, "denying")
    <3>1. ChangesKept
      BY <1>0, <2>0, <2>2 DEF ChangesKept, CountsTyped
    <3> QED
      BY <1>0, <2>0, <2>2, <3>1, GotoComes DEF Traced
  <2>3. CASE UNCHANGED changes /\ Goto(w, "denying")
    BY <1>0, <1>t, <2>0, <2>3, GotoComes
  <2> QED
    BY <1>8, <2>1, <2>2, <2>3 DEF OpenChange, a
<1>9. CASE NoteChange(w)
  <2>0. /\ a \in Actions /\ row[a] \in Row /\ worker[w].pc = "noting"
        /\ row' = [row EXCEPT ![a] = [@ EXCEPT !.change = TRUE]]
    BY <1>9, <1>a DEF NoteChange, a
  <2>1. Noted(a, row[a], [row[a] EXCEPT !.change = TRUE])
    BY <1>b, <2>0 DEF Noted, SameDecision, Backed, Row, a
  <2>2. RowStep(a)
    BY <1>r, <2>0, <2>1
  <2>3. Comes(w)
    BY <1>0, <1>9, ContinueComes DEF NoteChange, a
  <2> QED
    BY <1>9, <1>t, <2>0, <2>2, <2>3 DEF NoteChange
<1>10. CASE DenyUnbacked(w)
  <2> DEFINE q == [Moved(row[a], "denied", FALSE) EXCEPT !.verdict = "deny"]
  <2>0. /\ a \in Actions /\ row[a] \in Row
        /\ row' = [row EXCEPT ![a] = IF row[a].status \in Waiting THEN q ELSE row[a]]
    BY <1>10, <1>a DEF DenyUnbacked, a
  <2>1. q.status = "denied" /\ q.started = row[a].started /\ q.change = row[a].change
    BY <2>0 DEF Moved, Row
  <2> HIDE DEF q
  <2>2. CASE row[a].status \in Waiting
    <3>1. row' = [row EXCEPT ![a] = q] /\ Denied(row[a], q)
      BY <2>0, <2>1, <2>2 DEF Denied
    <3>2. RowStep(a)
      BY <1>r, <2>0, <3>1
    <3> QED
      BY <1>0, <1>10, <1>t, <2>0, <3>2, ContinueComes DEF DenyUnbacked, a
  <2>3. CASE row[a].status \notin Waiting
    <3>1. UNCHANGED row
      BY <1>0, <2>0, <2>3 DEF RowsTyped
    <3> QED
      BY <1>0, <1>10, <1>t, <3>1, ContinueComes DEF DenyUnbacked, a
  <2> QED
    BY <2>2, <2>3
<1>11. CASE AskApproval(w)
  <2>0. /\ a \in Actions /\ row[a] \in Row
        /\ row' = [row EXCEPT ![a] = [@ EXCEPT !.asked = TRUE]]
    BY <1>11, <1>a DEF AskApproval, a
  <2>1. Noted(a, row[a], [row[a] EXCEPT !.asked = TRUE])
    BY <2>0 DEF Noted, SameDecision, Row
  <2>2. RowStep(a)
    BY <1>r, <2>0, <2>1
  <2>3. Comes(w)
    <3>1. CASE Reads(w, "checking", row'[worker[w].act])
      BY <1>0, <3>1, ReadsComes
    <3>2. CASE Continue(w, row'[worker[w].act])
      BY <1>0, <3>2, ContinueComes DEF a
    <3> QED
      BY <1>11, <3>1, <3>2 DEF AskApproval, a
  <2> QED
    BY <1>11, <1>t, <2>0, <2>2, <2>3 DEF AskApproval
<1>12. CASE CheckExpiry(w)
  <2>0. a \in Actions /\ {"pending"} \cap Final = {}
    BY <1>12, <1>a DEF CheckExpiry, Final, NotMade
  <2>1. CASE Moves(w, {"pending"}, "expired", FALSE) /\ Continue(w, row'[a])
    <3>1. UNCHANGED row \/ RowStep(a)
      BY <1>0, <1>n, <2>0, <2>1, MovesTraced DEF a
    <3> QED
      BY <1>0, <1>12, <1>t, <2>0, <2>1, <3>1, ContinueComes DEF CheckExpiry, a
  <2>2. CASE UNCHANGED row /\ Goto(w, "parking")
    BY <1>0, <1>12, <1>t, <2>2, GotoComes DEF CheckExpiry
  <2> QED
    BY <1>12, <2>1, <2>2 DEF CheckExpiry, a
<1>13. CASE ReadSwitch(w)
  <2>1. CASE \E s : Settling(w, s)
    BY <1>0, <1>13, <1>t, <2>1, SettlingComes DEF ReadSwitch
  <2>2. CASE Goto(w, "authorising")
    <3>1. worker'[w].pc = "authorising" /\ worker'[w].act = a /\ SameOthers(w)
      BY <1>0, <2>2, GotoGives DEF a
    <3>2. row[a].change /\ UNCHANGED row
      BY <1>13, <1>b DEF ReadSwitch, Backed, a
    <3> QED
      BY <1>13, <1>t, <3>1, <3>2 DEF ReadSwitch, Comes, Backed
  <2> QED
    BY <1>13, <2>1, <2>2 DEF ReadSwitch
<1>14. CASE Authorise(w)
  <2>0. a \in Actions /\ row[a] \in Row /\ row[a].change
    BY <1>14, <1>a, <1>b DEF Authorise, Backed, a
  <2>1. CASE UNCHANGED row /\ \E s : Settling(w, s)
    BY <1>0, <1>14, <1>t, <2>1, SettlingComes DEF Authorise
  <2>2. CASE /\ row[a].status \in Ready
             /\ row' = [row EXCEPT ![a] = [@ EXCEPT !.status = "executing", !.started = TRUE]]
             /\ Reads(w, "redeeming", row'[a])
    <3>1. Authorised(row[a], [row[a] EXCEPT !.status = "executing", !.started = TRUE])
      BY <2>0, <2>2 DEF Authorised, SameDecision, Row
    <3>2. RowStep(a)
      BY <1>r, <2>0, <2>2, <3>1
    <3>3. Reads(w, "redeeming", row'[worker[w].act])
      BY <2>2 DEF a
    <3>4. Comes(w)
      BY <1>0, <3>3, ReadsComes
    <3> QED
      BY <1>14, <1>t, <2>0, <3>2, <3>4 DEF Authorise
  <2> QED
    BY <1>14, <2>1, <2>2 DEF Authorise, a
<1>15. CASE Redeem(w)
  <2>1. CASE worker' = [worker EXCEPT ![w] = [@ EXCEPT !.pc = "rollback", !.stopped = kill]]
    <3>1. Comes(w)
      BY <1>0, <2>1 DEF Comes, SameOthers, Backed, WorkersTyped, Worker
    <3> QED
      BY <1>15, <1>t, <3>1 DEF Redeem
  <2>2. CASE Goto(w, "writing")
    BY <1>0, <1>15, <1>t, <2>2, GotoComes DEF Redeem
  <2> QED
    BY <1>15, <2>1, <2>2 DEF Redeem
<1>16. CASE WriteAnswered(w)
  BY <1>0, <1>16, <1>t, GotoComes DEF WriteAnswered
<1>17. CASE RecordExecuted(w)
  <2>1. CASE /\ row[a].status = "executing"
             /\ row' = [row EXCEPT ![a] = Moved(@, "executed", FALSE)]
             /\ Reads(w, "verifying", row'[a])
    <3>1. a \in Actions /\ row[a].status \notin Final
      BY <1>17, <1>a, <2>1 DEF RecordExecuted, Final, NotMade
    <3>2. RowStep(a)
      BY <1>0, <1>n, <2>1, <3>1, MoveTraced
    <3>3. Reads(w, "verifying", row'[worker[w].act])
      BY <2>1 DEF a
    <3>4. Comes(w)
      BY <1>0, <3>3, ReadsComes
    <3> QED
      BY <1>17, <1>t, <3>1, <3>2, <3>4 DEF RecordExecuted
  <2>2. CASE Goto(w, "raised") /\ UNCHANGED row
    BY <1>0, <1>17, <1>t, <2>2, GotoComes DEF RecordExecuted
  <2> QED
    BY <1>17, <2>1, <2>2 DEF RecordExecuted, a
<1>18. CASE Verify(w)
  <2>0. a \in Actions /\ {"executed", "executing"} \cap Final = {} /\ {"executing"} \cap Final = {}
    BY <1>18, <1>a DEF Verify, Final, NotMade
  <2>1. CASE Goto(w, "rollback") /\ UNCHANGED row
    BY <1>0, <1>18, <1>t, <2>1, GotoComes DEF Verify
  <2>2. CASE \/ Finish(w, {"executed", "executing"}, "verified", FALSE)
             \/ Finish(w, {"executing"}, "failed", TRUE)
    BY <1>0, <1>18, <1>n, <1>t, <2>0, <2>2, FinishTraced DEF Verify, a
  <2> QED
    BY <1>18, <2>1, <2>2 DEF Verify
<1>19. CASE RollBack(w)
  <2>0. a \in Actions
    BY <1>19, <1>a DEF RollBack
  <2>1. CASE Finish(w, Acting, "failed", FALSE)
    BY <1>0, <1>19, <1>n, <1>t, <2>0, <2>1, FinishTraced DEF RollBack, a
  <2>2. CASE /\ row[a].status \in {"executing", "executed"}
             /\ row' = [row EXCEPT ![a] = Moved(@, "rolling_back", FALSE)]
             /\ Goto(w, "redeem_undo")
    <3>1. row[a].status \notin Final
      BY <2>2 DEF Final, NotMade
    <3>2. RowStep(a)
      BY <1>0, <1>n, <2>0, <2>2, <3>1, MoveTraced
    <3> QED
      BY <1>0, <1>19, <1>t, <2>0, <2>2, <3>2, GotoComes DEF RollBack
  <2>3. CASE Settling(w, "rollback_failed") /\ UNCHANGED row
    BY <1>0, <1>19, <1>t, <2>3, SettlingComes DEF RollBack
  <2> QED
    BY <1>19, <2>1, <2>2, <2>3 DEF RollBack, a
<1>20. CASE RedeemUndo(w)
  BY <1>0, <1>20, <1>t, GotoComes, SettlingComes DEF RedeemUndo
<1>21. CASE UndoAnswered(w)
  BY <1>0, <1>21, <1>t, SettlingComes DEF UndoAnswered
<1>22. CASE Settle(w)
  <2>1. a \in Actions /\ worker[w].to \in Final
    BY <1>0, <1>22, <1>a DEF Settle, WorkersTyped, Worker
  <2>2. From(worker[w].to) \cap Final = {}
    BY <1>n DEF From
  <2> QED
    BY <1>0, <1>22, <1>n, <1>t, <2>1, <2>2, FinishTraced DEF Settle, a
<1>23. CASE Report(w) \/ ReportError(w) \/ Park(w)
  BY <1>0, <1>23, <1>t, RestComes DEF Report, ReportError, Park
<1> QED
  BY <1>1, <1>2, <1>3, <1>4, <1>5, <1>6, <1>7, <1>8, <1>9, <1>10, <1>11, <1>12, <1>13, <1>14,
     <1>15, <1>16, <1>17, <1>18, <1>19, <1>20, <1>21, <1>22, <1>23
  DEF WorkerStep

LEMMA EveryTraced ==
    ASSUME DecidedInv, TypeOK', [Next]_vars
    PROVE  Traced
<1> USE TypeOKParts
<1>0. WorkersTyped /\ RowsTyped
  BY DEF DecidedInv, WriteInv
<1>a. \A a \in Actions : row[a] \in Row
  BY <1>0 DEF RowsTyped
<1>b. ASSUME NEW a \in Actions, NEW q, row' = [row EXCEPT ![a] = q],
             Noted(a, row[a], q) \/ MovedOn(row[a], q) \/ Decided(row[a], q)
      PROVE  RowStep(a)
  BY <1>0, <1>b DEF RowStep, RowsTyped, SameRows
<1>c. ASSUME NEW a \in Actions, RowStep(a), UNCHANGED <<worker, changes>> PROVE Traced
  BY <1>c DEF Traced, ChangesKept
<1>m. ASSUME NEW a \in Actions, row[a].status = "pending", NEW s \in {"expired", "invalid"},
             row' = [row EXCEPT ![a] = Moved(@, s, FALSE)]
      PROVE  RowStep(a)
  <2>1. row[a].status \notin Final /\ s \notin Waiting \cup {"none"}
    BY <1>m DEF Final, NotMade, Waiting
  <2> QED
    BY <1>0, <1>m, <2>1, MoveTraced
<1>d. ASSUME NEW a \in Actions, row[a].status = "pending", NEW p \in People, NEW yes \in BOOLEAN,
             DecidedBy(a, p, yes), yes /\ row[a].tier = "T2" => p # Author /\ Author # NoOne
      PROVE  RowStep(a)
  <2> DEFINE s == IF yes THEN "approved" ELSE "rejected"
             q == [row[a] EXCEPT !.status = s, !.approver = p]
  <2>1. s \in {"approved", "rejected"} /\ (s = "approved" => yes)
    OBVIOUS
  <2> HIDE DEF s
  <2>2. /\ q.status = s /\ q.approver = p /\ q.verdict = row[a].verdict /\ q.tier = row[a].tier
        /\ q.started = row[a].started /\ q.change = row[a].change
    BY <1>a DEF Row
  <2>3. row' = [row EXCEPT ![a] = q]
    BY <1>d DEF DecidedBy, s
  <2> HIDE DEF q
  <2>4. Decided(row[a], q)
    BY <1>d, <2>1, <2>2 DEF Decided
  <2> QED
    BY <1>b, <2>3, <2>4
<1>1. ASSUME NEW w \in Workers, WorkerStep(w) PROVE Traced
  BY <1>1, WorkerTraced
<1>2. ASSUME NEW w \in Workers, InfraError(w) \/ Crash(w) PROVE Traced
  <2>1. Comes(w)
    BY <1>0, <1>2, GotoComes, RestComes DEF InfraError, Crash
  <2> QED
    BY <1>2, <2>1 DEF InfraError, Crash, Traced, ChangesKept
<1>3. ASSUME NEW a \in Actions, NEW p \in People, NEW yes \in BOOLEAN,
             Decide(a, p, yes) \/ Collect(a, p, yes)
      PROVE  Traced
  <2>1. CASE Decide(a, p, yes)
    BY <1>c, <1>d, <1>m, <2>1 DEF Decide, MayDecide
  <2>2. CASE Collect(a, p, yes)
    <3>1. ShownToDiffer(p) => p # Author /\ Author # NoOne
      BY PeopleAssumption DEF ShownToDiffer
    <3> QED
      BY <1>c, <1>d, <1>m, <2>2, <3>1 DEF Collect
  <2> QED
    BY <1>3, <2>1, <2>2
<1>4. ASSUME NEW a \in Actions, Sweep(a) PROVE Traced
  BY <1>c, <1>m, <1>4 DEF Sweep
<1>5. ASSUME NEW a \in Actions, ExpiryPasses(a) \/ ValidityPasses(a) PROVE Traced
  <2>1. /\ Noted(a, row[a], [row[a] EXCEPT !.late = TRUE])
        /\ Noted(a, row[a], [row[a] EXCEPT !.stale = TRUE])
    BY <1>a DEF Noted, SameDecision, Row
  <2> QED
    BY <1>b, <1>c, <1>5, <2>1 DEF ExpiryPasses, ValidityPasses
<1>6. CASE Throw \/ UNCHANGED vars
  BY <1>6 DEF Throw, vars, Traced, ChangesKept
<1> QED
  BY <1>1, <1>2, <1>3, <1>4, <1>5, <1>6 DEF Next, Person

-----------------------------------------------------------------------------
(* And so the invariant is kept                                            *)

LEMMA SoundKept ==
    ASSUME DecidedInv, TypeOK', Traced, NEW a \in Actions
    PROVE  Sound(a)'
<1>1. /\ Sound(a) /\ CallOf[a] \in Calls
      /\ changes[CallOf[a]] > 0 => changes'[CallOf[a]] > 0
  BY DEF DecidedInv, Calls, Traced, ChangesKept
<1>2. CASE row'[a] = row[a]
  BY <1>1, <1>2 DEF Sound, Permitted
<1>3. CASE RowStep(a)
  <2> DEFINE r == row[a]
             q == row'[a]
  <2>0. r.started => r.status \in Begun
    BY DEF DecidedInv, WriteInv, StartedInv
  <2>1. CASE Noted(a, r, q)
    BY <1>1, <2>1 DEF Noted, SameDecision, Sound, Permitted
  <2>2. CASE MovedOn(r, q)
    BY <1>1, <2>2 DEF MovedOn, SameDecision, Sound, Permitted, Waiting
  <2>3. CASE Ruled(r, q)
    BY <1>1, <2>3 DEF Ruled, Sound
  <2>4. CASE Denied(r, q)
    BY <1>1, <2>0, <2>4 DEF Denied, Sound, Waiting, Begun, Acting, Closed
  <2>5. CASE Decided(r, q)
    BY <1>1, <2>0, <2>5 DEF Decided, Sound, Permitted, Begun, Acting, Closed
  <2>6. CASE Authorised(r, q)
    BY <1>1, <2>6 DEF Authorised, SameDecision, Sound, Permitted, Ready
  <2> QED
    BY <1>3, <2>1, <2>2, <2>3, <2>4, <2>5, <2>6 DEF RowStep
<1>4. ASSUME NEW b \in Actions, b # a, RowStep(b) PROVE row'[a] = row[a]
  BY <1>4 DEF RowStep, SameRows
<1> QED
  BY <1>2, <1>3, <1>4 DEF Traced

\* What RowStep leaves alone.
LEMMA StepLeaves ==
    ASSUME Traced, NEW a \in Actions
    PROVE  /\ row[a].status # "none" /\ row[a].change => row'[a].change
           /\ row[a].status \in Final =>
                /\ row'[a].status = row[a].status
                /\ row'[a].approver = row[a].approver /\ row'[a].unknown = row[a].unknown
<1>1. CASE RowStep(a)
  BY <1>1 DEF RowStep, Noted, SameDecision, MovedOn, Ruled, Denied, Decided, Authorised, Waiting,
              Ready, Final, NotMade
<1>2. CASE row'[a] = row[a]
  BY <1>2
<1>3. ASSUME NEW b \in Actions, b # a, RowStep(b) PROVE row'[a] = row[a]
  BY <1>3 DEF RowStep, SameRows
<1> QED
  BY <1>1, <1>2, <1>3 DEF Traced

LEMMA BackedKept ==
    ASSUME DecidedInv, Traced, NEW v \in Workers
    PROVE  Backed(v)'
<1> DEFINE a == worker[v].act
<1>1. CASE worker'[v] = worker[v]
  <2>1. Backed(v) /\ Placed(v) /\ (worker[v].pc # "idle" => a \in Actions)
    BY TypeOKParts DEF DecidedInv, WriteInv, PlaceInv, WorkersTyped
  <2>2. a \in Actions => (changes[CallOf[a]] > 0 => changes'[CallOf[a]] > 0)
    BY DEF Calls, Traced, ChangesKept
  <2>3. worker[v].pc \in {"switch", "authorising"} => row[a].status # "none"
    BY <2>1 DEF Placed, Early
  <2> HIDE DEF a
  <2> QED
    BY <1>1, <2>1, <2>2, <2>3, StepLeaves DEF Backed, a
<1>2. ASSUME NEW w \in Workers, Comes(w) PROVE Backed(v)'
  BY <1>1, <1>2 DEF Comes, SameOthers
<1> QED
  BY <1>1, <1>2 DEF Traced

LEMMA InitDecided == Init => DecidedInv
<1> SUFFICES ASSUME Init PROVE DecidedInv
  OBVIOUS
<1>1. \A a \in Actions : Sound(a)
  BY DEF Init, NoRow, Sound
<1>2. \A w \in Workers : Backed(w)
  BY DEF Init, Idle, Backed
<1> QED
  BY <1>1, <1>2, InitWrite DEF DecidedInv

LEMMA NextDecided == DecidedInv /\ [Next]_vars => DecidedInv' /\ Traced
<1> SUFFICES ASSUME DecidedInv, [Next]_vars PROVE DecidedInv' /\ Traced
  OBVIOUS
<1>1. WriteInv' /\ TypeOK'
  BY NextWrite DEF DecidedInv, WriteInv
<1>2. Traced
  BY <1>1, EveryTraced
<1>3. (\A a \in Actions : Sound(a)') /\ (\A w \in Workers : Backed(w)')
  BY <1>1, <1>2, SoundKept, BackedKept
<1> QED
  BY <1>1, <1>2, <1>3 DEF DecidedInv

LEMMA DecidedInvariant == Spec => []DecidedInv
  BY InitDecided, NextDecided, PTL DEF Spec

-----------------------------------------------------------------------------
(* The theorems                                                            *)

\* No late attempt, approval, expiry or sweep moves a finished row, and its
\* decision stays as it was.
THEOREM FinalRowsStand == Spec => FinalStands
<1>1. DecidedInv /\ [Next]_vars => [\A a \in Actions : row[a].status \in Final =>
          /\ row'[a].status = row[a].status
          /\ row'[a].approver = row[a].approver /\ row'[a].unknown = row[a].unknown]_vars
  BY NextDecided, StepLeaves
<1> QED
  BY <1>1, DecidedInvariant, PTL DEF Spec, FinalStands

\* Every write that left had been allowed at T1, or approved by a person who for
\* T2 is not the author of the SOP, under an open change record.
THEOREM PermittedWhenSent == Spec => []SentWasPermitted
<1>1. ASSUME DecidedInv PROVE SentWasPermitted
  <2>1. \A a \in Actions : sent[a] > 0 => row[a].started
    BY <1>1 DEF DecidedInv, WriteInv, StartedInv
  <2>2. \A a \in Actions : Sound(a)
    BY <1>1 DEF DecidedInv
  <2> QED
    BY <2>1, <2>2 DEF Sound, SentWasPermitted
<1> QED
  BY <1>1, DecidedInvariant, PTL

LEMMA ReportStep == DecidedInv /\ ReportIsTheRecord /\ [Next]_vars => ReportIsTheRecord'
<1> SUFFICES ASSUME DecidedInv, ReportIsTheRecord, [Next]_vars, NEW a \in Actions
             PROVE  /\ told'[a] = "success" => row'[a].status = "verified"
                    /\ told'[a] = "skip" => row'[a].status = "shadowed"
                    /\ told'[a] = "fail" => row'[a].status = "not_done"
  BY DEF ReportIsTheRecord
<1>1. {"verified", "shadowed", "not_done"} \subseteq Final
  BY DEF Final, NotMade
<1>2. Traced /\ DecidedInv
  BY NextDecided
<1>3. CASE told'[a] = told[a]
  BY <1>1, <1>2, <1>3, StepLeaves DEF ReportIsTheRecord
<1>4. ASSUME NEW w \in Workers, Report(w), worker[w].act = a PROVE
             /\ told'[a] = "success" => row'[a].status = "verified"
             /\ told'[a] = "skip" => row'[a].status = "shadowed"
             /\ told'[a] = "fail" => row'[a].status = "not_done"
  <2>1. /\ worker[w].pc = "reporting" /\ UNCHANGED row
        /\ told'[a] = Result(worker[w].seen, worker[w].unknown)
    BY <1>2, <1>4, TypeOKParts DEF Report, DecidedInv, WriteInv, CountsTyped
  <2>2. worker[w].seen \in Final => row[a].status = worker[w].seen
    BY <1>2, <1>4, <2>1 DEF DecidedInv, Backed
  <2>3. /\ told'[a] = "success" => worker[w].seen = "verified"
        /\ told'[a] = "skip" => worker[w].seen = "shadowed"
        /\ told'[a] = "fail" => worker[w].seen = "not_done"
    BY <2>1 DEF Result
  <2> QED
    BY <1>1, <2>1, <2>2, <2>3
<1>5. ASSUME NEW w \in Workers, ReportError(w), worker[w].act = a PROVE told'[a] = "error"
  BY <1>2, <1>5, TypeOKParts DEF ReportError, DecidedInv, WriteInv, CountsTyped
<1>6. \/ told'[a] = told[a]
      \/ \E w \in Workers : worker[w].act = a /\ (Report(w) \/ ReportError(w))
  <2>1. UNCHANGED told \/ \E w \in Workers : Report(w) \/ ReportError(w)
    BY ZenonT(60) DEF Next, WorkerStep, Person, vars, Perform, Find, Void, Evaluate, RecordDecision,
           LeaveRollback, LookUpChange, OpenChange, NoteChange, DenyUnbacked, AskApproval,
           CheckExpiry, Park, ReadSwitch, Authorise, Redeem, WriteAnswered, RecordExecuted, Verify,
           RollBack, RedeemUndo, UndoAnswered, Settle, InfraError, Crash, Decide, Collect, Sweep,
           ExpiryPasses, ValidityPasses, Throw
  <2> QED
    BY <1>2, <2>1, TypeOKParts, SMTT(30)
       DEF Report, ReportError, DecidedInv, WriteInv, CountsTyped
<1> QED
  BY <1>3, <1>4, <1>5, <1>6

\* A step counts as passed, skipped or not done only if its row ended so: the
\* engine is told the record, which then stands.
THEOREM ToldTheRecord == Spec => []ReportIsTheRecord
<1>1. Init => ReportIsTheRecord
  BY DEF Init, ReportIsTheRecord
<1> QED
  BY <1>1, ReportStep, DecidedInvariant, PTL DEF Spec

-----------------------------------------------------------------------------
(* One change record for a call                                            *)

\* While no attempt is begun beside another, there is one at most, and it opens a change for a
\* call that has none.
OpenInv ==
    /\ TypeOK
    /\ faults.stalls = 0 =>
          /\ \A v, w \in Workers : Busy(v) /\ Busy(w) => v = w
          /\ \A w \in Workers : worker[w].pc = "opening" => changes[CallOf[worker[w].act]] = 0
          /\ \A c \in Calls : changes[c] <= 1

\* What an attempt that was begun does to its place and to the changes.
GoesOnAlone(w) ==
    /\ SameOthers(w) /\ Busy(w)
    /\ \/ /\ UNCHANGED changes
          /\ worker'[w].pc = "opening" =>
                changes[CallOf[worker[w].act]] = 0 /\ worker'[w].act = worker[w].act
       \/ /\ worker[w].pc = "opening" /\ worker'[w].pc # "opening"
          /\ changes' = [changes EXCEPT ![CallOf[worker[w].act]] = @ + 1]

LEMMA MovesAlone ==
    ASSUME WorkersTyped, NEW w \in Workers, Busy(w), UNCHANGED changes,
           \/ \E pc \in Pcs \ {"opening"} : Goto(w, pc)
           \/ \E pc \in Pcs \ {"opening"} : \E r : Reads(w, pc, r)
           \/ \E r : Continue(w, r)
           \/ \E s \in Final : Settling(w, s)
           \/ Rest(w)
    PROVE  GoesOnAlone(w)
<1>1. ASSUME NEW pc \in Pcs \ {"opening"}, Goto(w, pc) PROVE GoesOnAlone(w)
  BY <1>1, GotoGives DEF GoesOnAlone
<1>2. ASSUME NEW pc \in Pcs \ {"opening"}, NEW r, Reads(w, pc, r) PROVE GoesOnAlone(w)
  BY <1>2, ReadsGives DEF GoesOnAlone
<1>3. ASSUME NEW r, Continue(w, r) PROVE GoesOnAlone(w)
  <2>1. NextPc(r) # "opening"
    BY DEF NextPc
  <2> QED
    BY <1>3, <2>1, ReadsGives DEF GoesOnAlone, Continue
<1>4. ASSUME NEW s \in Final, Settling(w, s) PROVE GoesOnAlone(w)
  BY <1>4, SettlingGives DEF GoesOnAlone
<1>5. ASSUME Rest(w) PROVE GoesOnAlone(w)
  BY <1>5, RestGives DEF GoesOnAlone
<1> QED
  BY <1>1, <1>2, <1>3, <1>4, <1>5

LEMMA StepsAlone ==
    ASSUME WorkersTyped, NEW w \in Workers, WorkerStep(w), ~Perform(w)
    PROVE  GoesOnAlone(w) /\ UNCHANGED faults
<1>p. Pcs \ {"opening"} = {"idle", "finding", "voiding", "deciding", "recording", "lookup", "noting",
        "denying", "asking", "checking", "parking", "switch", "authorising", "settling",
        "redeeming", "writing", "written", "verifying", "rollback", "redeem_undo", "undoing", "leaving",
        "reporting", "raised"}
  BY DEF Pcs
<1>f. {"aborted", "invalid", "not_done", "rolled_back", "rollback_failed"} \subseteq Final
  BY DEF Final, NotMade
<1>1. CASE Find(w)
  <2>1. Busy(w) /\ UNCHANGED <<changes, faults>>
    BY <1>1 DEF Find, Busy, At
  <2>2. Goto(w, "deciding") \/ Continue(w, row[worker[w].act]) \/ Reads(w, "voiding", row[worker[w].act])
    BY <1>1 DEF Find
  <2> QED
    BY <2>1, <2>2, <1>p, MovesAlone
<1>2. CASE Void(w) \/ RecordDecision(w) \/ NoteChange(w) \/ DenyUnbacked(w)
  <2>1. Busy(w) /\ UNCHANGED <<changes, faults>>
    BY <1>2 DEF Void, RecordDecision, NoteChange, DenyUnbacked, Busy, At
  <2>2. Continue(w, row'[worker[w].act])
    BY <1>2 DEF Void, RecordDecision, NoteChange, DenyUnbacked
  <2> QED
    BY <2>1, <2>2, MovesAlone
<1>3. CASE Evaluate(w)
  <2>1. /\ Busy(w) /\ UNCHANGED <<changes, faults>> /\ SameOthers(w) /\ worker'[w].pc = "recording"
    BY <1>3 DEF Evaluate, Busy, At, WorkersTyped, Worker, SameOthers
  <2> QED
    BY <2>1 DEF GoesOnAlone
<1>4. CASE LeaveRollback(w)
  <2>1. Busy(w) /\ UNCHANGED <<changes, faults>>
    BY <1>4 DEF LeaveRollback, Busy, At
  <2>2. Reads(w, "reporting", row'[worker[w].act])
    BY <1>4 DEF LeaveRollback, Finish
  <2> QED
    BY <2>1, <2>2, <1>p, MovesAlone
<1>5. CASE LookUpChange(w)
  <2>1. Busy(w) /\ UNCHANGED <<changes, faults>>
    BY <1>5 DEF LookUpChange, Busy, At
  <2>2. CASE Goto(w, "noting") \/ Goto(w, "denying")
    BY <2>1, <2>2, <1>p, MovesAlone
  <2>3. CASE changes[CallOf[worker[w].act]] = 0 /\ Goto(w, "opening")
    BY <2>1, <2>3, GotoGives DEF GoesOnAlone
  <2> QED
    BY <1>5, <2>1, <2>2, <2>3 DEF LookUpChange
<1>6. CASE OpenChange(w)
  <2>1. worker[w].pc = "opening" /\ Busy(w) /\ UNCHANGED faults
    BY <1>6 DEF OpenChange, Busy, At
  <2>2. Goto(w, "noting") \/ Goto(w, "denying")
    BY <1>6 DEF OpenChange
  <2>3. CASE UNCHANGED changes
    BY <2>1, <2>2, <2>3, <1>p, MovesAlone
  <2>4. CASE changes' = [changes EXCEPT ![CallOf[worker[w].act]] = @ + 1]
    BY <2>1, <2>2, <2>4, GotoGives DEF GoesOnAlone
  <2> QED
    BY <1>6, <2>1, <2>3, <2>4 DEF OpenChange
<1>7. CASE AskApproval(w)
  <2>1. Busy(w) /\ UNCHANGED <<changes, faults>>
    BY <1>7 DEF AskApproval, Busy, At
  <2>2. Reads(w, "checking", row'[worker[w].act]) \/ Continue(w, row'[worker[w].act])
    BY <1>7 DEF AskApproval
  <2> QED
    BY <2>1, <2>2, <1>p, MovesAlone
<1>8. CASE CheckExpiry(w)
  <2>1. Busy(w) /\ UNCHANGED <<changes, faults>>
    BY <1>8 DEF CheckExpiry, Busy, At
  <2>2. (\E r : Continue(w, r)) \/ Goto(w, "parking")
    BY <1>8 DEF CheckExpiry
  <2> QED
    BY <2>1, <2>2, <1>p, MovesAlone
<1>9. CASE ReadSwitch(w)
  <2>1. Busy(w) /\ UNCHANGED <<changes, faults>>
    BY <1>9 DEF ReadSwitch, Busy, At
  <2>2. Goto(w, "authorising") \/ \E s \in Final : Settling(w, s)
    BY <1>9, <1>f DEF ReadSwitch
  <2> QED
    BY <2>1, <2>2, <1>p, MovesAlone
<1>10. CASE Authorise(w)
  <2>1. Busy(w) /\ UNCHANGED <<changes, faults>>
    BY <1>10 DEF Authorise, Busy, At
  <2>2. Reads(w, "redeeming", row'[worker[w].act]) \/ \E s \in Final : Settling(w, s)
    BY <1>10, <1>f DEF Authorise
  <2> QED
    BY <2>1, <2>2, <1>p, MovesAlone
<1>11. CASE Redeem(w)
  <2>1. Busy(w) /\ UNCHANGED <<changes, faults>>
    BY <1>11 DEF Redeem, Busy, At
  <2>2. CASE Goto(w, "writing")
    BY <2>1, <2>2, <1>p, MovesAlone
  <2>3. CASE worker' = [worker EXCEPT ![w] = [@ EXCEPT !.pc = "rollback", !.stopped = kill]]
    BY <2>1, <2>3 DEF GoesOnAlone, SameOthers, WorkersTyped, Worker
  <2> QED
    BY <1>11, <2>2, <2>3 DEF Redeem
<1>12. CASE WriteAnswered(w)
  <2>1. Busy(w) /\ UNCHANGED <<changes, faults>>
    BY <1>12 DEF WriteAnswered, Busy, At
  <2>2. Goto(w, "written") \/ Goto(w, "rollback") \/ Goto(w, "verifying")
    BY <1>12 DEF WriteAnswered
  <2> QED
    BY <2>1, <2>2, <1>p, MovesAlone
<1>13. CASE RecordExecuted(w)
  <2>1. Busy(w) /\ UNCHANGED <<changes, faults>>
    BY <1>13 DEF RecordExecuted, Busy, At
  <2>2. Reads(w, "verifying", row'[worker[w].act]) \/ Goto(w, "raised")
    BY <1>13 DEF RecordExecuted
  <2> QED
    BY <2>1, <2>2, <1>p, MovesAlone
<1>14. CASE Verify(w) \/ RollBack(w)
  <2>1. Busy(w) /\ UNCHANGED <<changes, faults>>
    BY <1>14 DEF Verify, RollBack, Busy, At
  <2>2. \/ Reads(w, "reporting", row'[worker[w].act]) \/ Goto(w, "rollback") \/ Goto(w, "redeem_undo")
        \/ \E s \in Final : Settling(w, s)
    BY <1>14, <1>f DEF Verify, RollBack, Finish
  <2> QED
    BY <2>1, <2>2, <1>p, MovesAlone
<1>15. CASE RedeemUndo(w) \/ UndoAnswered(w)
  <2>1. Busy(w) /\ UNCHANGED <<changes, faults>>
    BY <1>15 DEF RedeemUndo, UndoAnswered, Busy, At
  <2>2. Goto(w, "undoing") \/ \E s \in Final : Settling(w, s)
    BY <1>15, <1>f DEF RedeemUndo, UndoAnswered
  <2> QED
    BY <2>1, <2>2, <1>p, MovesAlone
<1>16. CASE Settle(w)
  <2>1. Busy(w) /\ UNCHANGED <<changes, faults>>
    BY <1>16 DEF Settle, Busy, At
  <2>2. Reads(w, "reporting", row'[worker[w].act])
    BY <1>16 DEF Settle, Finish
  <2> QED
    BY <2>1, <2>2, <1>p, MovesAlone
<1>17. CASE Report(w) \/ ReportError(w) \/ Park(w)
  <2>1. Busy(w) /\ UNCHANGED <<changes, faults>> /\ Rest(w)
    BY <1>17 DEF Report, ReportError, Park, Busy, At
  <2> QED
    BY <2>1, MovesAlone
<1> QED
  BY <1>1, <1>2, <1>3, <1>4, <1>5, <1>6, <1>7, <1>8, <1>9, <1>10, <1>11, <1>12, <1>13, <1>14, <1>15,
     <1>16, <1>17 DEF WorkerStep

\* A step that was taken alone leaves it so.
LEMMA OpenKept ==
    ASSUME OpenInv, TypeOK', NEW w \in Workers, GoesOnAlone(w),
           faults'.stalls = 0 => faults.stalls = 0
    PROVE  OpenInv'
<1> SUFFICES ASSUME faults'.stalls = 0
             PROVE  /\ \A v, x \in Workers : Busy(v)' /\ Busy(x)' => v = x
                    /\ \A v \in Workers : worker'[v].pc = "opening" =>
                          changes'[CallOf[worker'[v].act]] = 0
                    /\ \A c \in Calls : changes'[c] <= 1
  BY DEF OpenInv
<1>1. /\ \A v, x \in Workers : Busy(v) /\ Busy(x) => v = x
      /\ \A v \in Workers : worker[v].pc = "opening" => changes[CallOf[worker[v].act]] = 0
      /\ \A c \in Calls : changes[c] <= 1
      /\ changes \in [Calls -> Nat]
      /\ \A v \in Workers : Busy(v) => CallOf[worker[v].act] \in Calls
  BY DEF OpenInv, TypeOK, Busy, Calls
<1>2. \A v \in Workers \ {w} : ~Busy(v) /\ ~Busy(v)' /\ worker'[v].pc # "opening"
  BY <1>1 DEF GoesOnAlone, SameOthers, Busy
<1>3. CASE UNCHANGED changes /\ (worker'[w].pc = "opening" =>
              changes[CallOf[worker[w].act]] = 0 /\ worker'[w].act = worker[w].act)
  BY <1>1, <1>2, <1>3
<1>4. CASE /\ worker[w].pc = "opening" /\ worker'[w].pc # "opening"
           /\ changes' = [changes EXCEPT ![CallOf[worker[w].act]] = @ + 1]
  <2>1. CallOf[worker[w].act] \in Calls /\ changes[CallOf[worker[w].act]] = 0
    BY <1>1, <1>4 DEF GoesOnAlone
  <2>2. \A c \in Calls : changes'[c] <= 1
    BY <1>1, <1>4, <2>1
  <2> QED
    BY <1>2, <1>4, <2>2
<1> QED
  BY <1>3, <1>4 DEF GoesOnAlone

LEMMA OpenNext == OpenInv /\ [Next]_vars => OpenInv'
<1> SUFFICES ASSUME OpenInv, [Next]_vars PROVE OpenInv'
  OBVIOUS
<1>1. TypeOK' /\ TypeOK
  BY NextTyped DEF OpenInv
<1>2. WorkersTyped /\ faults \in [crashes: 0..MaxCrashes, stalls: 0..MaxStalls, errors: 0..MaxErrors,
                                  flips: 0..MaxFlips]
  BY <1>1, TypeOKParts DEF FaultsTyped
<1>3. ASSUME UNCHANGED <<changes, worker>>, faults'.stalls = faults.stalls PROVE OpenInv'
  BY <1>1, <1>3 DEF OpenInv, Busy
<1>4. ASSUME NEW w \in Workers, WorkerStep(w), ~Perform(w) PROVE OpenInv'
  BY <1>1, <1>2, <1>4, StepsAlone, OpenKept
<1>5. ASSUME NEW w \in Workers, Perform(w) PROVE OpenInv'
  <2>1. PICK b \in Actions : worker' = [worker EXCEPT ![w] = [Idle EXCEPT !.pc = "finding", !.act = b]]
    BY <1>5 DEF Perform
  <2>2. SameOthers(w) /\ worker'[w].pc = "finding" /\ UNCHANGED changes
    BY <1>2, <1>5, <2>1 DEF Perform, SameOthers, WorkersTyped, Idle
  <2>3. CASE \E v \in Workers : Busy(v)
    <3>1. faults'.stalls = faults.stalls + 1 /\ faults.stalls \in Nat
      BY <1>2, <1>5, <2>3, CountsAssumption DEF Perform, Count
    <3> QED
      BY <1>1, <3>1 DEF OpenInv
  <2>4. CASE ~\E v \in Workers : Busy(v)
    <3>1. UNCHANGED faults
      BY <1>5, <2>4 DEF Perform
    <3>2. \A v \in Workers \ {w} : ~Busy(v)' /\ worker'[v].pc # "opening"
      BY <2>2, <2>4 DEF SameOthers, Busy
    <3> QED
      BY <1>1, <2>2, <3>1, <3>2 DEF OpenInv
  <2> QED
    BY <2>3, <2>4
<1>6. ASSUME NEW w \in Workers, InfraError(w) \/ Crash(w) PROVE OpenInv'
  <2>1. Busy(w) /\ UNCHANGED changes /\ (Goto(w, "raised") \/ Rest(w)) /\ "raised" \in Pcs
    BY <1>6 DEF InfraError, Crash, Busy, Database, Pcs
  <2>2. faults'.stalls = faults.stalls
    BY <1>2, <1>6 DEF InfraError, Crash, Count
  <2> QED
    BY <1>1, <1>2, <2>1, <2>2, MovesAlone, OpenKept
<1>7. ASSUME NEW a \in Actions, Person(a) \/ Sweep(a) \/ ExpiryPasses(a) \/ ValidityPasses(a)
      PROVE  OpenInv'
  BY <1>3, <1>7 DEF Person, Decide, Collect, Sweep, ExpiryPasses, ValidityPasses
<1>8. CASE Throw
  <2>1. faults'.stalls = faults.stalls
    BY <1>2, <1>8 DEF Throw, Count
  <2> QED
    BY <1>3, <1>8, <2>1 DEF Throw
<1>9. CASE UNCHANGED vars
  BY <1>3, <1>9 DEF vars
<1> QED
  BY <1>4, <1>5, <1>6, <1>7, <1>8, <1>9 DEF Next

\* A call has one change record though attempts die between opening it and noting it, as long as
\* none is begun beside another: who opens one has looked, and nobody else opens any meanwhile.
THEOREM OpenedOnce == Spec => []OneChangePerCall
<1>1. Init => OpenInv
  <2> SUFFICES ASSUME Init PROVE OpenInv
    OBVIOUS
  <2>1. /\ \A w \in Workers : worker[w].pc = "idle"
        /\ \A c \in Calls : changes[c] = 0
    BY DEF Init, Idle
  <2> QED
    BY <2>1, InitTyped DEF OpenInv, Busy
<1>2. OpenInv => OneChangePerCall
  BY DEF OpenInv, OneChangePerCall
<1> QED
  BY <1>1, <1>2, OpenNext, PTL DEF Spec
=============================================================================
