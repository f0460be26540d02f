----------------------- MODULE ActionPipelineWriteProofs -----------------------
(***************************************************************************)
(* The writes of ActionPipeline, for every number of actions, workers and  *)
(* faults: who may still send or undo one, and from that AtMostOnce,       *)
(* RollbackFollowsWrite, NothingWasChanged and the refinement of           *)
(* WritePermit.                                                            *)
(***************************************************************************)
EXTENDS ActionPipelineProofs

USE DEF At

-----------------------------------------------------------------------------
(* The invariant                                                           *)

Closed == {"verified", "failed", "rolled_back", "rollback_failed"}
Begun == Acting \cup Closed
Undoes == {"rolled_back", "rollback_failed"}
NotTried == {"aborted", "invalid", "not_done"}

\* The places at which an attempt may send the write, or has just sent it.
Sender == {"redeeming", "writing", "written"}
Making == Sender \cup {"verifying", "rollback", "redeem_undo", "undoing", "leaving"}
Early == {"idle", "finding", "deciding", "recording", "parking", "raised"}

\* The attempt may go on to undo the write.
MayUndo(u) ==
    \/ u.pc \in {"rollback", "redeem_undo", "undoing"}
    \/ u.pc = "verifying" /\ u.seen = "executed"
    \/ u.pc = "settling" /\ u.to \in Undoes

\* What a row says of its write.
StartedInv == \A a \in Actions :
    /\ row[a].started <=> row[a].status \in Begun
    /\ sent[a] <= 1 /\ undone[a] <= 1
    /\ sent[a] > 0 \/ undone[a] > 0 => row[a].started
    /\ undone[a] > 0 => row[a].status \notin {"executing", "executed"}

OnceInv == \A a, b \in Actions :
    a # b /\ CallOf[a] = CallOf[b] => ~(row[a].started /\ row[b].started)

\* What an attempt at a place may count on.
Placed(w) == LET u == worker[w]
                a == worker[w].act IN
    /\ u.pc \notin Early => row[a].status # "none"
    /\ u.pc \in Making => row[a].started
    /\ u.pc = "settling" => u.to \in NotTried \/ (u.to \in Undoes /\ row[a].started)
    /\ u.pc = "redeeming" => sent[a] = 0
    /\ u.pc \in Sender => undone[a] = 0 /\ row[a].status \in {"executing", "verified", "failed"}
    /\ u.pc = "redeem_undo" => undone[a] = 0
    /\ u.pc \in {"redeem_undo", "undoing"} => row[a].status \notin {"executing", "executed"}
PlaceInv == \A w \in Workers : Placed(w)

\* While one attempt may send the write, no other may send or undo it.
AloneInv == \A w, v \in Workers : w # v /\ worker[w].act = worker[v].act =>
    /\ worker[w].pc \in Sender => worker[v].pc \notin Sender /\ ~MayUndo(worker[v])
    /\ ~(worker[w].pc = "redeem_undo" /\ worker[v].pc = "redeem_undo")

WriteInv == TypeOK /\ StartedInv /\ OnceInv /\ PlaceInv /\ AloneInv

-----------------------------------------------------------------------------
(* What the updates give                                                   *)

SameOthers(w) == \A v \in Workers : v # w => worker'[v] = worker[v]

LEMMA GotoGives ==
    ASSUME WorkersTyped, NEW w \in Workers, NEW pc, Goto(w, pc)
    PROVE  /\ SameOthers(w)
           /\ worker'[w].pc = pc /\ worker'[w].act = worker[w].act
           /\ worker'[w].seen = worker[w].seen /\ worker'[w].to = worker[w].to
           /\ worker'[w].verdict = worker[w].verdict /\ worker'[w].tier = worker[w].tier
  BY DEF WorkersTyped, Goto, Worker, SameOthers

LEMMA ReadsGives ==
    ASSUME WorkersTyped, NEW w \in Workers, NEW pc, NEW r, Reads(w, pc, r)
    PROVE  /\ SameOthers(w)
           /\ worker'[w].pc = pc /\ worker'[w].act = worker[w].act
           /\ worker'[w].seen = r.status
  BY DEF WorkersTyped, Reads, Idle, SameOthers

LEMMA SettlingGives ==
    ASSUME WorkersTyped, NEW w \in Workers, NEW s, Settling(w, s)
    PROVE  /\ SameOthers(w)
           /\ worker'[w].pc = "settling" /\ worker'[w].act = worker[w].act
           /\ worker'[w].to = s
  BY DEF WorkersTyped, Settling, Worker, SameOthers

LEMMA RestGives ==
    ASSUME WorkersTyped, NEW w \in Workers, Rest(w)
    PROVE  SameOthers(w) /\ worker'[w].pc = "idle"
  BY DEF WorkersTyped, Rest, Idle, SameOthers

SameRows(a) == \A b \in Actions : b # a => row'[b] = row[b]

LEMMA MovedGives ==
    ASSUME NEW r \in Row, NEW s, NEW u \in BOOLEAN
    PROVE  Moved(r, s, u).status = s /\ Moved(r, s, u).started = r.started
  BY DEF Moved, Row

LEMMA MovesGives ==
    ASSUME RowsTyped, NEW w \in Workers, worker[w].act \in Actions, NEW from, NEW s,
           NEW u \in BOOLEAN, Moves(w, from, s, u)
    PROVE  LET a == worker[w].act IN
           /\ SameRows(a)
           /\ row'[a].started = row[a].started
           /\ row[a].status \notin from => row'[a].status = row[a].status
           /\ row[a].status \in from => row'[a].status = s
<1> DEFINE a == worker[w].act
           r == Moved(row[a], s, u)
<1>1. r.status = s /\ r.started = row[a].started
  BY MovedGives DEF RowsTyped
<1>2. row' = [row EXCEPT ![a] = IF row[a].status \in from THEN r ELSE row[a]]
  BY DEF Moves
<1> HIDE DEF r
<1> QED
  BY <1>1, <1>2 DEF RowsTyped, SameRows

LEMMA FinishGives ==
    ASSUME RowsTyped, WorkersTyped, NEW w \in Workers, worker[w].act \in Actions, NEW from,
           NEW s, NEW u \in BOOLEAN, Finish(w, from, s, u)
    PROVE  LET a == worker[w].act IN
           /\ SameOthers(w) /\ SameRows(a)
           /\ row'[a].started = row[a].started
           /\ row[a].status \notin from => row'[a].status = row[a].status
           /\ row[a].status \in from => row'[a].status = s
           /\ worker'[w].pc = "reporting" /\ worker'[w].act = a
<1>1. Moves(w, from, s, u) /\ Reads(w, "reporting", row'[worker[w].act])
  BY DEF Finish
<1> QED
  BY <1>1, MovesGives, ReadsGives

-----------------------------------------------------------------------------
(* What a step does to the writes                                          *)

\* A row whose write has not begun comes nearer to it, or it will not be made.
QuietRow(r, q) ==
    /\ q.started = r.started
    /\ \/ q.status = r.status
       \/ r.status \in {"none", "pending"} /\ q.status \in Waiting \cup NotMade
       \/ r.status \in Ready /\ q.status \in NotMade

\* A place at which the attempt u, at the row q, will not send its write, and
\* undo it only if the row says that it was made.
Apart == {"voiding", "lookup", "opening", "noting", "denying", "asking", "checking", "switch",
          "authorising", "reporting"}
QuietPlace(u, q) ==
    /\ q.status # "none"
    /\ \/ u.pc \in Apart
       \/ u.pc = "settling" /\ u.to \in NotTried
       \/ /\ u.pc \in {"verifying", "leaving"} /\ q.status \in Acting
          /\ u.pc = "verifying" => u.seen = q.status

Steady == UNCHANGED <<sent, undone>>

\* Nothing is begun, sent or undone; the step is at the row of a.
QuietAt(a) == Steady /\ SameRows(a) /\ QuietRow(row[a], row'[a])
Quiet(w, a) ==
    /\ QuietAt(a) /\ SameOthers(w)
    /\ \/ worker'[w].pc \in Early
       \/ worker'[w].act = a /\ QuietPlace(worker'[w], row'[a])

\* The step is w's, at the row of its action.
Mine(w) ==
    /\ SameOthers(w) /\ worker'[w].act = worker[w].act
    /\ SameRows(worker[w].act)

Begins(w) == LET a == worker[w].act IN
    /\ Mine(w) /\ Steady
    /\ row[a].status \in Ready /\ ~CarriedOut(a)
    /\ row'[a].status = "executing" /\ row'[a].started
    /\ worker'[w].pc = "redeeming"

Sends(w) == LET a == worker[w].act IN
    /\ Mine(w) /\ UNCHANGED <<row, undone>>
    /\ worker[w].pc = "redeeming" /\ worker'[w].pc = "writing"
    /\ sent' = [sent EXCEPT ![a] = @ + 1]

\* The attempt goes on with a write it has made, or will undo.
Pursues(w) ==
    /\ Mine(w) /\ Steady /\ UNCHANGED row
    /\ \/ worker[w].pc \in Sender /\ worker'[w].pc \in {"written", "verifying", "rollback"}
       \/ MayUndo(worker[w]) /\ worker'[w].pc = "rollback"
       \/ MayUndo(worker[w]) /\ worker'[w].pc = "settling" /\ worker'[w].to \in Undoes

Records(w) == LET a == worker[w].act IN
    /\ Mine(w) /\ Steady
    /\ worker[w].pc = "written" /\ worker'[w].pc = "verifying"
    /\ row[a].status = "executing" /\ row'[a].status = "executed"
    /\ row'[a].started = row[a].started

RollsBack(w) == LET a == worker[w].act IN
    /\ Mine(w) /\ Steady
    /\ worker[w].pc = "rollback" /\ worker'[w].pc = "redeem_undo"
    /\ row[a].status \in {"executing", "executed"} /\ row'[a].status = "rolling_back"
    /\ row'[a].started = row[a].started

SendsUndo(w) == LET a == worker[w].act IN
    /\ Mine(w) /\ UNCHANGED <<row, sent>>
    /\ worker[w].pc = "redeem_undo" /\ worker'[w].pc = "undoing"
    /\ undone' = [undone EXCEPT ![a] = @ + 1]

\* The row is closed, by its worker or from what another left.
Closes(w) == LET a == worker[w].act IN
    /\ Mine(w) /\ Steady
    /\ row'[a].started = row[a].started
    /\ row[a].status \in Acting /\ row'[a].status \in Closed
    /\ row'[a].status \in Undoes => MayUndo(worker[w])
    /\ worker'[w].pc = "reporting"

Effect ==
    \/ \E a \in Actions : QuietAt(a) /\ UNCHANGED worker
    \/ \E w \in Workers, a \in Actions : Quiet(w, a)
    \/ \E w \in Workers : worker[w].act \in Actions /\
            (Begins(w) \/ Sends(w) \/ Pursues(w) \/ Records(w) \/ RollsBack(w) \/ SendsUndo(w)
                \/ Closes(w))
    \/ UNCHANGED <<row, worker, sent, undone>>

-----------------------------------------------------------------------------
(* Every step has one of these effects                                     *)

LEMMA ContinueGives ==
    ASSUME WorkersTyped, NEW w \in Workers, NEW r \in Row, r.status # "none", Continue(w, r)
    PROVE  SameOthers(w) /\ worker'[w].act = worker[w].act /\ QuietPlace(worker'[w], r)
<1>1. /\ SameOthers(w) /\ worker'[w].pc = NextPc(r) /\ worker'[w].act = worker[w].act
      /\ worker'[w].seen = r.status
  BY ReadsGives DEF Continue
<1>2. \/ NextPc(r) \in {"lookup", "checking", "asking", "switch", "reporting"}
      \/ NextPc(r) = "verifying" /\ r.status \in {"executing", "executed"}
      \/ NextPc(r) = "leaving" /\ r.status = "rolling_back"
  BY DEF NextPc
<1> QED
  BY <1>1, <1>2 DEF QuietPlace, Apart, Acting

\* The attempt reads the row, as it is or as it has just quietly changed it.
LEMMA ContinueQuiet ==
    ASSUME WorkersTyped, RowsTyped', NEW w \in Workers, worker[w].act \in Actions,
           QuietAt(worker[w].act), row'[worker[w].act].status # "none",
           Continue(w, row'[worker[w].act])
    PROVE  Quiet(w, worker[w].act)
<1>1. row'[worker[w].act] \in Row
  BY DEF RowsTyped
<1> QED
  BY <1>1, ContinueGives DEF Quiet

LEMMA NoChangeQuiet ==
    ASSUME Steady, UNCHANGED row, NEW a
    PROVE  QuietAt(a)
  BY DEF QuietAt, SameRows, QuietRow

LEMMA GotoQuiet ==
    ASSUME WorkersTyped, NEW w \in Workers, worker[w].act \in Actions, NEW pc,
           Steady, UNCHANGED row, Goto(w, pc),
           pc \in Early \/ (pc \in Apart /\ row[worker[w].act].status # "none")
    PROVE  Quiet(w, worker[w].act)
  BY GotoGives, NoChangeQuiet DEF Quiet, QuietPlace

LEMMA SettlingQuiet ==
    ASSUME WorkersTyped, NEW w \in Workers, worker[w].act \in Actions, NEW s \in NotTried,
           Steady, UNCHANGED row, Settling(w, s), row[worker[w].act].status # "none"
    PROVE  Quiet(w, worker[w].act)
  BY SettlingGives, NoChangeQuiet DEF Quiet, QuietPlace

LEMMA RestQuiet ==
    ASSUME WorkersTyped, NEW w \in Workers, Steady, UNCHANGED row, Rest(w), NEW a \in Actions
    PROVE  Quiet(w, a)
  BY RestGives, NoChangeQuiet DEF Quiet, Early

LEMMA MineByGoto ==
    ASSUME WorkersTyped, NEW w \in Workers, NEW pc, Goto(w, pc), SameRows(worker[w].act)
    PROVE  Mine(w) /\ worker'[w].pc = pc
  BY GotoGives DEF Mine

\* Before the write: find, decide, open the change, ask.
LEMMA PreparesQuietly ==
    ASSUME WriteInv, TypeOK', NEW w \in Workers,
           \/ Perform(w) \/ Find(w) \/ Void(w) \/ Evaluate(w) \/ RecordDecision(w)
           \/ LookUpChange(w) \/ OpenChange(w) \/ NoteChange(w) \/ DenyUnbacked(w)
           \/ AskApproval(w) \/ CheckExpiry(w) \/ ReadSwitch(w)
    PROVE  \E a \in Actions : Quiet(w, a)
<1> DEFINE a == worker[w].act
<1> USE TypeOKParts
<1>0. RowsTyped' /\ WorkersTyped /\ RowsTyped /\ TypeOK
  BY DEF WriteInv, TypeOK, RowsTyped
<1>a. worker[w].pc # "idle" => a \in Actions /\ row[a] \in Row
  BY <1>0 DEF WorkersTyped, RowsTyped
<1>b. worker[w].pc \notin Early => row[a].status # "none"
  BY DEF WriteInv, PlaceInv, Placed
<1> HIDE DEF a
<1>1. CASE Perform(w)
  <2> PICK b \in Actions : worker' = [worker EXCEPT ![w] = [Idle EXCEPT !.pc = "finding", !.act = b]]
    BY <1>1 DEF Perform
  <2>1. SameOthers(w) /\ worker'[w].pc = "finding"
    BY <1>0 DEF SameOthers, WorkersTyped, Idle
  <2>2. QuietAt(b)
    BY <1>1, NoChangeQuiet DEF Perform, Steady
  <2> QED
    BY <2>1, <2>2 DEF Quiet, Early
<1>2. CASE Find(w)
  <2>0. a \in Actions /\ QuietAt(a) /\ Steady /\ UNCHANGED row
    BY <1>2, <1>a, NoChangeQuiet DEF Find, Steady
  <2>1. CASE row[a].status = "none" /\ Goto(w, "deciding")
    <3>1. "deciding" \in Early
      BY DEF Early
    <3> QED
      BY <1>0, <2>0, <2>1, <3>1, GotoQuiet DEF a
  <2>2. CASE row[a].status # "none" /\ Continue(w, row[a])
    BY <1>0, <2>0, <2>2, ContinueQuiet DEF a
  <2>3. CASE row[a].status \in Waiting \cup Acting /\ Reads(w, "voiding", row[a])
    BY <1>0, <2>0, <2>3, ReadsGives DEF Quiet, QuietPlace, Apart, Waiting, Acting, a
  <2> QED
    BY <1>2, <2>1, <2>2, <2>3 DEF Find, a
<1>3. CASE Void(w)
  <2>0. /\ a \in Actions /\ row[a] \in Row /\ row[a].status # "none" /\ Steady
        /\ Moves(w, Waiting, "invalid", FALSE) /\ Continue(w, row'[a])
    BY <1>3, <1>a, <1>b DEF Void, Steady, Early, a
  <2>1. /\ SameRows(a) /\ row'[a].started = row[a].started
        /\ row[a].status \notin Waiting => row'[a].status = row[a].status
        /\ row[a].status \in Waiting => row'[a].status = "invalid"
    BY <1>0, <2>0, MovesGives DEF a
  <2>2. QuietAt(a) /\ row'[a].status # "none"
    BY <2>0, <2>1 DEF QuietAt, QuietRow, NotMade, Waiting, Ready
  <2> QED
    BY <1>0, <2>0, <2>2, ContinueQuiet DEF a
<1>4. CASE Evaluate(w)
  <2> PICK v \in Verdicts, t \in Tiers :
        worker' = [worker EXCEPT ![w] = [@ EXCEPT !.pc = "recording", !.verdict = v, !.tier = t]]
    BY <1>4 DEF Evaluate
  <2>1. SameOthers(w) /\ worker'[w].pc = "recording"
    BY <1>0 DEF SameOthers, WorkersTyped, Worker
  <2>2. QuietAt(a) /\ a \in Actions
    BY <1>4, <1>a, NoChangeQuiet DEF Evaluate, Steady
  <2> QED
    BY <2>1, <2>2 DEF Quiet, Early
<1>5. CASE RecordDecision(w)
  <2> DEFINE v == worker[w].verdict
             r == [NoRow EXCEPT !.status = VerdictStatus[v], !.verdict = v, !.tier = worker[w].tier]
  <2>0. /\ a \in Actions /\ row[a] \in Row /\ Steady /\ Continue(w, row'[a])
        /\ row' = IF row[a].status = "none" THEN [row EXCEPT ![a] = r] ELSE row
    BY <1>5, <1>a DEF RecordDecision, Steady, a
  <2>1. r.status \in Waiting \cup NotMade /\ r.status # "none" /\ ~r.started
    <3>1. v \in Verdicts
      BY <1>0 DEF WorkersTyped, Worker
    <3> QED
      BY <3>1 DEF NoRow, VerdictStatus, Verdicts, Waiting, NotMade
  <2> HIDE DEF r
  <2>2. row[a].status = "none" => ~row[a].started
    BY <2>0 DEF WriteInv, StartedInv, Begun, Acting, Closed
  <2>3. CASE row[a].status = "none"
    <3>1. SameRows(a) /\ row'[a] = r
      BY <1>0, <2>0, <2>3 DEF SameRows, RowsTyped
    <3>2. row[a].started \in BOOLEAN /\ row'[a].started \in BOOLEAN
      BY <1>0, <2>0 DEF RowsTyped, Row
    <3>3. QuietAt(a) /\ row'[a].status # "none"
      BY <2>0, <2>1, <2>2, <2>3, <3>1, <3>2 DEF QuietAt, QuietRow
    <3> QED
      BY <1>0, <2>0, <3>3, ContinueQuiet DEF a
  <2>4. CASE row[a].status # "none"
    BY <1>0, <2>0, <2>4, NoChangeQuiet, ContinueQuiet DEF a
  <2> QED
    BY <2>3, <2>4
<1>6. CASE LookUpChange(w)
  <2>1. /\ a \in Actions /\ Steady /\ UNCHANGED row /\ row[a].status # "none"
        /\ Goto(w, "noting") \/ Goto(w, "opening") \/ Goto(w, "denying")
    BY <1>6, <1>a, <1>b DEF LookUpChange, Steady, Early
  <2> QED
    BY <1>0, <2>1, GotoQuiet DEF Apart, a
<1>7. CASE OpenChange(w)
  <2>1. /\ a \in Actions /\ Steady /\ UNCHANGED row /\ row[a].status # "none"
        /\ Goto(w, "noting") \/ Goto(w, "denying")
    BY <1>7, <1>a, <1>b DEF OpenChange, Steady, Early
  <2> QED
    BY <1>0, <2>1, GotoQuiet DEF Apart, a
<1>8. CASE NoteChange(w)
  <2>0. /\ a \in Actions /\ row[a] \in Row /\ row[a].status # "none" /\ Steady
        /\ row' = [row EXCEPT ![a].change = TRUE] /\ Continue(w, row'[a])
    BY <1>8, <1>a, <1>b DEF NoteChange, Steady, Early, a
  <2>1. SameRows(a) /\ row'[a].started = row[a].started /\ row'[a].status = row[a].status
    BY <1>0, <2>0 DEF RowsTyped, Row, SameRows
  <2>2. QuietAt(a) /\ row'[a].status # "none"
    BY <2>0, <2>1 DEF QuietAt, QuietRow
  <2> QED
    BY <1>0, <2>0, <2>2, ContinueQuiet DEF a
<1>9. CASE DenyUnbacked(w)
  <2> DEFINE r == [Moved(row[a], "denied", FALSE) EXCEPT !.verdict = "deny"]
  <2>0. /\ a \in Actions /\ row[a] \in Row /\ row[a].status # "none" /\ Steady
        /\ row' = [row EXCEPT ![a] = IF row[a].status \in Waiting THEN r ELSE row[a]]
        /\ Continue(w, row'[a])
    BY <1>9, <1>a, <1>b DEF DenyUnbacked, Steady, Early, a
  <2>1. r.status = "denied" /\ r.started = row[a].started
    BY <2>0 DEF Moved, Row
  <2> HIDE DEF r
  <2>2. /\ SameRows(a)
        /\ row'[a] = IF row[a].status \in Waiting THEN r ELSE row[a]
    BY <1>0, <2>0 DEF RowsTyped, SameRows
  <2>3. QuietAt(a) /\ row'[a].status # "none"
    BY <2>0, <2>1, <2>2 DEF QuietAt, QuietRow, NotMade, Waiting, Ready
  <2> QED
    BY <1>0, <2>0, <2>3, ContinueQuiet DEF a
<1>10. CASE AskApproval(w)
  <2>0. /\ a \in Actions /\ row[a] \in Row /\ row[a].status # "none" /\ Steady
        /\ row' = [row EXCEPT ![a].asked = TRUE]
        /\ Reads(w, "checking", row'[a]) \/ Continue(w, row'[a])
    BY <1>10, <1>a, <1>b DEF AskApproval, Steady, Early, a
  <2>1. SameRows(a) /\ row'[a].started = row[a].started /\ row'[a].status = row[a].status
    BY <1>0, <2>0 DEF RowsTyped, Row, SameRows
  <2>2. QuietAt(a) /\ row'[a].status # "none"
    BY <2>0, <2>1 DEF QuietAt, QuietRow
  <2> QED
    BY <1>0, <2>0, <2>2, ReadsGives, ContinueQuiet DEF Quiet, QuietPlace, Apart, a
<1>11. CASE CheckExpiry(w)
  <2>0. a \in Actions /\ row[a] \in Row /\ row[a].status # "none" /\ Steady
    BY <1>11, <1>a, <1>b DEF CheckExpiry, Steady, Early
  <2>1. CASE Moves(w, {"pending"}, "expired", FALSE) /\ Continue(w, row'[a])
    <3>1. /\ SameRows(a) /\ row'[a].started = row[a].started
          /\ row[a].status # "pending" => row'[a].status = row[a].status
          /\ row[a].status = "pending" => row'[a].status = "expired"
      BY <1>0, <2>0, <2>1, MovesGives DEF a
    <3>2. QuietAt(a) /\ row'[a].status # "none"
      BY <2>0, <3>1 DEF QuietAt, QuietRow, NotMade
    <3> QED
      BY <1>0, <2>0, <2>1, <3>2, ContinueQuiet DEF a
  <2>2. CASE UNCHANGED row /\ Goto(w, "parking")
    BY <1>0, <2>0, <2>2, GotoQuiet DEF Early, a
  <2> QED
    BY <1>11, <2>1, <2>2 DEF CheckExpiry, a
<1>12. CASE ReadSwitch(w)
  <2>0. /\ a \in Actions /\ Steady /\ UNCHANGED row /\ row[a].status # "none"
        /\ Goto(w, "authorising") \/ \E s \in NotTried : Settling(w, s)
    BY <1>12, <1>a, <1>b DEF ReadSwitch, Steady, Early, NotTried
  <2> QED
    BY <1>0, <2>0, GotoQuiet, SettlingQuiet DEF Apart, a
<1> QED
  BY <1>1, <1>2, <1>3, <1>4, <1>5, <1>6, <1>7, <1>8, <1>9, <1>10, <1>11, <1>12

\* From the authorisation on.
LEMMA WritesAsSaid ==
    ASSUME WriteInv, TypeOK', NEW w \in Workers,
           \/ Authorise(w) \/ Redeem(w) \/ WriteAnswered(w) \/ RecordExecuted(w)
           \/ Verify(w) \/ RollBack(w) \/ RedeemUndo(w) \/ UndoAnswered(w)
           \/ LeaveRollback(w) \/ Settle(w)
    PROVE  Effect
<1> DEFINE a == worker[w].act
<1> USE TypeOKParts
<1>0. RowsTyped' /\ WorkersTyped /\ RowsTyped /\ TypeOK
  BY DEF WriteInv, TypeOK, RowsTyped
<1>a. a \in Actions /\ row[a] \in Row
  BY <1>0 DEF WorkersTyped, RowsTyped, Authorise, Redeem, WriteAnswered, RecordExecuted, Verify,
              RollBack, RedeemUndo, UndoAnswered, LeaveRollback, Settle
<1>b. worker[w].pc \notin Early => row[a].status # "none"
  BY DEF WriteInv, PlaceInv, Placed
<1>c. UNCHANGED row => SameRows(a)
  BY DEF SameRows
<1>q. ASSUME Quiet(w, a) PROVE Effect
  BY <1>a, <1>q DEF Effect
<1>e. ASSUME \/ Begins(w) \/ Sends(w) \/ Pursues(w) \/ Records(w) \/ RollsBack(w)
             \/ SendsUndo(w) \/ Closes(w)
      PROVE  Effect
  BY <1>a, <1>e DEF Effect, a
\* The last read or move of an attempt: it closes the row, or finds it closed.
<1>f. ASSUME NEW from \in SUBSET Acting, NEW s \in Closed, NEW u \in BOOLEAN,
             Finish(w, from, s, u), Steady, row[a].status # "none",
             s \in Undoes => MayUndo(worker[w])
      PROVE  Effect
  <2>1. /\ SameOthers(w) /\ SameRows(a) /\ row'[a].started = row[a].started
        /\ row[a].status \notin from => row'[a].status = row[a].status
        /\ row[a].status \in from => row'[a].status = s
        /\ worker'[w].pc = "reporting" /\ worker'[w].act = a
    BY <1>0, <1>a, <1>f, FinishGives DEF a
  <2>2. CASE row[a].status \in from
    BY <1>e, <1>f, <2>1, <2>2 DEF Closes, Mine, a
  <2>3. CASE row[a].status \notin from
    BY <1>q, <1>f, <2>1, <2>3 DEF Quiet, QuietAt, QuietRow, QuietPlace, Apart
  <2> QED
    BY <2>2, <2>3
<1> HIDE DEF a
<1>1. CASE Authorise(w)
  <2>0. Steady /\ row[a].status # "none"
    BY <1>1, <1>b DEF Authorise, Steady, Early
  <2>1. CASE UNCHANGED row /\ \E s \in NotTried : Settling(w, s)
    BY <1>0, <1>a, <1>q, <2>0, <2>1, SettlingQuiet DEF a
  <2>2. CASE /\ row[a].status \in Ready /\ ~CarriedOut(a)
             /\ row' = [row EXCEPT ![a] = [@ EXCEPT !.status = "executing", !.started = TRUE]]
             /\ Reads(w, "redeeming", row'[a])
    <3>1. SameRows(a) /\ row'[a].status = "executing" /\ row'[a].started
      BY <1>0, <1>a, <2>2 DEF SameRows, RowsTyped, Row
    <3>2. Mine(w) /\ worker'[w].pc = "redeeming"
      BY <1>0, <1>a, <2>2, <3>1, ReadsGives DEF Mine, a
    <3> QED
      BY <1>e, <2>0, <2>2, <3>1, <3>2 DEF Begins, a
  <2> QED
    BY <1>1, <2>1, <2>2 DEF Authorise, NotTried, a
<1>2. CASE Redeem(w)
  <2>1. UNCHANGED <<row, undone>> /\ SameRows(a) /\ worker[w].pc = "redeeming"
    BY <1>2, <1>c DEF Redeem
  <2>2. CASE UNCHANGED sent /\ worker' = [worker EXCEPT ![w] = [@ EXCEPT !.pc = "rollback", !.stopped = kill]]
    <3>1. Mine(w) /\ worker'[w].pc = "rollback"
      BY <1>0, <2>1, <2>2 DEF Mine, SameOthers, WorkersTyped, Worker, a
    <3> QED
      BY <1>e, <2>1, <2>2, <3>1 DEF Pursues, Sender, Steady
  <2>3. CASE sent' = [sent EXCEPT ![a] = @ + 1] /\ Goto(w, "writing")
    BY <1>0, <1>e, <2>1, <2>3, MineByGoto DEF Sends, a
  <2> QED
    BY <1>2, <2>2, <2>3 DEF Redeem, a
<1>3. CASE WriteAnswered(w)
  <2>1. UNCHANGED row /\ Steady /\ SameRows(a) /\ worker[w].pc \in Sender
    BY <1>3, <1>c DEF WriteAnswered, Steady, Sender
  <2>2. Mine(w) /\ worker'[w].pc \in {"written", "verifying", "rollback"}
    BY <1>0, <1>3, <2>1, MineByGoto DEF WriteAnswered, a
  <2> QED
    BY <1>e, <2>1, <2>2 DEF Pursues
<1>4. CASE RecordExecuted(w)
  <2>0. Steady /\ worker[w].pc = "written"
    BY <1>4 DEF RecordExecuted, Steady
  <2>1. CASE /\ row[a].status = "executing"
             /\ row' = [row EXCEPT ![a] = Moved(@, "executed", FALSE)]
             /\ Reads(w, "verifying", row'[a])
    <3>1. SameRows(a) /\ row'[a].status = "executed" /\ row'[a].started = row[a].started
      BY <1>0, <1>a, <2>1 DEF SameRows, RowsTyped, Row, Moved
    <3>2. Mine(w) /\ worker'[w].pc = "verifying"
      BY <1>0, <1>a, <2>1, <3>1, ReadsGives DEF Mine, a
    <3> QED
      BY <1>e, <2>0, <2>1, <3>1, <3>2 DEF Records, a
  <2>2. CASE Goto(w, "raised") /\ UNCHANGED row
    <3>1. "raised" \in Early
      BY DEF Early
    <3> QED
      BY <1>0, <1>a, <1>q, <2>0, <2>2, <3>1, GotoQuiet DEF a
  <2> QED
    BY <1>4, <2>1, <2>2 DEF RecordExecuted, a
<1>5. CASE Verify(w)
  <2>0. Steady /\ row[a].status # "none" /\ worker[w].pc = "verifying"
    BY <1>5, <1>b DEF Verify, Steady, Early
  <2>1. CASE \/ Finish(w, {"executed", "executing"}, "verified", FALSE)
             \/ Finish(w, {"executing"}, "failed", TRUE)
    BY <1>f, <2>0, <2>1 DEF Acting, Closed, Undoes
  <2>2. CASE worker[w].seen = "executed" /\ Goto(w, "rollback") /\ UNCHANGED row
    BY <1>0, <1>c, <1>e, <2>0, <2>2, MineByGoto DEF Pursues, MayUndo, a
  <2> QED
    BY <1>5, <2>1, <2>2 DEF Verify
<1>6. CASE RollBack(w)
  <2>0. Steady /\ row[a].status # "none" /\ worker[w].pc = "rollback"
    BY <1>6, <1>b DEF RollBack, Steady, Early
  <2>1. CASE Finish(w, Acting, "failed", FALSE)
    BY <1>f, <2>0, <2>1 DEF Closed, Undoes
  <2>2. CASE /\ row[a].status \in {"executing", "executed"}
             /\ row' = [row EXCEPT ![a] = Moved(@, "rolling_back", FALSE)]
             /\ Goto(w, "redeem_undo")
    <3>1. SameRows(a) /\ row'[a].status = "rolling_back" /\ row'[a].started = row[a].started
      BY <1>0, <1>a, <2>2 DEF SameRows, RowsTyped, Row, Moved
    <3> QED
      BY <1>0, <1>e, <2>0, <2>2, <3>1, MineByGoto DEF RollsBack, a
  <2>3. CASE Settling(w, "rollback_failed") /\ UNCHANGED row
    BY <1>0, <1>c, <1>e, <2>0, <2>3, SettlingGives DEF Pursues, MayUndo, Mine, Undoes, a
  <2> QED
    BY <1>6, <2>1, <2>2, <2>3 DEF RollBack, a
<1>7. CASE RedeemUndo(w)
  <2>1. UNCHANGED <<row, sent>> /\ SameRows(a) /\ worker[w].pc = "redeem_undo"
    BY <1>7, <1>c DEF RedeemUndo
  <2>2. CASE Settling(w, "rollback_failed") /\ UNCHANGED undone
    BY <1>0, <1>e, <2>1, <2>2, SettlingGives DEF Pursues, MayUndo, Mine, Steady, Undoes, a
  <2>3. CASE undone' = [undone EXCEPT ![a] = @ + 1] /\ Goto(w, "undoing")
    BY <1>0, <1>e, <2>1, <2>3, MineByGoto DEF SendsUndo, a
  <2> QED
    BY <1>7, <2>2, <2>3 DEF RedeemUndo, a
<1>8. CASE UndoAnswered(w)
  <2>1. UNCHANGED row /\ Steady /\ SameRows(a) /\ worker[w].pc = "undoing"
    BY <1>8, <1>c DEF UndoAnswered, Steady
  <2>2. \E s \in Undoes : Settling(w, s)
    BY <1>8 DEF UndoAnswered, Undoes
  <2> QED
    BY <1>0, <1>e, <2>1, <2>2, SettlingGives DEF Pursues, MayUndo, Mine, a
<1>9. CASE LeaveRollback(w)
  <2>0. Steady /\ row[a].status # "none"
    BY <1>9, <1>b DEF LeaveRollback, Steady, Early
  <2>1. Finish(w, {"rolling_back"}, "failed", TRUE)
    BY <1>9 DEF LeaveRollback
  <2> QED
    BY <1>f, <2>0, <2>1 DEF Acting, Closed, Undoes
<1>10. CASE Settle(w)
  <2> DEFINE s == worker[w].to
  <2>0. /\ Steady /\ row[a].status # "none" /\ worker[w].pc = "settling"
        /\ Finish(w, From(s), s, FALSE)
    BY <1>10, <1>b DEF Settle, Steady, Early
  <2>1. s \in NotTried \/ s \in Undoes
    BY <2>0 DEF WriteInv, PlaceInv, Placed
  <2> HIDE DEF s
  <2>2. CASE s \in Undoes
    <3>1. From(s) = Acting /\ s \in Closed /\ MayUndo(worker[w])
      BY <2>0, <2>2 DEF From, Undoes, Closed, MayUndo, s
    <3> QED
      BY <1>f, <2>0, <3>1
  <2>3. CASE s \in NotTried
    <3>1. From(s) = Ready /\ s \in NotMade
      BY <2>3 DEF From, NotTried, NotMade
    <3>2. /\ SameOthers(w) /\ SameRows(a) /\ row'[a].started = row[a].started
          /\ row[a].status \notin Ready => row'[a].status = row[a].status
          /\ row[a].status \in Ready => row'[a].status = s
          /\ worker'[w].pc = "reporting" /\ worker'[w].act = a
      BY <1>0, <1>a, <2>0, <3>1, FinishGives DEF a
    <3>3. s # "none"
      BY <2>3 DEF NotTried
    <3> QED
      BY <1>q, <2>0, <3>1, <3>2, <3>3 DEF Quiet, QuietAt, QuietRow, QuietPlace, Apart
  <2> QED
    BY <2>1, <2>2, <2>3
<1> QED
  BY <1>1, <1>2, <1>3, <1>4, <1>5, <1>6, <1>7, <1>8, <1>9, <1>10

LEMMA EveryEffect ==
    ASSUME WriteInv, TypeOK', [Next]_vars
    PROVE  Effect
<1> USE TypeOKParts
<1>0. WorkersTyped /\ RowsTyped /\ TypeOK
  BY DEF WriteInv, TypeOK, RowsTyped
<1>a. \A a \in Actions : row[a] \in Row
  BY <1>0 DEF RowsTyped
<1>b. ASSUME NEW a \in Actions, NEW r, row' = [row EXCEPT ![a] = r], QuietRow(row[a], r),
             UNCHANGED <<sent, undone, worker>>
      PROVE  Effect
  BY <1>0, <1>b DEF Effect, QuietAt, SameRows, Steady, RowsTyped
<1>m. ASSUME NEW a \in Actions, row[a].status = "pending", NEW s \in NotMade,
             row' = [row EXCEPT ![a] = Moved(@, s, FALSE)], UNCHANGED <<sent, undone, worker>>
      PROVE  Effect
  <2>1. QuietRow(row[a], Moved(row[a], s, FALSE))
    BY <1>a, <1>m, MovedGives DEF QuietRow
  <2> QED
    BY <1>b, <1>m, <2>1
<1>d. ASSUME NEW a \in Actions, row[a].status = "pending", NEW p \in People, NEW yes \in BOOLEAN,
             DecidedBy(a, p, yes), UNCHANGED <<sent, undone, worker>>
      PROVE  Effect
  <2> DEFINE s == IF yes THEN "approved" ELSE "rejected"
             r == [row[a] EXCEPT !.status = s, !.approver = p]
  <2>1. s \in Waiting \cup NotMade
    BY DEF Waiting, NotMade
  <2> HIDE DEF s
  <2>2. QuietRow(row[a], r)
    BY <1>a, <1>d, <2>1 DEF QuietRow, Row
  <2>3. row' = [row EXCEPT ![a] = r]
    BY <1>d DEF DecidedBy, s
  <2> QED
    BY <1>b, <1>d, <2>2, <2>3
<1>1. ASSUME NEW w \in Workers, WorkerStep(w) PROVE Effect
  <2>1. CASE Report(w) \/ ReportError(w) \/ Park(w)
    <3>1. worker[w].act \in Actions /\ Rest(w) /\ UNCHANGED row /\ Steady
      BY <1>0, <2>1 DEF Report, ReportError, Park, WorkersTyped, Steady
    <3> QED
      BY <1>0, <3>1, RestQuiet DEF Effect
  <2>2. CASE \E a \in Actions : Quiet(w, a)
    BY <2>2 DEF Effect
  <2> QED
    BY <1>1, <2>1, <2>2, PreparesQuietly, WritesAsSaid DEF WorkerStep
<1>2. ASSUME NEW w \in Workers, InfraError(w) \/ Crash(w) PROVE Effect
  <2>1. worker[w].act \in Actions /\ UNCHANGED row /\ Steady /\ "raised" \in Early
    BY <1>0, <1>2 DEF InfraError, Crash, Database, Busy, WorkersTyped, Steady, Early
  <2> QED
    BY <1>0, <1>2, <2>1, GotoQuiet, RestQuiet DEF InfraError, Crash, Effect
<1>3. ASSUME NEW a \in Actions, Person(a) \/ Sweep(a) PROVE Effect
  <2>1. "expired" \in NotMade /\ "invalid" \in NotMade
    BY DEF NotMade
  <2>2. CASE Sweep(a)
    BY <1>m, <2>1, <2>2 DEF Sweep
  <2>3. ASSUME NEW p \in People, NEW yes \in BOOLEAN, Decide(a, p, yes) \/ Collect(a, p, yes)
        PROVE  Effect
    BY <1>m, <1>d, <2>1, <2>3 DEF Decide, Collect
  <2> QED
    BY <1>3, <2>2, <2>3 DEF Person
<1>4. ASSUME NEW a \in Actions, ExpiryPasses(a) \/ ValidityPasses(a) PROVE Effect
  <2>1. /\ QuietRow(row[a], [row[a] EXCEPT !.late = TRUE])
        /\ QuietRow(row[a], [row[a] EXCEPT !.stale = TRUE])
    BY <1>a DEF QuietRow, Row
  <2> QED
    BY <1>b, <1>4, <2>1 DEF ExpiryPasses, ValidityPasses
<1>5. CASE Throw \/ UNCHANGED vars
  BY <1>5 DEF Throw, vars, Effect
<1> QED
  BY <1>1, <1>2, <1>3, <1>4, <1>5 DEF Next

-----------------------------------------------------------------------------
(* Every effect keeps the invariant                                        *)

\* What a row says, for the row of the step and for the others.
LEMMA StartedKept ==
    ASSUME WriteInv, TypeOK', Effect
    PROVE  StartedInv'
<1> USE TypeOKParts DEF WriteInv, CountsTyped
<1>1. ASSUME NEW a \in Actions, QuietAt(a) PROVE StartedInv'
  BY <1>1 DEF StartedInv, QuietAt, QuietRow, SameRows, Steady, Begun, Acting, Closed, Waiting,
              NotMade, Ready
<1>2. ASSUME NEW w \in Workers, worker[w].act \in Actions,
             \/ Begins(w) \/ Sends(w) \/ Pursues(w) \/ Records(w) \/ RollsBack(w)
             \/ SendsUndo(w) \/ Closes(w)
      PROVE  StartedInv'
  <2> DEFINE a == worker[w].act
  <2>0. SameRows(a) /\ PlaceInv /\ StartedInv
    BY <1>2 DEF Begins, Sends, Pursues, Records, RollsBack, SendsUndo, Closes, Mine
  <2>p. worker[w].pc \in {"redeeming", "redeem_undo", "written"} => row[a].started
    BY <2>0 DEF PlaceInv, Placed, Making, Sender
  <2>q. /\ worker[w].pc = "redeeming" => sent[a] = 0 /\ undone[a] = 0
        /\ worker[w].pc = "redeem_undo" =>
              undone[a] = 0 /\ row[a].status \notin {"executing", "executed"}
        /\ worker[w].pc = "written" => undone[a] = 0
    BY <2>0 DEF PlaceInv, Placed, Sender
  <2> HIDE DEF a
  <2>1. CASE Begins(w)
    BY <1>2, <2>0, <2>1 DEF Begins, StartedInv, SameRows, Steady, Begun, Acting, Closed, Ready, a
  <2>2. CASE Sends(w)
    BY <1>2, <2>0, <2>p, <2>q, <2>2 DEF Sends, StartedInv, a
  <2>3. CASE Pursues(w)
    BY <2>0, <2>3 DEF Pursues, StartedInv, Steady
  <2>4. CASE Records(w)
    BY <1>2, <2>0, <2>q, <2>4 DEF Records, StartedInv, SameRows, Steady, Begun, Acting, a
  <2>5. CASE RollsBack(w)
    BY <1>2, <2>0, <2>5 DEF RollsBack, StartedInv, SameRows, Steady, Begun, Acting, a
  <2>6. CASE SendsUndo(w)
    BY <1>2, <2>0, <2>p, <2>q, <2>6 DEF SendsUndo, StartedInv, a
  <2>7. CASE Closes(w)
    BY <1>2, <2>0, <2>7 DEF Closes, StartedInv, SameRows, Steady, Begun, Acting, Closed, a
  <2> QED
    BY <1>2, <2>1, <2>2, <2>3, <2>4, <2>5, <2>6, <2>7
<1>3. CASE UNCHANGED <<row, worker, sent, undone>>
  BY <1>3 DEF StartedInv
<1> QED
  BY <1>1, <1>2, <1>3 DEF Effect, Quiet

\* Only Begins starts a write, and it looks for the same call elsewhere.
LEMMA OnceKept ==
    ASSUME WriteInv, TypeOK', Effect
    PROVE  OnceInv'
<1> USE DEF WriteInv
<1>1. CASE \A a \in Actions : row'[a].started = row[a].started
  BY <1>1 DEF OnceInv
<1>2. ASSUME NEW w \in Workers, worker[w].act \in Actions, Begins(w)
      PROVE  OnceInv'
  BY <1>2 DEF Begins, Mine, SameRows, OnceInv, CarriedOut
<1>3. ASSUME NEW a \in Actions, QuietAt(a) PROVE \A b \in Actions : row'[b].started = row[b].started
  BY <1>3 DEF QuietAt, QuietRow, SameRows
<1>4. ASSUME NEW w \in Workers,
             \/ Sends(w) \/ Pursues(w) \/ Records(w) \/ RollsBack(w) \/ SendsUndo(w) \/ Closes(w)
      PROVE \A b \in Actions : row'[b].started = row[b].started
  BY <1>4 DEF Sends, Pursues, Records, RollsBack, SendsUndo, Closes, Mine, SameRows
<1> QED
  BY <1>1, <1>2, <1>3, <1>4 DEF Effect, Quiet

\* The places, for the worker of the step and for the others.
LEMMA PlaceKept ==
    ASSUME WriteInv, TypeOK', Effect
    PROVE  PlaceInv'
<1> USE TypeOKParts DEF WriteInv, CountsTyped
<1>1. ASSUME NEW a \in Actions, QuietAt(a), NEW v \in Workers, worker'[v] = worker[v]
      PROVE  Placed(v)'
  <2> DEFINE b == worker[v].act
  <2>0. Placed(v) /\ (worker[v].pc # "idle" => b \in Actions)
    BY DEF PlaceInv, WorkersTyped
  <2>1. Steady /\ (b \in Actions => QuietRow(row[b], row'[b]))
    BY <1>1 DEF QuietAt, SameRows, QuietRow
  <2>2. CASE worker[v].pc \in Early
    BY <1>1, <2>2 DEF Placed, Early, Making, Sender
  <2>3. CASE worker[v].pc \notin Early
    BY <1>1, <2>0, <2>1, <2>3 DEF Placed, Early, QuietRow, Steady, Waiting, NotMade, Ready
  <2> QED
    BY <2>2, <2>3
<1>2. ASSUME NEW w \in Workers, NEW a \in Actions, Quiet(w, a) PROVE Placed(w)'
  <2>1. CASE worker'[w].pc \in Early
    BY <2>1 DEF Placed, Early, Making, Sender
  <2>2. CASE worker'[w].act = a /\ QuietPlace(worker'[w], row'[a])
    <3>1. StartedInv'
      BY StartedKept
    <3>2. row'[a].started <=> row'[a].status \in Begun
      BY <3>1 DEF StartedInv
    <3> QED
      BY <2>2, <3>2 DEF Placed, QuietPlace, Early, Apart, Making, Sender, Begun
  <2> QED
    BY <1>2, <2>1, <2>2 DEF Quiet
<1>3. ASSUME NEW w \in Workers, worker[w].act \in Actions,
             \/ Begins(w) \/ Sends(w) \/ Pursues(w) \/ Records(w) \/ RollsBack(w)
             \/ SendsUndo(w) \/ Closes(w)
      PROVE  PlaceInv'
  <2> DEFINE a == worker[w].act
  <2>0. /\ SameRows(a) /\ SameOthers(w) /\ worker'[w].act = a
        /\ PlaceInv /\ StartedInv /\ AloneInv
    BY <1>3 DEF Begins, Sends, Pursues, Records, RollsBack, SendsUndo, Closes, Mine
  <2>p. Placed(w)
    BY <2>0 DEF PlaceInv
  <2>r. /\ row[a].started <=> row[a].status \in Begun
        /\ row[a].started \in BOOLEAN
    BY <1>3, <2>0 DEF StartedInv, RowsTyped, Row
  <2>s. /\ sent[a] \in Nat /\ undone[a] \in Nat
        /\ ~row[a].started => sent[a] = 0 /\ undone[a] = 0
        /\ row[a].status \in {"executing", "executed"} => undone[a] = 0
    BY <1>3, <2>0 DEF StartedInv
  <2> SUFFICES ASSUME NEW v \in Workers PROVE Placed(v)'
    BY DEF PlaceInv
  <2>v. Placed(v)
    BY <2>0 DEF PlaceInv
  <2>o. /\ worker[v].act # a /\ worker[v].act \in Actions => row'[worker[v].act] = row[worker[v].act]
        /\ v # w => worker'[v] = worker[v]
        /\ worker[v].pc # "idle" => worker[v].act \in Actions
    BY <2>0 DEF SameRows, SameOthers, WorkersTyped
  <2>l. v # w /\ worker[v].act = a =>
            /\ worker[w].pc \in Sender => worker[v].pc \notin Sender /\ ~MayUndo(worker[v])
            /\ worker[v].pc \in Sender => worker[w].pc \notin Sender /\ ~MayUndo(worker[w])
            /\ ~(worker[w].pc = "redeem_undo" /\ worker[v].pc = "redeem_undo")
    BY <2>0 DEF AloneInv
  <2> HIDE DEF a
  <2>1. CASE Begins(w)
    <3>1. CASE v = w
      BY <1>3, <2>0, <2>p, <2>r, <2>s, <2>1, <3>1
      DEF Begins, Steady, Ready, Placed, Early, Making, Sender, Undoes, Begun, Acting, Closed, a
    <3>2. CASE v # w /\ worker[v].act = a
      BY <1>3, <2>0, <2>r, <2>s, <2>v, <2>o, <2>l, <2>1, <3>2
      DEF Begins, Steady, Ready, Placed, Early, Making, Sender, Undoes, NotTried, MayUndo, Begun, Acting, Closed, a
    <3>3. CASE v # w /\ worker[v].act # a
      BY <1>3, <2>v, <2>o, <2>1, <3>3 DEF Begins, Steady, Ready, Placed, Early, Making, Sender, a
    <3> QED
      BY <3>1, <3>2, <3>3
  <2>2. CASE Sends(w)
    <3>1. CASE v = w
      BY <1>3, <2>0, <2>p, <2>r, <2>s, <2>2, <3>1
      DEF Sends, Placed, Early, Making, Sender, Undoes, Begun, Acting, Closed, a
    <3>2. CASE v # w /\ worker[v].act = a
      BY <1>3, <2>0, <2>r, <2>s, <2>v, <2>o, <2>l, <2>2, <3>2
      DEF Sends, Placed, Early, Making, Sender, Undoes, NotTried, MayUndo, Begun, Acting, Closed, a
    <3>3. CASE v # w /\ worker[v].act # a
      BY <1>3, <2>v, <2>o, <2>2, <3>3 DEF Sends, Placed, Early, Making, Sender, a
    <3> QED
      BY <3>1, <3>2, <3>3
  <2>3. CASE Pursues(w)
    <3>1. CASE v = w
      <4>1. row[a].started /\ row[a].status # "none"
        BY <2>p, <2>r, <2>3, <3>1
        DEF Pursues, MayUndo, Placed, Early, Making, Sender, Undoes, NotTried, Begun, Acting, Closed, a
      <4>2. CASE worker[w].pc \in Sender
        BY <2>0, <2>p, <2>3, <3>1, <4>1, <4>2 DEF Pursues, Steady, Placed, Early, Making, Sender, a
      <4>3. CASE worker'[w].pc \in {"rollback", "settling"}
        BY <2>0, <2>3, <3>1, <4>1, <4>3 DEF Pursues, Placed, Early, Making, Sender, Undoes, a
      <4> QED
        BY <2>3, <4>2, <4>3 DEF Pursues
    <3>2. CASE v # w /\ worker[v].act = a
      BY <1>3, <2>0, <2>r, <2>s, <2>v, <2>o, <2>l, <2>3, <3>2
      DEF Pursues, Steady, Placed, Early, Making, Sender, Undoes, NotTried, MayUndo, Begun, Acting, Closed, a
    <3>3. CASE v # w /\ worker[v].act # a
      BY <1>3, <2>v, <2>o, <2>3, <3>3 DEF Pursues, Steady, MayUndo, Placed, Early, Making, Sender, a
    <3> QED
      BY <3>1, <3>2, <3>3
  <2>4. CASE Records(w)
    <3>1. CASE v = w
      BY <1>3, <2>0, <2>p, <2>r, <2>s, <2>4, <3>1
      DEF Records, Steady, Placed, Early, Making, Sender, Undoes, Begun, Acting, Closed, a
    <3>2. CASE v # w /\ worker[v].act = a
      BY <1>3, <2>0, <2>r, <2>s, <2>v, <2>o, <2>l, <2>4, <3>2
      DEF Records, Steady, Placed, Early, Making, Sender, Undoes, NotTried, MayUndo, Begun, Acting, Closed, a
    <3>3. CASE v # w /\ worker[v].act # a
      BY <1>3, <2>v, <2>o, <2>4, <3>3 DEF Records, Steady, Placed, Early, Making, Sender, a
    <3> QED
      BY <3>1, <3>2, <3>3
  <2>5. CASE RollsBack(w)
    <3>1. CASE v = w
      BY <1>3, <2>0, <2>p, <2>r, <2>s, <2>5, <3>1
      DEF RollsBack, Steady, Placed, Early, Making, Sender, Undoes, Begun, Acting, Closed, a
    <3>2. CASE v # w /\ worker[v].act = a
      BY <1>3, <2>0, <2>r, <2>s, <2>v, <2>o, <2>l, <2>5, <3>2
      DEF RollsBack, Steady, Placed, Early, Making, Sender, Undoes, NotTried, MayUndo, Begun, Acting, Closed, a
    <3>3. CASE v # w /\ worker[v].act # a
      BY <1>3, <2>v, <2>o, <2>5, <3>3 DEF RollsBack, Steady, Placed, Early, Making, Sender, a
    <3> QED
      BY <3>1, <3>2, <3>3
  <2>6. CASE SendsUndo(w)
    <3>1. CASE v = w
      BY <1>3, <2>0, <2>p, <2>r, <2>s, <2>6, <3>1
      DEF SendsUndo, Placed, Early, Making, Sender, Undoes, Begun, Acting, Closed, a
    <3>2. CASE v # w /\ worker[v].act = a
      BY <1>3, <2>0, <2>r, <2>s, <2>v, <2>o, <2>l, <2>6, <3>2
      DEF SendsUndo, Placed, Early, Making, Sender, Undoes, NotTried, MayUndo, Begun, Acting, Closed, a
    <3>3. CASE v # w /\ worker[v].act # a
      BY <1>3, <2>v, <2>o, <2>6, <3>3 DEF SendsUndo, Placed, Early, Making, Sender, a
    <3> QED
      BY <3>1, <3>2, <3>3
  <2>7. CASE Closes(w)
    <3>1. CASE v = w
      BY <1>3, <2>0, <2>p, <2>r, <2>s, <2>7, <3>1
      DEF Closes, Steady, Placed, Early, Making, Sender, Undoes, Begun, Acting, Closed, a
    <3>2. CASE v # w /\ worker[v].act = a
      BY <1>3, <2>0, <2>r, <2>s, <2>v, <2>o, <2>l, <2>7, <3>2
      DEF Closes, Steady, Placed, Early, Making, Sender, Undoes, NotTried, MayUndo, Begun, Acting, Closed, a
    <3>3. CASE v # w /\ worker[v].act # a
      BY <1>3, <2>v, <2>o, <2>7, <3>3 DEF Closes, Steady, Placed, Early, Making, Sender, a
    <3> QED
      BY <3>1, <3>2, <3>3
  <2> QED
    BY <1>3, <2>1, <2>2, <2>3, <2>4, <2>5, <2>6, <2>7
<1>4. CASE UNCHANGED <<row, worker, sent, undone>>
  BY <1>4 DEF PlaceInv, Placed
<1>5. ASSUME NEW w \in Workers, NEW a \in Actions, Quiet(w, a) PROVE PlaceInv'
  BY <1>1, <1>2, <1>5 DEF PlaceInv, Quiet, SameOthers
<1>6. ASSUME NEW a \in Actions, QuietAt(a), UNCHANGED worker PROVE PlaceInv'
  BY <1>1, <1>6 DEF PlaceInv
<1> QED
  BY <1>3, <1>4, <1>5, <1>6 DEF Effect

\* No second attempt comes to send a write, or to undo one that may still leave.
LEMMA AloneKept ==
    ASSUME WriteInv, TypeOK', Effect
    PROVE  AloneInv'
<1> USE DEF WriteInv
\* Only the worker of the step is to be compared with the others.
<1>a. ASSUME NEW w \in Workers, SameOthers(w),
             \A v \in Workers \ {w} : worker[v].act = worker'[w].act =>
                /\ worker'[w].pc \in Sender => worker[v].pc \notin Sender /\ ~MayUndo(worker[v])
                /\ worker[v].pc \in Sender => ~MayUndo(worker'[w])
                /\ ~(worker'[w].pc = "redeem_undo" /\ worker[v].pc = "redeem_undo")
      PROVE  AloneInv'
  BY <1>a DEF AloneInv, SameOthers
<1>b. ASSUME NEW w \in Workers, worker'[w].pc \notin Sender, ~MayUndo(worker'[w]), SameOthers(w)
      PROVE  AloneInv'
  BY <1>a, <1>b DEF MayUndo
<1>1. ASSUME NEW w \in Workers, NEW a \in Actions, Quiet(w, a) PROVE AloneInv'
  <2>1. CASE worker'[w].pc \in Early
    BY <1>b, <1>1, <2>1 DEF Quiet, Early, Sender, MayUndo
  <2>2. CASE worker'[w].act = a /\ QuietPlace(worker'[w], row'[a])
    <3>1. worker'[w].pc \notin Sender /\ worker'[w].pc # "redeem_undo"
      BY <2>2 DEF QuietPlace, Apart, Sender
    <3>2. MayUndo(worker'[w]) => row'[a].status = "executed"
      BY <2>2 DEF QuietPlace, Apart, MayUndo, NotTried, Undoes
    <3>3. ASSUME NEW v \in Workers \ {w}, worker[v].act = a, worker[v].pc \in Sender
          PROVE  row'[a].status # "executed"
      <4>1. Placed(v)' /\ worker'[v] = worker[v]
        BY <1>1, PlaceKept DEF PlaceInv, Quiet, SameOthers
      <4> QED
        BY <3>3, <4>1 DEF Placed
    <3> QED
      BY <1>a, <1>1, <2>2, <3>1, <3>2, <3>3 DEF Quiet
  <2> QED
    BY <1>1, <2>1, <2>2 DEF Quiet
<1>2. ASSUME NEW w \in Workers, worker[w].act \in Actions,
             \/ Begins(w) \/ Sends(w) \/ Pursues(w) \/ Records(w) \/ RollsBack(w)
             \/ SendsUndo(w) \/ Closes(w)
      PROVE  AloneInv'
  <2> DEFINE a == worker[w].act
  <2>0. SameOthers(w) /\ worker'[w].act = a
    BY <1>2 DEF Begins, Sends, Pursues, Records, RollsBack, SendsUndo, Closes, Mine
  <2>l. ASSUME NEW v \in Workers \ {w}, worker[v].act = a
        PROVE  /\ worker[w].pc \in Sender => worker[v].pc \notin Sender /\ ~MayUndo(worker[v])
               /\ worker[v].pc \in Sender => worker[w].pc \notin Sender /\ ~MayUndo(worker[w])
    BY <2>l DEF AloneInv
  <2>p. ASSUME NEW v \in Workers, worker[v].act = a PROVE Placed(v)
    BY DEF PlaceInv
  <2> HIDE DEF a
  <2>1. CASE Begins(w)
    <3>1. ~row[a].started
      BY <1>2, <2>1 DEF Begins, StartedInv, Ready, Begun, Acting, Closed, a
    <3>2. ASSUME NEW v \in Workers \ {w}, worker[v].act = a
          PROVE  worker[v].pc \notin Sender /\ ~MayUndo(worker[v])
      BY <2>p, <3>1, <3>2 DEF Placed, Making, Sender, MayUndo, Undoes, NotTried
    <3> QED
      BY <1>a, <2>0, <2>1, <3>2 DEF Begins, MayUndo
  <2>2. CASE Sends(w)
    BY <1>a, <2>0, <2>l, <2>2 DEF Sends, Sender, MayUndo
  <2>3. CASE Pursues(w) /\ worker[w].pc \in Sender
    BY <1>a, <2>0, <2>l, <2>3 DEF Pursues, Sender, MayUndo
  <2>4. CASE Pursues(w) /\ worker[w].pc \notin Sender
    BY <1>a, <2>0, <2>l, <2>4 DEF Pursues, Sender
  <2>5. CASE Records(w)
    BY <1>a, <2>0, <2>l, <2>5 DEF Records, Sender
  <2>6. CASE RollsBack(w)
    <3>1. ASSUME NEW v \in Workers \ {w}, worker[v].act = a
          PROVE  worker[v].pc # "redeem_undo"
      BY <2>p, <2>6, <3>1 DEF Placed, RollsBack, a
    <3>2. MayUndo(worker[w])
      BY <2>6 DEF RollsBack, MayUndo
    <3> QED
      BY <1>a, <2>0, <2>l, <2>6, <3>1, <3>2 DEF RollsBack, Sender
  <2>7. CASE SendsUndo(w)
    BY <1>a, <2>0, <2>l, <2>7 DEF SendsUndo, Sender, MayUndo
  <2>8. CASE Closes(w)
    BY <1>b, <2>0, <2>8 DEF Closes, Sender, MayUndo
  <2> QED
    BY <1>2, <2>1, <2>2, <2>3, <2>4, <2>5, <2>6, <2>7, <2>8
<1>3. CASE UNCHANGED worker
  BY <1>3 DEF AloneInv, MayUndo
<1> QED
  BY <1>1, <1>2, <1>3 DEF Effect

LEMMA InitWrite == Init => WriteInv
<1> SUFFICES ASSUME Init PROVE WriteInv
  OBVIOUS
<1>1. StartedInv
  BY DEF Init, NoRow, StartedInv, Begun, Acting, Closed
<1>2. OnceInv
  BY DEF Init, NoRow, OnceInv
<1>3. PlaceInv
  BY DEF Init, Idle, PlaceInv, Placed, Early, Making, Sender
<1>4. AloneInv
  BY DEF Init, Idle, AloneInv, Sender, MayUndo
<1> QED
  BY <1>1, <1>2, <1>3, <1>4, InitTyped DEF WriteInv

LEMMA NextWrite == WriteInv /\ [Next]_vars => WriteInv'
<1> SUFFICES ASSUME WriteInv, [Next]_vars PROVE WriteInv'
  OBVIOUS
<1>1. TypeOK'
  BY NextTyped DEF WriteInv
<1>2. StartedInv' /\ OnceInv' /\ PlaceInv' /\ AloneInv'
  BY <1>1, EveryEffect, StartedKept, OnceKept, PlaceKept, AloneKept
<1> QED
  BY <1>1, <1>2 DEF WriteInv

LEMMA WriteInvariant == Spec => []WriteInv
  BY InitWrite, NextWrite, PTL DEF Spec

-----------------------------------------------------------------------------
(* The theorems                                                            *)

\* The same write leaves at most once for the incident, through crashes, lost
\* answers and any number of attempts beside one another: the row is authorised
\* once, by the unique index one row of a call, and the grant is used once.
THEOREM SentOnce == Spec => []AtMostOnce
<1>1. WriteInv => AtMostOnce
  BY TypeOKParts DEF WriteInv, StartedInv, OnceInv, AtMostOnce, CountsTyped
<1> QED
  BY <1>1, WriteInvariant, PTL

\* A rollback leaves at most once, and then no attempt can still send the write.
THEOREM UndoneAfter == Spec => []RollbackFollowsWrite
<1>1. WriteInv => RollbackFollowsWrite
  BY DEF WriteInv, StartedInv, PlaceInv, Placed, Sender, RollbackFollowsWrite
<1> QED
  BY <1>1, WriteInvariant, PTL

\* A record that says nothing was changed is right, and stays right.
THEOREM NothingSent == Spec => []NothingWasChanged
<1>1. ASSUME WriteInv PROVE NothingWasChanged
  <2>1. \A a \in Actions : row[a].status \in NotMade => ~row[a].started
    BY <1>1 DEF WriteInv, StartedInv, NotMade, Begun, Acting, Closed
  <2>2. \A a \in Actions : ~row[a].started => sent[a] = 0 /\ undone[a] = 0
    BY <1>1, TypeOKParts DEF WriteInv, StartedInv, CountsTyped
  <2>3. \A w \in Workers : worker[w].pc = "redeeming" => row[worker[w].act].started
    BY <1>1 DEF WriteInv, PlaceInv, Placed, Making, Sender
  <2> QED
    BY <2>1, <2>2, <2>3 DEF NothingWasChanged
<1> QED
  BY <1>1, WriteInvariant, PTL

-----------------------------------------------------------------------------
(* The refinement of WritePermit                                           *)

StageMap == [a \in Actions |-> Stage(row[a])]

LEMMA StageOfBegun ==
    ASSUME NEW r, r.status \in Statuses \cup {"none"}
    PROVE  Stage(r) \in {"begun", "closed"} <=> r.status \in Begun
  BY DEF Stage, Statuses, Waiting, Ready, Acting, Final, NotMade, Begun, Closed

\* A step at one row moves the stage of that action only.
LEMMA StageMoves ==
    ASSUME NEW a \in Actions, SameRows(a)
    PROVE  /\ StageMap' = [StageMap EXCEPT ![a] = Stage(row'[a])]
           /\ Stage(row'[a]) = Stage(row[a]) => StageMap' = StageMap
  BY DEF SameRows, StageMap

LEMMA PermitInit == Init => Permit!Init
  BY DEF Init, NoRow, Stage, Permit!Init

LEMMA PermitStep == WriteInv /\ [Next]_vars => [Permit!Next]_(Permit!vars)
<1> SUFFICES ASSUME WriteInv, [Next]_vars PROVE [Permit!Next]_(Permit!vars)
  OBVIOUS
<1> USE DEF WriteInv
<1>0. TypeOK' /\ Effect /\ RowsTyped /\ CountsTyped
  BY NextTyped, EveryEffect, TypeOKParts
<1>a. \A a \in Actions : row[a] \in Row /\ row[a].status \in Statuses \cup {"none"}
  BY <1>0 DEF RowsTyped, Row
<1>b. \A a \in Actions : StageMap[a] = Stage(row[a])
  BY DEF StageMap
<1>s. ASSUME UNCHANGED <<StageMap, sent, undone>> PROVE [Permit!Next]_(Permit!vars)
  BY <1>s DEF Permit!vars, StageMap
<1>1. ASSUME NEW a \in Actions, QuietAt(a) PROVE [Permit!Next]_(Permit!vars)
  <2>0. SameRows(a) /\ UNCHANGED <<sent, undone>> /\ QuietRow(row[a], row'[a])
    BY <1>1 DEF QuietAt, Steady
  <2>1. CASE Stage(row'[a]) = Stage(row[a])
    BY <1>s, <2>0, <2>1, StageMoves
  <2>2. CASE Stage(row[a]) = "open" /\ Stage(row'[a]) = "permitted"
    <3>1. Permit!Permit(a)
      BY <1>b, <2>0, <2>2, StageMoves DEF Permit!Permit, StageMap
    <3> QED
      BY <3>1 DEF Permit!Next
  <2>3. CASE Stage(row[a]) \in {"open", "permitted"} /\ Stage(row'[a]) = "refused"
    <3>1. Permit!Refuse(a)
      BY <1>b, <2>0, <2>3, StageMoves DEF Permit!Refuse, StageMap
    <3> QED
      BY <3>1 DEF Permit!Next
  <2>4. \/ Stage(row'[a]) = Stage(row[a])
        \/ Stage(row[a]) = "open" /\ Stage(row'[a]) = "permitted"
        \/ Stage(row[a]) \in {"open", "permitted"} /\ Stage(row'[a]) = "refused"
    BY <2>0 DEF QuietRow, Stage, Waiting, Ready, NotMade, Acting
  <2> QED
    BY <2>1, <2>2, <2>3, <2>4
<1>2. ASSUME NEW w \in Workers, worker[w].act \in Actions,
             \/ Begins(w) \/ Sends(w) \/ Pursues(w) \/ Records(w) \/ RollsBack(w)
             \/ SendsUndo(w) \/ Closes(w)
      PROVE  [Permit!Next]_(Permit!vars)
  <2> DEFINE a == worker[w].act
  <2>0. SameRows(a) /\ Placed(w)
    BY <1>2 DEF Begins, Sends, Pursues, Records, RollsBack, SendsUndo, Closes, Mine, PlaceInv
  <2>s. row[a].started => Stage(row[a]) \in {"begun", "closed"}
    BY <1>2, <1>a, StageOfBegun DEF StartedInv
  <2> HIDE DEF a
  <2>1. CASE Begins(w)
    <3>1. /\ Stage(row[a]) = "permitted" /\ Stage(row'[a]) = "begun"
          /\ UNCHANGED <<sent, undone>> /\ ~CarriedOut(a)
      BY <2>1 DEF Begins, Steady, Stage, Ready, Acting, a
    <3>2. ASSUME NEW b \in Actions \ {a}, CallOf[b] = CallOf[a]
          PROVE  StageMap[b] \notin {"begun", "closed"}
      BY <1>a, <1>b, <3>1, <3>2, StageOfBegun DEF CarriedOut, StartedInv
    <3>3. Permit!Begin(a)
      BY <1>2, <1>b, <2>0, <3>1, <3>2, StageMoves DEF Permit!Begin, StageMap, a
    <3> QED
      BY <1>2, <3>3 DEF Permit!Next, a
  <2>2. CASE Sends(w)
    <3>0. row[a].started /\ sent[a] = 0 /\ undone[a] = 0
      BY <2>0, <2>2 DEF Sends, Placed, Making, Sender, a
    <3>1. UNCHANGED <<StageMap, undone>> /\ sent' = [sent EXCEPT ![a] = 1]
      BY <2>2, <3>0 DEF Sends, StageMap, a
    <3>2. Permit!Send(a)
      BY <1>2, <1>b, <2>s, <3>0, <3>1 DEF Permit!Send, StageMap, a
    <3> QED
      BY <1>2, <3>2 DEF Permit!Next, a
  <2>3. CASE SendsUndo(w)
    <3>0. row[a].started /\ undone[a] = 0
      BY <2>0, <2>3 DEF SendsUndo, Placed, Making, a
    <3>1. UNCHANGED <<StageMap, sent>> /\ undone' = [undone EXCEPT ![a] = 1]
      BY <2>3, <3>0 DEF SendsUndo, StageMap, a
    <3>2. Permit!Undo(a)
      BY <1>2, <1>b, <2>s, <3>0, <3>1 DEF Permit!Undo, StageMap, a
    <3> QED
      BY <1>2, <3>2 DEF Permit!Next, a
  <2>4. CASE Closes(w)
    <3>1. /\ Stage(row[a]) = "begun" /\ Stage(row'[a]) = "closed" /\ UNCHANGED <<sent, undone>>
      BY <2>4 DEF Closes, Steady, Stage, Ready, Acting, Closed, NotMade, a
    <3>2. Permit!Close(a)
      BY <1>2, <1>b, <2>0, <3>1, StageMoves DEF Permit!Close, StageMap, a
    <3> QED
      BY <1>2, <3>2 DEF Permit!Next, a
  <2>5. CASE Pursues(w) \/ Records(w) \/ RollsBack(w)
    <3>1. Stage(row'[a]) = Stage(row[a]) /\ UNCHANGED <<sent, undone>>
      BY <2>5 DEF Pursues, Records, RollsBack, Steady, Stage, Ready, Acting, a
    <3> QED
      BY <1>2, <1>s, <2>0, <3>1, StageMoves DEF a
  <2> QED
    BY <1>2, <2>1, <2>2, <2>3, <2>4, <2>5
<1>3. CASE UNCHANGED <<row, worker, sent, undone>>
  BY <1>s, <1>3 DEF StageMap
<1> QED
  BY <1>0, <1>1, <1>2, <1>3 DEF Effect, Quiet

\* However attempts crash, stall and race, every write keeps its permit: each
\* step of the pipeline is a step of WritePermit, or changes nothing it sees.
THEOREM Refinement == Spec => ImplementsPermit
<1>1. Spec => Permit!Init /\ [][Permit!Next]_(Permit!vars)
  BY WriteInvariant, PermitInit, PermitStep, PTL DEF Spec
<1> QED
  BY <1>1 DEF ImplementsPermit, Permit!Spec

=============================================================================
