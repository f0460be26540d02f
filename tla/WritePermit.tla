------------------------------ MODULE WritePermit ------------------------------
(***************************************************************************)
(* What the action pipeline promises of the writes it makes: a write is    *)
(* sent only under a permit, at most once for a call, whatever workers     *)
(* crash or race; its undoing is sent at most once and only for a write    *)
(* that was begun; a write that was refused is never sent.  ActionPipeline *)
(* implements it.                                                          *)
(***************************************************************************)
EXTENDS Naturals

CONSTANTS Actions,   \* the ACTION steps there are
          CallOf     \* the write each of them stands for: capability and parameters

VARIABLES stage,     \* how far the permit of each action has come
          sent,      \* how often its write was sent
          undone     \* how often its rollback was sent

vars == <<stage, sent, undone>>

Stages == {"open", "permitted", "refused", "begun", "closed"}

TypeOK ==
    /\ stage \in [Actions -> Stages]
    /\ sent \in [Actions -> 0..1]
    /\ undone \in [Actions -> 0..1]

Init ==
    /\ stage = [a \in Actions |-> "open"]
    /\ sent = [a \in Actions |-> 0]
    /\ undone = [a \in Actions |-> 0]

\* The policy allows it, or a person approves it.
Permit(a) ==
    /\ stage[a] = "open"
    /\ stage' = [stage EXCEPT ![a] = "permitted"]
    /\ UNCHANGED <<sent, undone>>

\* It will not be made: denied, rejected, expired, void, stopped.
Refuse(a) ==
    /\ stage[a] \in {"open", "permitted"}
    /\ stage' = [stage EXCEPT ![a] = "refused"]
    /\ UNCHANGED <<sent, undone>>

\* The permit is used up.  The same call is begun once for an incident.
Begin(a) ==
    /\ stage[a] = "permitted"
    /\ \A b \in Actions \ {a} : CallOf[b] = CallOf[a] => stage[b] \notin {"begun", "closed"}
    /\ stage' = [stage EXCEPT ![a] = "begun"]
    /\ UNCHANGED <<sent, undone>>

\* A worker that was held up may send it after the record was closed.
Send(a) ==
    /\ stage[a] \in {"begun", "closed"} /\ sent[a] = 0 /\ undone[a] = 0
    /\ sent' = [sent EXCEPT ![a] = 1]
    /\ UNCHANGED <<stage, undone>>

Undo(a) ==
    /\ stage[a] \in {"begun", "closed"} /\ undone[a] = 0
    /\ undone' = [undone EXCEPT ![a] = 1]
    /\ UNCHANGED <<stage, sent>>

Close(a) ==
    /\ stage[a] = "begun"
    /\ stage' = [stage EXCEPT ![a] = "closed"]
    /\ UNCHANGED <<sent, undone>>

Next == \E a \in Actions :
    Permit(a) \/ Refuse(a) \/ Begin(a) \/ Send(a) \/ Undo(a) \/ Close(a)

Spec == Init /\ [][Next]_vars
=============================================================================
