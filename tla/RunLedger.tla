------------------------------ MODULE RunLedger ------------------------------
(***************************************************************************)
(* What the durable run service promises of a run, whichever worker does   *)
(* the work and however often one dies: a run that was accepted stays in   *)
(* the custody of the queue until it is given its outcome, an outcome is   *)
(* given once and never changes, and the record of a step that finished is *)
(* never lost.  RunQueue implements it.                                    *)
(***************************************************************************)
CONSTANTS Runs,      \* the runs there can be
          Steps,     \* the steps of the SOP
          Outcomes,  \* the four outcomes of models/evidence.py
          None       \* "no outcome yet"

VARIABLES custody,   \* who answers for a run: nobody yet, the queue, the record
          outcome,   \* the outcome the record shows
          recorded   \* the steps whose result is on record

vars == <<custody, outcome, recorded>>

TypeOK ==
    /\ custody \in [Runs -> {"absent", "queue", "record"}]
    /\ outcome \in [Runs -> Outcomes \cup {None}]
    /\ recorded \in [Runs -> SUBSET Steps]

Init ==
    /\ custody = [r \in Runs |-> "absent"]
    /\ outcome = [r \in Runs |-> None]
    /\ recorded = [r \in Runs |-> {}]

\* An incident is taken in.
Accept(r) ==
    /\ custody[r] = "absent"
    /\ custody' = [custody EXCEPT ![r] = "queue"]
    /\ UNCHANGED <<outcome, recorded>>

\* A step's result is committed.
Record(r, s) ==
    /\ custody[r] # "absent"
    /\ recorded' = [recorded EXCEPT ![r] = @ \cup {s}]
    /\ UNCHANGED <<custody, outcome>>

\* The run is given its outcome, in the step that takes it off the queue.
Conclude(r, o) ==
    /\ custody[r] = "queue"
    /\ custody' = [custody EXCEPT ![r] = "record"]
    /\ outcome' = [outcome EXCEPT ![r] = o]
    /\ UNCHANGED recorded

Next == \E r \in Runs :
    \/ Accept(r)
    \/ \E s \in Steps : Record(r, s)
    \/ \E o \in Outcomes : Conclude(r, o)

Spec == Init /\ [][Next]_vars
=============================================================================
