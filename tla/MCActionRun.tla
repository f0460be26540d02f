------------------------------ MODULE MCActionRun ------------------------------
(* ActionRun on a small instance. *)
EXTENDS ActionRun

CONSTANTS restart, approver, w1, w2

OneCall == [a \in 1..NumActions |-> restart]
WithRollback == {1}
OnePerson == {approver}
=============================================================================
