---------------------------- MODULE MCActionPipeline ----------------------------
(* ActionPipeline on small instances. *)
EXTENDS ActionPipeline, TLC

CONSTANTS restart, author, approver, w1, w2

\* Both steps stand for the same write; only the first declares a rollback.
SameCall == [a \in 1..NumActions |-> restart]
FirstOnly == {1}
TwoPeople == {author, approver}
\* Of a crash, a stall and a failed database call two happen in one behaviour.
FewFaults == faults.crashes + faults.stalls + faults.errors <= 2

WorkerSymmetry == Permutations(Workers)
=============================================================================
