----------------------------- MODULE RemoteCall -----------------------------
(***************************************************************************)
(* What the runner protocol promises the caller of one capability: a write *)
(* reaches the target at most once, the caller is told one thing about it, *)
(* and what the caller is told is true from then on.                       *)
(***************************************************************************)
EXTENDS Naturals

CONSTANT Call

VARIABLES made,   \* how often a write has reached the target
          told    \* what the caller has been told; "nothing" until then

vars == <<made, told>>

\* Endings that say the write was not made and never will be.
NotMade == {"refused", "not_authorized", "withdrawn", "unavailable"}

\* Endings that leave it open: a failed or lost call, a caller that went away.
Open == {"failed", "outcome_unknown", "gone"}

Init == /\ made = [c \in Call |-> 0]
        /\ told = [c \in Call |-> "nothing"]

Make(c) == /\ made[c] = 0
           /\ told[c] \notin NotMade
           /\ made' = [made EXCEPT ![c] = 1]
           /\ UNCHANGED told

Tell(c, t) == /\ told[c] = "nothing"
              /\ t = "ok" => made[c] = 1
              /\ t \in NotMade => made[c] = 0
              /\ told' = [told EXCEPT ![c] = t]
              /\ UNCHANGED made

Next == \E c \in Call : \/ Make(c)
                        \/ \E t \in NotMade \cup Open \cup {"ok"} : Tell(c, t)

Spec == Init /\ [][Next]_vars
=============================================================================
