---------------------------- MODULE ModelGateway ----------------------------
(***************************************************************************)
(* Asking a language model for advice (ai/gateway.py) within the policy    *)
(* and budgets of a tenant (ai/policy.py).  The budgets are counted from   *)
(* the record of earlier requests, which is written when a request ends:   *)
(* nothing is reserved while it is under way.                              *)
(*                                                                         *)
(* Several runs ask at once, and so may two attempts of one run when the   *)
(* lease of the first lapsed.  The reads of a check are one step: what a   *)
(* later read sees in addition only adds to what was used.  A request is   *)
(* answered within the size that was checked.  Costs are a second pair of  *)
(* budgets counted in the same way and left out.                           *)
(***************************************************************************)
EXTENDS Naturals, FiniteSets

CONSTANTS
    Advised,    \* runs that ask
    Drafting,   \* the scope of an article: no run, only the budget of the day
    Attempt,    \* workers that may be at one run
    Needed,     \* tokens a request is checked for: the estimated input and the longest answer
    Input,      \* the estimated input
    Incident,   \* the highest incident_tokens a policy allows
    Daily       \* the highest daily_tokens

VARIABLES
    policy,     \* model_policies
    asking,     \* where each request is
    tokens,     \* recorded for each run
    today,      \* recorded since midnight
    over        \* runs with a record over_budget

vars == <<policy, asking, tokens, today, over>>

Scope == Advised \cup {Drafting}
Most == Daily + Incident + Cardinality(Scope \X Attempt) * Needed
Policies == [enabled: BOOLEAN, incident: {Needed, Incident}, daily: {Needed, Daily}]

TypeOK ==
    /\ policy \in Policies
    /\ asking \in [Scope \X Attempt -> {"idle", "sent", "over_budget"}]
    /\ tokens \in [Advised -> 0..Most]
    /\ today \in 0..Most
    /\ over \subseteq Advised

\* A tenant that has never set a policy uses no model.
Init ==
    /\ policy = [enabled |-> FALSE, incident |-> Incident, daily |-> Daily]
    /\ asking = [a \in Scope \X Attempt |-> "idle"]
    /\ tokens = [s \in Advised |-> 0]
    /\ today = 0
    /\ over = {}

SetPolicy ==
    /\ policy' \in Policies
    /\ UNCHANGED <<asking, tokens, today, over>>

\* Midnight UTC.
NewDay == today' = 0 /\ UNCHANGED <<policy, asking, tokens, over>>

\* Mutant: only what is used already counts, not what is asked for.
ExceedsSoFar(s) ==
    \/ s \in Advised /\ tokens[s] > policy.incident
    \/ today > policy.daily

\* Mutant: only the day has a budget.
ExceedsDay(s) == today + Needed > policy.daily

Exceeds(s) ==
    \/ s \in Advised /\ tokens[s] + Needed > policy.incident
    \/ today + Needed > policy.daily

\* Mutant: each request is checked against the budgets alone.
NeverStopped(s) == FALSE

\* A budget has ended the model's part in this run.
Stopped(s) == s \in over

\* _refusal; a refusal by the policy or by an earlier stop is not recorded.
Ask(s, a) ==
    /\ asking[<<s, a>>] = "idle"
    /\ policy.enabled /\ ~Stopped(s)
    /\ asking' = [asking EXCEPT ![<<s, a>>] = IF Exceeds(s) THEN "over_budget" ELSE "sent"]
    /\ UNCHANGED <<policy, tokens, today, over>>

RecordStop(s, a) ==
    /\ asking[<<s, a>>] = "over_budget"
    /\ over' = over \cup ({s} \cap Advised)
    /\ asking' = [asking EXCEPT ![<<s, a>>] = "idle"]
    /\ UNCHANGED <<policy, tokens, today>>

\* An answer, valid or not, is charged with what it took; an error or a timeout with the
\* estimated input, which the provider may have processed.
Charges == Input..Needed
Record(s, a) ==
    /\ asking[<<s, a>>] = "sent"
    /\ \E charge \in Charges :
          /\ tokens' = [r \in Advised |-> tokens[r] + IF r = s THEN charge ELSE 0]
          /\ today' = today + charge
    /\ asking' = [asking EXCEPT ![<<s, a>>] = "idle"]
    /\ UNCHANGED <<policy, over>>

\* The record cannot be written, or the process dies: the request is not counted.
LoseRecord(s, a) ==
    /\ asking[<<s, a>>] # "idle"
    /\ asking' = [asking EXCEPT ![<<s, a>>] = "idle"]
    /\ UNCHANGED <<policy, tokens, today, over>>

Next ==
    \/ SetPolicy \/ NewDay
    \/ \E s \in Scope, a \in Attempt : Ask(s, a) \/ RecordStop(s, a)
    \/ \E s \in Scope, a \in Attempt : Record(s, a) \/ LoseRecord(s, a)

Spec == Init /\ [][Next]_vars

-----------------------------------------------------------------------------
\* What is recorded for a run and for a day.
WithinBudget ==
    /\ \A s \in Advised : tokens[s] <= Incident + (Cardinality(Attempt) - 1) * Needed
    /\ today <= Daily + (Cardinality(Scope \X Attempt) - 1) * Needed

\* Requests in flight are not reserved, but that is all a budget can be passed by: what is
\* recorded stays within the highest budget allowed and the requests that may be under way
\* beside the last one let through.  "The advisor takes no further part in that run, including
\* after a resume": once a run has a record over_budget no request of it is let through, on a
\* later day or with larger budgets.
BudgetsHold ==
    [][/\ WithinBudget'
       /\ \A s \in over, a \in Attempt : asking[<<s, a>>] = "idle" => asking'[<<s, a>>] = "idle"]_vars
=============================================================================
