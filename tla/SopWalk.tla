------------------------------- MODULE SopWalk -------------------------------
(***************************************************************************)
(* The walk through the steps of an SOP (engine/executor.py) over the      *)
(* transition table of a run (engine/state_machine.py), for every SOP of   *)
(* a few steps, and what the validator (sop/validator.py) promises about   *)
(* it.  An interrupted walk starts again: a step with a recorded result is *)
(* replayed from it.                                                       *)
(*                                                                         *)
(* A step is its kind and its two edges; what it calls, its parameters and *)
(* rules are the choice of its result.                                     *)
(***************************************************************************)
EXTENDS Naturals, Sequences, Functions

CONSTANTS
    Free,        \* steps of any kind, besides one RESOLVE and one ESCALATE step
    First,       \* the first of them
    MaxCrashes   \* bound: interruptions: crashes and waits for a person

VARIABLES
    sop,         \* the steps
    state,       \* RunState
    current,     \* the id of the step to take
    walk,        \* the steps taken in this attempt
    recorded,    \* the journal: results of completed steps
    by,          \* verified_by
    why,         \* why the run ended where it did, if it was not a step's doing
    outcome,
    crashes

vars == <<sop, state, current, walk, recorded, by, why, outcome, crashes>>

Step == Free \cup {"resolve", "escalate"}
Nowhere == "nowhere"
\* A gated step is one of any kind that requires approval.
Kinds == {"NOTE", "CHECK", "DECISION", "VERIFY", "ACTION", "gated"}
Sop == [Free -> [kind: Kinds, on_success: Step \cup {Nowhere}, on_failure: Step \cup {Nowhere}]]
Kind(s) == CASE s = "resolve" -> "RESOLVE" [] s = "escalate" -> "ESCALATE" [] OTHER -> sop[s].kind
EndsRun(s) == Kind(s) \in {"RESOLVE", "ESCALATE", "gated"}

Terminal == {"resolved", "escalated", "needs_human", "aborted"}
RunStates == Terminal \cup {"binding", "executing", "verifying", "verified", "policy_check",
                            "awaiting_approval", "acting", "rolling_back"}
NoResult == [status |-> "none", branch |-> Nowhere, events |-> <<>>]

-----------------------------------------------------------------------------
(* The transition table.                                                   *)

Table ==
    {<<"binding", "sop_invalid", "needs_human">>, <<"binding", "params_invalid", "needs_human">>,
     <<"binding", "params_bound", "executing">>,
     <<"executing", "note_done", "executing">>, <<"executing", "step_done", "executing">>,
     <<"executing", "verify_started", "verifying">>, <<"executing", "escalate", "escalated">>,
     <<"verifying", "verify_passed", "verified">>, <<"verifying", "verify_failed", "executing">>,
     <<"verified", "note_done", "verified">>, <<"verified", "step_done", "executing">>,
     <<"verified", "verify_started", "verifying">>, <<"verified", "escalate", "escalated">>,
     <<"verified", "resolve", "resolved">>,
     <<"executing", "action_started", "policy_check">>,
     <<"verified", "action_started", "policy_check">>,
     <<"policy_check", "policy_denied", "escalated">>,
     <<"policy_check", "policy_shadow", "executing">>,
     <<"policy_check", "policy_recommend", "escalated">>,
     <<"policy_check", "policy_allowed", "acting">>,
     <<"policy_check", "approval_required", "awaiting_approval">>,
     <<"awaiting_approval", "approval_granted", "acting">>,
     <<"awaiting_approval", "approval_refused", "escalated">>,
     <<"acting", "action_not_done", "executing">>, <<"acting", "action_verified", "executing">>,
     <<"acting", "action_failed", "rolling_back">>,
     <<"rolling_back", "rollback_done", "escalated">>}
    \cup {<<s, "abort", "aborted">> : s \in RunStates \ Terminal}

\* Pairs that are not in the table, errors and exhausted steps among them, end in a person's hands.
transition(s, event) ==
    LET to == {t[3] : t \in {u \in Table : u[1] = s /\ u[2] = event}}
    IN  IF to = {} THEN "needs_human" ELSE CHOOSE t \in to : TRUE

\* One event after another.
After(st, events) ==
    LET at[n \in 0..Len(events)] == IF n = 0 THEN st ELSE transition(at[n - 1], events[n])
    IN  at[Len(events)]

-----------------------------------------------------------------------------
(* The validator.                                                          *)

\* Mutant: a step leaves the run verified unless it is a failed verification.
KeepFlag(s) == "same"

\* What an edge makes of the flag "a verification has passed".
OtherFlag(s) == "no"
SuccessFlag(s) == CASE Kind(s) = "VERIFY" -> "yes" [] Kind(s) = "NOTE" -> "same"
                    [] OTHER -> OtherFlag(s)
step_edges(s) ==
    IF EndsRun(s) THEN {}
    ELSE {e \in {<<sop[s].on_success, SuccessFlag(s)>>,
                 <<sop[s].on_failure,
                   IF Kind(s) \in {"VERIFY", "NOTE"} THEN "no" ELSE OtherFlag(s)>>} :
             e[1] # Nowhere}

\* Steps with the flags they are entered with, along every path from the first one.
Flags == {"no", "yes"}
From(p) == {<<e[1], IF e[2] = "same" THEN p[2] ELSE e[2]>> : e \in step_edges(p[1])}
Onward(pairs) == pairs \cup UNION {From(p) : p \in pairs}
EnteredWith ==
    LET closed[pairs \in SUBSET (Step \X Flags)] ==
            IF Onward(pairs) = pairs THEN pairs ELSE closed[Onward(pairs)]
    IN  closed[{<<First, "no">>}]
Reachable == {p[1] : p \in EnteredWith}
HasCycle == \E round \in SUBSET Reachable :
    round # {} /\ \A s \in round : \E e \in step_edges(s) : e[1] \in round

Valid == /\ \A s \in Free : sop[s].kind # "gated" => sop[s].on_success # Nowhere
         /\ ~HasCycle
         /\ <<"resolve", "no">> \notin EnteredWith

-----------------------------------------------------------------------------
(* Results of a step.                                                      *)

Res(status) == [NoResult EXCEPT !.status = status]

\* _final: the route of an action through the table, from its record.
Granted == {<<"policy_allowed">>, <<"approval_required", "approval_granted">>}
ActionResults ==
    {[Res("SKIP") EXCEPT !.events = <<"policy_shadow">>],
     [Res("ESCALATED") EXCEPT !.events = <<"policy_recommend">>],
     [Res("ESCALATED") EXCEPT !.events = <<"policy_denied">>],
     [Res("ESCALATED") EXCEPT !.events = <<"abort">>],
     [Res("ESCALATED") EXCEPT !.events = <<"approval_required", "approval_refused">>]}
    \cup {[Res("FAIL") EXCEPT !.events = Append(g, "action_not_done")] : g \in Granted}
    \cup {[Res("SUCCESS") EXCEPT !.events = Append(g, "action_verified")] : g \in Granted}
    \cup {[Res("ESCALATED") EXCEPT !.events = g \o <<"action_failed", "rollback_done">>] :
             g \in Granted}
    \cup {[Res("ESCALATED") EXCEPT !.events = Append(g, "abort")] : g \in Granted}
    \cup {[Res("ERROR") EXCEPT !.events = Append(g, "error")] : g \in Granted}

\* A decision takes the success branch, or the failure branch when there is one.
DecisionResults(s) ==
    {[Res("SUCCESS") EXCEPT !.branch = sop[s].on_success],
     [Res(IF sop[s].on_failure = Nowhere THEN "FAIL" ELSE "SUCCESS") EXCEPT
         !.branch = sop[s].on_failure]}

\* A call is refused before it is made, fails to the last attempt, or is answered.
CheckResults == {Res("ERROR"), Res("FAIL"), Res("SUCCESS")}

\* A verification is a check and an assertion about its answer; what it cannot say is a no.
VerifyResults ==
    {IF r = Res("SUCCESS") /\ ~holds THEN Res("FAIL") ELSE r : r \in CheckResults, holds \in BOOLEAN}

Results(s, st) ==
    CASE Kind(s) \in {"gated", "ESCALATE"} -> {Res("ESCALATED")}
      [] Kind(s) = "RESOLVE" -> {Res(IF st = "verified" THEN "SUCCESS" ELSE "FAIL")}
      [] Kind(s) = "NOTE" -> {Res("SUCCESS")}
      [] Kind(s) = "DECISION" -> DecisionResults(s) \cup {Res("ERROR")}
      [] Kind(s) = "ACTION" -> ActionResults \cup {Res("ERROR")}
      [] Kind(s) = "VERIFY" -> VerifyResults
      [] OTHER -> CheckResults

-----------------------------------------------------------------------------
(* _run_steps.                                                             *)

\* Where a step that did not end the run goes on.
NextOf(s, r) ==
    IF r.status = "FAIL" THEN sop[s].on_failure
    ELSE IF r.branch # Nowhere THEN r.branch ELSE sop[s].on_success

\* The events a result is for the table.  A failure without an edge escalates.
Ending(s, r) == IF r.status = "FAIL" /\ sop[s].on_failure = Nowhere THEN <<"escalate">> ELSE <<>>
EventsOf(s, r) ==
    IF r.events # <<>> THEN <<"action_started">> \o r.events \o Ending(s, r)
    ELSE IF r.status = "ERROR" THEN <<"error">>
    ELSE IF r.status = "ESCALATED" THEN <<"escalate">>
    ELSE CASE Kind(s) = "RESOLVE" -> <<"resolve">>
           [] Kind(s) = "NOTE" -> <<"note_done">>
           [] Kind(s) = "VERIFY" ->
                 <<IF r.status = "SUCCESS" THEN "verify_passed" ELSE "verify_failed">> \o Ending(s, r)
           [] OTHER -> <<"step_done">> \o Ending(s, r)

\* Mutant: the first verification that passed is the one on record.
FirstBy(s, r, to) == IF by = Nowhere /\ to = "verified" THEN s
                     ELSE IF to \in {"verified", "resolved"} THEN by ELSE Nowhere

VerifiedBy(s, r, to) ==
    IF to \notin {"verified", "resolved"} THEN Nowhere
    ELSE IF Kind(s) = "VERIFY" /\ r.status = "SUCCESS" THEN s ELSE by

\* Mutant: a run is concluded in whatever state it is.
AsItStands(to, verified_by) ==
    IF to = "resolved" /\ verified_by = Nowhere THEN "needs_human" ELSE to

\* conclude refuses RESOLVED without the step that verified it.
Conclude(to, verified_by) ==
    CASE to \notin Terminal -> "none"
      [] to = "resolved" /\ verified_by = Nowhere -> "needs_human"
      [] OTHER -> to

Took(s, r, st) ==
    LET to == After(st, EventsOf(s, r))
        \* A table that leaves an action in between is an engine fault.
        odd == r.events # <<>> /\ to \notin Terminal \cup {"executing"}
        end == IF odd THEN "needs_human" ELSE to
    IN  /\ state' = end
        /\ by' = VerifiedBy(s, r, end)
        /\ current' = IF EndsRun(s) THEN Nowhere ELSE NextOf(s, r)
        /\ why' = CASE odd -> "unexpected"
                    [] Kind(s) = "RESOLVE" /\ end # "resolved" -> "unverified"
                    [] OTHER -> why
        /\ outcome' = Conclude(end, by')

Bind ==
    /\ state = "binding"
    /\ \E event \in IF Valid THEN {"params_bound", "params_invalid"} ELSE {"sop_invalid"} :
          state' = transition(state, event)
    /\ outcome' = Conclude(state', Nowhere)
    /\ UNCHANGED <<sop, current, walk, recorded, by, why, crashes>>

Walking == state \in {"executing", "verified"}
Ready == current # Nowhere /\ current \notin Range(walk)

\* Mutant: a decision is made anew.
DecidedAnew(s, st) ==
    IF recorded[s] = NoResult \/ Kind(s) = "DECISION" THEN Results(s, st) ELSE {recorded[s]}

\* A step that was completed before is not taken again.
Replayed(s, st) == IF recorded[s] = NoResult THEN Results(s, st) ELSE {recorded[s]}

TakeStep ==
    /\ LET s == current
           st == IF Kind(s) = "VERIFY" THEN transition(state, "verify_started") ELSE state
       IN  \E r \in Replayed(s, st) :
              /\ recorded' = [recorded EXCEPT ![s] = r]
              /\ walk' = Append(walk, s)
              /\ Took(s, r, st)
    /\ UNCHANGED <<sop, crashes>>

Exhausted ==
    /\ state' = transition(state, "steps_exhausted")
    /\ why' = "exhausted" /\ outcome' = Conclude(state', Nowhere)
    /\ UNCHANGED <<sop, current, walk, recorded, by, crashes>>

Advance == Walking /\ IF Ready THEN TakeStep ELSE Exhausted

\* The process dies, or the run waits for a person; the next attempt starts from the journal.
Interrupt ==
    /\ outcome = "none" /\ crashes < MaxCrashes
    /\ crashes' = crashes + 1
    /\ state' = "binding" /\ current' = First /\ walk' = <<>> /\ by' = Nowhere
    /\ UNCHANGED <<sop, recorded, why, outcome>>

Init ==
    /\ sop \in Sop
    /\ state = "binding" /\ current = First /\ walk = <<>> /\ by = Nowhere
    /\ recorded = [s \in Step |-> NoResult]
    /\ why = "step" /\ outcome = "none" /\ crashes = 0

Next == Bind \/ Advance \/ Interrupt

Spec == Init /\ [][Next]_vars

-----------------------------------------------------------------------------
TypeOK ==
    /\ sop \in Sop /\ state \in RunStates
    /\ current \in Step \cup {Nowhere} /\ walk \in Seq(Step)
    /\ \A s \in Step : recorded[s].branch \in Step \cup {Nowhere}
    /\ by \in Step \cup {Nowhere}
    /\ why \in {"step", "unexpected", "unverified", "exhausted"}
    /\ outcome \in Terminal \cup {"none"} /\ crashes \in 0..MaxCrashes

\* A run ends resolved only on the record of a verification that passed and after which
\* nothing but notes was done, in this attempt or replayed from an earlier one.
ResolvedMeansVerified ==
    outcome = "resolved" =>
        \E n \in DOMAIN walk :
            /\ walk[n] = by /\ Kind(by) = "VERIFY" /\ recorded[by].status = "SUCCESS"
            /\ \A m \in (n + 1)..Len(walk) : Kind(walk[m]) \in {"NOTE", "RESOLVE"}

\* What the validator accepted needs no last resort: the steps are never exhausted, RESOLVE
\* is never reached unverified, and no action leaves the run where the walk cannot go on.
ValidIsEnough == why = "step"

\* An interrupted run takes the road it had taken: at the end every recorded step was passed.
ResumedOnItsRoute ==
    outcome \notin {"none", "needs_human"} =>
        \A s \in Step : recorded[s] # NoResult => s \in Range(walk)
=============================================================================
