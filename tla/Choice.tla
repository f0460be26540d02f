------------------------------- MODULE Choice -------------------------------
(***************************************************************************)
(* How a run comes to its procedure and to the values of its parameters:   *)
(* the score of each SOP, the pick of a model, the binding from the ticket *)
(* and the values a model located, over attempts that may die anywhere     *)
(* (engine/sop_matcher.py; _match_sop and _run of                          *)
(* engine/incident_processor.py; engine/parameters.py; _bind of            *)
(* engine/executor.py; rank and extract of ai/advisor.py).                 *)
(*                                                                         *)
(* A model may answer anything its schema lets through, and something else *)
(* each time it is asked.  Shares of a score are in twelfths.              *)
(***************************************************************************)
EXTENDS Naturals, FiniteSets

CONSTANTS
    Sop,          \* the published SOPs, by their place in the list
    Evidence,     \* what a ticket may have of what an SOP applies to
    Parameter,    \* the parameters of each SOP
    Source,       \* where each one's value comes from, and the value of a constant
    Value,        \* words of a ticket, or of a model
    Allowed,      \* the words that fit the declared pattern, length and list
    Threshold,    \* sop_confidence_threshold, in percent
    Nothing

VARIABLES
    acts,         \* the SOPs that make a change
    evidence,     \* how the ticket fits each SOP
    ticket,       \* the words in it
    matched,      \* what the author's pattern matches in it
    stage,        \* how far the attempt is
    sop,          \* the SOP it has
    values,       \* the parameters it has bound
    stored,       \* the run's row: the SOP, and the values a model located
    ran           \* with which SOP and values steps were carried out

vars == <<acts, evidence, ticket, matched, stage, sop, values, stored, ran>>

-----------------------------------------------------------------------------
(* The score of an SOP (SOPMatcher.match).  Its evidence: how many keywords *)
(* it has and how many are in the ticket, whether its title has words and  *)
(* the share of them, and what else the ticket agrees with and differs     *)
(* from.                                                                   *)

Full == 12
Weights == [keyword |-> 50, ci |-> 20, category |-> 15, group |-> 15]

\* Keywords are different phrasings of one problem: three of them are full evidence.
HitsForFullScore == 3
Least(a, b) == IF a < b THEN a ELSE b
HitsNeeded(e) == IF e.keywords = 0 THEN 1 ELSE Least(e.keywords, HitsForFullScore)
KeywordShare(e) == Least((Full * e.hits + e.title) \div HitsNeeded(e), Full)

\* A signal the ticket or the SOP does not carry is left out, and the others weigh the more.
Compared(e) ==
    (IF e.keywords > 0 \/ e.titled THEN {"keyword"} ELSE {}) \cup e.same \cup e.other
Share(e, signal) ==
    IF signal = "keyword" THEN KeywordShare(e) ELSE IF signal \in e.same THEN Full ELSE 0
Weighed(s, signal) == IF signal \in Compared(evidence[s]) THEN Weights[signal] ELSE 0
AllWeighed(s) ==
    Weighed(s, "keyword") + Weighed(s, "ci") + Weighed(s, "category") + Weighed(s, "group")

\* An SOP with nothing to compare scores nothing.
Weight(s) == IF AllWeighed(s) = 0 THEN 1 ELSE AllWeighed(s)
Scored(s, signal) == Weighed(s, signal) * Share(evidence[s], signal)
Points(s) ==
    Scored(s, "keyword") + Scored(s, "ci") + Scored(s, "category") + Scored(s, "group")

\* A higher score, and of equal ones the earlier SOP: the sort is stable.
Before(s, t) == \/ Points(s) * Weight(t) > Points(t) * Weight(s)
                \/ Points(s) * Weight(t) = Points(t) * Weight(s) /\ s < t
BestByRules == CHOOSE s \in Sop : \A t \in Sop \ {s} : Before(s, t)
Clears(s) == 100 * Points(s) >= Threshold * Full * Weight(s)

-----------------------------------------------------------------------------
None == [p \in Parameter |-> Nothing]
Bound == Value \cup {Source[p].value : p \in Parameter} \cup {Nothing}
TypeOK ==
    /\ acts \subseteq Sop
    /\ evidence \in [Sop -> Evidence]
    /\ ticket \subseteq Value
    /\ matched \in [Parameter -> Value \cup {Nothing}]
    /\ stage \in {"start", "chosen", "binding", "located", "bound", "failed", "unmatched"}
    /\ sop \in Sop \cup {0}
    /\ values \in [Parameter -> Bound]
    /\ stored \in [sop: Sop \cup {0}, located: [Parameter -> Bound]]
    /\ ran \subseteq (Sop \X [Parameter -> Bound])

Init ==
    /\ acts \in SUBSET Sop
    /\ evidence \in [Sop -> Evidence]
    /\ ticket \in SUBSET Value
    /\ matched \in {m \in [Parameter -> ticket \cup {Nothing}] :
                       \A p \in Parameter : Source[p].kind = "constant" => m[p] = Nothing}
    /\ stage = "start" /\ sop = 0 /\ values = None
    /\ stored = [sop |-> 0, located |-> None]
    /\ ran = {}

-----------------------------------------------------------------------------
(* The procedure.                                                          *)

\* Mutant: a pick that clears the threshold is good enough.
TakesAny(picked) == picked # 0 /\ Clears(picked)

\* The pick of a model, 0 for none, counts for an SOP that changes nothing.
TakesPick(picked) ==
    /\ picked # 0
    /\ picked # BestByRules => picked \notin acts
    /\ Clears(picked)

\* rank: one of the SOPs the model was shown, or none of them.
Picks == Sop \cup {0}

\* _match_sop: without advice, or with advice that does not count, the rules decide.
Match ==
    /\ stage = "start" /\ stored.sop = 0
    /\ \E picked \in Picks :
          sop' = IF TakesPick(picked) THEN picked ELSE BestByRules
    /\ stage' = IF Clears(sop') THEN "chosen" ELSE "unmatched"
    /\ UNCHANGED <<acts, evidence, ticket, matched, values, stored, ran>>

RecordMatch ==
    /\ stage = "chosen"
    /\ stored' = [stored EXCEPT !.sop = sop]
    /\ stage' = "binding"
    /\ UNCHANGED <<acts, evidence, ticket, matched, sop, values, ran>>

\* A resumed run keeps the SOP it started with, or goes to a person when that is gone.
Resume ==
    /\ stage = "start" /\ stored.sop # 0
    /\ \/ sop' = stored.sop /\ stage' = "binding"
       \/ stage' = "failed" /\ UNCHANGED sop
    /\ UNCHANGED <<acts, evidence, ticket, matched, values, stored, ran>>

-----------------------------------------------------------------------------
(* The parameters.                                                         *)

\* _raw_value: the author's constant, or what the field or the pattern gives.
Raw(p) == IF Source[p].kind = "constant" THEN Source[p].value ELSE matched[p]

\* _validate.
Valid(p, v) == v # Nothing /\ v \in Allowed[p]

\* bind_what_can_be.
Failures == {p \in Parameter : ~Valid(p, Raw(p))}
NotFound == {p \in Parameter : Raw(p) = Nothing}

\* The author let a model look for it, and the SOP makes no change.
MayBeAdvised(p) == Source[p].kind = "extraction" /\ Source[p].advisor
Askable == {p \in Failures \cap NotFound : MayBeAdvised(p)}
MayAsk == sop \notin acts /\ Askable = Failures

\* accept_advised: the value stands in the ticket, as a whole word, and is valid.
Accepted(p, v) == MayBeAdvised(p) /\ v \in ticket /\ Valid(p, v)

With(located) == [p \in Parameter |-> IF p \in Failures THEN located[p] ELSE Raw(p)]

\* Mutant: each attempt asks anew.
AsksAnew == FALSE

\* What an earlier attempt was given is used again.
Remembered == \A p \in Askable : stored.located[p] # Nothing

BindWithoutAdvice ==
    /\ stage = "binding" /\ Failures = {}
    /\ values' = With(None)
    /\ stage' = "bound"
    /\ UNCHANGED <<acts, evidence, ticket, matched, sop, stored, ran>>

BindAsBefore ==
    /\ stage = "binding" /\ Failures # {} /\ MayAsk /\ Remembered
    /\ values' = With(stored.located)
    /\ stage' = IF \A p \in Failures : Accepted(p, stored.located[p]) THEN "bound" ELSE "failed"
    /\ UNCHANGED <<acts, evidence, ticket, matched, sop, stored, ran>>

\* advisor.extract: an answer, or nothing for some of them.
Locate ==
    /\ stage = "binding" /\ Failures # {} /\ MayAsk /\ ~Remembered
    /\ \E located \in [Parameter -> Value \cup {Nothing}] :
          /\ \A p \in Parameter \ Failures : located[p] = Nothing
          /\ values' = With(located)
          /\ stage' = IF \A p \in Failures : Accepted(p, located[p]) THEN "located" ELSE "failed"
    /\ UNCHANGED <<acts, evidence, ticket, matched, sop, stored, ran>>

RecordAdvised ==
    /\ stage = "located"
    /\ stored' = [stored EXCEPT !.located = [p \in Parameter |->
                                                IF p \in Failures THEN values[p] ELSE Nothing]]
    /\ stage' = "bound"
    /\ UNCHANGED <<acts, evidence, ticket, matched, sop, values, ran>>

\* No advisor, or nothing a model may be asked for: a person takes over.
CannotBind ==
    /\ stage = "binding" /\ Failures # {} /\ ~(MayAsk /\ Remembered)
    /\ stage' = "failed"
    /\ UNCHANGED <<acts, evidence, ticket, matched, sop, values, stored, ran>>

-----------------------------------------------------------------------------
CarryOut ==
    /\ stage = "bound"
    /\ ran' = ran \cup {<<sop, values>>}
    /\ UNCHANGED <<acts, evidence, ticket, matched, stage, sop, values, stored>>

\* The worker dies, and another attempt begins with what the row holds.
Interrupt ==
    /\ stage \in {"chosen", "binding", "located", "bound"}
    /\ stage' = "start" /\ sop' = 0 /\ values' = None
    /\ UNCHANGED <<acts, evidence, ticket, matched, stored, ran>>

Next ==
    \/ Match \/ RecordMatch \/ Resume
    \/ BindWithoutAdvice \/ BindAsBefore \/ Locate \/ RecordAdvised \/ CannotBind
    \/ CarryOut \/ Interrupt

Spec == Init /\ [][Next]_vars

-----------------------------------------------------------------------------
\* Whatever the model answers and however often the run is interrupted: steps are carried out
\* with one SOP and one set of values, an SOP that makes a change is the best by the rules and
\* has no value a model pointed at, and every value is the author's or stands in the ticket.
RunsAsChosen ==
    /\ Cardinality(ran) <= 1
    /\ \A r \in ran :
          /\ Clears(r[1])
          /\ r[1] \in acts => r[1] = BestByRules /\ \A p \in Parameter : r[2][p] = Raw(p)
          /\ \A p \in Parameter : r[2][p] \in Allowed[p] /\ r[2][p] \in ticket \cup {Raw(p)}
=============================================================================
