-------------------------- MODULE CompositionProofs --------------------------
(***************************************************************************)
(* Proofs about the walk through an SOP and the rules of its steps, for    *)
(* every SOP of finitely many steps, every result they may have, every     *)
(* number of interruptions and every context: a run ends resolved on a     *)
(* verification, what the validator accepted needs no last resort, an      *)
(* interrupted run passes what it had recorded, and an answer does not     *)
(* rest on what is missing.  And about every component: its variables are  *)
(* of their types.                                                         *)
(***************************************************************************)
EXTENDS ComponentsProofs

-----------------------------------------------------------------------------
(* The transition table and the events of a step.                          *)

LEMMA AfterEvents == ASSUME NEW st, NEW S, NEW es \in Seq(S), Len(es) \in Nat, Len(es) <= 5
            PROVE \E came : /\ came[0] = st /\ E!After(st, es) = came[Len(es)]
                          /\ \A n \in 1..Len(es) : came[n] = E!transition(came[n - 1], es[n])
<1> DEFINE Tells(f) == f = [n \in 0..Len(es) |-> IF n = 0 THEN st ELSE E!transition(f[n - 1], es[n])]
           g1 == E!transition(st, es[1])
           g2 == E!transition(g1, es[2])
           g3 == E!transition(g2, es[3])
           g4 == E!transition(g3, es[4])
           g5 == E!transition(g4, es[5])
           g == [n \in 0..Len(es) |-> IF n = 0 THEN st ELSE IF n = 1 THEN g1 ELSE IF n = 2 THEN g2
                                      ELSE IF n = 3 THEN g3 ELSE IF n = 4 THEN g4 ELSE g5]
           f == CHOOSE h : Tells(h)
<1>1. Tells(g)
  <2>1. \A n \in 0..Len(es) : g[n] = IF n = 0 THEN st ELSE E!transition(g[n - 1], es[n])
    <3> SUFFICES ASSUME NEW n \in 0..Len(es) PROVE g[n] = IF n = 0 THEN st ELSE E!transition(g[n - 1], es[n])
      OBVIOUS
    <3> HIDE DEF g1, g2, g3, g4, g5
    <3>1. n \in 0..5 /\ (n > 0 => n - 1 \in 0..Len(es)) BY SMT
    <3>2. CASE n = 0 BY <3>2
    <3>3. CASE n = 1 BY <3>1, <3>3 DEF g1
    <3>4. CASE n = 2 BY <3>1, <3>4 DEF g2
    <3>5. CASE n = 3 BY <3>1, <3>5 DEF g3
    <3>6. CASE n = 4 BY <3>1, <3>6 DEF g4
    <3>7. CASE n = 5 BY <3>1, <3>7 DEF g5
    <3> QED BY <3>1, <3>2, <3>3, <3>4, <3>5, <3>6, <3>7
  <2> HIDE DEF g1, g2, g3, g4, g5
  <2>2. g = [n \in 0..Len(es) |-> g[n]] OBVIOUS
  <2> HIDE DEF g
  <2> QED BY <2>1, <2>2
<1> HIDE DEF Tells, g
<1>2. Tells(f)
  BY <1>1, Zenon DEF f
<1>3. E!After(st, es) = f[Len(es)]
  BY DEF E!After, f, Tells
<1> HIDE DEF f
<1>4. \A n \in 0..Len(es) : f[n] = IF n = 0 THEN st ELSE E!transition(f[n - 1], es[n])
  BY <1>2 DEF Tells
<1>5. f[0] = st /\ \A n \in 1..Len(es) : f[n] = E!transition(f[n - 1], es[n])
  BY <1>4
<1> QED BY <1>3, <1>5

\* Events in a row.
LEMMA AfterOne == \A st, a : E!After(st, <<a>>) = E!transition(st, a)
<1> SUFFICES ASSUME NEW st, NEW a PROVE E!After(st, <<a>>) = E!transition(st, a)
  OBVIOUS
<1>1. PICK es : es = <<a>>
  OBVIOUS
<1>2. es \in Seq({a}) /\ Len(es) = 1 /\ es[1] = a
  BY <1>1
<1>3. PICK came : /\ came[0] = st /\ E!After(st, es) = came[Len(es)]
                /\ \A n \in 1..Len(es) : came[n] = E!transition(came[n - 1], es[n])
  BY <1>2, AfterEvents
<1>4. came[1] = E!transition(st, a)
  BY <1>2, <1>3
<1> QED
  BY <1>1, <1>2, <1>3, <1>4

LEMMA AfterTwo == \A st, a, b : E!After(st, <<a, b>>) = E!transition(E!transition(st, a), b)
<1> SUFFICES ASSUME NEW st, NEW a, NEW b
             PROVE  E!After(st, <<a, b>>) = E!transition(E!transition(st, a), b)
  OBVIOUS
<1>1. PICK es : es = <<a, b>>
  OBVIOUS
<1>2. es \in Seq({a, b}) /\ Len(es) = 2 /\ es[1] = a /\ es[2] = b
  BY <1>1
<1>3. PICK came : /\ came[0] = st /\ E!After(st, es) = came[Len(es)]
                /\ \A n \in 1..Len(es) : came[n] = E!transition(came[n - 1], es[n])
  BY <1>2, AfterEvents
<1>4. came[1] = E!transition(st, a) /\ came[2] = E!transition(came[1], b)
  BY <1>2, <1>3
<1> QED
  BY <1>1, <1>2, <1>3, <1>4

\* The table: it says one thing of a pair, and nothing of an error.
LEMMA TableTells == \A t, u \in E!Table : t[1] = u[1] /\ t[2] = u[2] => t[3] = u[3]
BY SMTT(60) DEF E!Table, E!RunStates, E!Terminal

LEMMA TableMoves ==
    ASSUME NEW a, NEW b, NEW c, <<a, b, c>> \in E!Table
    PROVE  E!transition(a, b) = c
<1>1. \A u \in E!Table : u[1] = a /\ u[2] = b => u[3] = c
  BY TableTells
<1> QED
  BY <1>1 DEF E!transition

LEMMA TableSilent ==
    ASSUME NEW a, NEW b, \A u \in E!Table : ~(u[1] = a /\ u[2] = b)
    PROVE  E!transition(a, b) = "needs_human"
<1>1. {t[3] : t \in {u \in E!Table : u[1] = a /\ u[2] = b}} = {}
  OBVIOUS
<1> QED
  BY <1>1 DEF E!transition

Attempted == {"executing", "verified"}

LEMMA StepMoves ==
    /\ E!transition("executing", "note_done") = "executing"
    /\ E!transition("verified", "note_done") = "verified"
    /\ \A st \in Attempted : /\ E!transition(st, "step_done") = "executing"
                              /\ E!transition(st, "verify_started") = "verifying"
                              /\ E!transition(st, "escalate") = "escalated"
    /\ E!transition("verifying", "verify_passed") = "verified"
    /\ E!transition("verifying", "verify_failed") = "executing"
    /\ E!transition("verified", "resolve") = "resolved"
<1>1. /\ <<"executing", "note_done", "executing">> \in E!Table
      /\ <<"verified", "note_done", "verified">> \in E!Table
      /\ <<"executing", "step_done", "executing">> \in E!Table
      /\ <<"verified", "step_done", "executing">> \in E!Table
      /\ <<"executing", "verify_started", "verifying">> \in E!Table
      /\ <<"verified", "verify_started", "verifying">> \in E!Table
      /\ <<"executing", "escalate", "escalated">> \in E!Table
      /\ <<"verified", "escalate", "escalated">> \in E!Table
      /\ <<"verifying", "verify_passed", "verified">> \in E!Table
      /\ <<"verifying", "verify_failed", "executing">> \in E!Table
      /\ <<"verified", "resolve", "resolved">> \in E!Table
  BY DEF E!Table
<1> QED
  BY <1>1, TableMoves DEF Attempted

LEMMA ActionMoves ==
    /\ \A st \in Attempted : E!transition(st, "action_started") = "policy_check"
    /\ E!transition("policy_check", "policy_shadow") = "executing"
    /\ E!transition("policy_check", "policy_recommend") = "escalated"
    /\ E!transition("policy_check", "policy_denied") = "escalated"
    /\ E!transition("policy_check", "abort") = "aborted"
    /\ E!transition("policy_check", "policy_allowed") = "acting"
    /\ E!transition("policy_check", "approval_required") = "awaiting_approval"
    /\ E!transition("awaiting_approval", "approval_granted") = "acting"
    /\ E!transition("awaiting_approval", "approval_refused") = "escalated"
    /\ E!transition("acting", "action_not_done") = "executing"
    /\ E!transition("acting", "action_verified") = "executing"
    /\ E!transition("acting", "action_failed") = "rolling_back"
    /\ E!transition("acting", "abort") = "aborted"
    /\ E!transition("rolling_back", "rollback_done") = "escalated"
<1>1. /\ <<"executing", "action_started", "policy_check">> \in E!Table
      /\ <<"verified", "action_started", "policy_check">> \in E!Table
      /\ <<"policy_check", "policy_shadow", "executing">> \in E!Table
      /\ <<"policy_check", "policy_recommend", "escalated">> \in E!Table
      /\ <<"policy_check", "policy_denied", "escalated">> \in E!Table
      /\ <<"policy_check", "policy_allowed", "acting">> \in E!Table
      /\ <<"policy_check", "approval_required", "awaiting_approval">> \in E!Table
  BY DEF E!Table
<1>2. /\ <<"awaiting_approval", "approval_granted", "acting">> \in E!Table
      /\ <<"awaiting_approval", "approval_refused", "escalated">> \in E!Table
      /\ <<"acting", "action_not_done", "executing">> \in E!Table
      /\ <<"acting", "action_verified", "executing">> \in E!Table
      /\ <<"acting", "action_failed", "rolling_back">> \in E!Table
      /\ <<"rolling_back", "rollback_done", "escalated">> \in E!Table
  BY DEF E!Table
<1>3. /\ <<"policy_check", "abort", "aborted">> \in E!Table
      /\ <<"acting", "abort", "aborted">> \in E!Table
  BY DEF E!Table, E!RunStates, E!Terminal
<1> QED
  BY <1>1, <1>2, <1>3, TableMoves DEF Attempted

LEMMA NoMoves ==
    /\ \A st : /\ E!transition(st, "error") = "needs_human"
               /\ E!transition(st, "steps_exhausted") = "needs_human"
    /\ E!transition("executing", "resolve") = "needs_human"
    /\ E!transition("binding", "sop_invalid") = "needs_human"
    /\ E!transition("binding", "params_invalid") = "needs_human"
    /\ E!transition("binding", "params_bound") = "executing"
<1>1. \A u \in E!Table : /\ u[2] # "error" /\ u[2] # "steps_exhausted"
                         /\ ~(u[1] = "executing" /\ u[2] = "resolve")
  BY DEF E!Table
<1>2. /\ <<"binding", "sop_invalid", "needs_human">> \in E!Table
      /\ <<"binding", "params_invalid", "needs_human">> \in E!Table
      /\ <<"binding", "params_bound", "executing">> \in E!Table
  BY DEF E!Table
<1> QED
  BY <1>1, <1>2, TableMoves, TableSilent

\* What an action comes to.
ActedAs(status, n, e) ==
    \/ status = "SKIP" /\ n = 1 /\ e[1] = "policy_shadow"
    \/ status = "ESCALATED" /\ n = 1 /\ e[1] \in {"policy_recommend", "policy_denied", "abort"}
    \/ status = "ESCALATED" /\ n = 2 /\ e[1] = "approval_required" /\ e[2] = "approval_refused"
    \/ \E g \in {1, 2} :
          /\ \/ g = 1 /\ e[1] = "policy_allowed"
             \/ g = 2 /\ e[1] = "approval_required" /\ e[2] = "approval_granted"
          /\ \/ status = "FAIL" /\ n = g + 1 /\ e[g + 1] = "action_not_done"
             \/ status = "SUCCESS" /\ n = g + 1 /\ e[g + 1] = "action_verified"
             \/ status = "ESCALATED" /\ n = g + 1 /\ e[g + 1] = "abort"
             \/ status = "ERROR" /\ n = g + 1 /\ e[g + 1] = "error"
             \/ status = "ESCALATED" /\ n = g + 2 /\ e[g + 1] = "action_failed" /\ e[g + 2] = "rollback_done"

Word == {"policy_shadow", "policy_recommend", "policy_denied", "abort", "approval_required",
         "approval_refused", "approval_granted", "policy_allowed", "action_not_done",
         "action_verified", "error", "action_failed", "rollback_done", "action_started", "escalate"}

LEMMA OneWord ==
    ASSUME NEW a \in Word
    PROVE  <<a>> \in Seq(Word) /\ Len(<<a>>) = 1 /\ <<a>>[1] = a
OBVIOUS

LEMMA TwoWords ==
    ASSUME NEW a \in Word, NEW b \in Word
    PROVE  <<a, b>> \in Seq(Word) /\ Len(<<a, b>>) = 2 /\ <<a, b>>[1] = a /\ <<a, b>>[2] = b
<1>1. PICK w : w = <<a, b>>
  OBVIOUS
<1>2. w \in Seq(Word) /\ Len(w) = 2 /\ w[1] = a /\ w[2] = b
  BY <1>1
<1> QED
  BY <1>1, <1>2

LEMMA ActionResult ==
    ASSUME NEW r \in E!ActionResults
    PROVE  /\ r = [status |-> r.status, branch |-> E!Nowhere, events |-> r.events]
           /\ r.events \in Seq(Word) /\ ActedAs(r.status, Len(r.events), r.events)
<1> DEFINE R(status, told) == [E!Res(status) EXCEPT !.events = told]
<1>1. \A status, told : /\ R(status, told).status = status /\ R(status, told).events = told
                          /\ R(status, told) = [status |-> status, branch |-> E!Nowhere, events |-> told]
  <2> SUFFICES ASSUME NEW status, NEW told
               PROVE  R(status, told) = [status |-> status, branch |-> E!Nowhere, events |-> told]
    OBVIOUS
  <2>1. E!Res(status) = [status |-> status, branch |-> E!Nowhere, events |-> <<>>]
    BY DEF E!Res, E!NoResult
  <2> QED
    BY <2>1
<1> HIDE DEF R
<1>2. \/ r \in {R("SKIP", <<"policy_shadow">>), R("ESCALATED", <<"policy_recommend">>),
                 R("ESCALATED", <<"policy_denied">>), R("ESCALATED", <<"abort">>),
                 R("ESCALATED", <<"approval_required", "approval_refused">>)}
      \/ \E g \in E!Granted :
            r \in {R("FAIL", Append(g, "action_not_done")), R("SUCCESS", Append(g, "action_verified")),
                   R("ESCALATED", g \o <<"action_failed", "rollback_done">>),
                   R("ESCALATED", Append(g, "abort")), R("ERROR", Append(g, "error"))}
  BY DEF E!ActionResults, R
<1>3. CASE r \in {R("SKIP", <<"policy_shadow">>), R("ESCALATED", <<"policy_recommend">>),
                  R("ESCALATED", <<"policy_denied">>), R("ESCALATED", <<"abort">>),
                  R("ESCALATED", <<"approval_required", "approval_refused">>)}
  <2>1. PICK status, told :
            /\ r = R(status, told)
            /\ \/ status = "SKIP" /\ told = <<"policy_shadow">>
               \/ status = "ESCALATED" /\ told \in {<<"policy_recommend">>, <<"policy_denied">>, <<"abort">>}
               \/ status = "ESCALATED" /\ told = <<"approval_required", "approval_refused">>
    BY <1>3
  <2>2. told \in Seq(Word) /\ ActedAs(status, Len(told), told)
    <3>1. \A a \in Word : told = <<a>> => told \in Seq(Word) /\ Len(told) = 1 /\ told[1] = a
      BY OneWord
    <3>2. CASE status = "SKIP" /\ told = <<"policy_shadow">>
      <4>1. "policy_shadow" \in Word
        BY DEF Word
      <4> QED
        BY <3>1, <3>2, <4>1 DEF ActedAs
    <3>3. CASE status = "ESCALATED" /\ told \in {<<"policy_recommend">>, <<"policy_denied">>, <<"abort">>}
      <4>1. "policy_recommend" \in Word /\ "policy_denied" \in Word /\ "abort" \in Word
        BY DEF Word
      <4> QED
        BY <3>1, <3>3, <4>1 DEF ActedAs
    <3>4. CASE status = "ESCALATED" /\ told = <<"approval_required", "approval_refused">>
      <4>1. /\ told \in Seq(Word) /\ Len(told) = 2
            /\ told[1] = "approval_required" /\ told[2] = "approval_refused"
        <5>1. "approval_required" \in Word /\ "approval_refused" \in Word
          BY DEF Word
        <5> QED
          BY <3>4, <5>1, TwoWords
      <4> QED
        BY <3>4, <4>1 DEF ActedAs
    <3> QED
      BY <2>1, <3>2, <3>3, <3>4
  <2> QED
    BY <1>1, <2>1, <2>2
<1>4. ASSUME NEW g \in E!Granted,
            r \in {R("FAIL", Append(g, "action_not_done")), R("SUCCESS", Append(g, "action_verified")),
                   R("ESCALATED", g \o <<"action_failed", "rollback_done">>),
                   R("ESCALATED", Append(g, "abort")), R("ERROR", Append(g, "error"))}
      PROVE /\ r = [status |-> r.status, branch |-> E!Nowhere, events |-> r.events]
            /\ r.events \in Seq(Word) /\ ActedAs(r.status, Len(r.events), r.events)
  <2>1. /\ g \in Seq(Word)
        /\ \/ Len(g) = 1 /\ g[1] = "policy_allowed"
           \/ Len(g) = 2 /\ g[1] = "approval_required" /\ g[2] = "approval_granted"
    <3>1. CASE g = <<"policy_allowed">>
      <4>1. "policy_allowed" \in Word
        BY DEF Word
      <4> QED
        BY <3>1, <4>1, OneWord
    <3>2. CASE g = <<"approval_required", "approval_granted">>
      <4>1. "approval_required" \in Word /\ "approval_granted" \in Word
        BY DEF Word
      <4> QED
        BY <3>2, <4>1, TwoWords
    <3> QED
      BY <3>1, <3>2 DEF E!Granted
  <2>2. PICK back : back = <<"action_failed", "rollback_done">>
    OBVIOUS
  <2>3. back \in Seq(Word) /\ Len(back) = 2 /\ back[1] = "action_failed" /\ back[2] = "rollback_done"
    <3>1. "action_failed" \in Word /\ "rollback_done" \in Word
      BY DEF Word
    <3> QED
      BY <2>2, <3>1, TwoWords
  <2>4. PICK status, told :
            /\ r = R(status, told)
            /\ \/ status = "ESCALATED" /\ told = g \o back
               \/ \E e \in Word : /\ told = Append(g, e)
                                  /\ \/ status = "FAIL" /\ e = "action_not_done"
                                     \/ status = "SUCCESS" /\ e = "action_verified"
                                     \/ status = "ESCALATED" /\ e = "abort"
                                     \/ status = "ERROR" /\ e = "error"
    <3>1. /\ "action_not_done" \in Word /\ "action_verified" \in Word
          /\ "abort" \in Word /\ "error" \in Word
      BY DEF Word
    <3>2. CASE r = R("ESCALATED", g \o back)
      BY <3>2
    <3>3. CASE r = R("FAIL", Append(g, "action_not_done"))
      BY <3>1, <3>3
    <3>4. CASE r = R("SUCCESS", Append(g, "action_verified"))
      BY <3>1, <3>4
    <3>5. CASE r = R("ESCALATED", Append(g, "abort"))
      BY <3>1, <3>5
    <3>6. CASE r = R("ERROR", Append(g, "error"))
      BY <3>1, <3>6
    <3> QED
      BY <1>4, <2>2, <3>2, <3>3, <3>4, <3>5, <3>6
  <2>5. CASE status = "ESCALATED" /\ told = g \o back
    <3>1. /\ told \in Seq(Word) /\ Len(told) = Len(g) + 2
          /\ \A i \in 1..Len(g) : told[i] = g[i]
          /\ told[Len(g) + 1] = "action_failed" /\ told[Len(g) + 2] = "rollback_done"
      <4>1. told \in Seq(Word) /\ Len(told) = Len(g) + Len(back)
            /\ \A i \in 1..(Len(g) + Len(back)) : told[i] = IF i <= Len(g) THEN g[i] ELSE back[i - Len(g)]
        BY <2>1, <2>3, <2>5, ConcatProperties
      <4> QED
        BY <2>1, <2>3, <4>1
    <3>2. ActedAs(status, Len(told), told)
      BY <2>1, <2>5, <3>1 DEF ActedAs
    <3> QED
      BY <1>1, <2>4, <3>1, <3>2
  <2>6. ASSUME NEW e \in Word, told = Append(g, e),
               \/ status = "FAIL" /\ e = "action_not_done"
               \/ status = "SUCCESS" /\ e = "action_verified"
               \/ status = "ESCALATED" /\ e = "abort"
               \/ status = "ERROR" /\ e = "error"
        PROVE /\ r = [status |-> r.status, branch |-> E!Nowhere, events |-> r.events]
              /\ r.events \in Seq(Word) /\ ActedAs(r.status, Len(r.events), r.events)
    <3>1. /\ told \in Seq(Word) /\ Len(told) = Len(g) + 1
          /\ \A i \in 1..Len(g) : told[i] = g[i]
          /\ told[Len(g) + 1] = e
      BY <2>1, <2>6
    <3>3. ActedAs(status, Len(told), told)
      BY <2>1, <2>6, <3>1 DEF ActedAs
    <3> QED
      BY <1>1, <2>4, <3>1, <3>3
  <2> QED
    BY <2>4, <2>5, <2>6
<1> QED
  BY <1>2, <1>3, <1>4

LEMMA Acted ==
    ASSUME NEW st \in Attempted, NEW r \in E!ActionResults,
           NEW d \in {<<>>, <<"escalate">>}, d # <<>> => r.status = "FAIL",
           NEW to, to = E!After(st, <<"action_started">> \o r.events \o d)
    PROVE  \/ r.status \in {"SKIP", "SUCCESS"} /\ to = "executing"
           \/ r.status = "FAIL" /\ to = "executing" /\ d = <<>>
           \/ r.status = "FAIL" /\ to = "escalated" /\ d # <<>>
           \/ r.status \in {"ESCALATED", "ERROR"} /\ to \in {"escalated", "aborted", "needs_human"}
<1>1. PICK e, n, status : e = r.events /\ n = Len(r.events) /\ status = r.status
  OBVIOUS
<1>2. e \in Seq(Word) /\ Len(e) = n /\ n \in Nat /\ ActedAs(status, n, e)
  BY <1>1, ActionResult
<1>3. n \in 1..4
  BY <1>2 DEF ActedAs
<1>4. PICK a : a = <<"action_started">>
  OBVIOUS
<1>5. a \in Seq(Word) /\ Len(a) = 1 /\ a[1] = "action_started"
  <2>1. "action_started" \in Word
    BY DEF Word
  <2> QED
    BY <1>4, <2>1, OneWord
<1>6. PICK k \in {0, 1} : /\ d \in Seq(Word) /\ Len(d) = k /\ (k = 1 => d[1] = "escalate")
                          /\ k = 0 <=> d = <<>>
  <2>1. CASE d = <<>>
    <3>1. d \in Seq(Word) /\ Len(d) = 0
      BY <2>1
    <3> QED
      BY <2>1, <3>1
  <2>2. CASE d = <<"escalate">>
    <3>1. "escalate" \in Word
      BY DEF Word
    <3>2. d \in Seq(Word) /\ Len(d) = 1 /\ d[1] = "escalate"
      BY <2>2, <3>1, OneWord
    <3>3. d # <<>>
      BY <3>2
    <3> QED
      BY <3>2, <3>3
  <2> QED
    BY <2>1, <2>2
<1>7. PICK m : m = a \o e
  OBVIOUS
<1>8. /\ m \in Seq(Word) /\ Len(m) = n + 1
      /\ \A i \in 1..(n + 1) : m[i] = IF i <= 1 THEN a[i] ELSE e[i - 1]
  <2>1. /\ m \in Seq(Word) /\ Len(m) = Len(a) + Len(e)
        /\ \A i \in 1..(Len(a) + Len(e)) : m[i] = IF i <= Len(a) THEN a[i] ELSE e[i - Len(a)]
    BY <1>2, <1>5, <1>7, ConcatProperties
  <2> QED
    BY <1>2, <1>5, <2>1
<1>9. PICK w : w = m \o d
  OBVIOUS
<1>10. /\ w \in Seq(Word) /\ Len(w) = n + 1 + k
       /\ \A i \in 1..(n + 1 + k) : w[i] = IF i <= n + 1 THEN m[i] ELSE d[i - (n + 1)]
  BY <1>2, <1>6, <1>8, <1>9, ConcatProperties
<1>11. /\ Len(w) \in Nat /\ w[1] = "action_started"
       /\ \A i \in 1..n : w[i + 1] = e[i]
       /\ k = 1 => w[n + 2] = "escalate"
  <2>1. \A i \in 1..(n + 1) : w[i] = m[i] /\ (k = 1 => w[n + 2] = d[1])
    BY <1>2, <1>6, <1>10
  <2>2. m[1] = "action_started" /\ \A i \in 1..n : m[i + 1] = e[i]
    BY <1>2, <1>5, <1>8
  <2> QED
    BY <1>2, <1>3, <1>6, <1>10, <2>1, <2>2
<1>12. k = 1 => status = "FAIL"
  BY <1>1, <1>6
<1>13. Len(w) <= 5
  <2>1. status = "FAIL" => n <= 3
    BY <1>2 DEF ActedAs
  <2> QED
    BY <1>3, <1>6, <1>10, <1>12, <2>1
<1>14. PICK came : /\ came[0] = st /\ E!After(st, w) = came[Len(w)]
                 /\ \A i \in 1..Len(w) : came[i] = E!transition(came[i - 1], w[i])
  BY <1>10, <1>11, <1>13, AfterEvents
<1>15. to = came[n + 1 + k]
  BY <1>1, <1>4, <1>7, <1>9, <1>10, <1>14
<1>16. came[1] = "policy_check"
  BY <1>3, <1>6, <1>10, <1>11, <1>14, ActionMoves
<1>17. \A i \in 1..n : came[i + 1] = E!transition(came[i], e[i])
  BY <1>3, <1>6, <1>10, <1>11, <1>14
<1>18. k = 1 => came[n + 2] = E!transition(came[n + 1], "escalate")
  BY <1>3, <1>6, <1>10, <1>11, <1>14
<1>19. /\ status = "SKIP" => came[n + 1] = "executing"
       /\ status = "FAIL" => came[n + 1] = "executing"
       /\ status = "SUCCESS" => came[n + 1] = "executing"
       /\ status \in {"ESCALATED", "ERROR"} => came[n + 1] \in {"escalated", "aborted", "needs_human"}
       /\ status \in {"SKIP", "FAIL", "SUCCESS", "ESCALATED", "ERROR"}
  <2>1. CASE status = "SKIP" /\ n = 1 /\ e[1] = "policy_shadow"
    BY <1>16, <1>17, <2>1, ActionMoves
  <2>2. CASE status = "ESCALATED" /\ n = 1 /\ e[1] \in {"policy_recommend", "policy_denied", "abort"}
    BY <1>16, <1>17, <2>2, ActionMoves
  <2>3. CASE status = "ESCALATED" /\ n = 2 /\ e[1] = "approval_required" /\ e[2] = "approval_refused"
    <3>1. came[2] = "awaiting_approval"
      BY <1>16, <1>17, <2>3, ActionMoves
    <3>2. came[3] = "escalated"
      BY <1>17, <2>3, <3>1, ActionMoves
    <3> QED
      BY <2>3, <3>2
  <2>4. ASSUME NEW g \in {1, 2},
               \/ g = 1 /\ e[1] = "policy_allowed"
               \/ g = 2 /\ e[1] = "approval_required" /\ e[2] = "approval_granted",
               \/ status = "FAIL" /\ n = g + 1 /\ e[g + 1] = "action_not_done"
               \/ status = "SUCCESS" /\ n = g + 1 /\ e[g + 1] = "action_verified"
               \/ status = "ESCALATED" /\ n = g + 1 /\ e[g + 1] = "abort"
               \/ status = "ERROR" /\ n = g + 1 /\ e[g + 1] = "error"
               \/ status = "ESCALATED" /\ n = g + 2 /\ e[g + 1] = "action_failed" /\ e[g + 2] = "rollback_done"
        PROVE <1>19!1 /\ <1>19!2 /\ <1>19!3 /\ <1>19!4 /\ <1>19!5
    <3>1. came[g + 1] = "acting" /\ g + 1 \in 1..n
      <4>1. CASE g = 1 /\ e[1] = "policy_allowed"
        BY <1>16, <1>17, <2>4, <4>1, ActionMoves
      <4>2. CASE g = 2 /\ e[1] = "approval_required" /\ e[2] = "approval_granted"
        <5>1. came[2] = "awaiting_approval"
          BY <1>3, <1>16, <1>17, <4>2, ActionMoves
        <5> QED
          BY <1>17, <2>4, <4>2, <5>1, ActionMoves
      <4> QED
        BY <2>4, <4>1, <4>2
    <3>2. came[g + 2] = E!transition("acting", e[g + 1])
      BY <1>17, <3>1
    <3>3. CASE status = "FAIL" /\ n = g + 1 /\ e[g + 1] = "action_not_done"
      BY <3>2, <3>3, ActionMoves
    <3>4. CASE status = "SUCCESS" /\ n = g + 1 /\ e[g + 1] = "action_verified"
      BY <3>2, <3>4, ActionMoves
    <3>5. CASE status = "ESCALATED" /\ n = g + 1 /\ e[g + 1] = "abort"
      BY <3>2, <3>5, ActionMoves
    <3>6. CASE status = "ERROR" /\ n = g + 1 /\ e[g + 1] = "error"
      BY <3>2, <3>6, NoMoves
    <3>7. CASE status = "ESCALATED" /\ n = g + 2 /\ e[g + 1] = "action_failed" /\ e[g + 2] = "rollback_done"
      <4>1. came[g + 3] = E!transition("rolling_back", "rollback_done")
        BY <1>17, <3>2, <3>7, ActionMoves
      <4> QED
        BY <3>7, <4>1, ActionMoves
    <3> QED
      BY <2>4, <3>3, <3>4, <3>5, <3>6, <3>7
  <2> QED
    BY <1>2, <2>1, <2>2, <2>3, <2>4 DEF ActedAs
<1>20. CASE k = 0
  BY <1>1, <1>3, <1>6, <1>15, <1>19, <1>20
<1>21. CASE k = 1
  BY <1>1, <1>6, <1>15, <1>18, <1>19, <1>21, StepMoves DEF Attempted
<1> QED
  BY <1>6, <1>20, <1>21

\* What steps come to: the results that end the run, and where the others lead.
Flag(st) == IF st = "verified" THEN "yes" ELSE "no"
PossibleOf(s) == E!Results(s, "executing") \cup E!Results(s, "verified")
EndsWith(s, r) ==
    \/ r.status \in {"ERROR", "ESCALATED"}
    \/ E!Kind(s) = "RESOLVE"
    \/ r.status = "FAIL" /\ sop[s].on_failure = E!Nowhere
Leads(s, r, st, to) ==
    /\ to \in E!Terminal \cup Attempted
    /\ EndsWith(s, r) <=> to \in E!Terminal
    /\ r.events # <<>> => to # "verified"
    /\ to = "verified" => \/ E!Kind(s) = "VERIFY" /\ r.status = "SUCCESS"
                          \/ E!Kind(s) = "NOTE" /\ st = "verified"
    /\ to = "resolved" <=> E!Kind(s) = "RESOLVE" /\ st = "verified"
    /\ E!EndsRun(s) => EndsWith(s, r)
Follows(s, r, st, to) ==
    ~EndsWith(s, r) => \E f : /\ <<E!NextOf(s, r), f>> \in E!step_edges(s)
                              /\ Flag(to) = IF f = "same" THEN Flag(st) ELSE f

LEMMA StepKinds ==
    ASSUME sop \in E!Sop, NEW s \in E!Step
    PROVE  /\ E!Kind(s) \in E!Kinds \cup {"RESOLVE", "ESCALATE"}
           /\ E!Kind(s) \in E!Kinds => /\ s \in FreeStep /\ E!Kind(s) = sop[s].kind
                                       /\ sop[s].on_success \in E!Step \cup {E!Nowhere}
                                       /\ sop[s].on_failure \in E!Step \cup {E!Nowhere}
<1>1. CASE s = "resolve"
  BY <1>1 DEF E!Kind, E!Kinds
<1>2. CASE s = "escalate"
  BY <1>2 DEF E!Kind, E!Kinds
<1>3. CASE s \notin {"resolve", "escalate"}
  <2>1. s \in FreeStep
    BY <1>3 DEF E!Step
  <2>2. sop[s] \in [kind: E!Kinds, on_success: E!Step \cup {E!Nowhere}, on_failure: E!Step \cup {E!Nowhere}]
    BY <2>1 DEF E!Sop
  <2>3. E!Kind(s) = sop[s].kind
    BY <1>3 DEF E!Kind
  <2> QED
    BY <2>1, <2>2, <2>3
<1> QED
  BY <1>1, <1>2, <1>3

Plain(status) == [status |-> status, branch |-> E!Nowhere, events |-> <<>>]
LEMMA PlainResult == \A status : E!Res(status) = Plain(status)
BY DEF E!Res, E!NoResult, Plain

\* The results of each kind of step.
LEMMA ResultOf ==
    ASSUME sop \in E!Sop, NEW s \in E!Step, NEW r \in PossibleOf(s)
    PROVE  \/ E!Kind(s) \in {"gated", "ESCALATE"} /\ r = Plain("ESCALATED")
           \/ E!Kind(s) = "RESOLVE" /\ r \in {Plain("SUCCESS"), Plain("FAIL")}
           \/ E!Kind(s) = "NOTE" /\ r = Plain("SUCCESS")
           \/ E!Kind(s) = "DECISION" /\
                 \/ r = Plain("ERROR")
                 \/ r = [Plain("SUCCESS") EXCEPT !.branch = sop[s].on_success]
                 \/ r = [Plain("SUCCESS") EXCEPT !.branch = sop[s].on_failure]
                       /\ sop[s].on_failure # E!Nowhere
                 \/ r = Plain("FAIL") /\ sop[s].on_failure = E!Nowhere
           \/ E!Kind(s) = "ACTION" /\ (r \in E!ActionResults \/ r = Plain("ERROR"))
           \/ E!Kind(s) \in {"CHECK", "VERIFY"} /\ r \in {Plain("ERROR"), Plain("FAIL"), Plain("SUCCESS")}
<1>1. PICK st : r \in E!Results(s, st)
  BY DEF PossibleOf
<1>2. CASE E!Kind(s) \in {"gated", "ESCALATE"}
  BY <1>1, <1>2, PlainResult DEF E!Results
<1>3. CASE E!Kind(s) = "RESOLVE"
  BY <1>1, <1>3, PlainResult DEF E!Results
<1>4. CASE E!Kind(s) = "NOTE"
  BY <1>1, <1>4, PlainResult DEF E!Results
<1>5. CASE E!Kind(s) = "DECISION"
  <2>1. r \in E!DecisionResults(s) \/ r = Plain("ERROR")
    BY <1>1, <1>5, PlainResult DEF E!Results
  <2>2. CASE r = [Plain("SUCCESS") EXCEPT !.branch = sop[s].on_success]
    BY <1>5, <2>2
  <2>3. CASE r = [Plain(IF sop[s].on_failure = E!Nowhere THEN "FAIL" ELSE "SUCCESS") EXCEPT
                     !.branch = sop[s].on_failure]
    <3>1. CASE sop[s].on_failure = E!Nowhere
      BY <1>5, <2>3, <3>1 DEF Plain
    <3>2. CASE sop[s].on_failure # E!Nowhere
      BY <1>5, <2>3, <3>2
    <3> QED
      BY <3>1, <3>2
  <2> QED
    BY <1>5, <2>1, <2>2, <2>3, PlainResult DEF E!DecisionResults
<1>6. CASE E!Kind(s) = "ACTION"
  BY <1>1, <1>6, PlainResult DEF E!Results
<1>7. CASE E!Kind(s) = "VERIFY"
  BY <1>1, <1>7, PlainResult DEF E!Results, E!VerifyResults, E!CheckResults
<1>8. CASE E!Kind(s) = "CHECK"
  BY <1>1, <1>8, PlainResult DEF E!Results, E!CheckResults
<1> QED
  BY <1>2, <1>3, <1>4, <1>5, <1>6, <1>7, <1>8, StepKinds DEF E!Kinds

LEMMA PlainEvents ==
    ASSUME NEW s, NEW r, r.events = <<>>
    PROVE  E!EventsOf(s, r) =
              IF r.status = "ERROR" THEN <<"error">>
              ELSE IF r.status = "ESCALATED" THEN <<"escalate">>
              ELSE IF E!Kind(s) = "RESOLVE" THEN <<"resolve">>
              ELSE IF E!Kind(s) = "NOTE" THEN <<"note_done">>
              ELSE IF E!Kind(s) = "VERIFY"
              THEN <<IF r.status = "SUCCESS" THEN "verify_passed" ELSE "verify_failed">> \o E!Ending(s, r)
              ELSE <<"step_done">> \o E!Ending(s, r)
<1>1. CASE E!Kind(s) = "RESOLVE"
  BY <1>1 DEF E!EventsOf
<1>2. CASE E!Kind(s) = "NOTE"
  BY <1>2 DEF E!EventsOf
<1>3. CASE E!Kind(s) = "VERIFY"
  BY <1>3 DEF E!EventsOf
<1>4. CASE E!Kind(s) \notin {"RESOLVE", "NOTE", "VERIFY"}
  BY <1>4 DEF E!EventsOf
<1> QED
  BY <1>1, <1>2, <1>3, <1>4

LEMMA EndingIs ==
    ASSUME NEW s, NEW r
    PROVE  E!Ending(s, r) = IF r.status = "FAIL" /\ sop[s].on_failure = E!Nowhere
                            THEN <<"escalate">> ELSE <<>>
BY DEF E!Ending

\* One word, and one with an ending.
LEMMA Endings ==
    ASSUME NEW st, NEW a
    PROVE  /\ E!After(st, <<a>> \o <<>>) = E!transition(st, a)
           /\ E!After(st, <<a>> \o <<"escalate">>) = E!transition(E!transition(st, a), "escalate")
<1>1. PICK u, v, d : u = <<a>> /\ v = <<a, "escalate">> /\ d = <<"escalate">>
  OBVIOUS
<1>2. PICK S : S = {a, "escalate"}
  OBVIOUS
<1>3. /\ u \in Seq(S) /\ Len(u) = 1 /\ u[1] = a
      /\ v \in Seq(S) /\ Len(v) = 2 /\ v[1] = a /\ v[2] = "escalate"
      /\ d \in Seq(S) /\ Len(d) = 1 /\ d[1] = "escalate"
  BY <1>1, <1>2
<1>4. u \o <<>> = u
  BY <1>3, ConcatEmptySeq
<1>5. /\ u \o d \in Seq(S) /\ Len(u \o d) = Len(u) + Len(d)
      /\ \A i \in 1..(Len(u) + Len(d)) : (u \o d)[i] = IF i <= Len(u) THEN u[i] ELSE d[i - Len(u)]
  BY <1>3, ConcatProperties
<1>6. Len(u \o d) = 2 /\ (u \o d)[1] = a /\ (u \o d)[2] = "escalate"
  BY <1>3, <1>5
<1>7. Len(u \o d) = Len(v) /\ \A i \in 1..Len(u \o d) : (u \o d)[i] = v[i]
  BY <1>3, <1>6
<1>8. u \o d = v
  BY <1>3, <1>5, <1>7, SeqEqual
<1>9. E!After(st, u) = E!transition(st, a) /\ E!After(st, v) = E!transition(E!transition(st, a), "escalate")
  <2>1. E!After(st, <<a>>) = E!transition(st, a)
    BY AfterOne, Zenon
  <2>2. E!After(st, <<a, "escalate">>) = E!transition(E!transition(st, a), "escalate")
    BY AfterTwo
  <2> QED
    BY <1>1, <2>1, <2>2, Zenon
<1> QED
  BY <1>1, <1>4, <1>8, <1>9, Zenon

\* The edges of a step that does not end the run.
LEMMA Edges ==
    ASSUME NEW s, ~E!EndsRun(s)
    PROVE  /\ sop[s].on_success # E!Nowhere => <<sop[s].on_success, E!SuccessFlag(s)>> \in E!step_edges(s)
           /\ sop[s].on_failure # E!Nowhere => <<sop[s].on_failure, "no">> \in E!step_edges(s)
BY DEF E!step_edges, E!OtherFlag

LEMMA StepEnds ==
    ASSUME sop \in E!Sop, NEW s \in E!Step, NEW st \in Attempted, NEW r \in PossibleOf(s),
           NEW to, to = E!After(IF E!Kind(s) = "VERIFY" THEN "verifying" ELSE st, E!EventsOf(s, r))
    PROVE  /\ Leads(s, r, st, to)
           /\ (E!Kind(s) \in E!Kinds \ {"gated"} => sop[s].on_success # E!Nowhere) => Follows(s, r, st, to)
<1> USE DEF Plain
<1>1. CASE E!Kind(s) \in {"gated", "ESCALATE"} /\ r = Plain("ESCALATED")
  <2>1. r.events = <<>> /\ r.status = "ESCALATED" /\ E!Kind(s) # "VERIFY"
    BY <1>1
  <2>2. to = E!After(st, <<"escalate">>)
    BY <2>1, PlainEvents
  <2>3. to = "escalated"
    BY <2>2, AfterOne, StepMoves
  <2> QED
    BY <1>1, <2>1, <2>3 DEF Leads, Follows, EndsWith, E!Terminal
<1>2. CASE E!Kind(s) = "RESOLVE" /\ r \in {Plain("SUCCESS"), Plain("FAIL")}
  <2>1. r.events = <<>> /\ r.status \in {"SUCCESS", "FAIL"}
    BY <1>2
  <2>2. to = E!After(st, <<"resolve">>)
    BY <1>2, <2>1, PlainEvents
  <2>3. to = IF st = "verified" THEN "resolved" ELSE "needs_human"
    BY <2>2, AfterOne, StepMoves, NoMoves DEF Attempted
  <2> QED
    BY <1>2, <2>1, <2>3 DEF Leads, Follows, EndsWith, E!Terminal, Attempted
<1>3. CASE E!Kind(s) = "NOTE" /\ r = Plain("SUCCESS")
  <2>0. r.events = <<>> /\ r.status = "SUCCESS" /\ E!Kind(s) # "VERIFY"
    BY <1>3
  <2>1. to = st
    <3>1. to = E!After(st, <<"note_done">>)
      BY <1>3, <2>0, PlainEvents
    <3> QED
      BY <3>1, AfterOne, StepMoves DEF Attempted
  <2>2. Leads(s, r, st, to) /\ ~EndsWith(s, r)
    BY <1>3, <2>1 DEF Leads, EndsWith, E!Terminal, Attempted, E!EndsRun
  <2>3. E!NextOf(s, r) = sop[s].on_success
    BY <1>3 DEF E!NextOf
  <2>4. sop[s].on_success # E!Nowhere => <<sop[s].on_success, "same">> \in E!step_edges(s)
    BY <1>3, Edges DEF E!SuccessFlag, E!EndsRun
  <2>5. E!Kind(s) \in E!Kinds \ {"gated"}
    BY <1>3 DEF E!Kinds
  <2> QED
    BY <2>1, <2>2, <2>3, <2>4, <2>5 DEF Follows
<1>4. CASE E!Kind(s) \in {"CHECK", "DECISION", "VERIFY"} /\ r = Plain("ERROR")
  <2>1. to = "needs_human"
    <3>1. r.events = <<>> /\ r.status = "ERROR"
      BY <1>4
    <3>2. E!EventsOf(s, r) = <<"error">>
      BY <3>1, PlainEvents
    <3> QED
      BY <3>2, AfterOne, NoMoves
  <2> QED
    BY <1>4, <2>1 DEF Leads, Follows, EndsWith, E!Terminal, E!EndsRun
<1>5. CASE E!Kind(s) = "ACTION" /\ r = Plain("ERROR")
  <2>1. to = "needs_human"
    <3>1. r.events = <<>> /\ r.status = "ERROR"
      BY <1>5
    <3>2. E!EventsOf(s, r) = <<"error">>
      BY <3>1, PlainEvents
    <3> QED
      BY <3>2, AfterOne, NoMoves
  <2> QED
    BY <1>5, <2>1 DEF Leads, Follows, EndsWith, E!Terminal, E!EndsRun
\* A step that is done goes on by one of its edges, and the flag is down.
<1> DEFINE e == IF r.status = "FAIL" /\ sop[s].on_failure = E!Nowhere THEN <<"escalate">> ELSE <<>>
           Done == /\ r.status = "FAIL" /\ sop[s].on_failure = E!Nowhere => to = "escalated"
                   /\ ~(r.status = "FAIL" /\ sop[s].on_failure = E!Nowhere) => to = "executing"
<1>6. ASSUME E!Kind(s) \in {"CHECK", "DECISION", "ACTION"}, Done,
             r.status \in {"FAIL", "SUCCESS", "SKIP"},
             \/ r.branch = E!Nowhere
             \/ /\ r.status = "SUCCESS" /\ r.branch # E!Nowhere
                /\ r.branch \in {sop[s].on_success, sop[s].on_failure}
      PROVE  /\ Leads(s, r, st, to)
             /\ (E!Kind(s) \in E!Kinds \ {"gated"} => sop[s].on_success # E!Nowhere) => Follows(s, r, st, to)
  <2>1. ~E!EndsRun(s) /\ E!Kind(s) \in E!Kinds \ {"gated"} /\ E!SuccessFlag(s) = "no"
    BY <1>6 DEF E!EndsRun, E!Kinds, E!SuccessFlag, E!OtherFlag
  <2>2. Leads(s, r, st, to)
    BY <1>6, <2>1 DEF Leads, EndsWith, E!Terminal, Attempted
  <2>3. ASSUME ~EndsWith(s, r), sop[s].on_success # E!Nowhere
        PROVE  <<E!NextOf(s, r), "no">> \in E!step_edges(s) /\ Flag(to) = "no"
    <3>1. to = "executing" /\ (r.status = "FAIL" => sop[s].on_failure # E!Nowhere)
      BY <1>6, <2>3 DEF EndsWith
    <3>2. E!NextOf(s, r) \in {sop[s].on_success, sop[s].on_failure} /\ E!NextOf(s, r) # E!Nowhere
      BY <1>6, <2>3, <3>1 DEF E!NextOf
    <3> QED
      BY <2>1, <3>1, <3>2, Edges DEF Flag
  <2> QED
    BY <2>1, <2>2, <2>3 DEF Follows
<1>7. CASE E!Kind(s) = "DECISION" /\ r # Plain("ERROR")
  <2>1. \/ r = [Plain("SUCCESS") EXCEPT !.branch = sop[s].on_success]
        \/ r = [Plain("SUCCESS") EXCEPT !.branch = sop[s].on_failure] /\ sop[s].on_failure # E!Nowhere
        \/ r = Plain("FAIL") /\ sop[s].on_failure = E!Nowhere
    BY <1>7, ResultOf
  <2>2. /\ r.events = <<>> /\ r.status \in {"FAIL", "SUCCESS"}
        /\ \/ r.branch = E!Nowhere
           \/ /\ r.status = "SUCCESS" /\ r.branch # E!Nowhere
              /\ r.branch \in {sop[s].on_success, sop[s].on_failure}
    BY <2>1
  <2>3. E!EventsOf(s, r) = <<"step_done">> \o e
    BY <1>7, <2>2, PlainEvents, EndingIs
  <2>4. Done
    <3>1. to = E!After(st, <<"step_done">> \o e)
      BY <1>7, <2>3
    <3>2. E!transition(st, "step_done") = "executing" /\ E!transition("executing", "escalate") = "escalated"
      BY StepMoves DEF Attempted
    <3>3. E!After(st, <<"step_done">> \o <<>>) = "executing"
      BY <3>2, Endings
    <3>4. E!After(st, <<"step_done">> \o <<"escalate">>) = "escalated"
      BY <3>2, Endings
    <3> QED
      BY <3>1, <3>3, <3>4
  <2> QED
    BY <1>6, <1>7, <2>2, <2>4
<1>8. CASE E!Kind(s) = "CHECK" /\ r \in {Plain("FAIL"), Plain("SUCCESS")}
  <2>1. r.events = <<>> /\ r.status \in {"FAIL", "SUCCESS"} /\ r.branch = E!Nowhere
    BY <1>8
  <2>2. E!EventsOf(s, r) = <<"step_done">> \o e
    BY <1>8, <2>1, PlainEvents, EndingIs
  <2>3. Done
    <3>1. to = E!After(st, <<"step_done">> \o e)
      BY <1>8, <2>2
    <3>2. E!transition(st, "step_done") = "executing" /\ E!transition("executing", "escalate") = "escalated"
      BY StepMoves DEF Attempted
    <3>3. E!After(st, <<"step_done">> \o <<>>) = "executing"
      BY <3>2, Endings
    <3>4. E!After(st, <<"step_done">> \o <<"escalate">>) = "escalated"
      BY <3>2, Endings
    <3> QED
      BY <3>1, <3>3, <3>4
  <2> QED
    BY <1>6, <1>8, <2>1, <2>3
<1>9. CASE E!Kind(s) = "ACTION" /\ r \in E!ActionResults
  <2>1. r.branch = E!Nowhere /\ r.events # <<>>
    <3>1. r.events \in Seq(Word) /\ ActedAs(r.status, Len(r.events), r.events)
          /\ r = [status |-> r.status, branch |-> E!Nowhere, events |-> r.events]
      BY <1>9, ActionResult
    <3>2. Len(r.events) # 0
      BY <3>1 DEF ActedAs
    <3> QED
      BY <3>1, <3>2, EmptySeq
  <2>2. e \in {<<>>, <<"escalate">>} /\ (e # <<>> => r.status = "FAIL")
        /\ (e = <<>> <=> ~(r.status = "FAIL" /\ sop[s].on_failure = E!Nowhere))
    OBVIOUS
  <2>3. to = E!After(st, <<"action_started">> \o r.events \o e)
    BY <1>9, <2>1, EndingIs DEF E!EventsOf
  <2> HIDE DEF e
  <2>4. \/ r.status \in {"SKIP", "SUCCESS"} /\ to = "executing"
        \/ r.status = "FAIL" /\ to = "executing" /\ e = <<>>
        \/ r.status = "FAIL" /\ to = "escalated" /\ e # <<>>
        \/ r.status \in {"ESCALATED", "ERROR"} /\ to \in {"escalated", "aborted", "needs_human"}
    BY <1>9, <2>2, <2>3, Acted
  <2>5. CASE r.status \in {"ESCALATED", "ERROR"}
    BY <1>9, <2>4, <2>5 DEF Leads, Follows, EndsWith, E!Terminal, E!EndsRun
  <2>6. CASE r.status \in {"FAIL", "SUCCESS", "SKIP"}
    <3>1. Done
      BY <2>2, <2>4, <2>6
    <3> QED
      BY <1>6, <1>9, <2>1, <2>6, <3>1
  <2> QED
    BY <2>4, <2>5, <2>6
<1>10. CASE E!Kind(s) = "VERIFY" /\ r \in {Plain("FAIL"), Plain("SUCCESS")}
  <2>1. r.events = <<>> /\ r.status \in {"FAIL", "SUCCESS"} /\ r.branch = E!Nowhere
    BY <1>10
  <2>2. E!EventsOf(s, r) = <<IF r.status = "SUCCESS" THEN "verify_passed" ELSE "verify_failed">> \o e
    BY <1>10, <2>1, PlainEvents, EndingIs
  <2>3. /\ r.status = "SUCCESS" => to = "verified"
        /\ r.status = "FAIL" /\ sop[s].on_failure = E!Nowhere => to = "escalated"
        /\ r.status = "FAIL" /\ sop[s].on_failure # E!Nowhere => to = "executing"
    <3>1. PICK v : v = IF r.status = "SUCCESS" THEN "verify_passed" ELSE "verify_failed"
      OBVIOUS
    <3>2. to = E!After("verifying", <<v>> \o e)
      BY <1>10, <2>2, <3>1
    <3>3. E!transition("executing", "escalate") = "escalated"
          /\ E!transition("verifying", v) = IF r.status = "SUCCESS" THEN "verified" ELSE "executing"
      BY <3>1, StepMoves DEF Attempted
    <3>4. E!After("verifying", <<v>> \o <<>>) = IF r.status = "SUCCESS" THEN "verified" ELSE "executing"
      BY <3>3, Endings
    <3>5. r.status = "FAIL" => E!After("verifying", <<v>> \o <<"escalate">>) = "escalated"
      BY <3>3, Endings
    <3> QED
      BY <2>1, <3>2, <3>4, <3>5
  <2>4. ~E!EndsRun(s) /\ E!Kind(s) \in E!Kinds \ {"gated"} /\ E!SuccessFlag(s) = "yes"
    BY <1>10 DEF E!EndsRun, E!Kinds, E!SuccessFlag
  <2>5. Leads(s, r, st, to)
    BY <1>10, <2>1, <2>3, <2>4 DEF Leads, EndsWith, E!Terminal, Attempted
  <2>6. ASSUME ~EndsWith(s, r), sop[s].on_success # E!Nowhere
        PROVE  <<E!NextOf(s, r), Flag(to)>> \in E!step_edges(s) /\ Flag(to) # "same"
    <3>1. CASE r.status = "SUCCESS"
      BY <2>1, <2>3, <2>4, <2>6, <3>1, Edges DEF E!NextOf, Flag
    <3>2. CASE r.status = "FAIL"
      BY <2>1, <2>3, <2>4, <2>6, <3>2, Edges DEF E!NextOf, Flag, EndsWith
    <3> QED
      BY <2>1, <3>1, <3>2
  <2> QED
    BY <2>4, <2>5, <2>6 DEF Follows
<1> QED
  BY <1>1, <1>2, <1>3, <1>4, <1>5, <1>7, <1>8, <1>9, <1>10, ResultOf




\* The pairs the validator propagates.
Pair == E!Step \X E!Flags

LEMMA OnwardPairs ==
    ASSUME sop \in E!Sop
    PROVE  /\ \A p \in Pair : E!From(p) \subseteq Pair
           /\ \A S \in SUBSET Pair : E!Onward(S) \in SUBSET Pair /\ S \subseteq E!Onward(S)
           /\ \A S, W \in SUBSET Pair : S \subseteq W => E!Onward(S) \subseteq E!Onward(W)
<1>1. ASSUME NEW p \in Pair, NEW q \in E!From(p) PROVE q \in Pair
  <2>1. PICK s \in E!Step, f \in E!Flags : p = <<s, f>>
    BY DEF Pair
  <2>2. p[1] = s /\ p[2] = f
    BY <2>1
  <2>3. PICK e \in E!step_edges(s) : q = <<e[1], IF e[2] = "same" THEN f ELSE e[2]>>
    BY <1>1, <2>2 DEF E!From
  <2>4. ~E!EndsRun(s)
    BY <2>3 DEF E!step_edges
  <2>5. E!Kind(s) \in E!Kinds
    BY <2>4, StepKinds DEF E!EndsRun
  <2>6. PICK t, u : e = <<t, u>> /\ t \in E!Step /\ u \in {"yes", "no", "same"}
    <3>1. \/ e = <<sop[s].on_success, E!SuccessFlag(s)>> /\ sop[s].on_success # E!Nowhere
          \/ e = <<sop[s].on_failure, "no">> /\ sop[s].on_failure # E!Nowhere
      BY <2>3, <2>4 DEF E!step_edges, E!OtherFlag
    <3>2. E!SuccessFlag(s) \in {"yes", "no", "same"}
      BY DEF E!SuccessFlag, E!OtherFlag
    <3>3. sop[s].on_success \in E!Step \cup {E!Nowhere} /\ sop[s].on_failure \in E!Step \cup {E!Nowhere}
      BY <2>5, StepKinds
    <3> QED
      BY <3>1, <3>2, <3>3
  <2>7. q = <<t, IF u = "same" THEN f ELSE u>>
    BY <2>3, <2>6
  <2>8. (IF u = "same" THEN f ELSE u) \in E!Flags
    BY <2>1, <2>6 DEF E!Flags
  <2> QED
    BY <2>6, <2>7, <2>8 DEF Pair
<1> QED
  BY <1>1 DEF E!Onward

LEMMA EnteredClosed ==
    ASSUME sop \in E!Sop, IsFiniteSet(FreeStep), FirstStep \in E!Step
    PROVE  /\ <<FirstStep, "no">> \in E!EnteredWith
           /\ E!EnteredWith \subseteq Pair
           /\ \A p \in E!EnteredWith : E!From(p) \subseteq E!EnteredWith
<1> DEFINE Tells(f) == f = [pairs \in SUBSET (E!Step \X E!Flags) |->
                               IF E!Onward(pairs) = pairs THEN pairs ELSE f[E!Onward(pairs)]]
           Least(S) == {p \in Pair : \A W \in SUBSET Pair : S \subseteq W /\ E!Onward(W) = W => p \in W}
           g == [S \in SUBSET Pair |-> Least(S)]
           f == CHOOSE h : Tells(h)
           Good(S) == S \subseteq f[S] /\ f[S] \in SUBSET Pair /\ E!Onward(f[S]) = f[S]
<1>1. \A S \in SUBSET Pair : g[S] = IF E!Onward(S) = S THEN S ELSE g[E!Onward(S)]
  <2> SUFFICES ASSUME NEW S \in SUBSET Pair
               PROVE  g[S] = IF E!Onward(S) = S THEN S ELSE g[E!Onward(S)]
    OBVIOUS
  <2>1. E!Onward(S) \in SUBSET Pair /\ S \subseteq E!Onward(S)
    BY OnwardPairs
  <2>2. g[S] = Least(S) /\ g[E!Onward(S)] = Least(E!Onward(S))
    BY <2>1
  <2>3. ASSUME E!Onward(S) = S PROVE Least(S) = S
    BY <2>3
  <2>4. ASSUME NEW W \in SUBSET Pair, S \subseteq W, E!Onward(W) = W PROVE E!Onward(S) \subseteq W
    BY <2>4, OnwardPairs
  <2>5. Least(S) = Least(E!Onward(S))
    BY <2>1, <2>4
  <2> HIDE DEF g, Least
  <2> QED
    BY <2>2, <2>3, <2>5
<1>2. Tells(g)
  <2>1. g = [S \in SUBSET Pair |-> g[S]]
    OBVIOUS
  <2> HIDE DEF g
  <2> QED
    BY <1>1, <2>1 DEF Pair
<1> HIDE DEF Tells, g
<1>3. Tells(f)
  BY <1>2, Zenon DEF f
<1>4. E!EnteredWith = f[{<<FirstStep, "no">>}]
  BY DEF E!EnteredWith, f, Tells
<1> HIDE DEF f
<1>5. \A S \in SUBSET Pair : f[S] = IF E!Onward(S) = S THEN S ELSE f[E!Onward(S)]
  BY <1>3 DEF Tells, Pair
<1>6. \A S \in SUBSET Pair : Good(S)
  <2> DEFINE Bad == {S \in SUBSET Pair : ~Good(S)}
             size == [S \in Bad |-> Cardinality(S)]
  <2> SUFFICES ASSUME Bad # {} PROVE FALSE
    OBVIOUS
  <2>1. IsFiniteSet(Pair)
    <3>1. IsFiniteSet({"resolve", "escalate"}) /\ IsFiniteSet({"no", "yes"})
      <4>1. \A x, y : IsFiniteSet({x} \cup {y})
        BY FS_Singleton, FS_Union
      <4>3. ASSUME NEW x, NEW y PROVE IsFiniteSet({x, y})
        <5>1. PICK W : W = {x} \cup {y}
          OBVIOUS
        <5>2. W = {x, y} /\ IsFiniteSet(W)
          BY <4>1, <5>1
        <5> QED
          BY <5>2
      <4> QED
        BY <4>3
    <3>2. IsFiniteSet(E!Step)
      BY <3>1, FS_Union DEF E!Step
    <3> QED
      BY <3>1, <3>2, FS_Product DEF Pair, E!Flags
  <2>2. IsFiniteSet(Bad) /\ \A S \in SUBSET Pair : IsFiniteSet(S)
    <3>1. IsFiniteSet(SUBSET Pair) /\ Bad \subseteq SUBSET Pair
      BY <2>1, FS_SUBSET
    <3> QED
      BY <2>1, <3>1, FS_Subset
  <2>3. size \in [Bad -> Nat]
    BY <2>2, FS_CardinalityType
  <2>4. PICK S \in Bad : \A W \in Bad : size[W] <= size[S]
    BY <2>2, <2>3, Greatest
  <2>5. S \in SUBSET Pair /\ ~Good(S)
    OBVIOUS
  <2>6. PICK T : T = E!Onward(S)
    OBVIOUS
  <2>7. T \in SUBSET Pair /\ S \subseteq T
    BY <2>5, <2>6, OnwardPairs
  <2>8. T # S
    BY <1>5, <2>5, <2>6
  <2>9. Cardinality(S) \in Nat /\ Cardinality(T) \in Nat /\ Cardinality(S) < Cardinality(T)
    BY <2>2, <2>5, <2>7, <2>8, FS_Subset, FS_CardinalityType
  <2>10. Good(T)
    <3>1. T \notin Bad
      <4> SUFFICES ASSUME T \in Bad PROVE FALSE
        OBVIOUS
      <4>1. size[T] = Cardinality(T) /\ size[S] = Cardinality(S) /\ size[T] <= size[S]
        BY <2>4
      <4> HIDE DEF size
      <4> QED
        BY <2>9, <4>1
    <3> QED
      BY <2>7, <3>1
  <2>11. f[S] = f[T]
    BY <1>5, <2>5, <2>6, <2>8
  <2> QED
    BY <2>5, <2>7, <2>10, <2>11
<1>7. {<<FirstStep, "no">>} \in SUBSET Pair
  BY DEF Pair, E!Flags
<1>8. Good({<<FirstStep, "no">>})
  BY <1>6, <1>7
<1> QED
  BY <1>4, <1>8 DEF E!Onward

-----------------------------------------------------------------------------
Recorded == {s \in E!Step : recorded[s] # E!NoResult}
WalkTypes ==
    /\ sop \in E!Sop
    /\ state \in {"binding"} \cup Attempted \cup E!Terminal
    /\ current \in E!Step \cup {E!Nowhere} /\ by \in E!Step \cup {E!Nowhere}
    /\ walk \in Seq(E!Step)
    /\ outcome \in E!Terminal \cup {"none"} /\ (outcome = "none" <=> state \notin E!Terminal)
    /\ crashes \in 0..MaxInterruptions
    /\ state = "binding" => current = FirstStep /\ walk = <<>>

\* A result is one of its step's, and one that ends the run is met in the last attempt only.
ResultsRight ==
    /\ recorded = [s \in E!Step |-> recorded[s]]
    /\ \A s \in Recorded : recorded[s] \in PossibleOf(s)
    /\ outcome = "none" => \A s \in Recorded : ~EndsWith(s, recorded[s])

\* The verification on record passed in this attempt, and only notes came after it.
VerifiedRight ==
    /\ outcome = "resolved" => by # E!Nowhere
    /\ by # E!Nowhere =>
          \E n \in 1..Len(walk) :
              /\ walk[n] = by /\ E!Kind(by) = "VERIFY" /\ recorded[by].status = "SUCCESS"
              /\ \A m \in (n + 1)..Len(walk) : E!Kind(walk[m]) \in {"NOTE", "RESOLVE"}

\* The walk is a path of a valid SOP, and arrives with a flag the validator has seen.
PathRight ==
    /\ why = "step"
    /\ state \in Attempted =>
          /\ E!Valid /\ current \in E!Step /\ <<current, Flag(state)>> \in E!EnteredWith
          /\ \A i \in 1..Len(walk) :
                /\ walk[i] \in E!Reachable
                /\ \E e \in E!step_edges(walk[i]) : e[1] = IF i = Len(walk) THEN current ELSE walk[i + 1]

\* What is recorded is one route from the first step, of which this attempt has come a part.
OnRoute(route) ==
    /\ \A s \in E!Step : s \in Recorded <=> \E i \in 1..Len(route) : route[i] = s
    /\ Len(walk) <= Len(route) /\ \A i \in 1..Len(walk) : walk[i] = route[i]
    /\ route # <<>> => route[1] = FirstStep
    /\ \A i \in 1..(Len(route) - 1) : route[i + 1] = E!NextOf(route[i], recorded[route[i]])
    /\ state \in Attempted =>
          current = IF walk = <<>> THEN FirstStep
                    ELSE E!NextOf(walk[Len(walk)], recorded[walk[Len(walk)]])
    /\ outcome \notin {"none", "needs_human"} => Len(walk) = Len(route)
RouteRight == \E route \in Seq(E!Step) : OnRoute(route)

WalkInv == WalkTypes /\ ResultsRight /\ VerifiedRight /\ PathRight /\ RouteRight

LEMMA WalkNames == FirstStep \in E!Step /\ E!Nowhere \notin E!Step
BY WalkAssumption DEF E!Step, E!Nowhere

LEMMA WalkInit == E!Init => WalkInv
<1> SUFFICES ASSUME E!Init PROVE WalkInv
  OBVIOUS
<1>1. /\ sop \in E!Sop /\ state = "binding" /\ current = FirstStep /\ walk = <<>> /\ by = E!Nowhere
      /\ recorded = [s \in E!Step |-> E!NoResult] /\ why = "step" /\ outcome = "none" /\ crashes = 0
  BY DEF E!Init
<1>2. Len(walk) = 0 /\ walk \in Seq(E!Step)
  BY <1>1
<1>3. Recorded = {}
  BY <1>1 DEF Recorded
<1>4. WalkTypes
  BY <1>1, <1>2, WalkNames, WalkAssumption DEF WalkTypes, E!Terminal
<1>5. ResultsRight
  BY <1>1, <1>3 DEF ResultsRight
<1>6. VerifiedRight /\ PathRight
  BY <1>1 DEF VerifiedRight, PathRight, Attempted
<1>7. OnRoute(walk)
  BY <1>1, <1>2, <1>3 DEF OnRoute, Attempted
<1> QED
  BY <1>2, <1>4, <1>5, <1>6, <1>7 DEF WalkInv, RouteRight

\* What a step does.
Stepped(r) ==
    /\ recorded' = [recorded EXCEPT ![current] = r]
    /\ current \in Recorded => r = recorded[current]
    /\ walk' = Append(walk, current)
    /\ Leads(current, r, state, state') /\ Follows(current, r, state, state')
    /\ by' = E!VerifiedBy(current, r, state')
    /\ current' = IF E!EndsRun(current) THEN E!Nowhere ELSE E!NextOf(current, r)
    /\ why' = "step" /\ outcome' = E!Conclude(state', by')
    /\ UNCHANGED <<sop, crashes>>

LEMMA TakesStep ==
    ASSUME WalkInv, E!Walking, E!TakeStep
    PROVE  \E r \in PossibleOf(current) : Stepped(r)
<1>1. WalkTypes /\ ResultsRight /\ PathRight /\ state \in Attempted
  BY DEF WalkInv, E!Walking, Attempted
<1>2. current \in E!Step /\ E!Valid /\ <<current, Flag(state)>> \in E!EnteredWith /\ why = "step" /\ sop \in E!Sop
  BY <1>1 DEF PathRight, WalkTypes
<1>3. PICK st : st = IF E!Kind(current) = "VERIFY" THEN E!transition(state, "verify_started") ELSE state
  OBVIOUS
<1>4. st = IF E!Kind(current) = "VERIFY" THEN "verifying" ELSE state
  BY <1>1, <1>3, StepMoves
<1>5. PICK r \in E!Replayed(current, st) :
        /\ recorded' = [recorded EXCEPT ![current] = r]
        /\ walk' = Append(walk, current)
        /\ E!Took(current, r, st)
        /\ UNCHANGED <<sop, crashes>>
  BY <1>3 DEF E!TakeStep
<1>6. r \in PossibleOf(current) /\ (current \in Recorded => r = recorded[current])
  <2>1. CASE current \in Recorded
    BY <1>1, <1>5, <2>1 DEF E!Replayed, Recorded, ResultsRight
  <2>2. CASE current \notin Recorded
    <3>1. r \in E!Results(current, st)
      BY <1>2, <1>5, <2>2 DEF E!Replayed, Recorded
    <3>2. CASE E!Kind(current) = "VERIFY"
      <4>1. E!Results(current, st) = E!Results(current, "executing")
        BY <3>2 DEF E!Results
      <4> QED
        BY <2>2, <3>1, <4>1 DEF PossibleOf
    <3>3. CASE E!Kind(current) # "VERIFY"
      BY <1>1, <1>4, <2>2, <3>1, <3>3 DEF PossibleOf, Attempted
    <3> QED
      BY <3>2, <3>3
  <2> QED
    BY <2>1, <2>2
<1>7. PICK to : to = E!After(st, E!EventsOf(current, r))
  OBVIOUS
<1>8. E!Kind(current) \in E!Kinds \ {"gated"} => sop[current].on_success # E!Nowhere
  BY <1>2, StepKinds DEF E!Valid
<1>9. Leads(current, r, state, to) /\ Follows(current, r, state, to)
  BY <1>1, <1>2, <1>4, <1>6, <1>7, <1>8, StepEnds
<1>10. PICK odd : odd = (r.events # <<>> /\ to \notin E!Terminal \cup {"executing"})
  OBVIOUS
<1>11. ~odd
  BY <1>9, <1>10 DEF Leads, Attempted
<1>12. /\ state' = to /\ by' = E!VerifiedBy(current, r, to)
       /\ current' = IF E!EndsRun(current) THEN E!Nowhere ELSE E!NextOf(current, r)
       /\ why' = IF E!Kind(current) = "RESOLVE" /\ to # "resolved" THEN "unverified" ELSE why
       /\ outcome' = E!Conclude(to, by')
  BY <1>5, <1>7, <1>10, <1>11 DEF E!Took
<1>13. E!Kind(current) = "RESOLVE" => to = "resolved"
  <2> SUFFICES ASSUME E!Kind(current) = "RESOLVE" PROVE to = "resolved"
    OBVIOUS
  <2>1. current = "resolve"
    <3>1. E!Kind(current) \notin E!Kinds
      BY DEF E!Kinds
    <3>2. current \notin FreeStep \/ current \in {"resolve", "escalate"}
      BY <1>2, <3>1 DEF E!Kind, E!Sop
    <3> QED
      BY <1>2, <3>2 DEF E!Kind, E!Step
  <2>2. Flag(state) # "no"
    BY <1>2, <2>1 DEF E!Valid
  <2> QED
    BY <1>9, <2>2 DEF Flag, Leads
<1> QED
  BY <1>2, <1>5, <1>6, <1>9, <1>12, <1>13 DEF Stepped

\* A valid SOP has no cycle: a step that comes next was not taken.
LEMMA NeverExhausted ==
    ASSUME WalkInv, E!Walking
    PROVE  E!Ready
<1>1. /\ state \in Attempted /\ WalkTypes /\ E!Valid /\ current \in E!Step
      /\ \A i \in 1..Len(walk) :
            /\ walk[i] \in E!Reachable
            /\ \E e \in E!step_edges(walk[i]) : e[1] = IF i = Len(walk) THEN current ELSE walk[i + 1]
  BY DEF WalkInv, E!Walking, Attempted, PathRight
<1>2. current # E!Nowhere
  BY <1>1, WalkNames
<1>3. Len(walk) \in Nat /\ DOMAIN walk = 1..Len(walk)
  BY <1>1, LenProperties DEF WalkTypes
<1> SUFFICES ASSUME current \in E!Range(walk) PROVE FALSE
  BY <1>2 DEF E!Ready
<1>4. PICK n \in 1..Len(walk) : walk[n] = current
  BY <1>3 DEF E!Range
<1> DEFINE round == {walk[i] : i \in n..Len(walk)}
<1>5. round \in SUBSET E!Reachable /\ walk[n] \in round
  <2>1. n \in n..Len(walk) /\ \A i \in n..Len(walk) : i \in 1..Len(walk)
    BY <1>3, <1>4
  <2> QED
    BY <1>1, <2>1
<1>6. ASSUME NEW s \in round PROVE \E e \in E!step_edges(s) : e[1] \in round
  <2>1. PICK i \in n..Len(walk) : walk[i] = s
    OBVIOUS
  <2>2. i \in 1..Len(walk) /\ (i # Len(walk) => i + 1 \in n..Len(walk)) /\ n \in n..Len(walk)
    <3> HIDE DEF round
    <3>1. PICK z : z = Len(walk)
      OBVIOUS
    <3>2. z \in Nat /\ n \in 1..z /\ i \in n..z
      BY <1>3, <3>1
    <3>3. i \in 1..z /\ (i # z => i + 1 \in n..z) /\ n \in n..z
      BY <3>2
    <3> QED
      BY <3>1, <3>3
  <2>3. PICK e \in E!step_edges(s) : e[1] = IF i = Len(walk) THEN current ELSE walk[i + 1]
    BY <1>1, <2>1, <2>2
  <2>4. e[1] \in round
    BY <1>4, <2>2, <2>3
  <2> QED
    BY <2>4
<1> HIDE DEF round
<1>7. E!HasCycle
  BY <1>5, <1>6 DEF E!HasCycle
<1> QED
  BY <1>1, <1>7 DEF E!Valid

LEMMA SameSop ==
    ASSUME sop' = sop
    PROVE  /\ \A q : E!Kind(q)' = E!Kind(q) /\ PossibleOf(q)' = PossibleOf(q)
           /\ \A q, x : EndsWith(q, x)' = EndsWith(q, x) /\ E!NextOf(q, x)' = E!NextOf(q, x)
           /\ \A q : E!step_edges(q)' = E!step_edges(q)
           /\ E!EnteredWith' = E!EnteredWith /\ E!Reachable' = E!Reachable /\ E!Valid' = E!Valid 
<1>1. \A q : E!Kind(q)' = E!Kind(q)
  BY DEF E!Kind
<1>2. \A q : PossibleOf(q)' = PossibleOf(q)
  BY DEF PossibleOf, E!Results, E!DecisionResults, E!Kind
<1>3. \A q, x : EndsWith(q, x)' = EndsWith(q, x) /\ E!NextOf(q, x)' = E!NextOf(q, x)
  BY DEF EndsWith, E!NextOf, E!Kind
<1>4. \A q : E!step_edges(q)' = E!step_edges(q)
  BY DEF E!step_edges, E!EndsRun, E!Kind, E!SuccessFlag
<1>5. E!EnteredWith' = E!EnteredWith
  BY DEF E!EnteredWith, E!Onward, E!From, E!step_edges, E!EndsRun, E!Kind, E!SuccessFlag
<1>6. E!Reachable' = E!Reachable
  BY <1>5 DEF E!Reachable
<1>7. E!Valid' = E!Valid 
  BY <1>4, <1>5, <1>6 DEF E!Valid, E!HasCycle
<1> QED
  BY <1>1, <1>2, <1>3, <1>4, <1>5, <1>6, <1>7

\* Where a step may go on, and that it has a result.
LEMMA ResultTyped ==
    ASSUME sop \in E!Sop, NEW s \in E!Step, NEW r \in PossibleOf(s)
    PROVE  /\ r.branch \in E!Step \cup {E!Nowhere} /\ r # E!NoResult
           /\ ~E!EndsRun(s) => E!NextOf(s, r) \in E!Step \cup {E!Nowhere}
<1>1. r.status # "none"
  <2>1. CASE r \in E!ActionResults
    BY <2>1, ActionResult DEF ActedAs
  <2>2. CASE r \notin E!ActionResults
    BY <2>2, ResultOf DEF Plain
  <2> QED
    BY <2>1, <2>2
<1>2. r.branch \in E!Step \cup {E!Nowhere}
  <2>1. CASE r \in E!ActionResults
    <3>1. r = [status |-> r.status, branch |-> E!Nowhere, events |-> r.events]
      BY <2>1, ActionResult
    <3> QED
      BY <3>1
  <2>2. CASE r \notin E!ActionResults
    <3>1. CASE E!Kind(s) = "DECISION"
      <4>1. sop[s].on_success \in E!Step \cup {E!Nowhere} /\ sop[s].on_failure \in E!Step \cup {E!Nowhere}
        BY <3>1, StepKinds DEF E!Kinds
      <4> QED
        BY <2>2, <3>1, <4>1, ResultOf DEF Plain
    <3>2. CASE E!Kind(s) # "DECISION"
      BY <2>2, <3>2, ResultOf DEF Plain
    <3> QED
      BY <3>1, <3>2
  <2> QED
    BY <2>1, <2>2
<1>3. ~E!EndsRun(s) => E!NextOf(s, r) \in E!Step \cup {E!Nowhere}
  BY <1>2, StepKinds DEF E!NextOf, E!EndsRun
<1> QED
  BY <1>1, <1>2, <1>3 DEF E!NoResult

LEMMA WalkOfStep ==
    ASSUME WalkInv, E!Walking, E!TakeStep
    PROVE  WalkInv'
<1>1. WalkTypes /\ ResultsRight /\ VerifiedRight /\ PathRight /\ RouteRight /\ state \in Attempted
  BY DEF WalkInv, E!Walking, Attempted
<1>2. PICK r \in PossibleOf(current) : Stepped(r)
  BY TakesStep
<1>3. PICK s \in E!Step : s = current
  BY <1>1 DEF PathRight
<1>4. /\ recorded' = [recorded EXCEPT ![s] = r] /\ (s \in Recorded => r = recorded[s])
      /\ walk' = Append(walk, s)
      /\ Leads(s, r, state, state') /\ Follows(s, r, state, state')
      /\ by' = E!VerifiedBy(s, r, state')
      /\ current' = IF E!EndsRun(s) THEN E!Nowhere ELSE E!NextOf(s, r)
      /\ why' = "step" /\ outcome' = E!Conclude(state', by') /\ sop' = sop /\ crashes' = crashes
      /\ r \in PossibleOf(s)
  BY <1>2, <1>3 DEF Stepped
<1>5. outcome = "none" /\ sop \in E!Sop /\ E!Valid
  BY <1>1 DEF WalkTypes, PathRight, Attempted, E!Terminal
<1>6. /\ walk \in Seq(E!Step) /\ walk' \in Seq(E!Step)
      /\ Len(walk) \in Nat /\ Len(walk') = Len(walk) + 1
      /\ walk'[Len(walk) + 1] = s /\ \A i \in 1..Len(walk) : walk'[i] = walk[i]
  BY <1>1, <1>3, <1>4 DEF WalkTypes
<1>7. ~\E n \in 1..Len(walk) : walk[n] = s
  <2>1. E!Ready
    BY NeverExhausted
  <2>2. DOMAIN walk = 1..Len(walk)
    BY <1>6, LenProperties
  <2> QED
    BY <1>3, <2>1, <2>2 DEF E!Ready, E!Range
<1>8. /\ \A q : E!Kind(q)' = E!Kind(q) /\ PossibleOf(q)' = PossibleOf(q)
      /\ \A q, x : EndsWith(q, x)' = EndsWith(q, x) /\ E!NextOf(q, x)' = E!NextOf(q, x)
      /\ \A q : E!step_edges(q)' = E!step_edges(q)
      /\ E!EnteredWith' = E!EnteredWith /\ E!Reachable' = E!Reachable /\ E!Valid' = E!Valid
  BY <1>4, SameSop
<1>9. /\ state' \in E!Terminal \cup Attempted
      /\ state' \in E!Terminal <=> EndsWith(s, r)
      /\ state' \in Attempted => state' \notin E!Terminal /\ ~EndsWith(s, r) /\ ~E!EndsRun(s)
      /\ outcome' \in E!Terminal \cup {"none"} /\ (outcome' = "none" <=> state' \notin E!Terminal)
      /\ state' # "binding"
  BY <1>4 DEF Leads, E!Conclude, E!Terminal, Attempted
<1>10. r # E!NoResult /\ (~E!EndsRun(s) => E!NextOf(s, r) \in E!Step \cup {E!Nowhere})
  BY <1>4, <1>5, ResultTyped
<1>11. WalkTypes'
  <2>1. by' \in E!Step \cup {E!Nowhere} /\ current' \in E!Step \cup {E!Nowhere}
    BY <1>1, <1>4, <1>10 DEF WalkTypes, E!VerifiedBy
  <2> QED
    BY <1>1, <1>4, <1>6, <1>9, <2>1 DEF WalkTypes
<1>12. /\ recorded'[s] = r /\ \A q \in E!Step : q # s => recorded'[q] = recorded[q]
       /\ recorded' = [q \in E!Step |-> recorded'[q]]
       /\ Recorded' = Recorded \cup {s}
  <2>1. recorded = [q \in E!Step |-> recorded[q]]
    BY <1>1 DEF ResultsRight
  <2>2. /\ recorded'[s] = r /\ \A q \in E!Step : q # s => recorded'[q] = recorded[q]
        /\ recorded' = [q \in E!Step |-> recorded'[q]]
    BY <1>4, <2>1
  <2> QED
    BY <1>10, <2>2 DEF Recorded
<1>13. ResultsRight'
  <2>1. \A q \in Recorded' : recorded'[q] \in PossibleOf(q)
    BY <1>1, <1>4, <1>12 DEF ResultsRight, Recorded
  <2>2. outcome' = "none" => \A q \in Recorded' : ~EndsWith(q, recorded'[q])
    BY <1>1, <1>5, <1>9, <1>12 DEF ResultsRight, Recorded
  <2> QED
    BY <1>8, <1>12, <2>1, <2>2 DEF ResultsRight
<1>14. VerifiedRight'
  <2> SUFFICES ASSUME by' # E!Nowhere
               PROVE  \E n \in 1..Len(walk') :
                        /\ walk'[n] = by' /\ E!Kind(by') = "VERIFY" /\ recorded'[by'].status = "SUCCESS"
                        /\ \A m \in (n + 1)..Len(walk') : E!Kind(walk'[m]) \in {"NOTE", "RESOLVE"}
    <3>1. outcome' = "resolved" => by' # E!Nowhere
      BY <1>4 DEF E!Conclude, E!Terminal
    <3> QED
      BY <1>4, <3>1 DEF VerifiedRight, E!Kind
  <2>1. state' \in {"verified", "resolved"}
    BY <1>4 DEF E!VerifiedBy
  <2>2. CASE E!Kind(s) = "VERIFY" /\ r.status = "SUCCESS"
    <3>1. by' = s /\ Len(walk') \in 1..Len(walk') /\ walk'[Len(walk')] = s
      BY <1>4, <1>6, <2>1, <2>2 DEF E!VerifiedBy
    <3>2. \A m \in (Len(walk') + 1)..Len(walk') : FALSE
      BY <1>6
    <3> QED
      BY <1>12, <2>2, <3>1, <3>2
  <2>3. CASE ~(E!Kind(s) = "VERIFY" /\ r.status = "SUCCESS")
    <3>1. by' = by /\ by # E!Nowhere
      BY <1>4, <2>1, <2>3 DEF E!VerifiedBy
    <3>2. E!Kind(s) \in {"NOTE", "RESOLVE"}
      BY <1>4, <2>1, <2>3 DEF Leads
    <3>3. PICK n \in 1..Len(walk) :
            /\ walk[n] = by /\ E!Kind(by) = "VERIFY" /\ recorded[by].status = "SUCCESS"
            /\ \A m \in (n + 1)..Len(walk) : E!Kind(walk[m]) \in {"NOTE", "RESOLVE"}
      BY <1>1, <3>1 DEF VerifiedRight
    <3>4. by # s /\ by \in E!Step
      BY <1>1, <1>7, <3>1, <3>3 DEF WalkTypes
    <3>5. recorded'[by] = recorded[by]
      BY <1>12, <3>4
    <3>6. \A m \in (n + 1)..Len(walk') : E!Kind(walk'[m]) \in {"NOTE", "RESOLVE"}
      <4> SUFFICES ASSUME NEW m \in (n + 1)..Len(walk') PROVE E!Kind(walk'[m]) \in {"NOTE", "RESOLVE"}
        OBVIOUS
      <4>1. m = Len(walk) + 1 \/ (m \in (n + 1)..Len(walk) /\ m \in 1..Len(walk))
        BY <1>6
      <4> QED
        BY <1>6, <3>2, <3>3, <4>1
    <3>7. n \in 1..Len(walk') /\ walk'[n] = walk[n]
      BY <1>6
    <3> QED
      BY <3>1, <3>3, <3>5, <3>6, <3>7
  <2> QED
    BY <2>2, <2>3
<1>15. PathRight'
  <2> SUFFICES ASSUME state' \in Attempted
               PROVE  /\ current' \in E!Step /\ <<current', Flag(state')>> \in E!EnteredWith
                      /\ \A i \in 1..Len(walk') :
                            /\ walk'[i] \in E!Reachable
                            /\ \E e \in E!step_edges(walk'[i]) :
                                  e[1] = IF i = Len(walk') THEN current' ELSE walk'[i + 1]
    BY <1>4, <1>5, <1>8 DEF PathRight, Flag, Attempted
  <2>1. current' = E!NextOf(s, r) /\ ~EndsWith(s, r)
    BY <1>4, <1>9
  <2>2. PICK f : /\ <<current', f>> \in E!step_edges(s)
                 /\ Flag(state') = IF f = "same" THEN Flag(state) ELSE f
    BY <1>4, <2>1 DEF Follows
  <2>3. PICK p : p = <<s, Flag(state)>>
    OBVIOUS
  <2>4. p \in E!EnteredWith /\ p[1] = s /\ p[2] = Flag(state)
    BY <1>1, <1>3, <2>3 DEF PathRight
  <2>5. <<current', Flag(state')>> \in E!From(p)
    <3>1. PICK e : e = <<current', f>>
      OBVIOUS
    <3>2. e[1] = current' /\ e[2] = f /\ e \in E!step_edges(p[1])
      BY <2>2, <2>4, <3>1
    <3>3. <<current', Flag(state')>> = <<e[1], IF e[2] = "same" THEN p[2] ELSE e[2]>>
      BY <2>2, <2>4, <3>2
    <3> QED
      BY <3>2, <3>3 DEF E!From
  <2>6. <<current', Flag(state')>> \in E!EnteredWith /\ <<current', Flag(state')>> \in Pair
    BY <1>5, <2>4, <2>5, EnteredClosed, WalkNames, WalkAssumption
  <2>7. current' \in E!Step
    BY <2>6 DEF Pair
  <2>8. s \in E!Reachable
    BY <2>4 DEF E!Reachable
  <2>9. ASSUME NEW i \in 1..Len(walk')
        PROVE  /\ walk'[i] \in E!Reachable
               /\ \E e \in E!step_edges(walk'[i]) : e[1] = IF i = Len(walk') THEN current' ELSE walk'[i + 1]
    <3>1. CASE i = Len(walk) + 1
      <4>1. PICK e : e = <<current', f>>
        OBVIOUS
      <4>2. e[1] = current' /\ e \in E!step_edges(walk'[i])
        BY <1>6, <2>2, <3>1, <4>1
      <4> QED
        BY <1>6, <2>8, <3>1, <4>2
    <3>2. CASE i \in 1..Len(walk)
      <4>1. /\ walk[i] \in E!Reachable
            /\ \E e \in E!step_edges(walk[i]) : e[1] = IF i = Len(walk) THEN current ELSE walk[i + 1]
        BY <1>1, <3>2 DEF PathRight
      <4>2. /\ walk'[i] = walk[i] /\ i # Len(walk')
            /\ walk'[i + 1] = IF i = Len(walk) THEN s ELSE walk[i + 1]
        <5>1. i = Len(walk) \/ i + 1 \in 1..Len(walk)
          BY <1>6, <3>2
        <5> QED
          BY <1>6, <3>2, <5>1
      <4> QED
        BY <1>3, <4>1, <4>2
    <3> QED
      BY <1>6, <3>1, <3>2
  <2> QED
    BY <2>6, <2>7, <2>9
<1>16. PICK route \in Seq(E!Step) : OnRoute(route)
  BY <1>1 DEF RouteRight
<1>17. /\ Len(route) \in Nat /\ Len(walk) <= Len(route) /\ \A i \in 1..Len(walk) : walk[i] = route[i]
       /\ \A i \in 1..Len(route) : route[i] \in E!Step /\ route[i] \in Recorded
  BY <1>16, LenProperties, ElementOfSeq DEF OnRoute
<1>18. Len(walk) < Len(route) => route[Len(walk) + 1] = s
  <2> SUFFICES ASSUME Len(walk) < Len(route) PROVE route[Len(walk) + 1] = s
    OBVIOUS
  <2>1. CASE walk = <<>>
    <3>1. Len(walk) = 0 /\ route # <<>>
      BY <1>16, <1>17, <2>1
    <3>2. route[1] = FirstStep /\ s = FirstStep
      BY <1>1, <1>3, <1>16, <2>1, <3>1 DEF OnRoute
    <3> QED
      BY <3>1, <3>2
  <2>2. CASE walk # <<>>
    <3>1. Len(walk) # 0
      BY <1>6, <2>2, EmptySeq
    <3>2. PICK k : k = Len(walk)
      OBVIOUS
    <3>3. k \in 1..(Len(route) - 1) /\ k \in 1..Len(walk)
      BY <1>6, <1>17, <3>1, <3>2
    <3>4. route[k + 1] = E!NextOf(route[k], recorded[route[k]]) /\ route[k] = walk[k]
      BY <1>16, <1>17, <3>3 DEF OnRoute
    <3>5. s = E!NextOf(walk[k], recorded[walk[k]])
      BY <1>1, <1>3, <1>16, <2>2, <3>2 DEF OnRoute
    <3> QED
      BY <3>2, <3>4, <3>5
  <2> QED
    BY <2>1, <2>2
<1>19. state' \in Attempted => current' = E!NextOf(s, r)
  BY <1>4, <1>9
<1>20. ASSUME s \in Recorded PROVE RouteRight'
  <2>1. Recorded' = Recorded /\ \A q \in E!Step : recorded'[q] = recorded[q]
    BY <1>4, <1>12, <1>20
  <2>2. Len(walk) < Len(route)
    <3>1. PICK i \in 1..Len(route) : route[i] = s
      BY <1>16, <1>20 DEF OnRoute
    <3>2. i \notin 1..Len(walk)
      BY <1>7, <1>17, <3>1
    <3> QED
      BY <1>6, <1>17, <3>2
  <2>3. state' \notin E!Terminal /\ outcome' = "none"
    <3>1. ~EndsWith(s, r)
      BY <1>1, <1>4, <1>5, <1>20 DEF ResultsRight
    <3> QED
      BY <1>9, <3>1
  <2>4. Len(walk') <= Len(route) /\ \A i \in 1..Len(walk') : walk'[i] = route[i]
    <3> SUFFICES ASSUME NEW i \in 1..Len(walk') PROVE walk'[i] = route[i]
      BY <1>6, <1>17, <2>2
    <3>1. i \in 1..Len(walk) \/ i = Len(walk) + 1
      BY <1>6
    <3> QED
      BY <1>6, <1>17, <1>18, <2>2, <3>1
  <2>5. walk' # <<>> /\ walk'[Len(walk')] = s /\ recorded'[s] = r
    BY <1>6, <1>12
  <2>6. \A i \in 1..(Len(route) - 1) : route[i + 1] = E!NextOf(route[i], recorded'[route[i]])
    <3> SUFFICES ASSUME NEW i \in 1..(Len(route) - 1)
                 PROVE  route[i + 1] = E!NextOf(route[i], recorded'[route[i]])
      OBVIOUS
    <3>1. i \in 1..Len(route)
      BY <1>17
    <3> QED
      BY <1>16, <1>17, <2>1, <3>1 DEF OnRoute
  <2>7. OnRoute(route)'
    BY <1>4, <1>16, <1>19, <2>1, <2>3, <2>4, <2>5, <2>6 DEF OnRoute, E!NextOf
  <2>8. \E q \in Seq(E!Step) : OnRoute(q)'
    BY <2>7
  <2> QED
    BY <2>8 DEF RouteRight
<1>21. ASSUME s \notin Recorded PROVE RouteRight'
  <2>1. Len(walk) = Len(route)
    <3>1. ~(Len(walk) < Len(route))
      <4> SUFFICES ASSUME Len(walk) < Len(route) PROVE FALSE
        OBVIOUS
      <4>1. Len(walk) + 1 \in 1..Len(route)
        BY <1>6, <1>17
      <4> QED
        BY <1>17, <1>18, <1>21, <4>1
    <3> QED
      BY <1>6, <1>17, <3>1
  <2>2. PICK q : q = Append(route, s)
    OBVIOUS
  <2>3. /\ q \in Seq(E!Step) /\ Len(q) = Len(route) + 1
        /\ q[Len(route) + 1] = s /\ \A i \in 1..Len(route) : q[i] = route[i]
    BY <1>16, <2>2
  <2>4. \A x \in E!Step : x \in Recorded' <=> \E i \in 1..Len(q) : q[i] = x
    <3> SUFFICES ASSUME NEW x \in E!Step PROVE x \in Recorded' <=> \E i \in 1..Len(q) : q[i] = x
      OBVIOUS
    <3>1. x \in Recorded <=> \E i \in 1..Len(route) : route[i] = x
      BY <1>16 DEF OnRoute
    <3>2. (\E i \in 1..Len(q) : q[i] = x) <=> (\E i \in 1..Len(route) : route[i] = x) \/ x = s
      <4>1. ASSUME NEW i \in 1..Len(q) PROVE i \in 1..Len(route) \/ i = Len(route) + 1
        BY <1>17, <2>3
      <4>2. Len(route) + 1 \in 1..Len(q) /\ \A i \in 1..Len(route) : i \in 1..Len(q)
        BY <1>17, <2>3
      <4> QED
        BY <2>3, <4>1, <4>2
    <3> QED
      BY <1>12, <3>1, <3>2
  <2>5. Len(walk') <= Len(q) /\ Len(walk') = Len(q) /\ \A i \in 1..Len(walk') : walk'[i] = q[i]
    <3>1. ASSUME NEW i \in 1..Len(walk') PROVE walk'[i] = q[i]
      <4>1. i \in 1..Len(walk) \/ i = Len(walk) + 1
        BY <1>6
      <4> QED
        BY <1>6, <1>17, <2>1, <2>3, <4>1
    <3> QED
      BY <1>6, <2>1, <2>3, <3>1
  <2>6. q[1] = FirstStep
    <3>1. CASE route = <<>>
      <4>1. Len(route) = 0 /\ Len(walk) = 0
        BY <2>1, <3>1
      <4>2. walk = <<>>
        BY <1>6, <4>1, EmptySeq
      <4> QED
        BY <1>1, <1>3, <1>16, <2>3, <4>1, <4>2 DEF OnRoute
    <3>2. CASE route # <<>>
      <4>1. 1 \in 1..Len(route)
        BY <1>16, <1>17, <3>2, EmptySeq
      <4> QED
        BY <1>16, <2>3, <3>2, <4>1 DEF OnRoute
    <3> QED
      BY <3>1, <3>2
  <2>7. \A i \in 1..(Len(q) - 1) : q[i + 1] = E!NextOf(q[i], recorded'[q[i]])
    <3> SUFFICES ASSUME NEW i \in 1..(Len(q) - 1) PROVE q[i + 1] = E!NextOf(q[i], recorded'[q[i]])
      OBVIOUS
    <3>1. i \in 1..Len(route)
      BY <1>17, <2>3
    <3>2. q[i] = route[i] /\ route[i] \in E!Step /\ route[i] # s /\ recorded'[route[i]] = recorded[route[i]]
      BY <1>12, <1>17, <1>21, <2>3, <3>1
    <3>3. CASE i = Len(route)
      <4>1. walk # <<>> /\ Len(walk) = i /\ walk[i] = route[i]
        BY <1>6, <1>17, <2>1, <3>1, <3>3
      <4>2. s = E!NextOf(walk[i], recorded[walk[i]])
        BY <1>1, <1>3, <1>16, <4>1 DEF OnRoute
      <4> QED
        BY <2>3, <3>2, <3>3, <4>1, <4>2
    <3>4. CASE i # Len(route)
      <4>1. i \in 1..(Len(route) - 1) /\ i + 1 \in 1..Len(route)
        BY <1>17, <3>1, <3>4
      <4>2. route[i + 1] = E!NextOf(route[i], recorded[route[i]])
        BY <1>16, <4>1 DEF OnRoute
      <4> QED
        BY <2>3, <3>2, <4>1, <4>2
    <3> QED
      BY <3>3, <3>4
  <2>8. walk' # <<>> /\ walk'[Len(walk')] = s /\ recorded'[s] = r
    BY <1>6, <1>12
  <2>9. OnRoute(q)'
    BY <1>4, <1>19, <2>4, <2>5, <2>6, <2>7, <2>8 DEF OnRoute, E!NextOf
  <2>10. \E p \in Seq(E!Step) : OnRoute(p)'
    BY <2>3, <2>9
  <2> QED
    BY <2>10 DEF RouteRight
<1>22. RouteRight'
  <2>1. s \in Recorded \/ s \notin Recorded
    OBVIOUS
  <2> QED
    BY <1>20, <1>21, <2>1
<1> QED
  BY <1>11, <1>13, <1>14, <1>15, <1>22 DEF WalkInv

\* Where a walk begins, what the journal says of it is left as it is.
LEMMA WalkOfBind ==
    ASSUME WalkInv, E!Bind
    PROVE  WalkInv'
<1>1. WalkTypes /\ ResultsRight /\ VerifiedRight /\ PathRight /\ RouteRight /\ state = "binding"
  BY DEF WalkInv, E!Bind
<1>2. PICK word \in IF E!Valid THEN {"params_bound", "params_invalid"} ELSE {"sop_invalid"} :
        state' = E!transition(state, word)
  BY DEF E!Bind
<1>3. /\ outcome' = E!Conclude(state', E!Nowhere) /\ sop' = sop /\ current' = current
      /\ walk' = walk /\ recorded' = recorded /\ by' = by /\ why' = why /\ crashes' = crashes
  BY DEF E!Bind
<1>4. state' = "needs_human" \/ (state' = "executing" /\ E!Valid)
  BY <1>1, <1>2, NoMoves
<1>5. outcome = "none" /\ current = FirstStep /\ walk = <<>> /\ sop \in E!Sop
  BY <1>1 DEF WalkTypes, E!Terminal
<1>6. \/ state' = "needs_human" /\ outcome' = "needs_human"
      \/ state' = "executing" /\ outcome' = "none"
  BY <1>3, <1>4 DEF E!Conclude, E!Terminal
<1>7. /\ \A q : E!Kind(q)' = E!Kind(q) /\ PossibleOf(q)' = PossibleOf(q)
      /\ \A q, x : EndsWith(q, x)' = EndsWith(q, x)
      /\ E!EnteredWith' = E!EnteredWith /\ E!Valid' = E!Valid
  BY <1>3, SameSop
<1>8. WalkTypes'
  BY <1>1, <1>3, <1>6 DEF WalkTypes, E!Terminal, Attempted
<1>9. ResultsRight'
  BY <1>1, <1>3, <1>5, <1>7 DEF ResultsRight, Recorded
<1>10. VerifiedRight'
  BY <1>1, <1>3, <1>6 DEF VerifiedRight, E!Kind
<1>11. PathRight'
  <2>1. <<FirstStep, "no">> \in E!EnteredWith /\ FirstStep \in E!Step
    BY <1>5, EnteredClosed, WalkNames, WalkAssumption
  <2>2. state' \in Attempted => state' = "executing" /\ E!Valid
    BY <1>4 DEF Attempted
  <2>3. Flag("executing") = "no"
    BY DEF Flag
  <2>4. Len(walk') = 0
    BY <1>3, <1>5
  <2>5. 1..Len(walk') = {}
    BY <2>4
  <2>6. state' \in Attempted => <<current', Flag(state')>> \in E!EnteredWith
    BY <1>3, <1>5, <2>1, <2>2, <2>3
  <2>7. Flag(state)' = Flag(state')
    BY DEF Flag
  <2>8. current' \in E!Step /\ why' = "step"
    BY <1>1, <1>3, <1>5, <2>1 DEF PathRight
  <2> HIDE DEF Flag
  <2> QED
    BY <1>7, <2>2, <2>5, <2>6, <2>7, <2>8 DEF PathRight, Attempted
<1>12. RouteRight'
  <2>1. PICK route \in Seq(E!Step) : OnRoute(route)
    BY <1>1 DEF RouteRight
  <2>2. OnRoute(route)'
    BY <1>3, <1>5, <1>6, <2>1 DEF OnRoute, Recorded, E!NextOf
  <2>3. \E q \in Seq(E!Step) : OnRoute(q)'
    BY <2>2
  <2> QED
    BY <2>3 DEF RouteRight
<1> QED
  BY <1>8, <1>9, <1>10, <1>11, <1>12 DEF WalkInv

LEMMA WalkOfInterrupt ==
    ASSUME WalkInv, E!Interrupt
    PROVE  WalkInv'
<1>1. WalkTypes /\ ResultsRight /\ VerifiedRight /\ PathRight /\ RouteRight
  BY DEF WalkInv
<1>2. /\ outcome = "none" /\ crashes < MaxInterruptions /\ crashes' = crashes + 1
      /\ state' = "binding" /\ current' = FirstStep /\ walk' = <<>> /\ by' = E!Nowhere
      /\ sop' = sop /\ recorded' = recorded /\ why' = why /\ outcome' = outcome
  BY DEF E!Interrupt
<1>3. walk' \in Seq(E!Step) /\ Len(walk') = 0
  BY <1>2
<1>4. /\ \A q : PossibleOf(q)' = PossibleOf(q)
      /\ \A q, x : EndsWith(q, x)' = EndsWith(q, x)
  BY <1>2, SameSop
<1>5. crashes' \in 0..MaxInterruptions
  BY <1>1, <1>2, WalkAssumption DEF WalkTypes
<1>6. WalkTypes'
  BY <1>1, <1>2, <1>3, <1>5, WalkNames DEF WalkTypes, E!Terminal, Attempted
<1>7. ResultsRight'
  BY <1>1, <1>2, <1>4 DEF ResultsRight, Recorded
<1>8. VerifiedRight' /\ PathRight'
  BY <1>1, <1>2 DEF VerifiedRight, PathRight, Attempted
<1>9. RouteRight'
  <2>1. PICK route \in Seq(E!Step) : OnRoute(route)
    BY <1>1 DEF RouteRight
  <2>2. Len(route) \in Nat
    BY <2>1
  <2>3. OnRoute(route)'
    BY <1>2, <1>3, <2>1, <2>2 DEF OnRoute, Recorded, E!NextOf, Attempted
  <2>4. \E q \in Seq(E!Step) : OnRoute(q)'
    BY <2>3
  <2> QED
    BY <2>4 DEF RouteRight
<1> QED
  BY <1>6, <1>7, <1>8, <1>9 DEF WalkInv

LEMMA WalkSame ==
    ASSUME WalkInv, UNCHANGED E!vars
    PROVE  WalkInv'
<1>1. /\ sop' = sop /\ state' = state /\ current' = current /\ walk' = walk
      /\ recorded' = recorded /\ by' = by /\ why' = why /\ outcome' = outcome /\ crashes' = crashes
  BY DEF E!vars
<1>2. /\ \A q : E!Kind(q)' = E!Kind(q) /\ PossibleOf(q)' = PossibleOf(q)
      /\ \A q, x : EndsWith(q, x)' = EndsWith(q, x) /\ E!NextOf(q, x)' = E!NextOf(q, x)
      /\ \A q : E!step_edges(q)' = E!step_edges(q)
      /\ E!EnteredWith' = E!EnteredWith /\ E!Reachable' = E!Reachable /\ E!Valid' = E!Valid
  BY <1>1, SameSop
<1>3. WalkTypes'
  BY <1>1 DEF WalkInv, WalkTypes
<1>4. ResultsRight'
  BY <1>1, <1>2 DEF WalkInv, ResultsRight, Recorded
<1>5. VerifiedRight'
  BY <1>1 DEF WalkInv, VerifiedRight, E!Kind
<1>6. PathRight'
  BY <1>1, <1>2 DEF WalkInv, PathRight, Flag
<1>7. RouteRight'
  <2>1. PICK route \in Seq(E!Step) : OnRoute(route)
    BY DEF WalkInv, RouteRight
  <2>2. OnRoute(route)'
    BY <1>1, <2>1 DEF OnRoute, Recorded, E!NextOf
  <2>3. \E q \in Seq(E!Step) : OnRoute(q)'
    BY <2>2
  <2> QED
    BY <2>3 DEF RouteRight
<1> QED
  BY <1>3, <1>4, <1>5, <1>6, <1>7 DEF WalkInv

LEMMA WalkStep == WalkInv /\ [E!Next]_(E!vars) => WalkInv'
<1> SUFFICES ASSUME WalkInv, [E!Next]_(E!vars) PROVE WalkInv'
  OBVIOUS
<1>1. CASE E!Bind
  BY <1>1, WalkOfBind
<1>2. CASE E!Advance
  <2>1. E!Walking /\ E!Ready
    BY <1>2, NeverExhausted DEF E!Advance
  <2> QED
    BY <1>2, <2>1, WalkOfStep DEF E!Advance
<1>3. CASE E!Interrupt
  BY <1>3, WalkOfInterrupt
<1>4. CASE UNCHANGED E!vars
  BY <1>4, WalkSame
<1> QED
  BY <1>1, <1>2, <1>3, <1>4 DEF E!Next

\* What follows from it.
LEMMA WalkGoes ==
    ASSUME WalkInv
    PROVE  /\ E!ResolvedMeansVerified /\ E!ValidIsEnough /\ E!ResumedOnItsRoute /\ E!TypeOK
<1>1. WalkTypes /\ ResultsRight /\ VerifiedRight /\ PathRight /\ RouteRight
  BY DEF WalkInv
<1>2. DOMAIN walk = 1..Len(walk) /\ Len(walk) \in Nat
  BY <1>1, LenProperties DEF WalkTypes
<1>3. E!ResolvedMeansVerified
  BY <1>1, <1>2 DEF VerifiedRight, E!ResolvedMeansVerified
<1>4. E!ValidIsEnough
  BY <1>1 DEF PathRight, E!ValidIsEnough
<1>5. E!ResumedOnItsRoute
  <2> SUFFICES ASSUME outcome \notin {"none", "needs_human"}, NEW s \in E!Step, recorded[s] # E!NoResult
               PROVE  s \in E!Range(walk)
    BY DEF E!ResumedOnItsRoute
  <2>1. PICK route \in Seq(E!Step) : OnRoute(route)
    BY <1>1 DEF RouteRight
  <2>2. PICK i \in 1..Len(route) : route[i] = s
    BY <2>1 DEF OnRoute, Recorded
  <2>3. i \in DOMAIN walk /\ walk[i] = s
    BY <1>2, <2>1, <2>2 DEF OnRoute
  <2> QED
    BY <2>3 DEF E!Range
<1>6. E!TypeOK
  <2>1. \A s \in E!Step : recorded[s].branch \in E!Step \cup {E!Nowhere}
    <3> SUFFICES ASSUME NEW s \in E!Step PROVE recorded[s].branch \in E!Step \cup {E!Nowhere}
      OBVIOUS
    <3>1. CASE s \in Recorded
      BY <1>1, <3>1, ResultTyped DEF ResultsRight, WalkTypes
    <3>2. CASE s \notin Recorded
      <4>1. recorded[s] = E!NoResult
        BY <3>2 DEF Recorded
      <4> QED
        BY <4>1 DEF E!NoResult
    <3> QED
      BY <3>1, <3>2
  <2>2. state \in E!RunStates
    BY <1>1 DEF WalkTypes, E!RunStates, Attempted
  <2> QED
    BY <1>1, <2>1, <2>2 DEF WalkTypes, PathRight, E!TypeOK
<1> QED
  BY <1>3, <1>4, <1>5, <1>6

-----------------------------------------------------------------------------
(* Expressions.                                                            *)

\* The nodes by their depth.
PathNode == [kind: {"path"}, name: Reference]
LeafNode == PathNode \cup [kind: {"lit"}, value: Quoted]
SmallNode == X!Compare \cup PathNode
NotNode == [kind: {"not"}, of: SmallNode]
BothNode == [kind: {"and", "or"}, left: X!Unary, right: X!Compare]

LEMMA NodeKinds ==
    /\ X!Node = LeafNode \cup X!Compare \cup NotNode \cup BothNode
    /\ X!Unary = SmallNode \cup NotNode
    /\ \A n \in LeafNode : \/ n.kind = "lit" /\ n.value \in Quoted
                           \/ n.kind = "path" /\ n.name \in Reference
    /\ \A n \in X!Compare : n.kind = "cmp" /\ n.left \in LeafNode /\ n.right \in LeafNode
    /\ \A n \in NotNode : n.kind = "not" /\ n.of \in SmallNode
    /\ \A n \in BothNode : n.kind \in {"and", "or"} /\ n.left \in X!Unary /\ n.right \in X!Compare
    /\ X!Unary \subseteq X!Node /\ SmallNode \subseteq X!Unary
<1>1. X!Operand = LeafNode
  BY DEF X!Operand, LeafNode, PathNode
<1>2. X!Unary = SmallNode \cup NotNode
  BY DEF X!Unary, SmallNode, NotNode, PathNode
<1>3. X!Expression = X!Unary \cup BothNode
  BY DEF X!Expression, BothNode
<1>4. X!Node = LeafNode \cup X!Compare \cup NotNode \cup BothNode
  BY <1>2, <1>3 DEF X!Node, LeafNode, SmallNode
<1>5. \A n \in LeafNode : \/ n.kind = "lit" /\ n.value \in Quoted
                          \/ n.kind = "path" /\ n.name \in Reference
  BY DEF LeafNode, PathNode
<1>6. \A n \in X!Compare : n.kind = "cmp" /\ n.left \in LeafNode /\ n.right \in LeafNode
  BY <1>1 DEF X!Compare, LeafNode, PathNode
<1>7. \A n \in NotNode : n.kind = "not" /\ n.of \in SmallNode
  BY DEF NotNode
<1>8. \A n \in BothNode : n.kind \in {"and", "or"} /\ n.left \in X!Unary /\ n.right \in X!Compare
  BY DEF BothNode
<1>9. X!Unary \subseteq X!Node /\ SmallNode \subseteq X!Unary
  BY <1>2, <1>4 DEF SmallNode, LeafNode
<1>10. SmallNode \subseteq X!Unary
  BY <1>2
<1> QED
  BY <1>2, <1>4, <1>5, <1>6, <1>7, <1>8, <1>9, <1>10, Zenon

\* What a node is worth, from what the ones below it are.
LeafWorth(context, n) == IF n.kind = "lit" THEN n.value ELSE X!Resolve(n.name, context)
NotWorth(v) == IF v = X!Error THEN X!Error ELSE X!Boolean(v = X!Boolean(FALSE))
BothWorth(n, v, w) == IF v = X!Boolean(n.kind = "and") THEN w ELSE v
Worths(context, value) ==
    /\ \A n \in LeafNode : value[n] = LeafWorth(context, n)
    /\ \A n \in X!Compare : value[n] = X!Compared(n.op, value[n.left], value[n.right])
    /\ \A n \in NotNode : value[n] = NotWorth(X!Operated(value[n.of]))
    /\ \A n \in BothNode :
          value[n] = BothWorth(n, X!Operated(value[n.left]), X!Operated(value[n.right]))

LEMMA WorthIsThere == \A context : \E value : Worths(context, value)
<1> SUFFICES ASSUME NEW context PROVE \E value : Worths(context, value)
  OBVIOUS
<1> DEFINE CmpWorth(n) == X!Compared(n.op, LeafWorth(context, n.left), LeafWorth(context, n.right))
           SmallWorth(n) == IF n.kind = "cmp" THEN CmpWorth(n) ELSE LeafWorth(context, n)
           UnaryWorth(n) == IF n.kind = "not" THEN NotWorth(X!Operated(SmallWorth(n.of))) ELSE SmallWorth(n)
           Worth(n) == IF n.kind \in {"and", "or"}
                       THEN BothWorth(n, X!Operated(UnaryWorth(n.left)), X!Operated(SmallWorth(n.right)))
                       ELSE UnaryWorth(n)
           g == [n \in X!Node |-> Worth(n)]
<1> HIDE DEF CmpWorth
<1>1. \A n \in LeafNode : Worth(n) = LeafWorth(context, n)
  BY NodeKinds
<1>2. \A n \in X!Compare : Worth(n) = CmpWorth(n)
  BY NodeKinds
<1>3. \A n \in SmallNode : Worth(n) = SmallWorth(n)
  BY <1>1, <1>2, NodeKinds DEF SmallNode, LeafNode
<1>4. \A n \in X!Unary : Worth(n) = UnaryWorth(n)
  BY NodeKinds DEF SmallNode, LeafNode
<1>5. \A n \in NotNode : Worth(n) = NotWorth(X!Operated(Worth(n.of)))
  <2> SUFFICES ASSUME NEW n \in NotNode PROVE Worth(n) = NotWorth(X!Operated(Worth(n.of)))
    OBVIOUS
  <2>1. n.kind = "not" /\ n.of \in SmallNode
    BY NodeKinds
  <2>2. Worth(n) = NotWorth(X!Operated(SmallWorth(n.of)))
    BY <2>1
  <2> HIDE DEF Worth, SmallWorth
  <2> QED
    BY <1>3, <2>1, <2>2
<1>6. \A n \in BothNode : Worth(n) = BothWorth(n, X!Operated(Worth(n.left)), X!Operated(Worth(n.right)))
  <2> SUFFICES ASSUME NEW n \in BothNode
               PROVE  Worth(n) = BothWorth(n, X!Operated(Worth(n.left)), X!Operated(Worth(n.right)))
    OBVIOUS
  <2>1. n.kind \in {"and", "or"} /\ n.left \in X!Unary /\ n.right \in X!Compare
    BY NodeKinds
  <2>2. Worth(n) = BothWorth(n, X!Operated(UnaryWorth(n.left)), X!Operated(SmallWorth(n.right)))
    BY <2>1
  <2>3. n.right \in SmallNode
    BY <2>1 DEF SmallNode
  <2> HIDE DEF Worth, SmallWorth, UnaryWorth
  <2> QED
    BY <1>3, <1>4, <2>1, <2>2, <2>3
<1>7. \A n \in X!Compare : Worth(n) = X!Compared(n.op, Worth(n.left), Worth(n.right))
  <2> SUFFICES ASSUME NEW n \in X!Compare PROVE Worth(n) = X!Compared(n.op, Worth(n.left), Worth(n.right))
    OBVIOUS
  <2>1. n.left \in LeafNode /\ n.right \in LeafNode
    BY NodeKinds
  <2>2. Worth(n) = X!Compared(n.op, LeafWorth(context, n.left), LeafWorth(context, n.right))
    BY <1>2 DEF CmpWorth
  <2> HIDE DEF Worth
  <2> QED
    BY <1>1, <2>1, <2>2
<1> HIDE DEF Worth
<1>8. \A n \in X!Node : g[n] = Worth(n)
  OBVIOUS
<1> HIDE DEF g
<1>9. /\ \A n \in LeafNode : n \in X!Node
      /\ \A n \in X!Compare : n \in X!Node /\ n.left \in X!Node /\ n.right \in X!Node
      /\ \A n \in NotNode : n \in X!Node /\ n.of \in X!Node
      /\ \A n \in BothNode : n \in X!Node /\ n.left \in X!Node /\ n.right \in X!Node
  BY NodeKinds
<1>10. Worths(context, g)
  BY <1>1, <1>5, <1>6, <1>7, <1>8, <1>9 DEF Worths
<1> QED
  BY <1>10

LEMMA Values == \A context : \E value : /\ Worths(context, value)
                                        /\ \A e : X!Eval(e, context) = value[e]
<1> SUFFICES ASSUME NEW context
             PROVE  \E value : Worths(context, value) /\ \A e : X!Eval(e, context) = value[e]
  OBVIOUS
<1> DEFINE Rule(f, n) ==
               CASE n.kind = "lit" -> n.value
                 [] n.kind = "path" -> X!Resolve(n.name, context)
                 [] n.kind = "not" ->
                       LET v == X!Operated(f[n.of]) IN
                       IF v = X!Error THEN X!Error ELSE X!Boolean(v = X!Boolean(FALSE))
                 [] n.kind \in {"and", "or"} ->
                       LET v == X!Operated(f[n.left]) IN
                       IF v = X!Boolean(n.kind = "and") THEN X!Operated(f[n.right]) ELSE v
                 [] OTHER -> X!Compared(n.op, f[n.left], f[n.right])
           Tells(f) == f = [n \in X!Node |-> Rule(f, n)]
           f == CHOOSE h : Tells(h)
<1>1. ASSUME NEW h
      PROVE  /\ \A n \in LeafNode : Rule(h, n) = LeafWorth(context, n)
             /\ \A n \in X!Compare : Rule(h, n) = X!Compared(n.op, h[n.left], h[n.right])
             /\ \A n \in NotNode : Rule(h, n) = NotWorth(X!Operated(h[n.of]))
             /\ \A n \in BothNode :
                   Rule(h, n) = BothWorth(n, X!Operated(h[n.left]), X!Operated(h[n.right]))
  <2>1. \A n \in LeafNode : Rule(h, n) = LeafWorth(context, n)
    BY NodeKinds DEF LeafWorth
  <2>2. \A n \in X!Compare : Rule(h, n) = X!Compared(n.op, h[n.left], h[n.right])
    BY NodeKinds
  <2>3. \A n \in NotNode : Rule(h, n) = NotWorth(X!Operated(h[n.of]))
    BY NodeKinds DEF NotWorth
  <2>4. \A n \in BothNode :
            Rule(h, n) = BothWorth(n, X!Operated(h[n.left]), X!Operated(h[n.right]))
    BY NodeKinds DEF BothWorth
  <2> QED
    BY <2>1, <2>2, <2>3, <2>4
<1> HIDE DEF Rule
<1>2. \E h : Tells(h)
  <2>1. PICK value : Worths(context, value)
    BY WorthIsThere
  <2> DEFINE g == [n \in X!Node |-> value[n]]
  <2>2. \A n \in X!Node : g[n] = value[n]
    OBVIOUS
  <2>3. \A n \in X!Node : Rule(g, n) = value[n]
    <3> HIDE DEF g
    <3>1. /\ \A n \in X!Compare : n.left \in X!Node /\ n.right \in X!Node
          /\ \A n \in NotNode : n.of \in X!Node
          /\ \A n \in BothNode : n.left \in X!Node /\ n.right \in X!Node
      BY NodeKinds
    <3> SUFFICES ASSUME NEW n \in X!Node PROVE Rule(g, n) = value[n]
      OBVIOUS
    <3>2. CASE n \in LeafNode
      BY <1>1, <2>1, <3>2 DEF Worths
    <3>3. CASE n \in X!Compare
      BY <1>1, <2>1, <2>2, <3>1, <3>3 DEF Worths
    <3>4. CASE n \in NotNode
      BY <1>1, <2>1, <2>2, <3>1, <3>4 DEF Worths
    <3>5. CASE n \in BothNode
      BY <1>1, <2>1, <2>2, <3>1, <3>5 DEF Worths
    <3> QED
      BY <3>2, <3>3, <3>4, <3>5, NodeKinds
  <2>4. Tells(g)
    BY <2>3
  <2> QED
    BY <2>4, Zenon
<1>3. Tells(f)
  <2> HIDE DEF Tells
  <2> QED
    BY <1>2, Zenon DEF f
<1>4. \A e : X!Eval(e, context) = f[e]
  BY DEF X!Eval, f, Tells, Rule
<1> HIDE DEF f
<1>5. \A n \in X!Node : f[n] = Rule(f, n)
  BY <1>3
<1>6. Worths(context, f)
  BY <1>1, <1>5, NodeKinds DEF Worths
<1> QED
  BY <1>4, <1>6

\* A value that is there stays what it is when more is known.
Below(v, w) == v = X!Error \/ w = v
Honest(v) == v.type = "boolean" => v \in {X!Boolean(TRUE), X!Boolean(FALSE)}

LEMMA ErrorIsNoAnswer == \A b \in BOOLEAN : X!Error # X!Boolean(b) /\ X!Error.type = "error"
BY DEF X!Error, X!Boolean

LEMMA ComparedIsHonest == \A op, l, r : X!Compared(op, l, r) \in X!Answers
<1>1. \A b \in BOOLEAN : X!Boolean(b) \in X!Answers
  BY DEF X!Answers
<1>2. X!Error \in X!Answers
  BY DEF X!Answers
<1>3. \A op, l, r : X!Equal(op, l, r) \in X!Answers
  BY <1>1, <1>2 DEF X!Equal
<1>4. \A op, l, r : X!Order(op, l, r) \in X!Answers
  <2>1. \A b : X!Boolean(b) \in X!Answers
    BY DEF X!Answers, X!Boolean
  <2> QED
    BY <1>2, <2>1 DEF X!Order
<1>5. \A op, l, r : X!Member(op, l, r) \in X!Answers
  BY <1>1, <1>2 DEF X!Member
<1> QED
  BY <1>2, <1>3, <1>4, <1>5, Zenon DEF X!Compared

LEMMA ComparedBelow ==
    ASSUME NEW op, NEW l, NEW r, NEW l2, NEW r2, Below(l, l2), Below(r, r2)
    PROVE  Below(X!Compared(op, l, r), X!Compared(op, l2, r2))
<1>1. CASE l = X!Error \/ r = X!Error
  <2>1. "error" \in {l.type, r.type}
    BY <1>1, ErrorIsNoAnswer
  <2>2. X!Compared(op, l, r) = X!Error
    BY <2>1, Zenon DEF X!Compared
  <2> QED
    BY <2>2 DEF Below
<1>2. CASE ~(l = X!Error \/ r = X!Error)
  BY <1>2 DEF Below
<1> QED
  BY <1>1, <1>2

LEMMA OperatedRight ==
    /\ \A v : Honest(v) => X!Operated(v) \in X!Answers
    /\ \A v, w : Below(v, w) => Below(X!Operated(v), X!Operated(w))
    /\ \A v \in X!Answers : Honest(v)
<1>1. \A v : Honest(v) => X!Operated(v) \in X!Answers
  BY DEF Honest, X!Operated, X!AsBoolean, X!Answers
<1>2. X!Operated(X!Error) = X!Error
  BY DEF X!Operated, X!AsBoolean, X!Error
<1>3. \A v \in X!Answers : Honest(v)
  BY ErrorIsNoAnswer DEF Honest, X!Answers
<1> QED
  BY <1>1, <1>2, <1>3 DEF Below

\* Every node, as the context is completed.
LEMMA NodesRight ==
    ASSUME NEW context \in X!Context, NEW more \in X!Completions(context),
           NEW f, Worths(context, f), NEW h, Worths(more, h)
    PROVE  \A n \in X!Node : Honest(f[n]) /\ Below(f[n], h[n])
<1>1. \A n \in LeafNode : Honest(f[n]) /\ Below(f[n], h[n])
  <2> SUFFICES ASSUME NEW n \in LeafNode PROVE Honest(f[n]) /\ Below(f[n], h[n])
    OBVIOUS
  <2>1. f[n] = LeafWorth(context, n) /\ h[n] = LeafWorth(more, n)
    BY DEF Worths
  <2>2. CASE n.kind = "lit" /\ n.value \in Quoted
    BY <2>1, <2>2, ExpressionAssumption DEF LeafWorth, Honest, Below
  <2>3. CASE n.kind = "path" /\ n.name \in Reference
    <3>1. f[n] = X!Resolve(n.name, context) /\ h[n] = X!Resolve(n.name, more)
      BY <2>1, <2>3 DEF LeafWorth
    <3>2. context[n.name] \in Looked \cup {X!Absent}
      BY <2>3 DEF X!Context
    <3>3. CASE context[n.name] = X!Absent
      <4>1. f[n] = X!Error
        BY <3>1, <3>3 DEF X!Resolve, X!Absent
      <4> QED
        BY <4>1, ErrorIsNoAnswer DEF Honest, Below
    <3>4. CASE context[n.name] # X!Absent
      <4>1. more[n.name] = context[n.name]
        BY <2>3, <3>4 DEF X!Completions
      <4>2. context[n.name] \in Looked /\ context[n.name].type \notin {"error", "absent"}
        BY <3>2, <3>4, ExpressionAssumption
      <4> QED
        BY <3>1, <4>1, <4>2, ExpressionAssumption DEF X!Resolve, Honest, Below
    <3> QED
      BY <3>3, <3>4
  <2> QED
    BY <2>2, <2>3, NodeKinds
<1>2. \A n \in X!Compare : Honest(f[n]) /\ Below(f[n], h[n])
  <2> SUFFICES ASSUME NEW n \in X!Compare PROVE Honest(f[n]) /\ Below(f[n], h[n])
    OBVIOUS
  <2>1. /\ f[n] = X!Compared(n.op, f[n.left], f[n.right])
        /\ h[n] = X!Compared(n.op, h[n.left], h[n.right])
    BY DEF Worths
  <2>2. Below(f[n.left], h[n.left]) /\ Below(f[n.right], h[n.right])
    BY <1>1, NodeKinds
  <2> QED
    BY <2>1, <2>2, ComparedBelow, ComparedIsHonest, OperatedRight
<1>3. \A n \in SmallNode : Honest(f[n]) /\ Below(f[n], h[n])
  BY <1>1, <1>2 DEF SmallNode, LeafNode
<1>4. \A n \in NotNode : Honest(f[n]) /\ Below(f[n], h[n])
  <2> SUFFICES ASSUME NEW n \in NotNode PROVE Honest(f[n]) /\ Below(f[n], h[n])
    OBVIOUS
  <2>1. f[n] = NotWorth(X!Operated(f[n.of])) /\ h[n] = NotWorth(X!Operated(h[n.of]))
    BY DEF Worths
  <2>2. Below(X!Operated(f[n.of]), X!Operated(h[n.of]))
    BY <1>3, NodeKinds, OperatedRight
  <2>3. f[n] \in X!Answers
    BY <2>1 DEF NotWorth, X!Answers
  <2>4. Below(f[n], h[n])
    BY <2>1, <2>2 DEF NotWorth, Below
  <2> QED
    BY <2>3, <2>4, OperatedRight
<1>5. \A n \in X!Unary : Honest(f[n]) /\ Below(f[n], h[n])
  BY <1>3, <1>4, NodeKinds
<1>6. \A n \in BothNode : Honest(f[n]) /\ Below(f[n], h[n])
  <2> SUFFICES ASSUME NEW n \in BothNode PROVE Honest(f[n]) /\ Below(f[n], h[n])
    OBVIOUS
  <2>1. /\ f[n] = BothWorth(n, X!Operated(f[n.left]), X!Operated(f[n.right]))
        /\ h[n] = BothWorth(n, X!Operated(h[n.left]), X!Operated(h[n.right]))
    BY DEF Worths
  <2>2. /\ Below(X!Operated(f[n.left]), X!Operated(h[n.left]))
        /\ Below(X!Operated(f[n.right]), X!Operated(h[n.right]))
        /\ X!Operated(f[n.left]) \in X!Answers /\ X!Operated(f[n.right]) \in X!Answers
    BY <1>2, <1>5, NodeKinds, OperatedRight
  <2>3. f[n] \in X!Answers
    BY <2>1, <2>2 DEF BothWorth
  <2>4. X!Error # X!Boolean(n.kind = "and")
    BY ErrorIsNoAnswer
  <2>5. Below(f[n], h[n])
    BY <2>1, <2>2, <2>4 DEF BothWorth, Below
  <2> QED
    BY <2>3, <2>5, OperatedRight
<1> QED
  BY <1>1, <1>2, <1>4, <1>6, NodeKinds

\* What a rule answers does not rest on what is missing.
LEMMA AnswersRest ==
    ASSUME X!TypeOK
    PROVE  X!RestsOnWhatIsThere
<1> SUFFICES ASSUME expression # <<>>
             PROVE  /\ X!Evaluate(expression.expression, expression.context) \in X!Answers
                    /\ X!Evaluate(expression.expression, expression.context) # X!Error =>
                          \A more \in X!Completions(expression.context) :
                              X!Evaluate(expression.expression, more)
                                  = X!Evaluate(expression.expression, expression.context)
  BY DEF X!RestsOnWhatIsThere
<1>1. PICK e \in X!Expression, context \in X!Context :
        expression.expression = e /\ expression.context = context
  BY DEF X!TypeOK
<1>2. e \in X!Node
  BY DEF X!Node
<1>3. context \in X!Completions(context)
  BY DEF X!Completions
<1>4. PICK f : Worths(context, f) /\ \A x : X!Eval(x, context) = f[x]
  BY Values
<1>5. ASSUME NEW more \in X!Completions(context)
      PROVE  Honest(X!Eval(e, context)) /\ Below(X!Eval(e, context), X!Eval(e, more))
  <2>1. PICK h : Worths(more, h) /\ \A x : X!Eval(x, more) = h[x]
    BY Values
  <2> QED
    BY <1>2, <1>4, <2>1, NodesRight
<1>6. X!Evaluate(e, context) \in X!Answers
  BY <1>3, <1>5, OperatedRight DEF X!Evaluate, X!Operated
<1>7. ASSUME NEW more \in X!Completions(context), X!Evaluate(e, context) # X!Error
      PROVE  X!Evaluate(e, more) = X!Evaluate(e, context)
  <2>1. Below(X!Operated(X!Eval(e, context)), X!Operated(X!Eval(e, more)))
    BY <1>5, OperatedRight
  <2> QED
    BY <1>7, <2>1 DEF X!Evaluate, X!Operated, Below
<1> QED
  BY <1>1, <1>6, <1>7

LEMMA RulesInit == X!Init => X!TypeOK
BY DEF X!Init, X!TypeOK

LEMMA RulesStep == X!TypeOK /\ [X!Next]_(X!vars) => X!TypeOK'
<1> SUFFICES ASSUME X!TypeOK, [X!Next]_(X!vars) PROVE X!TypeOK'
  OBVIOUS
<1>1. CASE X!Ask
  BY <1>1 DEF X!Ask, X!TypeOK
<1>2. CASE UNCHANGED X!vars
  BY <1>2 DEF X!vars, X!TypeOK
<1> QED
  BY <1>1, <1>2 DEF X!Next

-----------------------------------------------------------------------------
\* A run ends resolved on a verification that nothing but notes came after, what the validator
\* accepted never falls back on the engine's own checks, an interrupted run passes every step it
\* had recorded, and no rule is answered from a value that is not there: whatever the SOP, the
\* results, the interruptions and the expressions.
THEOREM WalkKeeps == Spec => []WalkHolds
<1> DEFINE Held == In("walk", WalkInv) /\ In("expressions", X!TypeOK)
<1>1. Init => Held
  BY WalkInit, RulesInit DEF Init, In
<1>2. Held /\ [Next]_vars => Held'
  <2> SUFFICES ASSUME Held, [Next]_vars
               PROVE  /\ part' = "walk" => WalkInv'
                      /\ part' = "expressions" => X!TypeOK'
    BY DEF In
  <2>1. CASE Next
    BY <2>1, ChosenMoves, WalkStep, RulesStep DEF In
  <2>2. CASE UNCHANGED vars
    <3>1. part' = part /\ UNCHANGED E!vars /\ UNCHANGED X!vars
      BY <2>2 DEF vars, walkVars, E!vars, X!vars
    <3> QED
      BY <3>1, WalkStep, RulesStep DEF In
  <2> QED
    BY <2>1, <2>2
<1>3. Held => WalkHolds
  BY WalkGoes, AnswersRest DEF In, WalkHolds
<1> QED
  BY <1>1, <1>2, <1>3, PTL DEF Spec
-----------------------------------------------------------------------------
(* The types of the composition.  Those that bound a counter need to know  *)
(* what the counter counts.                                                *)

\* The highest number of a version is no more than how many have one.
WithNumber == {v \in Version : ver[v].number # 0}
NumbersCount ==
    /\ \A v \in Version : ver[v].number <= Cardinality(WithNumber)
    /\ \A v \in Version : publishing[v].at # "numbered" => publishing[v].number = 0

LEMMA VersionsCount == \A S : L!Cardinality(S) = Cardinality(S)
BY DEF L!Cardinality, Cardinality, L!IsFiniteSet, IsFiniteSet

LEMMA NumbersInit == ASSUME L!Init PROVE NumbersCount
<1>1. \A v \in Version : ver[v].number = IF v = seeded THEN 1 ELSE 0
  BY DEF L!Init, L!Absent
<1>2. WithNumber = {seeded} /\ Cardinality({seeded}) = 1
  BY <1>1, LifecycleAssumption, FS_Singleton DEF WithNumber
<1>3. \A v \in Version : publishing[v].number = 0
  BY DEF L!Init, L!NotPublishing
<1> QED
  BY <1>1, <1>2, <1>3 DEF NumbersCount

LEMMA NumbersOfCommit ==
    ASSUME LifecycleInv, NumbersCount, NEW v \in Version, L!Commit(v) PROVE NumbersCount'
<1>1. LTypes /\ CountedNext /\ OnlyApproved /\ Unnumbered
  BY DEF LifecycleInv
<1>2. PICK n \in Nat : n = publishing[v].number
  BY <1>1 DEF LTypes, LPublishing
<1>3. \A w \in Version : ver[w].number \in Nat
  BY <1>1 DEF LTypes, LRow
<1>4. ver[v].number = 0 /\ n > 0 /\ publishing[v].at = "numbered"
      /\ \A w \in Version \ {v} : ver[w].number # n
  BY <1>1, <1>2 DEF L!Commit, L!BreaksAnIndex, CountedNext, OnlyApproved, Unnumbered, Open
<1>5. \A w \in Version : ver'[w].number = IF w = v THEN n ELSE ver[w].number
  <2>1. ver' = [w \in Version |->
                  CASE w = v -> [ver[v] EXCEPT !.status = "published", !.number = n]
                    [] w \in publishing[v].old -> [ver[w] EXCEPT !.status = "superseded"]
                    [] OTHER -> ver[w]]
    BY <1>2 DEF L!Commit
  <2>2. (\A w \in Version : ver[w] \in LRow) /\ v \notin publishing[v].old
    BY <1>1, <1>4 DEF LTypes, LifecycleInv, HoldsPublished, Holds, OnlyApproved
  <2>3. ASSUME NEW w \in Version PROVE ver'[w].number = IF w = v THEN n ELSE ver[w].number
    <3>1. CASE w = v
      <4>1. ver'[w] = [ver[v] EXCEPT !.status = "published", !.number = n]
        BY <2>1, <2>2, <3>1
      <4> QED
        BY <2>2, <3>1, <4>1 DEF LRow
    <3>2. CASE w # v /\ w \in publishing[v].old
      <4>1. ver'[w] = [ver[w] EXCEPT !.status = "superseded"]
        BY <2>1, <3>2
      <4> QED
        BY <2>2, <3>2, <4>1 DEF LRow
    <3>3. CASE w # v /\ w \notin publishing[v].old
      <4>1. ver'[w] = ver[w]
        BY <2>1, <3>3
      <4> QED
        BY <3>3, <4>1
    <3> QED
      BY <3>1, <3>2, <3>3
  <2> QED
    BY <2>3
<1>6. NextNumber(n)
  BY <1>1, <1>2, <1>4 DEF CountedNext
<1>7. /\ IsFiniteSet(WithNumber) /\ Cardinality(WithNumber) \in Nat
      /\ v \notin WithNumber /\ WithNumber' = WithNumber \cup {v}
  <2>1. IsFiniteSet(WithNumber)
    <3>1. WithNumber \subseteq Version /\ IsFiniteSet(Version)
      BY LifecycleAssumption DEF WithNumber
    <3> QED
      BY <3>1, FS_Subset
  <2> QED
    BY <1>5, <1>4, <2>1, FS_CardinalityType DEF WithNumber
<1>8. Cardinality(WithNumber') = Cardinality(WithNumber) + 1
  BY <1>7, FS_AddElement
<1>9. n <= Cardinality(WithNumber) + 1
  <2>1. PICK w \in Version : ver[w].number = n - 1
    BY <1>6 DEF NextNumber
  <2> QED
    BY <1>3, <1>7, <2>1 DEF NumbersCount
<1>10. \A w \in Version : ver'[w].number <= Cardinality(WithNumber')
  BY <1>3, <1>5, <1>7, <1>8, <1>9 DEF NumbersCount
<1>11. \A w \in Version : publishing'[w].at # "numbered" => publishing'[w].number = 0
  <2>1. publishing' = [publishing EXCEPT ![v] = L!NotPublishing] /\ L!NotPublishing.number = 0
    BY DEF L!Commit, L!SetPublishing, L!NotPublishing
  <2> HIDE DEF L!NotPublishing
  <2> QED
    BY <1>1, <2>1 DEF NumbersCount, LTypes
<1> QED
  BY <1>10, <1>11 DEF NumbersCount

LEMMA NumbersStay ==
    ASSUME NumbersCount, \A v \in Version : ver'[v].number = ver[v].number,
           \A v \in Version : publishing'[v].at # "numbered" => publishing'[v].number = 0
    PROVE  NumbersCount'
<1>1. WithNumber' = WithNumber
  BY DEF WithNumber
<1> QED
  BY <1>1 DEF NumbersCount

LEMMA NumbersStep == ASSUME LifecycleInv, NumbersCount, L!Next PROVE NumbersCount'
<1>1. LTypes /\ Unnumbered /\ OnlyApproved
  BY DEF LifecycleInv
<1>2. \A v \in Version : ver[v] \in LRow /\ publishing[v] \in LPublishing
  BY <1>1 DEF LTypes
<1>3. CASE \E v \in Version : L!Commit(v)
  BY <1>3, NumbersOfCommit
\* Only what writes a version changes its row, and no number of it.
<1>4. ASSUME NEW v \in Version, NEW r \in LRow, ver' = [ver EXCEPT ![v] = r],
             r.number = ver[v].number, publishing' = publishing
      PROVE  NumbersCount'
  <2>1. \A w \in Version : ver'[w].number = ver[w].number
    BY <1>1, <1>4 DEF LTypes
  <2> QED
    BY <1>4, <2>1, NumbersStay DEF NumbersCount
<1>5. L!Absent \in LRow /\ L!Absent.number = 0
  BY DEF L!Absent, LRow, L!Statuses, L!Actor
<1>6. ASSUME NEW v \in Version, NEW a \in L!Actor, NEW c \in Content, L!CreateDraft(v, a, c)
      PROVE  NumbersCount'
  <2>1. PICK r : r = [L!Absent EXCEPT !.status = "draft", !.content = c, !.author = a]
    OBVIOUS
  <2>2. r \in LRow /\ r.number = 0
    BY <1>5, <2>1 DEF LRow, L!Statuses
  <2>3. ver' = [ver EXCEPT ![v] = r] /\ publishing' = publishing /\ ver[v].number = 0
    BY <1>1, <1>6, <2>1 DEF L!CreateDraft, Unnumbered, Open
  <2> QED
    BY <1>4, <2>2, <2>3
<1>7. ASSUME NEW v \in Version, NEW a \in Editor, NEW c \in Content, L!UpdateDraft(v, a, c)
      PROVE  NumbersCount'
  <2>1. PICK r : r = [ver[v] EXCEPT !.content = c, !.author = L!Adopted(v, a)]
    OBVIOUS
  <2>2. L!Adopted(v, a) \in L!Actor \cup {none}
    BY <1>2 DEF L!Adopted, L!Actor, LRow
  <2>3. r \in LRow /\ r.number = ver[v].number
    BY <1>2, <2>1, <2>2 DEF LRow
  <2>4. ver' = [ver EXCEPT ![v] = r] /\ publishing' = publishing
    BY <1>1, <1>7, <2>1 DEF L!UpdateDraft, LTypes
  <2> QED
    BY <1>4, <2>3, <2>4
<1>8. ASSUME NEW v \in Version, L!Discard(v)
      PROVE  NumbersCount'
  <2>1. ver' = [ver EXCEPT ![v] = L!Absent] /\ publishing' = publishing /\ ver[v].number = 0
    BY <1>1, <1>8 DEF L!Discard, Unnumbered, Open
  <2> QED
    BY <1>4, <1>5, <2>1
<1>9. ASSUME NEW v \in Version, NEW a \in Editor, L!Submit(v, a)
      PROVE  NumbersCount'
  <2>1. PICK r : r = [ver[v] EXCEPT !.status = "in_review", !.hash = ver[v].content,
                                    !.author = L!Adopted(v, a)]
    OBVIOUS
  <2>2. L!Adopted(v, a) \in L!Actor \cup {none}
    BY <1>2 DEF L!Adopted, L!Actor, LRow
  <2>3. r \in LRow /\ r.number = ver[v].number
    BY <1>2, <2>1, <2>2 DEF LRow, L!Statuses
  <2>4. ver' = [ver EXCEPT ![v] = r] /\ publishing' = publishing
    BY <1>1, <1>9, <2>1 DEF L!Submit, LTypes
  <2> QED
    BY <1>4, <2>3, <2>4
<1>10. ASSUME NEW v \in Version, NEW a \in Editor, NEW h \in Content, L!Approve(v, a, h)
       PROVE  NumbersCount'
  <2>1. PICK r : r = [ver[v] EXCEPT !.status = "approved", !.approver = a]
    OBVIOUS
  <2>2. r \in LRow /\ r.number = ver[v].number
    BY <1>2, <2>1 DEF LRow, L!Statuses
  <2>3. ver' = [ver EXCEPT ![v] = r] /\ publishing' = publishing
    BY <1>1, <1>10, <2>1 DEF L!Approve, LTypes
  <2> QED
    BY <1>4, <2>2, <2>3
<1>11. ASSUME NEW v \in Version, L!RequestChanges(v)
       PROVE  NumbersCount'
  <2>1. PICK r : r = [ver[v] EXCEPT !.status = "draft"]
    OBVIOUS
  <2>2. r \in LRow /\ r.number = ver[v].number
    BY <1>2, <2>1 DEF LRow, L!Statuses
  <2>3. ver' = [ver EXCEPT ![v] = r] /\ publishing' = publishing
    BY <1>1, <1>11, <2>1 DEF L!RequestChanges, LTypes
  <2> QED
    BY <1>4, <2>2, <2>3
<1>12. ASSUME L!Retire
       PROVE  NumbersCount'
  <2>1. retiring \in Version /\ retiring # none
    BY <1>1, <1>12 DEF L!Retire, LTypes
  <2>2. PICK r : r = [ver[retiring] EXCEPT !.status = "retired"]
    OBVIOUS
  <2>3. r \in LRow /\ r.number = ver[retiring].number
    BY <1>2, <2>1, <2>2 DEF LRow, L!Statuses
  <2>4. PICK v \in Version : v = retiring
    BY <2>1
  <2>5. ver' = [ver EXCEPT ![v] = r] /\ publishing' = publishing /\ r.number = ver[v].number
    BY <1>1, <1>12, <2>2, <2>3, <2>4 DEF L!Retire, LTypes
  <2> QED
    BY <1>4, <2>3, <2>5
\* A transaction that has not counted has no number.
<1>13. ASSUME NEW v \in Version,
              L!LockVersion(v) \/ L!FindPublished(v) \/ L!Supersede(v) \/ L!Number(v) \/ L!RollBack(v)
       PROVE  NumbersCount'
  <2>1. ver' = ver
    BY <1>13 DEF L!LockVersion, L!FindPublished, L!Supersede, L!Number, L!RollBack, L!OnlyPublishing
  <2>2. L!NotPublishing.number = 0 /\ [L!NotPublishing EXCEPT !.at = "locked"].number = 0
    BY DEF L!NotPublishing
  <2>3. PICK p : publishing' = [publishing EXCEPT ![v] = p] /\ (p.at # "numbered" => p.number = 0)
    <3>1. CASE L!LockVersion(v)
      BY <2>2, <3>1 DEF L!LockVersion, L!SetPublishing
    <3>2. CASE L!FindPublished(v)
      <4>1. PICK p : p = [publishing[v] EXCEPT !.at = "looking", !.old = L!Published]
        OBVIOUS
      <4>2. p.number = publishing[v].number /\ publishing[v].number = 0
        BY <1>2, <3>2, <4>1 DEF L!FindPublished, NumbersCount, LPublishing
      <4> QED
        BY <3>2, <4>1, <4>2 DEF L!FindPublished, L!SetPublishing
    <3>3. CASE L!Supersede(v)
      <4>1. PICK p : p = [publishing[v] EXCEPT !.at = "superseding", !.old = @ \cap L!Published]
        OBVIOUS
      <4>2. p.number = publishing[v].number /\ publishing[v].number = 0
        BY <1>2, <3>3, <4>1 DEF L!Supersede, NumbersCount, LPublishing
      <4> QED
        BY <3>3, <4>1, <4>2 DEF L!Supersede, L!SetPublishing
    <3>4. CASE L!Number(v)
      <4>1. PICK p : p = [publishing[v] EXCEPT !.at = "numbered", !.number = L!Latest + 1]
        OBVIOUS
      <4>2. p.at = "numbered"
        BY <1>2, <4>1 DEF LPublishing
      <4> QED
        BY <3>4, <4>1, <4>2 DEF L!Number, L!SetPublishing
    <3>5. CASE L!RollBack(v)
      BY <2>2, <3>5 DEF L!RollBack, L!SetPublishing
    <3> QED
      BY <1>13, <3>1, <3>2, <3>3, <3>4, <3>5
  <2>4. \A w \in Version : publishing'[w].at # "numbered" => publishing'[w].number = 0
    BY <1>1, <2>3 DEF LTypes, NumbersCount
  <2> QED
    BY <2>1, <2>4, NumbersStay
<1>14. ASSUME L!FindToRetire \/ L!StartRun \/ L!ResumeRun
       PROVE  NumbersCount'
  BY <1>14, NumbersStay DEF L!FindToRetire, L!StartRun, L!ResumeRun, NumbersCount
<1> QED
  BY <1>3, <1>6, <1>7, <1>8, <1>9, <1>10, <1>11, <1>12, <1>13, <1>14 DEF L!Next

LEMMA NumbersKept == ASSUME NumbersCount, UNCHANGED lifecycleVars PROVE NumbersCount'
BY NumbersStay DEF lifecycleVars, NumbersCount

LEMMA LifecycleTyped == ASSUME LifecycleInv, NumbersCount PROVE L!TypeOK
<1>1. LTypes /\ CountedNext /\ OnlyApproved /\ Unnumbered
  BY DEF LifecycleInv
<1>2. PICK most \in Nat : most = Cardinality(Version)
  BY LifecycleAssumption, FS_CardinalityType
<1>3. PICK many \in Nat : many = Cardinality(WithNumber)
  <2>1. WithNumber \subseteq Version /\ IsFiniteSet(Version)
    BY LifecycleAssumption DEF WithNumber
  <2> QED
    BY <2>1, FS_Subset, FS_CardinalityType
<1>4. many <= most
  <2>1. WithNumber \in SUBSET Version /\ IsFiniteSet(Version)
    BY LifecycleAssumption DEF WithNumber
  <2> QED
    BY <1>2, <1>3, <2>1, FS_Subset
<1>5. \A v \in Version : ver[v] \in LRow /\ ver[v].number \in Nat /\ publishing[v] \in LPublishing
                         /\ publishing[v].number \in Nat
  BY <1>1 DEF LTypes, LRow, LPublishing
<1>6. \A v \in Version : ver[v].number \in 0..most
  BY <1>3, <1>4, <1>5 DEF NumbersCount
<1>7. ASSUME NEW v \in Version PROVE publishing[v].number \in 0..most
  <2>1. CASE publishing[v].at # "numbered"
    BY <2>1 DEF NumbersCount
  <2>2. CASE publishing[v].at = "numbered" /\ \E w \in Version : ver[w].number = publishing[v].number
    BY <1>6, <2>2
  <2>3. CASE publishing[v].at = "numbered" /\ NextNumber(publishing[v].number)
    <3>1. ver[v].number = 0
      BY <1>1, <2>3 DEF OnlyApproved, Unnumbered, Open
    <3>2. WithNumber \subseteq Version \ {v} /\ IsFiniteSet(Version)
      BY <3>1, LifecycleAssumption DEF WithNumber
    <3>3. IsFiniteSet(Version \ {v}) /\ Cardinality(Version \ {v}) = most - 1
      BY <1>2, <3>2, FS_RemoveElement
    <3>4. many <= most - 1
      BY <1>3, <3>2, <3>3, FS_Subset
    <3>5. PICK w \in Version : ver[w].number = publishing[v].number - 1
      BY <2>3 DEF NextNumber
    <3>6. ver[w].number <= many
      BY <1>3 DEF NumbersCount
    <3> QED
      BY <1>5, <3>4, <3>5, <3>6
  <2> QED
    BY <1>1, <2>1, <2>2, <2>3 DEF CountedNext
<1>8. L!Cardinality(Version) = most
  BY <1>2, VersionsCount
<1>9. \A v \in Version : ver[v] \in L!Row
  BY <1>5, <1>6, <1>8 DEF LRow, L!Row
<1>10. \A v \in Version : publishing[v] \in L!Publishing
  BY <1>5, <1>7, <1>8 DEF LPublishing, L!Publishing
<1> QED
  BY <1>1, <1>9, <1>10 DEF LTypes, L!TypeOK

-----------------------------------------------------------------------------
\* What is recorded is counted up to the requests that may be under way.
LEMMA GatewayTyped == ASSUME BudgetInv PROVE G!TypeOK
<1>1. PICK all \in Nat : all = Cardinality(OfAll)
  BY ScopesAreFinite, FS_CardinalityType
<1>2. PICK some \in Nat : some = Cardinality(Attempt)
  BY BudgetAssumption, FS_CardinalityType
<1>3. some <= all
  <2>1. drafting \in G!Scope
    BY DEF G!Scope
  <2>2. /\ IsFiniteSet(OfAll) /\ OfRun(drafting) \in SUBSET OfAll
        /\ Cardinality(OfRun(drafting)) = Cardinality(Attempt)
    BY <2>1, ScopesAreFinite
  <2> QED
    BY <1>1, <1>2, <2>2, FS_Subset
<1>4. /\ some * Needed \in Nat /\ all * Needed \in Nat /\ some * Needed <= all * Needed
      /\ (some - 1) * Needed = some * Needed - Needed
      /\ (all - 1) * Needed = all * Needed - Needed
  <2>1. /\ some * Needed \in Nat /\ all * Needed \in Nat /\ some * Needed <= all * Needed
        /\ (all - 1) * Needed = all * Needed - Needed
    BY <1>3, Multiples
  <2>2. (some - 1) * Needed = some * Needed - Needed
    BY Multiples
  <2> QED
    BY <2>1, <2>2
<1>5. /\ G!Most = Daily + Incident + all * Needed
      /\ \A s \in Advised : tokens[s] <= Incident + (some - 1) * Needed
      /\ today <= Daily + (all - 1) * Needed
  <2>1. G!Cardinality(G!Scope \X Attempt) = all /\ G!Cardinality(Attempt) = some
    BY <1>1, <1>2, SameCardinality DEF OfAll
  <2>2. G!WithinBudget
    BY BudgetWithin
  <2> QED
    BY <2>1, <2>2 DEF G!Most, G!WithinBudget
<1>6. PICK a, b \in Nat : a = some * Needed /\ b = all * Needed
  BY <1>4
<1>7. Needed \in Nat /\ Incident \in Nat /\ Daily \in Nat
  BY BudgetAssumption
<1>8. today \in 0..G!Most
  <2>1. today \in Nat /\ today <= Daily + (b - Needed) /\ G!Most = Daily + Incident + b
    BY <1>4, <1>5, <1>6 DEF BudgetInv
  <2> QED
    BY ONLY <2>1, <1>6, <1>7
<1>9. ASSUME NEW s \in Advised PROVE tokens[s] \in 0..G!Most
  <2>1. /\ tokens[s] \in Nat /\ tokens[s] <= Incident + (a - Needed)
        /\ G!Most = Daily + Incident + b /\ a <= b
    BY <1>4, <1>5, <1>6 DEF BudgetInv
  <2> QED
    BY ONLY <2>1, <1>6, <1>7
<1> QED
  BY <1>8, <1>9 DEF BudgetInv, G!TypeOK, OfAll

-----------------------------------------------------------------------------
\* A signature is remembered for twice the skew at most.
NoncesEnd == \A m \in Message : nonces[m] <= MaxNow + 2 * Skew

LEMMA NoncesInit == ASSUME O!Init PROVE NoncesEnd
BY DeliveryAssumption DEF O!Init, NoncesEnd

LEMMA NoncesStep == ASSUME DeliveryInv, NoncesEnd, O!Next PROVE NoncesEnd'
<1>1. /\ MaxNow \in Nat /\ Skew \in Nat /\ now \in 0..MaxNow
      /\ nonces \in [Message -> Nat]
  BY DeliveryAssumption DEF DeliveryInv, DeliveryTypes
<1>2. ASSUME NEW m \in Message, NEW c \in Copy, O!Use(m, c) PROVE NoncesEnd'
  <2>1. PICK kept : kept = [n \in Message |-> IF nonces[n] < now THEN 0 ELSE nonces[n]]
    OBVIOUS
  <2>2. \A n \in Message : kept[n] <= MaxNow + 2 * Skew
    BY <1>1, <2>1 DEF NoncesEnd
  <2>3. nonces' = [kept EXCEPT ![m] = now + 2 * Skew] \/ nonces' = kept
    BY <1>2, <2>1 DEF O!Use, O!Expires
  <2>4. now + 2 * Skew <= MaxNow + 2 * Skew
    BY <1>1
  <2> QED
    BY <2>1, <2>2, <2>3, <2>4 DEF NoncesEnd
<1>3. CASE nonces' = nonces
  BY <1>3 DEF NoncesEnd
<1> QED
  BY <1>2, <1>3 DEF O!Next, O!Tick, O!Send, O!Check

LEMMA NoncesKept == ASSUME NoncesEnd, UNCHANGED deliveryVars PROVE NoncesEnd'
BY DEF deliveryVars, NoncesEnd

LEMMA DeliveryTyped == ASSUME DeliveryInv, NoncesEnd PROVE O!TypeOK
<1>1. DeliveryTypes /\ StampedNear
  BY DEF DeliveryInv
<1>2. /\ MaxNow \in Nat /\ Skew \in Nat /\ Ahead \in Nat /\ Ahead <= Skew /\ Upload \in Nat
      /\ now \in 0..MaxNow
  BY <1>1, DeliveryAssumption DEF DeliveryTypes
<1>3. ASSUME NEW m \in Message PROVE stamp[m] \in 0..O!NotSent /\ nonces[m] \in 0..(MaxNow + 2 * Skew)
  <2>1. stamp[m] \in Nat /\ nonces[m] \in Nat /\ nonces[m] <= MaxNow + 2 * Skew
        /\ (stamp[m] # O!NotSent => stamp[m] <= now + Ahead) /\ O!NotSent = MaxNow + Skew + 1
    BY <1>1 DEF DeliveryTypes, StampedNear, NoncesEnd, O!NotSent
  <2> QED
    BY <1>2, <2>1
<1>4. Arrived = O!Waiting
  BY DEF Arrived, O!Waiting
<1> QED
  BY <1>1, <1>3, <1>4 DEF DeliveryTypes, O!TypeOK

-----------------------------------------------------------------------------
\* A page is read while there is one left, and what is watched over are tickets.
PagesLeft ==
    /\ moves \in 0..MaxMoves
    /\ cycle.page <= MaxPages /\ (cycle.at = "reading" => cycle.page < MaxPages)
    /\ steady \subseteq Ticket

LEMMA PagesInit == ASSUME I!Init PROVE PagesLeft
BY IntakeAssumption DEF I!Init, I!NoCycle, PagesLeft

LEMMA PagesStep == ASSUME IntakeInv, PagesLeft, I!Next PROVE PagesLeft'
<1> USE IntakeAssumption
<1>1. /\ cycle \in [at: {"idle", "reading", "recording", "complete", "cut"}, page: Nat]
      /\ moves \in 0..MaxMoves /\ steady \subseteq Ticket
  BY DEF IntakeInv, IntakeTypes, PagesLeft
<1>2. ASSUME NEW t \in Ticket, I!Open(t) \/ I!Take(t) \/ I!PutBack(t) \/ I!Deliver(t)
      PROVE  PagesLeft'
  <2>1. /\ cycle' = cycle /\ steady' \subseteq steady
        /\ moves' = moves \/ (moves < MaxMoves /\ moves' = moves + 1)
    BY <1>2 DEF I!Open, I!Take, I!PutBack, I!Deliver
  <2>2. moves' \in 0..MaxMoves
    BY <1>1, <2>1
  <2> QED
    BY <1>1, <2>1, <2>2 DEF PagesLeft
<1>3. CASE I!Begin
  <2>1. I!New \subseteq Ticket
    BY DEF I!New
  <2>2. cycle' = [at |-> "reading", page |-> 0] /\ moves' = moves /\ steady' \subseteq Ticket
    BY <1>3, <2>1 DEF I!Begin
  <2>3. cycle'.page <= MaxPages /\ cycle'.page < MaxPages
    BY <2>2
  <2> QED
    BY <1>1, <2>2, <2>3 DEF PagesLeft
<1>4. CASE I!ReadPage
  <2>1. PICK ended \in BOOLEAN :
          /\ cycle' = [at |-> IF ~ended /\ cycle.page + 1 = MaxPages THEN "cut"
                              ELSE IF ended THEN "recording" ELSE "reading",
                       page |-> IF ended \/ (~ended /\ cycle.page + 1 = MaxPages) THEN 0
                                ELSE cycle.page + 1]
          /\ steady' = IF ~ended /\ cycle.page + 1 = MaxPages THEN {} ELSE steady
    <3>1. PICK ended : ended = I!Ends(cycle.page, I!Readable(I!Cut(cycle.page)))
      OBVIOUS
    <3>2. ended \in BOOLEAN
      BY <3>1 DEF I!Ends
    <3> QED
      BY <1>4, <3>1, <3>2 DEF I!ReadPage
  <2>2. cycle.at = "reading" /\ moves' = moves /\ cycle.page \in Nat /\ cycle.page < MaxPages
    BY <1>1, <1>4 DEF I!ReadPage, PagesLeft
  <2>3. cycle'.page <= MaxPages /\ (cycle'.at = "reading" => cycle'.page < MaxPages)
    BY <2>1, <2>2
  <2> QED
    BY <1>1, <2>1, <2>2, <2>3 DEF PagesLeft
<1>5. CASE I!NotAList \/ I!Fail
  BY <1>1, <1>5 DEF I!NotAList, I!Fail, I!NoCycle, PagesLeft
<1>6. CASE I!RecordNext
  BY <1>1, <1>6 DEF I!RecordNext, PagesLeft
<1>7. CASE I!Finish
  <2>1. cycle' = [at |-> "complete", page |-> 0] /\ moves' = moves /\ steady' = steady
    BY <1>7 DEF I!Finish, I!NoCycle
  <2> QED
    BY <1>1, <2>1 DEF PagesLeft
<1>8. ASSUME NEW w \in I!Writer, I!Insert(w) \/ I!Commit(w) \/ I!RollBack(w)
      PROVE  PagesLeft'
  BY <1>1, <1>8 DEF I!Insert, I!Commit, I!RollBack, I!NoCycle, PagesLeft
<1> QED
  BY <1>2, <1>3, <1>4, <1>5, <1>6, <1>7, <1>8 DEF I!Next

LEMMA PagesKept == ASSUME PagesLeft, UNCHANGED intakeVars PROVE PagesLeft'
BY DEF intakeVars, PagesLeft

LEMMA IntakeTyped == ASSUME IntakeInv, PagesLeft PROVE I!TypeOK
<1>1. IntakeTypes /\ PagesLeft
  BY DEF IntakeInv
<1>2. cycle \in [at: {"idle", "reading", "recording", "complete", "cut"}, page: 0..MaxPages]
  <2>1. cycle.page \in 0..MaxPages
    BY <1>1, IntakeAssumption DEF IntakeTypes, PagesLeft
  <2> QED
    BY <1>1, <2>1 DEF IntakeTypes
<1> QED
  BY <1>1, <1>2 DEF IntakeTypes, IWriter, PagesLeft, I!TypeOK

-----------------------------------------------------------------------------
\* A connection, and the calls behind a breaker, have their types in their invariants.
LEMMA ConnectionTyped == ASSUME ConnectionInv PROVE C!TypeOK
<1>1. ConnectionTypes
  BY DEF ConnectionInv
<1>2. \A c \in Task : call[c] \in CallRecord
  BY <1>1 DEF ConnectionTypes
<1>3. \A c \in Task : /\ call[c].at \in {"idle", "reading", "found", "closing", "given"}
                      /\ call[c].since \in 0..Delay
                      /\ call[c].got \in Connection \cup {C!Nothing, C!NoClient, C!Fallback}
  BY <1>2 DEF CallRecord, Busy
<1> QED
  BY <1>1, <1>3 DEF ConnectionTypes, C!TypeOK

LEMMA CallTyped == ASSUME CallInv PROVE B!TypeOK
BY DEF CallInv, CallTypes, GuardedCall, B!TypeOK, B!Most

-----------------------------------------------------------------------------
\* A read is sent once more than it may be tried at most, for its credential; and it is sent with
\* a credential that was read.
SendsLeft(c) ==
    /\ using[c].sends <= Sends + 1
    /\ using[c].again = FALSE => using[c].sends <= Sends
    /\ using[c].at = "idle" => using[c].sends = 0
    /\ using[c].at \in {"reading", "fetched"} =>
          /\ using[c].sends <= Sends
          /\ using[c].again = FALSE => using[c].sends < Sends
    /\ using[c].at = "waiting" => using[c].sends < Sends
    /\ using[c].at \in {"fetched", "checked", "closing", "sent"} => using[c].value # Y!None
CredentialsRight ==
    /\ valid <= MaxRotations /\ built \in Credentials /\ fresh \in BOOLEAN
    /\ \A c \in Task : SendsLeft(c)

LEMMA SendsInit == ASSUME Y!Init PROVE CredentialsRight
<1>1. /\ valid = 0 /\ built = Y!None /\ fresh = FALSE
      /\ \A c \in Task : using[c].at = "idle" /\ using[c].sends = 0
  BY DEF Y!Init, Y!Idle
<1>2. Y!None \in Credentials /\ MaxRotations \in Nat /\ Sends \in Nat
  BY CallAssumption DEF Y!None, Credentials
<1>3. ASSUME NEW c \in Task PROVE SendsLeft(c)
  BY <1>1, <1>2 DEF SendsLeft
<1>4. valid <= MaxRotations
  BY <1>1, <1>2
<1>5. built \in Credentials /\ fresh \in BOOLEAN
  BY <1>1, <1>2, Zenon
<1> QED
  BY <1>3, <1>4, <1>5 DEF CredentialsRight

LEMMA OneCallSends ==
    ASSUME CredentialInv, CredentialsRight, NEW c \in Task, NEW r, using' = [using EXCEPT ![c] = r],
           valid' = valid, built' \in Credentials, fresh' \in BOOLEAN, SendsLeft(c)'
    PROVE  CredentialsRight'
<1>1. using \in [Task -> CredentialCall]
  BY DEF CredentialInv, CredentialTypes
<1>2. \A d \in Task \ {c} : SendsLeft(d)'
  BY <1>1 DEF CredentialsRight, SendsLeft
<1> QED
  BY <1>2 DEF CredentialsRight

\* From a place where one more may be sent.
LEMMA ProceedSends ==
    ASSUME CredentialInv, CredentialsRight, NEW c \in Task, NEW v \in Credentials, v # Y!None,
           using[c].at \in {"idle", "waiting", "reading", "fetched"}, Y!Proceed(c, v), valid' = valid
    PROVE  CredentialsRight'
<1>1. /\ using \in [Task -> CredentialCall] /\ using[c] \in CredentialCall
      /\ using[c].sends \in Nat /\ using[c].again \in BOOLEAN /\ Sends \in Nat \ {0}
  BY CallAssumption DEF CredentialInv, CredentialTypes, CredentialCall
<1>2. SendsLeft(c) /\ built \in Credentials
  BY DEF CredentialsRight
<1>3. /\ using[c].sends <= Sends /\ (using[c].again = FALSE => using[c].sends < Sends)
  BY <1>1, <1>2 DEF SendsLeft
<1>4. CASE user = "client"
  <2>1. PICK r : r = [using[c] EXCEPT !.at = "sent", !.value = v, !.sends = @ + 1]
    OBVIOUS
  <2>2. using' = [using EXCEPT ![c] = r] /\ fresh' = FALSE /\ built' = built
    BY <1>1, <1>4, <2>1 DEF Y!Proceed, Y!Headers
  <2>3. r.at = "sent" /\ r.value = v /\ r.again = using[c].again /\ r.sends = using[c].sends + 1
    BY <1>1, <2>1 DEF CredentialCall
  <2>4. using'[c] = r
    BY <1>1, <2>2
  <2>5. SendsLeft(c)'
    BY <1>1, <1>3, <2>3, <2>4 DEF SendsLeft, Y!None
  <2> QED
    BY <1>2, <2>2, <2>5, OneCallSends
<1>5. CASE user # "client"
  <2>1. PICK r : r = [using[c] EXCEPT !.at = IF built' = v THEN "sent" ELSE "closing",
                                      !.value = v, !.again = using[c].again]
    OBVIOUS
  <2>2. /\ using' = [using EXCEPT ![c] = r] /\ fresh' = fresh
        /\ built' = IF built = Y!None THEN v ELSE built
    BY <1>1, <1>5, <2>1 DEF Y!Proceed, Y!Adapter
  <2>3. /\ r.at \in {"sent", "closing"} /\ r.value = v /\ r.again = using[c].again
        /\ r.sends = using[c].sends
    BY <1>1, <2>1 DEF CredentialCall
  <2>4. using'[c] = r
    BY <1>1, <2>2
  <2>5. SendsLeft(c)'
    BY <1>1, <1>3, <2>3, <2>4 DEF SendsLeft, Y!None
  <2>6. built' \in Credentials /\ fresh' \in BOOLEAN
    BY <1>2, <2>2 DEF CredentialsRight
  <2> QED
    BY <2>2, <2>5, <2>6, OneCallSends
<1> QED
  BY <1>4, <1>5

LEMMA GetSends ==
    ASSUME CredentialInv, CredentialsRight, NEW c \in Task, using[c].at \in {"idle", "waiting"},
           Y!Get(c), valid' = valid
    PROVE  CredentialsRight'
<1>1. cache \in Credentials /\ using \in [Task -> CredentialCall] /\ using[c] \in CredentialCall
      /\ using[c].sends \in Nat /\ Sends \in Nat \ {0}
  BY CallAssumption DEF CredentialInv, CredentialTypes, CredentialCall
<1>2. CASE cache # Y!None /\ ~fresh
  BY <1>1, <1>2, ProceedSends DEF Y!Get
<1>3. CASE ~(cache # Y!None /\ ~fresh)
  <2>1. PICK r : r = [using[c] EXCEPT !.at = "reading"]
    OBVIOUS
  <2>2. using' = [using EXCEPT ![c] = r] /\ UNCHANGED <<fresh, built>>
    BY <1>1, <1>3, <2>1 DEF Y!Get, Y!Moves
  <2>3. r.at = "reading" /\ r.sends = using[c].sends /\ r.again = using[c].again
    BY <1>1, <2>1 DEF CredentialCall
  <2>4. SendsLeft(c) /\ using'[c] = r
    BY <1>1, <2>2 DEF CredentialsRight
  <2>5. SendsLeft(c)'
    BY <1>1, <2>3, <2>4 DEF SendsLeft
  <2> QED
    BY <2>2, <2>5, OneCallSends DEF CredentialsRight
<1> QED
  BY <1>2, <1>3

LEMMA EndSends ==
    ASSUME CredentialInv, CredentialsRight, NEW c \in Task,
           \/ using' = [using EXCEPT ![c] = Y!Idle]
           \/ using' = [using EXCEPT ![c].at = "refused"],
           UNCHANGED <<valid, built, fresh>>
    PROVE  CredentialsRight'
<1>1. using \in [Task -> CredentialCall] /\ using[c] \in CredentialCall
      /\ using[c].sends \in Nat /\ Sends \in Nat \ {0} /\ SendsLeft(c)
  BY CallAssumption DEF CredentialInv, CredentialTypes, CredentialCall, CredentialsRight
<1>2. PICK r : /\ using' = [using EXCEPT ![c] = r]
               /\ \/ r.at = "idle" /\ r.sends = 0
                  \/ r.at = "refused" /\ r.sends = using[c].sends /\ r.again = using[c].again
  <2>1. CASE using' = [using EXCEPT ![c] = Y!Idle]
    <3>1. Y!Idle.at = "idle" /\ Y!Idle.sends = 0
      BY DEF Y!Idle
    <3> QED
      BY <2>1, <3>1
  <2>2. CASE using' = [using EXCEPT ![c].at = "refused"]
    <3>1. PICK r : r = [using[c] EXCEPT !.at = "refused"]
      OBVIOUS
    <3>2. r.at = "refused" /\ r.sends = using[c].sends /\ r.again = using[c].again
      BY <1>1, <3>1 DEF CredentialCall
    <3> QED
      BY <1>1, <2>2, <3>1, <3>2
  <2> QED
    BY <2>1, <2>2
<1>3. using'[c] = r
  BY <1>1, <1>2
<1>4. SendsLeft(c)'
  BY <1>1, <1>2, <1>3 DEF SendsLeft
<1> QED
  BY <1>2, <1>4, OneCallSends DEF CredentialsRight

LEMMA SendsStep == ASSUME CredentialInv, CredentialsRight, Y!Next PROVE CredentialsRight'
<1>1. /\ using \in [Task -> CredentialCall] /\ valid \in Credentials /\ cache \in Credentials
      /\ \A c \in Task : /\ using[c] \in CredentialCall /\ using[c].sends \in Nat
                         /\ using[c].again \in BOOLEAN
  BY DEF CredentialInv, CredentialTypes, CredentialCall
<1>2. /\ Sends \in Nat \ {0} /\ MaxRotations \in Nat
      /\ valid \in Nat /\ valid <= MaxRotations /\ valid # Y!None
      /\ built \in Credentials /\ fresh \in BOOLEAN /\ \A c \in Task : SendsLeft(c)
  BY <1>1, CallAssumption DEF CredentialsRight, Y!None, Credentials
<1>3. CASE Y!Rotate
  <2>1. valid' = valid + 1 /\ valid < MaxRotations /\ UNCHANGED <<using, built, fresh>>
    BY <1>3 DEF Y!Rotate
  <2> QED
    BY <1>2, <2>1 DEF CredentialsRight, SendsLeft
<1>4. CASE Y!Lapse
  BY <1>4 DEF Y!Lapse, CredentialsRight, SendsLeft
<1>5. ASSUME NEW c \in Task, Y!Begin(c) \/ Y!Resend(c) PROVE CredentialsRight'
  BY <1>5, GetSends DEF Y!Begin, Y!Resend
<1>6. ASSUME NEW c \in Task, Y!Store(c) PROVE CredentialsRight'
  <2>1. using[c].at = "fetched" /\ using[c].value \in Credentials /\ using[c].value # Y!None
    BY <1>1, <1>2, <1>6 DEF Y!Store, SendsLeft, CredentialCall
  <2> QED
    BY <1>6, <2>1, ProceedSends DEF Y!Store
<1>7. ASSUME NEW c \in Task, Y!Unreadable(c) \/ Y!Accept(c) \/ Y!Return(c) PROVE CredentialsRight'
  BY <1>7, EndSends DEF Y!Unreadable, Y!Accept, Y!Return, Y!Done
<1>8. ASSUME NEW c \in Task, Y!Unchanged(c) PROVE CredentialsRight'
  BY <1>8, EndSends DEF Y!Unchanged, Y!End, Y!Done, Y!Moves
\* The others change one call and nothing else that matters.
<1>9. ASSUME NEW c \in Task, NEW r, using' = [using EXCEPT ![c] = r], valid' = valid,
             built' \in Credentials, fresh' \in BOOLEAN,
             r.at \in {"fetched", "checked", "closing", "sent"} => r.value # Y!None,
             r.at # "idle",
             \/ /\ r.sends = using[c].sends /\ r.again \in {using[c].again, TRUE}
                /\ r.at \notin {"reading", "fetched", "waiting"}
             \/ r.at = "waiting" /\ r.sends = using[c].sends /\ r.sends < Sends
             \/ /\ r.at = "fetched" /\ using[c].at = "reading" /\ r.sends = using[c].sends
                /\ r.again = using[c].again
             \/ r.at = "reading" /\ r.sends = using[c].sends /\ r.sends <= Sends /\ r.again = TRUE
      PROVE  CredentialsRight'
  <2>1. using'[c] = r
    BY <1>1, <1>9
  <2>2. r.again = FALSE /\ r.again \in {using[c].again, TRUE} => using[c].again = FALSE
    BY Zenon
  <2>3. /\ r.sends <= Sends + 1
        /\ r.again = FALSE => r.sends <= Sends
        /\ r.at \in {"reading", "fetched"} => r.sends <= Sends /\ (r.again = FALSE => r.sends < Sends)
        /\ r.at = "waiting" => r.sends < Sends
    <3>1. SendsLeft(c) /\ using[c].sends \in Nat /\ Sends \in Nat \ {0}
      BY <1>1, <1>2
    <3>2. CASE /\ r.sends = using[c].sends /\ r.again \in {using[c].again, TRUE}
               /\ r.at \notin {"reading", "fetched", "waiting"}
      BY <2>2, <3>1, <3>2 DEF SendsLeft
    <3>3. CASE r.at = "waiting" /\ r.sends = using[c].sends /\ r.sends < Sends
      BY <3>1, <3>3
    <3>4. CASE /\ r.at = "fetched" /\ using[c].at = "reading" /\ r.sends = using[c].sends
               /\ r.again = using[c].again
      BY <3>1, <3>4 DEF SendsLeft
    <3>5. CASE r.at = "reading" /\ r.sends = using[c].sends /\ r.sends <= Sends /\ r.again = TRUE
      BY <3>1, <3>5
    <3> QED
      BY <1>9, <3>2, <3>3, <3>4, <3>5
  <2>4. SendsLeft(c)'
    BY <1>9, <2>1, <2>3 DEF SendsLeft
  <2> QED
    BY <1>9, <2>4, OneCallSends
<1>10. ASSUME NEW c \in Task, Y!Fetch(c) PROVE CredentialsRight'
  <2>1. PICK r : r = [using[c] EXCEPT !.at = IF @ = "reading" THEN "fetched" ELSE "checked",
                                      !.value = valid]
    OBVIOUS
  <2>2. using' = [using EXCEPT ![c] = r] /\ UNCHANGED <<valid, built, fresh>>
    BY <1>1, <1>10, <2>1 DEF Y!Fetch
  <2>3. /\ r.value = valid /\ r.sends = using[c].sends /\ r.again = using[c].again
        /\ \/ using[c].at = "reading" /\ r.at = "fetched"
           \/ using[c].at = "checking" /\ r.at = "checked"
    BY <1>1, <1>10, <2>1 DEF Y!Fetch, CredentialCall
  <2> QED
    BY <1>2, <1>9, <2>2, <2>3
<1>11. ASSUME NEW c \in Task, Y!Build(c) PROVE CredentialsRight'
  <2>1. PICK r : r = [using[c] EXCEPT !.at = "sent"]
    OBVIOUS
  <2>2. /\ using' = [using EXCEPT ![c] = r] /\ UNCHANGED <<valid, fresh>>
        /\ built' = using[c].value /\ using[c].at = "closing"
    BY <1>1, <1>11, <2>1 DEF Y!Build, Y!Moves
  <2>3. /\ r.at = "sent" /\ r.value = using[c].value /\ r.sends = using[c].sends
        /\ r.again = using[c].again /\ using[c].value \in Credentials
    BY <1>1, <2>1 DEF CredentialCall
  <2>4. using[c].value # Y!None
    BY <1>2, <2>2 DEF SendsLeft
  <2> QED
    BY <1>2, <1>9, <2>2, <2>3, <2>4
<1>12. ASSUME NEW c \in Task, Y!Refuse(c) PROVE CredentialsRight'
  <2>1. CASE using[c].again = TRUE
    BY <1>12, <2>1, EndSends DEF Y!Refuse, Y!Moves
  <2>2. CASE using[c].again = FALSE
    <3>1. PICK r : r = [using[c] EXCEPT !.again = TRUE, !.at = "reading"]
      OBVIOUS
    <3>2. fresh' = TRUE /\ using' = [using EXCEPT ![c] = r] /\ UNCHANGED <<valid, built>>
      BY <1>1, <1>12, <2>2, <3>1 DEF Y!Refuse, Y!Rejected
    <3>3. r.at = "reading" /\ r.again = TRUE /\ r.sends = using[c].sends
      BY <1>1, <3>1 DEF CredentialCall
    <3>4. using[c].sends <= Sends
      BY <1>2, <2>2 DEF SendsLeft
    <3> QED
      BY <1>2, <1>9, <3>2, <3>3, <3>4
  <2> QED
    BY <1>1, <2>1, <2>2
<1>13. ASSUME NEW c \in Task, Y!Busy(c) PROVE CredentialsRight'
  <2>1. CASE ~(using[c].sends < Sends)
    BY <1>13, <2>1, EndSends DEF Y!Busy, Y!Done
  <2>2. CASE using[c].sends < Sends
    <3>1. PICK r : r = [using[c] EXCEPT !.at = "waiting"]
      OBVIOUS
    <3>2. using' = [using EXCEPT ![c] = r] /\ UNCHANGED <<valid, built, fresh>>
      BY <1>1, <1>13, <2>2, <3>1 DEF Y!Busy, Y!Moves
    <3>3. r.at = "waiting" /\ r.sends = using[c].sends
      BY <1>1, <3>1 DEF CredentialCall
    <3> QED
      BY <1>2, <1>9, <2>2, <3>2, <3>3
  <2> QED
    BY <2>1, <2>2
<1>14. ASSUME NEW c \in Task, Y!Fail(c) PROVE CredentialsRight'
  <2>1. CASE using[c].again = TRUE
    BY <1>14, <2>1, EndSends DEF Y!Fail, Y!End, Y!Done, Y!Moves
  <2>2. CASE using[c].again = FALSE
    <3>1. PICK r : r = [using[c] EXCEPT !.at = "checking", !.before = seen,
                                        !.blamed = (using[c].value # valid)]
      OBVIOUS
    <3>2. using' = [using EXCEPT ![c] = r] /\ UNCHANGED <<valid, built, fresh>>
      BY <1>1, <1>14, <2>2, <3>1 DEF Y!Fail
    <3>3. r.at = "checking" /\ r.sends = using[c].sends /\ r.again = using[c].again
      BY <1>1, <3>1 DEF CredentialCall
    <3> QED
      BY <1>2, <1>9, <3>2, <3>3
  <2> QED
    BY <1>1, <2>1, <2>2
<1>15. ASSUME NEW c \in Task, Y!Changed(c) PROVE CredentialsRight'
  <2>1. /\ using[c].at = "checked" /\ using[c].value \in Credentials /\ using[c].value # Y!None
    BY <1>1, <1>2, <1>15 DEF Y!Changed, SendsLeft, CredentialCall
  <2>2. PICK r : r = [using[c] EXCEPT !.at = IF built' = using[c].value THEN "sent" ELSE "closing",
                                      !.value = using[c].value, !.again = TRUE]
    OBVIOUS
  <2>3. /\ using' = [using EXCEPT ![c] = r] /\ UNCHANGED <<valid, fresh>>
        /\ built' = IF built = Y!None THEN using[c].value ELSE built
    BY <1>1, <1>15, <2>2 DEF Y!Changed, Y!Adapter
  <2>4. /\ r.at \in {"sent", "closing"} /\ r.value = using[c].value /\ r.again = TRUE
        /\ r.sends = using[c].sends
    BY <1>1, <2>2 DEF CredentialCall
  <2>5. built' \in Credentials
    BY <1>2, <2>1, <2>3
  <2> QED
    BY <1>2, <1>9, <2>1, <2>3, <2>4, <2>5
<1> QED
  BY <1>3, <1>4, <1>5, <1>6, <1>7, <1>8, <1>10, <1>11, <1>12, <1>13, <1>14, <1>15 DEF Y!Next

LEMMA SendsKept == ASSUME CredentialsRight, UNCHANGED credentialVars PROVE CredentialsRight'
BY DEF credentialVars, CredentialsRight, SendsLeft

LEMMA CredentialTyped == ASSUME CredentialInv, CredentialsRight PROVE Y!TypeOK
<1>1. CredentialTypes /\ CredentialsRight
  BY DEF CredentialInv
<1>2. Credentials = Y!Credential \cup {Y!None} /\ valid \in Y!Credential
  BY <1>1, CallAssumption
     DEF Credentials, Y!Credential, Y!None, CredentialTypes, CredentialsRight
<1>3. \A c \in Task : using[c] \in CredentialCall /\ SendsLeft(c)
  BY <1>1 DEF CredentialTypes, CredentialsRight
<1>4. ASSUME NEW c \in Task
      PROVE  /\ using[c].at \in {"idle", "reading", "fetched", "checking", "checked", "closing",
                                 "sent", "waiting", "refused"}
             /\ using[c].value \in Credentials /\ using[c].before \in Credentials
             /\ using[c].sends \in 0..(Sends + 1)
             /\ using[c].at = "sent" => using[c].value # Y!None
  BY <1>3, CallAssumption DEF CredentialCall, SendsLeft
<1> QED
  BY <1>1, <1>2, <1>4 DEF CredentialTypes, CredentialsRight, Y!TypeOK

-----------------------------------------------------------------------------
\* How far a time may be from the minutes there are.
PolicyBounds ==
    \A a \in Gated : /\ row[a].until >= 0 /\ row[a].until <= Horizon + MaxTtl + MaxWithin
                     /\ opened[a].asked >= P!Never /\ opened[a].alone >= P!Never

LEMMA PolicyNumbers ==
    ASSUME PolicyTypes
    PROVE  /\ time \in Nat /\ time <= Horizon /\ Horizon \in Nat /\ MaxTtl \in Nat /\ MaxWithin \in Nat
           /\ P!Never \in Int /\ P!Never <= 0 /\ row \in [Gated -> PolicyRow]
           /\ \A a \in Gated : row[a] \in PolicyRow /\ row[a].until \in Int
                               /\ opened[a].asked \in Int /\ opened[a].alone \in Int
BY PolicyAssumption DEF PolicyTypes, PolicyRow, P!Never

LEMMA BoundsInit == ASSUME P!Init PROVE PolicyBounds
<1>1. P!Never \in Int /\ P!Never <= 0 /\ 0 <= Horizon + MaxTtl + MaxWithin
  BY PolicyAssumption DEF P!Never
<1>2. \A a \in Gated : row[a].until = 0
  BY DEF P!Init, P!Undecided
<1>3. \A a \in Gated : opened[a].asked \in {0, P!Never} /\ opened[a].alone \in {0, P!Never}
  BY DEF P!Init
<1> QED
  BY <1>1, <1>2, <1>3 DEF PolicyBounds

\* The rules let a write be made at this minute, or as late as before.
LEMMA BoundsOpened ==
    ASSUME PolicyTypes, PolicyBounds, NEW t \in Nat, opened' = P!Opened(rules', t), row' = row
    PROVE  PolicyBounds'
<1>1. P!Never \in Int /\ P!Never <= 0 /\ t >= P!Never
  BY PolicyNumbers
<1>2. \A a \in Gated : /\ opened'[a].asked \in {t, opened[a].asked}
                       /\ opened'[a].alone \in {t, opened[a].alone}
  BY DEF P!Opened
<1>3. P!Never' = P!Never
  BY DEF P!Never
<1> QED
  BY <1>1, <1>2, <1>3 DEF PolicyBounds

\* One row is changed, to last no longer than that.
LEMMA BoundsRow ==
    ASSUME PolicyTypes, PolicyBounds, NEW a \in Gated, NEW r, row' = [row EXCEPT ![a] = r],
           r.until >= 0, r.until <= Horizon + MaxTtl + MaxWithin, opened' = opened
    PROVE  PolicyBounds'
<1>1. \A b \in Gated : row'[b] = IF b = a THEN r ELSE row[b]
  BY DEF PolicyTypes
<1>2. P!Never' = P!Never
  BY DEF P!Never
<1> QED
  BY <1>1, <1>2 DEF PolicyBounds

LEMMA BoundsStep == ASSUME PolicyInv, PolicyBounds, P!Next PROVE PolicyBounds'
<1>1. /\ PolicyTypes /\ time \in Nat /\ time <= Horizon /\ Horizon \in Nat
      /\ MaxTtl \in Nat /\ MaxWithin \in Nat
      /\ \A a \in Gated : row[a] \in PolicyRow /\ row[a].until \in Int
  BY PolicyNumbers DEF PolicyInv
<1>2. CASE P!SetPolicy
  BY <1>1, <1>2, BoundsOpened DEF P!SetPolicy
<1>3. CASE P!Tick
  <2>1. time' \in Nat /\ opened' = P!Opened(rules', time') /\ row' = row
    BY <1>1, <1>3 DEF P!Tick
  <2> QED
    BY <1>1, <2>1, BoundsOpened
<1>4. CASE UNCHANGED <<row, opened>>
  BY <1>4 DEF PolicyBounds, P!Never
<1>5. ASSUME NEW a \in Gated, NEW s, P!To(a, s) PROVE PolicyBounds'
  <2>1. PICK r : r = [P!Undecided EXCEPT !.status = s]
    OBVIOUS
  <2>2. r.until = 0 /\ row' = [row EXCEPT ![a] = r] /\ opened' = opened
    BY <1>5, <2>1 DEF P!To, P!Undecided
  <2>3. r.until >= 0 /\ r.until <= Horizon + MaxTtl + MaxWithin
    BY <1>1, <2>2
  <2> QED
    BY <1>1, <2>2, <2>3, BoundsRow
<1>6. ASSUME NEW a \in Gated, P!Decide(a) PROVE PolicyBounds'
  <2>1. PICK p : p = reading[a].rules
    OBVIOUS
  <2>2. PICK s : s = P!Ruling(Wanted[a], p, reading[a].recent, time)
    OBVIOUS
  <2>3. PICK t : t = CASE s = "pending" -> time + p.ttl [] s = "allowed" -> time + p.within [] OTHER -> 0
    OBVIOUS
  <2>4. PICK r : r = [status |-> s, asked |-> s = "pending", until |-> t, at |-> 0]
    OBVIOUS
  <2>5. row' = [row EXCEPT ![a] = r] /\ opened' = opened /\ r.until = t
    BY <1>6, <2>1, <2>2, <2>3, <2>4 DEF P!Decide
  <2>6. p \in AllRules /\ reading[a].recent \in Nat /\ time \in 0..Horizon
    BY <1>1, <2>1 DEF PolicyTypes, Reading
  <2>7. s \in {"pending", "allowed"} => p.level # P!Shadow
    BY <2>2, <2>6, RulingLets
  <2>8. p.ttl \in Nat /\ p.within \in Nat /\ (p.level # P!Shadow => p.ttl <= MaxTtl /\ p.within <= MaxWithin)
    BY <2>6, RulesRead
  <2>9. t >= 0 /\ t <= Horizon + MaxTtl + MaxWithin
    BY <1>1, <2>3, <2>7, <2>8
  <2> QED
    BY <1>1, <2>5, <2>9, BoundsRow
<1>7. ASSUME NEW a \in Gated, P!Approve(a) PROVE PolicyBounds'
  <2>1. PICK r : r = [row[a] EXCEPT !.status = "approved", !.until = time + P!AsRead(rules).within]
    OBVIOUS
  <2>2. row' = [row EXCEPT ![a] = r] /\ opened' = opened /\ row[a].status = "pending"
    BY <1>7, <2>1 DEF P!Approve
  <2>3. r.until = time + P!AsRead(rules).within
    BY <1>1, <2>1 DEF PolicyRow
  <2>4. P!Valid(rules) /\ P!AsRead(rules) = rules /\ rules \in Offered \cup Standing
    BY <1>1, <2>2 DEF PolicyInv, RowFresh, P!AsRead, PolicyTypes
  <2>5. rules.within \in Nat /\ rules.within <= MaxWithin
    BY <2>4, PolicyAssumption
  <2>6. r.until >= 0 /\ r.until <= Horizon + MaxTtl + MaxWithin
    BY <1>1, <2>3, <2>4, <2>5
  <2> QED
    BY <1>1, <2>2, <2>6, BoundsRow
<1>8. ASSUME NEW a \in Gated, P!Authorise(a) PROVE PolicyBounds'
  <2>1. CASE P!To(a, "aborted") \/ P!To(a, "invalid")
    BY <1>5, <2>1
  <2>2. CASE row' = [row EXCEPT ![a].status = "executing", ![a].at = time] /\ opened' = opened
    <3>1. PICK r : r = [row[a] EXCEPT !.status = "executing", !.at = time]
      OBVIOUS
    <3>2. r.until = row[a].until /\ row' = [row EXCEPT ![a] = r]
      BY <1>1, <2>2, <3>1 DEF PolicyRow, PolicyTypes
    <3> QED
      BY <1>1, <2>2, <3>2, BoundsRow DEF PolicyBounds
  <2> QED
    BY <1>8, <2>1, <2>2 DEF P!Authorise
<1> QED
  BY <1>2, <1>3, <1>4, <1>5, <1>6, <1>7, <1>8
     DEF P!Next, P!SetKillSwitch, P!ReadPolicy, P!CountRecent, P!Crash, P!Reject, P!Expire

LEMMA BoundsKept == ASSUME PolicyBounds, UNCHANGED policyVars PROVE PolicyBounds'
BY DEF policyVars, PolicyBounds, P!Never

LEMMA PolicyTyped == ASSUME PolicyInv, PolicyBounds PROVE P!TypeOK
<1>1. PolicyTypes
  BY DEF PolicyInv
<1>2. ASSUME NEW a \in Gated
      PROVE  /\ row[a].status \in {"none", "executing"} \cup P!InForce \cup P!Final
             /\ row[a].until \in 0..(Horizon + MaxTtl + MaxWithin)
             /\ reading[a].step \in {"idle", "read", "counted"}
             /\ opened[a].asked \in P!Never..time /\ opened[a].alone \in P!Never..time
  <2>1. row[a] \in PolicyRow /\ reading[a] \in Reading
    BY <1>1 DEF PolicyTypes
  <2>2. row[a].until \in 0..(Horizon + MaxTtl + MaxWithin)
    BY <1>1, PolicyNumbers DEF PolicyBounds
  <2>3. opened[a].asked <= time /\ opened[a].alone <= time
    BY DEF PolicyInv, OpenedNow
  <2>4. opened[a].asked \in P!Never..time /\ opened[a].alone \in P!Never..time
    BY <1>1, <2>3, PolicyNumbers DEF PolicyBounds
  <2> QED
    BY <2>1, <2>2, <2>4 DEF PolicyRow, RowStatus, Reading
<1>3. ASSUME NEW a \in Gated, NEW how \in {"asked", "alone"} PROVE opened[a][how] \in P!Never..time
  <2>1. CASE how = "asked"
    BY <1>2, <2>1
  <2>2. CASE how = "alone"
    BY <1>2, <2>2
  <2> QED
    BY <2>1, <2>2
<1> QED
  BY <1>1, <1>2, <1>3 DEF PolicyTypes, P!TypeOK

-----------------------------------------------------------------------------
\* What is kept of each component, and that it says its variables are of their types.
Kept ==
    /\ In("lifecycle", LifecycleInv /\ NumbersCount)
    /\ In("knowledge", KnowledgeInv)
    /\ In("audit", AuditInv)
    /\ In("deliveries", DeliveryInv /\ NoncesEnd)
    /\ In("sessions", SessionInv)
    /\ In("walk", WalkInv)
    /\ In("gateway", BudgetInv)
    /\ In("policy", PolicyInv /\ PolicyBounds)
    /\ In("connections", ConnectionInv)
    /\ In("credentials", CredentialInv /\ CredentialsRight)
    /\ In("calls", CallInv)
    /\ In("access", AccessInv)
    /\ In("choice", ChoiceInv)
    /\ In("intake", IntakeInv /\ PagesLeft)
    /\ In("stream", StreamInv)
    /\ In("runner", RunnerInv)
    /\ In("service", ServiceInv)
    /\ In("changes", ChangeInv)
    /\ In("export", DumpInv)
    /\ In("drafts", DraftsInv)
    /\ In("redaction", RedactionInv)

LEMMA KeptInit == ASSUME Init PROVE Kept
<1>1. LifecycleInv /\ NumbersCount /\ KnowledgeInv /\ AuditInv /\ DeliveryInv /\ NoncesEnd
  BY LifecycleInit, NumbersInit, KnowledgeInit, AuditInit, DeliveryInit, NoncesInit DEF Init
<1>2. SessionInv /\ WalkInv /\ BudgetInv /\ PolicyInv /\ PolicyBounds /\ ConnectionInv
  BY SessionInit, WalkInit, BudgetInit, PolicyInit, BoundsInit, ConnectionInit DEF Init
<1>3. CredentialInv /\ CredentialsRight /\ CallInv /\ AccessInv /\ ChoiceInv
  BY CredentialInit, SendsInit, CallInit, AccessInit, ChoiceInit DEF Init
<1>4. IntakeInv /\ PagesLeft /\ StreamInv /\ RunnerInv /\ ServiceInv
  BY IntakeInit, PagesInit, StreamInit, RunnerInit, ServiceInit DEF Init
<1>5. ChangeInv /\ DumpInv /\ DraftsInv /\ RedactionInv
  BY ChangeInit, DumpInit, DraftsInit, RedactionInit DEF Init
<1> QED
  BY <1>1, <1>2, <1>3, <1>4, <1>5 DEF Kept, In

LEMMA KeptStep == ASSUME Kept, Next PROVE Kept'
<1>1. part' = part
  BY ChosenMoves
<1>2. ASSUME part = "lifecycle" PROVE LifecycleInv' /\ NumbersCount'
  BY <1>2, LifecycleStep, NumbersStep, ChosenMoves DEF Kept, In
<1>3. ASSUME part = "knowledge" PROVE KnowledgeInv'
  BY <1>3, KnowledgeStep, ChosenMoves DEF Kept, In
<1>4. ASSUME part = "audit" PROVE AuditInv'
  BY <1>4, AuditStep, ChosenMoves DEF Kept, In
<1>5. ASSUME part = "deliveries" PROVE DeliveryInv' /\ NoncesEnd'
  BY <1>5, DeliveryStep, NoncesStep, ChosenMoves DEF Kept, In
<1>6. ASSUME part = "sessions" PROVE SessionInv'
  BY <1>6, SessionStep, ChosenMoves DEF Kept, In
<1>7. ASSUME part = "walk" PROVE WalkInv'
  BY <1>7, WalkStep, ChosenMoves DEF Kept, In
<1>8. ASSUME part = "gateway" PROVE BudgetInv'
  BY <1>8, BudgetStep, ChosenMoves DEF Kept, In
<1>9. ASSUME part = "policy" PROVE PolicyInv' /\ PolicyBounds'
  BY <1>9, PolicyStep, BoundsStep, ChosenMoves DEF Kept, In
<1>10. ASSUME part = "connections" PROVE ConnectionInv'
  BY <1>10, ConnectionStep, ChosenMoves DEF Kept, In
<1>11. ASSUME part = "credentials" PROVE CredentialInv' /\ CredentialsRight'
  BY <1>11, CredentialStep, SendsStep, ChosenMoves DEF Kept, In
<1>12. ASSUME part = "calls" PROVE CallInv'
  BY <1>12, CallStep, ChosenMoves DEF Kept, In
<1>13. ASSUME part = "access" PROVE AccessInv'
  BY <1>13, AccessStep, ChosenMoves DEF Kept, In
<1>14. ASSUME part = "choice" PROVE ChoiceInv'
  BY <1>14, ChoiceStep, ChosenMoves DEF Kept, In
<1>15. ASSUME part = "intake" PROVE IntakeInv' /\ PagesLeft'
  BY <1>15, IntakeStep, PagesStep, ChosenMoves DEF Kept, In
<1>16. ASSUME part = "stream" PROVE StreamInv'
  BY <1>16, StreamStep, ChosenMoves DEF Kept, In
<1>17. ASSUME part = "runner" PROVE RunnerInv'
  BY <1>17, RunnerStep, ChosenMoves DEF Kept, In
<1>18. ASSUME part = "service" PROVE ServiceInv'
  BY <1>18, ServiceStep, ChosenMoves DEF Kept, In
<1>19. ASSUME part = "changes" PROVE ChangeInv'
  BY <1>19, ChangeStep, ChosenMoves DEF Kept, In
<1>20. ASSUME part = "export" PROVE DumpInv'
  BY <1>20, DumpStep, ChosenMoves DEF Kept, In
<1>21. ASSUME part = "drafts" PROVE DraftsInv'
  BY <1>21, DraftsStep, ChosenMoves DEF Kept, In
<1>22. ASSUME part = "redaction" PROVE RedactionInv'
  BY <1>22, RedactionStep, ChosenMoves DEF Kept, In
<1> QED
  BY <1>1, <1>2, <1>3, <1>4, <1>5, <1>6, <1>7, <1>8, <1>9, <1>10, <1>11, <1>12, <1>13, <1>14,
     <1>15, <1>16, <1>17, <1>18, <1>19, <1>20, <1>21, <1>22 DEF Kept, In

LEMMA KeptStays == ASSUME Kept, UNCHANGED vars PROVE Kept'
<1>1. UNCHANGED <<part, lifecycleVars, knowledgeVars, auditVars, deliveryVars, sessionVars, walkVars,
                  gatewayVars, policyVars, connectionVars, credentialVars, callVars, accessVars,
                  choiceVars, intakeVars, streamVars, runnerVars, serviceVars, changeVars,
                  exportVars, draftVars, redactionVars>>
  BY DEF vars
<1>2. ASSUME part = "lifecycle" PROVE LifecycleInv' /\ NumbersCount'
  BY <1>1, <1>2, LifecycleStays, NumbersKept DEF Kept, In
<1>3. ASSUME part = "knowledge" PROVE KnowledgeInv'
  <2>1. /\ KnowledgeInv /\ clock \in 0..MaxSeconds /\ keys \subseteq Article
        /\ rows \in [K!Revision -> Nat] /\ \A r \in K!Revision : rows[r] <= 1
    BY <1>3 DEF Kept, In, KnowledgeInv, K!TypeOK, K!OneDraftPerRevision
  <2> QED
    BY <1>1, <2>1, KnowledgeStays DEF knowledgeVars
<1>4. ASSUME part = "audit" PROVE AuditInv'
  BY <1>1, <1>4, AuditStays DEF Kept, In
<1>5. ASSUME part = "deliveries" PROVE DeliveryInv' /\ NoncesEnd'
  BY <1>1, <1>5, DeliveryStays, NoncesKept DEF Kept, In
<1>6. ASSUME part = "sessions" PROVE SessionInv'
  BY <1>1, <1>6, SessionStays DEF Kept, In
<1>7. ASSUME part = "walk" PROVE WalkInv'
  BY <1>1, <1>7, WalkStep DEF Kept, In, walkVars, E!vars
<1>8. ASSUME part = "gateway" PROVE BudgetInv'
  BY <1>1, <1>8, BudgetStays DEF Kept, In
<1>9. ASSUME part = "policy" PROVE PolicyInv' /\ PolicyBounds'
  BY <1>1, <1>9, PolicyStays, BoundsKept DEF Kept, In
<1>10. ASSUME part = "connections" PROVE ConnectionInv'
  BY <1>1, <1>10, ConnectionStays DEF Kept, In
<1>11. ASSUME part = "credentials" PROVE CredentialInv' /\ CredentialsRight'
  BY <1>1, <1>11, CredentialStays, SendsKept DEF Kept, In
<1>12. ASSUME part = "calls" PROVE CallInv'
  BY <1>1, <1>12, CallStays DEF Kept, In
<1>13. ASSUME part = "access" PROVE AccessInv'
  BY <1>1, <1>13, AccessStays DEF Kept, In
<1>14. ASSUME part = "choice" PROVE ChoiceInv'
  BY <1>1, <1>14, ChoiceStays DEF Kept, In
<1>15. ASSUME part = "intake" PROVE IntakeInv' /\ PagesLeft'
  BY <1>1, <1>15, IntakeStays, PagesKept DEF Kept, In
<1>16. ASSUME part = "stream" PROVE StreamInv'
  BY <1>1, <1>16, StreamStays DEF Kept, In
<1>17. ASSUME part = "runner" PROVE RunnerInv'
  BY <1>1, <1>17, RunnerStays DEF Kept, In
<1>18. ASSUME part = "service" PROVE ServiceInv'
  BY <1>1, <1>18, ServiceStays DEF Kept, In
<1>19. ASSUME part = "changes" PROVE ChangeInv'
  BY <1>1, <1>19, ChangeStays DEF Kept, In
<1>20. ASSUME part = "export" PROVE DumpInv'
  BY <1>1, <1>20, DumpStays DEF Kept, In
<1>21. ASSUME part = "drafts" PROVE DraftsInv'
  BY <1>1, <1>21, DraftsStays DEF Kept, In
<1>22. ASSUME part = "redaction" PROVE RedactionInv'
  BY <1>1, <1>22, RedactionStays DEF Kept, In
<1> QED
  BY <1>1, <1>2, <1>3, <1>4, <1>5, <1>6, <1>7, <1>8, <1>9, <1>10, <1>11, <1>12, <1>13, <1>14,
     <1>15, <1>16, <1>17, <1>18, <1>19, <1>20, <1>21, <1>22 DEF Kept, In

LEMMA KeptTyped == ASSUME Kept PROVE TypeOK
<1>1. In("lifecycle", L!TypeOK)
  BY LifecycleTyped DEF Kept, In
<1>2. In("knowledge", K!TypeOK)
  BY DEF Kept, In, KnowledgeInv
<1>3. In("audit", Log!TypeOK)
  BY DEF Kept, In, AuditInv
<1>4. In("deliveries", O!TypeOK)
  BY DeliveryTyped DEF Kept, In
<1>5. In("sessions", Z!TypeOK)
  BY DEF Kept, In, SessionInv
<1>6. In("walk", E!TypeOK)
  BY WalkGoes DEF Kept, In
<1>7. In("gateway", G!TypeOK)
  BY GatewayTyped DEF Kept, In
<1>8. In("policy", P!TypeOK)
  BY PolicyTyped DEF Kept, In
<1>9. In("connections", C!TypeOK)
  BY ConnectionTyped DEF Kept, In
<1>10. In("credentials", Y!TypeOK)
  BY CredentialTyped DEF Kept, In
<1>11. In("calls", B!TypeOK)
  BY CallTyped DEF Kept, In
<1>12. In("access", H!TypeOK)
  BY DEF Kept, In, AccessInv
<1>13. In("choice", D!TypeOK)
  BY DEF Kept, In, ChoiceInv
<1>14. In("intake", I!TypeOK)
  BY IntakeTyped DEF Kept, In
<1>15. In("stream", V!TypeOK)
  BY DEF Kept, In, StreamInv
<1>16. In("runner", M!TypeOK)
  BY DEF Kept, In, RunnerInv
<1>17. In("service", U!TypeOK)
  BY DEF Kept, In, ServiceInv
<1>18. In("changes", N!TypeOK)
  BY DEF Kept, In, ChangeInv
<1>19. In("export", Dump!TypeOK)
  BY DEF Kept, In, DumpInv
<1>20. In("drafts", J!TypeOK)
  BY DEF Kept, In, DraftsInv
<1>21. In("redaction", Q!TypeOK)
  BY RedactionHolds DEF Kept, In
<1> QED
  BY <1>1, <1>2, <1>3, <1>4, <1>5, <1>6, <1>7, <1>8, <1>9, <1>10, <1>11, <1>12, <1>13, <1>14,
     <1>15, <1>16, <1>17, <1>18, <1>19, <1>20, <1>21 DEF TypeOK

\* The variables of every component are of their types: what is counted stays within what there
\* is to count, and each place, answer and time is one that the code knows.
THEOREM TypesKeep == Spec => []TypeOK
<1>1. Init => Kept
  BY KeptInit
<1>2. Kept /\ [Next]_vars => Kept'
  BY KeptStep, KeptStays
<1>3. Kept => TypeOK
  BY KeptTyped
<1> QED
  BY <1>1, <1>2, <1>3, PTL DEF Spec
=============================================================================
