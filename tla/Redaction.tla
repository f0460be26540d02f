------------------------------ MODULE Redaction ------------------------------
(***************************************************************************)
(* What a model is shown of a ticket and what is put back into its answer  *)
(* (Redactor of ai/redaction.py; section and compose of ai/gateway.py;     *)
(* interpret of ai/advisor.py).                                            *)
(*                                                                         *)
(* One redactor serves the requests of a run; a value has one placeholder  *)
(* for all of them, and a placeholder that comes back is put back as what  *)
(* the redactor knows by then.  A text is a sequence of words: values that *)
(* are recognised, and text that looks like a placeholder; other text is   *)
(* left as it is and left out.  What the patterns recognise is given, one  *)
(* pattern for a kind.                                                     *)
(***************************************************************************)
EXTENDS Naturals, Sequences, FiniteSets

CONSTANTS
    Value,       \* values that are recognised
    KindOf,      \* the kind of each
    Words,       \* bound: words of a text
    MaxTexts     \* bound: requests of a run

VARIABLES
    placeholder, \* for each value seen its placeholder: kind and number
    sent         \* the texts: what each was, and what the model was shown

vars == <<placeholder, sent>>

Kinds == {KindOf[v] : v \in Value}
Personal == {"EMAIL", "PHONE", "PERSON", "IP"}

\* A word is a value, a placeholder of ours, or text; one text looks like a placeholder, and
\* with a blank in its brackets it does not.
AsValue(v) == [is |-> "value", value |-> v]
AsOurs(k, n) == [is |-> "placeholder", kind |-> k, number |-> n]
Escaped(k, n) == [is |-> "text", kind |-> k, number |-> n]
Word == {AsValue(v) : v \in Value} \cup {AsOurs(k, n) : k \in Kinds, n \in 1..Cardinality(Value)}
Texts == UNION {[1..n -> Word] : n \in 1..Words}

TypeOK ==
    /\ DOMAIN placeholder \subseteq Value
    /\ \A v \in DOMAIN placeholder :
          placeholder[v] \in {AsOurs(KindOf[v], n) : n \in 1..Cardinality(Value)}
    /\ Len(sent) <= MaxTexts

Init == placeholder = <<>> /\ sent = <<>>

-----------------------------------------------------------------------------
\* Mutant: what looks like a placeholder goes out as it is.
Untouched(word) == word

\* The brackets of text that looks like a placeholder are opened, before anything else.
Opened(word) == IF word.is = "placeholder" THEN Escaped(word.kind, word.number) ELSE word

\* A value that was seen keeps its placeholder; the others of a kind have the next numbers, in
\* the order they come in.
Found(text) == {v \in Value : \E n \in DOMAIN text : text[n] = AsValue(v)}
FirstAt(text, v) ==
    CHOOSE n \in DOMAIN text : text[n] = AsValue(v) /\ \A m \in DOMAIN text : m < n => text[m] # AsValue(v)
Earlier(known, text, v) ==
    {u \in DOMAIN known \cup Found(text) :
        KindOf[u] = KindOf[v] /\ (u \in DOMAIN known \/ FirstAt(text, u) < FirstAt(text, v))}
Learnt(known, text) ==
    [v \in DOMAIN known \cup Found(text) |->
        IF v \in DOMAIN known THEN known[v]
        ELSE AsOurs(KindOf[v], 1 + Cardinality(Earlier(known, text, v)))]
Redacted(known, text) ==
    [n \in DOMAIN text |-> IF text[n].is = "value" THEN known[text[n].value] ELSE Opened(text[n])]

\* compose: each section of the request is redacted, and nothing else goes out.
Send(text) ==
    /\ Len(sent) < MaxTexts
    /\ placeholder' = Learnt(placeholder, text)
    /\ sent' = Append(sent, [was |-> text, shown |-> Redacted(placeholder', text)])

Next == \E text \in Texts : Send(text)

Spec == Init /\ [][Next]_vars

-----------------------------------------------------------------------------
(* The answer.                                                             *)

\* restore: values of a person go back, secrets and unknown placeholders stay as they are.
Restored(word) ==
    LET found == {v \in DOMAIN placeholder : placeholder[v] = word} IN
    IF word.is = "placeholder" /\ word.kind \in Personal /\ found # {}
    THEN AsValue(CHOOSE v \in found : TRUE)
    ELSE word

\* Whenever an answer repeats a word it was shown, what comes back into the ticket is what was
\* there: a value in its own place, text with its brackets opened and never another's value,
\* and a secret only as its placeholder.
ComesBackAsItWas ==
    \A i \in DOMAIN sent : \A n \in DOMAIN sent[i].was :
        LET was == sent[i].was[n]
            back == Restored(sent[i].shown[n])
        IN  IF was.is = "value"
            THEN IF KindOf[was.value] \in Personal THEN back = was ELSE back.is = "placeholder"
            ELSE back = Escaped(was.kind, was.number)
=============================================================================
