------------------------------- MODULE Drafts --------------------------------
(***************************************************************************)
(* How an article becomes the draft of an SOP (sync_source,                *)
(* draft_from_article and accept_model_draft of sop/ingest.py; draft_sop   *)
(* and sop_content_from_draft of ai/advisor.py; problems of ai/schema.py), *)
(* and what a person makes of it (sop/store.py).                           *)
(*                                                                         *)
(* A model may say anything.  What it says passes the schema of the task,  *)
(* a conversion, the validator and the acceptance, each leaving something  *)
(* to the others, and is merged into a draft that has fields of the        *)
(* article.  The graph of the steps is SopWalk's; here a step is its kind  *)
(* and what it calls.                                                      *)
(***************************************************************************)
EXTENDS Naturals, Sequences

CONSTANTS
    MaxSteps,    \* bound: steps in an answer
    NoAnswer

VARIABLES
    article,     \* what the source holds: its steps, and whether it names a change template
    known,       \* its revision was a draft before
    stage, answer,
    draft        \* the content, where it came from, and whether a person has edited it

vars == <<article, known, stage, answer, draft>>

\* What a step calls: a capability that reads, one that writes, or none that is registered.
Step(kinds, named) == [kind: kinds, names: named]
AnyStep == Step({"CHECK", "VERIFY", "NOTE", "ACTION"}, {"read", "write", "none"})
Reading == <<[kind |-> "CHECK", names |-> "read"]>>
Acting == <<[kind |-> "ACTION", names |-> "write"]>>

\* A structured article has steps, perhaps none; a prose one has none and names no template.
Articles == [steps: {<<>>, Reading, Acting}, template: BOOLEAN]
Contents == [steps: UNION {[1..n -> AnyStep] : n \in 0..MaxSteps}, template: BOOLEAN]
NoDraft == [origin |-> "none", edited |-> FALSE, content |-> [steps |-> <<>>, template |-> FALSE]]

TypeOK ==
    /\ article \in Articles /\ known \in BOOLEAN
    /\ stage \in {"read", "asked", "stored", "in_review"}
    /\ answer \in Seq(AnyStep) \cup {NoAnswer}
    /\ draft \in [origin: {"none", "ingested", "model_drafted"}, edited: BOOLEAN, content: Contents]

Init ==
    /\ article \in Articles /\ known \in BOOLEAN
    /\ stage = "read" /\ answer = NoAnswer /\ draft = NoDraft

-----------------------------------------------------------------------------
(* The model's answer.                                                     *)

\* Mutant: a model may name whatever is registered.
FitsAny(a) == \A n \in DOMAIN a : a[n].kind # "ACTION"

\* The schema of the task: kinds that change nothing, and capabilities that read.
Fits(a) == \A n \in DOMAIN a : a[n].kind # "ACTION" /\ a[n].names # "write"

\* Only a CHECK and a VERIFY keep what they call.
Converted(a) ==
    [n \in DOMAIN a |->
        IF a[n].kind \in {"CHECK", "VERIFY"} THEN a[n] ELSE [a[n] EXCEPT !.names = "none"]]

Answers == UNION {[1..n -> AnyStep] : n \in 0..MaxSteps}

\* A draft without steps is sent to a model, once for a revision, if there is one and it may.
Ask ==
    /\ stage = "read"
    /\ answer' \in {NoAnswer} \cup
          IF article.steps = <<>> /\ ~known THEN {Converted(a) : a \in {b \in Answers : Fits(b)}}
          ELSE {}
    /\ stage' = "asked"
    /\ UNCHANGED <<article, known, draft>>

-----------------------------------------------------------------------------
(* The draft.                                                              *)

\* What the validator says of a step's kind and of what it calls.
StepHolds(step) ==
    CASE step.kind \in {"CHECK", "VERIFY"} -> step.names = "read"
      [] step.kind = "ACTION" -> step.names = "write"
      [] OTHER -> step.names = "none"
Acts(content) == \E n \in DOMAIN content.steps : content.steps[n].kind = "ACTION"
Valid(content) ==
    /\ content.steps # <<>> /\ \A n \in DOMAIN content.steps : StepHolds(content.steps[n])
    /\ Acts(content) => content.template

\* Mutant: the article's change template stays.
AsMerged(content, steps) == [content EXCEPT !.steps = steps]

Merged(content, steps) == [content EXCEPT !.steps = steps, !.template = FALSE]

\* What the acceptance asks for besides.
ReadsOnly(content) == ~Acts(content) /\ \A n \in DOMAIN content.steps : content.steps[n].names # "write"

\* accept_model_draft; the graph, arguments and rules of the steps may hold or not.
Accepted == {c \in {Merged(article, a) : a \in {answer} \ {NoAnswer}} : Valid(c) /\ ReadsOnly(c)}

\* create_draft; a revision that was a draft before is left alone.
Store ==
    /\ stage = "asked" /\ ~known
    /\ \/ draft' = [NoDraft EXCEPT !.origin = "ingested", !.content = article]
       \/ \E c \in Accepted : draft' = [NoDraft EXCEPT !.origin = "model_drafted", !.content = c]
    /\ stage' = "stored"
    /\ UNCHANGED <<article, known, answer>>

\* A person adopts it with changes, or submits it; only what is valid goes into review.
Edit ==
    /\ stage = "stored"
    /\ \E c \in Articles : draft' = [draft EXCEPT !.content = c, !.edited = TRUE]
    /\ UNCHANGED <<article, known, stage, answer>>
Submit ==
    /\ stage = "stored" /\ Valid(draft.content)
    /\ stage' = "in_review"
    /\ UNCHANGED <<article, known, answer, draft>>

Next == Ask \/ Store \/ Edit \/ Submit

Spec == Init /\ [][Next]_vars

-----------------------------------------------------------------------------
\* A write comes from a person or from the article: what a model has drafted, submitted as it
\* stands, changes nothing and is not carried out under a change; and a draft that is not
\* marked has no step of a model's.
WritesAreWrittenByPeople ==
    LET asIs == draft.origin # "none" /\ ~draft.edited IN
    /\ asIs /\ draft.origin = "model_drafted" =>
          /\ ReadsOnly(draft.content) /\ ~draft.content.template
          /\ article.steps = <<>> /\ Valid(draft.content)
    /\ asIs /\ draft.origin = "ingested" => draft.content = article
=============================================================================
