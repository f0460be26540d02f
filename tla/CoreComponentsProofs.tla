------------------------ MODULE CoreComponentsProofs ------------------------
(***************************************************************************)
(* The inductive invariants of the components of CoreComponents.tla, each  *)
(* kept by every step of its component.  ComponentsProofs.tla carries them *)
(* over to the composition that TLC checks.                                *)
(***************************************************************************)
EXTENDS CoreComponents, TLAPS, FiniteSetTheorems, FunctionTheorems, SequenceTheorems,
        WellFoundedInduction

-----------------------------------------------------------------------------
(* The versions of an SOP.                                                 *)

Issued == {"published", "superseded", "retired"}
Open == {"none", "draft", "in_review", "approved"}

LRow == [status: L!Statuses, content: Content \cup {none}, hash: Content \cup {none},
         author: L!Actor \cup {none}, approver: Editor \cup {reviewer, none}, number: Nat]
LPublishing == [at: {"none", "locked", "looking", "superseding", "numbered"},
                old: SUBSET Version, number: Nat]

\* The types, but for the bound on the numbers.
LTypes ==
    /\ ver \in [Version -> LRow]
    /\ shown \in [Version -> SUBSET Content]
    /\ agreed \in [Version -> Content \cup {none}]
    /\ wrote \in [Version -> SUBSET L!Actor]
    /\ publishing \in [Version -> LPublishing]
    /\ retiring \in Version \cup {none}
    /\ run \in Version \cup {none}

\* The transaction that publishes v has o among the rows it supersedes.
Holds(v, o) == publishing[v].at \in {"superseding", "numbered"} /\ o \in publishing[v].old

\* What is held is published, and is held by one transaction.
HoldsPublished == \A v, o \in Version : Holds(v, o) => ver[o].status = "published"
HoldsApart == \A v, w, o \in Version : Holds(v, o) /\ Holds(w, o) => v = w

\* What is being published is approved.
OnlyApproved == \A v \in Version : publishing[v].at # "none" => ver[v].status = "approved"

\* A transaction has counted the next number, or the index has that number already.
NextNumber(n) ==
    /\ \A w \in Version : ver[w].number < n
    /\ \E w \in Version : ver[w].number = n - 1
CountedNext ==
    \A v \in Version :
        publishing[v].at = "numbered" =>
            /\ publishing[v].number > 0
            /\ \/ \E w \in Version : ver[w].number = publishing[v].number
               \/ NextNumber(publishing[v].number)

\* A version has no number before it is published.
Unnumbered == \A v \in Version : ver[v].status \in Open => ver[v].number = 0

\* A retirement and a run know a version that was published.
KnowIssued ==
    /\ retiring # none => ver[retiring].status \in Issued
    /\ run # none => ver[run].status \in Issued

\* Whoever wrote a version that is not approved yet is its author, or was the library.
AuthorWrote ==
    \A v \in Version :
        ver[v].status \in {"draft", "in_review"} => wrote[v] \subseteq {ver[v].author, library}

\* What is under review is what was submitted.
HashedAsSubmitted == \A v \in Version : ver[v].status = "in_review" => ver[v].hash = ver[v].content

\* What was approved is what its approver read, who did not write it.
AsRead(v) ==
    /\ ver[v].content = agreed[v] /\ ver[v].hash = agreed[v]
    /\ ver[v].approver \notin wrote[v] \cup {none}
FrozenAsRead == \A v \in Version : ver[v].status \in L!Frozen => AsRead(v)

LifecycleInv ==
    /\ LTypes
    /\ HoldsPublished /\ HoldsApart /\ OnlyApproved /\ CountedNext /\ Unnumbered /\ KnowIssued
    /\ AuthorWrote /\ HashedAsSubmitted /\ FrozenAsRead
    /\ L!NewestInForce

\* One seeded version is published at the start.
LEMMA LifecycleInit == L!Init => LifecycleInv
<1> SUFFICES ASSUME L!Init PROVE LifecycleInv
  OBVIOUS
<1> DEFINE s == [status |-> "published", content |-> L!Seed, hash |-> L!Seed,
                 author |-> library, approver |-> reviewer, number |-> 1]
<1>1. L!Seed \in Content
  BY LifecycleAssumption DEF L!Seed
<1>2. s \in LRow /\ L!Absent \in LRow
  BY <1>1 DEF LRow, L!Absent, L!Statuses, L!Actor
<1>3. /\ s.status = "published" /\ s.content = L!Seed /\ s.hash = L!Seed /\ s.approver = reviewer
      /\ s.number = 1
      /\ L!Absent.status = "none" /\ L!Absent.number = 0
  BY DEF L!Absent
<1>4. ver = [v \in Version |-> IF v = seeded THEN s ELSE L!Absent]
  BY DEF L!Init
<1> HIDE DEF s
<1>5. /\ shown = [v \in Version |-> {}]
      /\ agreed = [v \in Version |-> IF v = seeded THEN L!Seed ELSE none]
      /\ wrote = [v \in Version |-> IF v = seeded THEN {library} ELSE {}]
      /\ publishing = [v \in Version |-> L!NotPublishing]
      /\ retiring = none /\ run = none
  BY DEF L!Init
<1>6. L!NotPublishing \in LPublishing /\ L!NotPublishing.at = "none"
  BY DEF L!NotPublishing, LPublishing
<1>7. ver \in [Version -> LRow]
  BY <1>2, <1>4
<1>8. LTypes
  BY <1>1, <1>5, <1>6, <1>7 DEF LTypes, L!Actor
<1>9. \A v \in Version : ver[v] = IF v = seeded THEN s ELSE L!Absent
  BY <1>4
<1>10. \A v \in Version : publishing[v].at = "none"
  BY <1>5, <1>6
<1>11. HoldsPublished /\ HoldsApart /\ OnlyApproved /\ CountedNext
  BY <1>10 DEF HoldsPublished, HoldsApart, OnlyApproved, CountedNext, Holds
<1>12. Unnumbered /\ KnowIssued /\ AuthorWrote /\ HashedAsSubmitted
  BY <1>3, <1>5, <1>9 DEF Unnumbered, KnowIssued, AuthorWrote, HashedAsSubmitted, Open
<1>13. FrozenAsRead
  BY <1>3, <1>5, <1>9, LifecycleAssumption DEF FrozenAsRead, AsRead, L!Frozen
<1>14. L!NewestInForce
  BY <1>3, <1>9 DEF L!NewestInForce, L!Published
<1> QED
  BY <1>8, <1>11, <1>12, <1>13, <1>14 DEF LifecycleInv

\* A request that writes one version which is not approved yet.
LEMMA WritingStep ==
    ASSUME LifecycleInv, NEW v \in Version, ver[v].status \in {"none", "draft", "in_review"},
           NEW r \in LRow, r.status \in Open, r.number = 0,
           ver' = [ver EXCEPT ![v] = r],
           UNCHANGED <<publishing, retiring, run>>,
           shown' \in [Version -> SUBSET Content],
           agreed' \in [Version -> Content \cup {none}],
           wrote' \in [Version -> SUBSET L!Actor],
           \A w \in Version \ {v} : agreed'[w] = agreed[w] /\ wrote'[w] = wrote[w],
           r.status \in {"draft", "in_review"} => wrote'[v] \subseteq {r.author, library},
           r.status = "in_review" => r.hash = r.content,
           r.status = "approved" => /\ r.content = agreed'[v] /\ r.hash = agreed'[v]
                                    /\ r.approver \notin wrote'[v] \cup {none}
    PROVE  LifecycleInv'
<1> USE DEF LifecycleInv
<1>1. ver \in [Version -> LRow]
  BY DEF LTypes
<1>2. \A w \in Version : ver'[w] = IF w = v THEN r ELSE ver[w]
  BY <1>1
<1>3. ver' \in [Version -> LRow]
  BY <1>1
<1>4. LTypes'
  BY <1>3 DEF LTypes
<1>5. publishing[v].at = "none"
  BY DEF OnlyApproved
<1>6. ver[v].number = 0 /\ ver[v].status \notin Issued /\ r.status \notin Issued
  BY DEF Unnumbered, Open, Issued
<1>7. /\ \A w \in Version : ver'[w].number = ver[w].number
      /\ \A w \in Version : ver[w].status \in Issued => ver'[w].status = ver[w].status
      /\ \A w \in Version : ver'[w].status \in Issued => ver[w].status = ver'[w].status
      /\ \A w \in Version : publishing[w].at # "none" => ver'[w].status = ver[w].status
  BY <1>2, <1>5, <1>6
<1>8. HoldsPublished' /\ HoldsApart'
  BY <1>7 DEF HoldsPublished, HoldsApart, Holds, Issued
<1>9. OnlyApproved'
  BY <1>7 DEF OnlyApproved
<1>10. CountedNext'
  BY <1>7 DEF CountedNext, NextNumber
<1>11. Unnumbered'
  BY <1>2 DEF Unnumbered
<1>12. KnowIssued'
  BY <1>7 DEF KnowIssued, LTypes
<1>13. AuthorWrote' /\ HashedAsSubmitted'
  BY <1>2 DEF AuthorWrote, HashedAsSubmitted
<1>14. FrozenAsRead'
  <2> SUFFICES ASSUME NEW w \in Version, ver'[w].status \in L!Frozen PROVE AsRead(w)'
    BY DEF FrozenAsRead, L!Frozen
  <2>1. CASE w = v
    BY <1>2, <2>1 DEF AsRead, L!Frozen, Open
  <2>2. CASE w # v
    BY <1>2, <2>2 DEF FrozenAsRead, AsRead
  <2> QED
    BY <2>1, <2>2
<1>15. L!NewestInForce'
  <2>1. \A w \in Version : ver'[w].status = "published" => ver[w].status = "published"
    BY <1>7 DEF Issued
  <2> QED
    BY <1>7, <2>1 DEF L!NewestInForce, L!Published
<1> QED
  BY <1>4, <1>8, <1>9, <1>10, <1>11, <1>12, <1>13, <1>14, <1>15

\* A step of one transaction that publishes, which changes no row.
LEMMA PublishingStep ==
    ASSUME LifecycleInv, NEW v \in Version, NEW p \in LPublishing,
           publishing' = [publishing EXCEPT ![v] = p],
           UNCHANGED <<ver, shown, agreed, wrote, retiring, run>>,
           p.at # "none" => ver[v].status = "approved",
           p.at \in {"superseding", "numbered"} =>
               \A o \in p.old : ver[o].status = "published" /\ \A w \in Version \ {v} : ~Holds(w, o),
           p.at = "numbered" => /\ p.number > 0
                                /\ (\E w \in Version : ver[w].number = p.number) \/ NextNumber(p.number)
    PROVE  LifecycleInv'
<1> USE DEF LifecycleInv
<1>1. publishing \in [Version -> LPublishing]
  BY DEF LTypes
<1>2. \A w \in Version : publishing'[w] = IF w = v THEN p ELSE publishing[w]
  BY <1>1
<1>3. publishing' \in [Version -> LPublishing]
  BY <1>1
<1>4. LTypes'
  BY <1>3 DEF LTypes
<1>5. \A w, o \in Version : Holds(w, o)' <=> IF w = v THEN p.at \in {"superseding", "numbered"} /\ o \in p.old
                                             ELSE Holds(w, o)
  BY <1>2 DEF Holds
<1>6. HoldsPublished' /\ HoldsApart'
  BY <1>5 DEF HoldsPublished, HoldsApart
<1>7. OnlyApproved'
  BY <1>2 DEF OnlyApproved
<1>8. CountedNext'
  BY <1>2 DEF CountedNext, NextNumber
<1>9. Unnumbered' /\ KnowIssued' /\ AuthorWrote' /\ HashedAsSubmitted'
  BY DEF Unnumbered, KnowIssued, AuthorWrote, HashedAsSubmitted
<1>10. FrozenAsRead' /\ L!NewestInForce'
  BY DEF FrozenAsRead, AsRead, L!NewestInForce, L!Published
<1> QED
  BY <1>4, <1>6, <1>7, <1>8, <1>9, <1>10

\* A version is written, edited, discarded, submitted or sent back.
LEMMA LifecycleAuthoring ==
    ASSUME LifecycleInv, NEW v \in Version,
           \/ \E a \in L!Actor, c \in Content : L!CreateDraft(v, a, c)
           \/ \E a \in Editor, c \in Content : L!UpdateDraft(v, a, c)
           \/ L!Discard(v) \/ L!RequestChanges(v)
           \/ \E a \in Editor : L!Submit(v, a)
    PROVE  LifecycleInv'
<1>1. /\ ver \in [Version -> LRow] /\ shown \in [Version -> SUBSET Content]
      /\ agreed \in [Version -> Content \cup {none}] /\ wrote \in [Version -> SUBSET L!Actor]
  BY DEF LifecycleInv, LTypes
<1>2. ver[v] \in LRow
  BY <1>1
<1>3. \A a \in Editor : a \in L!Actor
  BY DEF L!Actor
<1>4. ASSUME NEW a \in L!Actor, NEW c \in Content, L!CreateDraft(v, a, c)
      PROVE  LifecycleInv'
  <2> DEFINE r == [L!Absent EXCEPT !.status = "draft", !.content = c, !.author = a]
  <2>1. r \in LRow /\ r.status = "draft" /\ r.number = 0 /\ r.author = a
    BY DEF L!Absent, LRow, L!Statuses
  <2>2. ver[v].status = "none" /\ ver' = [ver EXCEPT ![v] = r]
        /\ wrote' = [wrote EXCEPT ![v] = {a}] /\ shown' = [shown EXCEPT ![v] = {c}]
        /\ UNCHANGED <<agreed, publishing, retiring, run>>
    BY <1>4 DEF L!CreateDraft
  <2> HIDE DEF r
  <2>3. wrote' \in [Version -> SUBSET L!Actor] /\ shown' \in [Version -> SUBSET Content]
        /\ wrote'[v] = {a} /\ \A w \in Version \ {v} : wrote'[w] = wrote[w]
    BY <1>1, <2>2
  <2> QED
    BY <1>1, <2>1, <2>2, <2>3, WritingStep DEF Open
<1>5. ASSUME NEW a \in Editor, NEW c \in Content, L!UpdateDraft(v, a, c)
      PROVE  LifecycleInv'
  <2> DEFINE r == [ver[v] EXCEPT !.content = c, !.author = L!Adopted(v, a)]
  <2>1. ver[v].status = "draft" /\ ver[v].author \in {a, library}
        /\ wrote' = [wrote EXCEPT ![v] = @ \cup {a}] /\ shown' = [shown EXCEPT ![v] = @ \cup {c}]
        /\ UNCHANGED <<agreed, publishing, retiring, run>>
    BY <1>5 DEF L!UpdateDraft, L!MayWrite
  <2>2. ver' = [ver EXCEPT ![v] = r]
    BY <1>1, <1>5 DEF L!UpdateDraft
  <2>3. L!Adopted(v, a) = a
    BY <2>1 DEF L!Adopted
  <2>4. r \in LRow /\ r.status = "draft" /\ r.author = a /\ r.number = ver[v].number
    BY <1>2, <1>3, <2>1, <2>3 DEF LRow
  <2> HIDE DEF r
  <2>5. r.number = 0
    BY <2>1, <2>4 DEF LifecycleInv, Unnumbered, Open
  <2>6. wrote[v] \subseteq {a, library}
    BY <2>1 DEF LifecycleInv, AuthorWrote
  <2>7. wrote' \in [Version -> SUBSET L!Actor] /\ shown' \in [Version -> SUBSET Content]
        /\ wrote'[v] = wrote[v] \cup {a} /\ \A w \in Version \ {v} : wrote'[w] = wrote[w]
    BY <1>1, <1>3, <2>1
  <2> QED
    BY <1>1, <2>1, <2>2, <2>4, <2>5, <2>6, <2>7, WritingStep DEF Open
<1>6. CASE L!Discard(v)
  <2>1. ver[v].status = "draft" /\ ver' = [ver EXCEPT ![v] = L!Absent]
        /\ wrote' = [wrote EXCEPT ![v] = {}] /\ shown' = [shown EXCEPT ![v] = {}]
        /\ UNCHANGED <<agreed, publishing, retiring, run>>
    BY <1>6 DEF L!Discard
  <2>2. L!Absent \in LRow /\ L!Absent.status = "none" /\ L!Absent.number = 0
    BY DEF L!Absent, LRow, L!Statuses
  <2>3. wrote' \in [Version -> SUBSET L!Actor] /\ shown' \in [Version -> SUBSET Content]
        /\ \A w \in Version \ {v} : wrote'[w] = wrote[w]
    BY <1>1, <2>1
  <2> QED
    BY <1>1, <2>1, <2>2, <2>3, WritingStep DEF Open
<1>7. CASE L!RequestChanges(v)
  <2> DEFINE r == [ver[v] EXCEPT !.status = "draft"]
  <2>1. ver[v].status = "in_review" /\ UNCHANGED <<shown, agreed, wrote, publishing, retiring, run>>
    BY <1>7 DEF L!RequestChanges
  <2>2. ver' = [ver EXCEPT ![v] = r]
    BY <1>1, <1>7 DEF L!RequestChanges
  <2>3. r \in LRow /\ r.status = "draft" /\ r.author = ver[v].author /\ r.number = ver[v].number
    BY <1>2 DEF LRow, L!Statuses
  <2> HIDE DEF r
  <2>4. r.number = 0
    BY <2>1, <2>3 DEF LifecycleInv, Unnumbered, Open
  <2>5. wrote[v] \subseteq {r.author, library}
    BY <2>1, <2>3 DEF LifecycleInv, AuthorWrote
  <2> QED
    BY <1>1, <2>1, <2>2, <2>3, <2>4, <2>5, WritingStep DEF Open
<1>8. ASSUME NEW a \in Editor, L!Submit(v, a)
      PROVE  LifecycleInv'
  <2> DEFINE r == [ver[v] EXCEPT !.status = "in_review", !.hash = ver[v].content,
                                 !.author = L!Adopted(v, a)]
  <2>1. ver[v].status = "draft" /\ ver[v].author \in {a, library}
        /\ wrote' = [wrote EXCEPT ![v] = @ \cup {a}]
        /\ UNCHANGED <<shown, agreed, publishing, retiring, run>>
    BY <1>8 DEF L!Submit, L!MayWrite
  <2>2. ver' = [ver EXCEPT ![v] = r]
    BY <1>1, <1>8 DEF L!Submit
  <2>3. L!Adopted(v, a) = a
    BY <2>1 DEF L!Adopted
  <2>4. r \in LRow /\ r.status = "in_review" /\ r.author = a /\ r.number = ver[v].number
        /\ r.hash = r.content
    BY <1>2, <1>3, <2>3 DEF LRow, L!Statuses
  <2> HIDE DEF r
  <2>5. r.number = 0
    BY <2>1, <2>4 DEF LifecycleInv, Unnumbered, Open
  <2>6. wrote[v] \subseteq {a, library}
    BY <2>1 DEF LifecycleInv, AuthorWrote
  <2>7. wrote' \in [Version -> SUBSET L!Actor]
        /\ wrote'[v] = wrote[v] \cup {a} /\ \A w \in Version \ {v} : wrote'[w] = wrote[w]
    BY <1>1, <1>3, <2>1
  <2> QED
    BY <1>1, <2>1, <2>2, <2>4, <2>5, <2>6, <2>7, WritingStep DEF Open
<1> QED
  BY <1>4, <1>5, <1>6, <1>7, <1>8

\* A second person approves what that person read and what was submitted.
LEMMA LifecycleApproving ==
    ASSUME LifecycleInv, NEW v \in Version, NEW a \in Editor, NEW h \in Content, L!Approve(v, a, h)
    PROVE  LifecycleInv'
<1>1. /\ ver \in [Version -> LRow] /\ shown \in [Version -> SUBSET Content]
      /\ agreed \in [Version -> Content \cup {none}] /\ wrote \in [Version -> SUBSET L!Actor]
  BY DEF LifecycleInv, LTypes
<1>2. ver[v] \in LRow
  BY <1>1
<1> DEFINE r == [ver[v] EXCEPT !.status = "approved", !.approver = a]
<1>3. ver[v].status = "in_review" /\ ver[v].author # a /\ h = ver[v].hash
      /\ agreed' = [agreed EXCEPT ![v] = h]
      /\ UNCHANGED <<shown, wrote, publishing, retiring, run>>
  BY DEF L!Approve, L!ReadIsStored
<1>4. ver' = [ver EXCEPT ![v] = r]
  BY <1>1 DEF L!Approve
<1>5. r \in LRow /\ r.status = "approved" /\ r.approver = a /\ r.number = ver[v].number
      /\ r.content = ver[v].content /\ r.hash = ver[v].hash
  BY <1>2 DEF LRow, L!Statuses
<1> HIDE DEF r
<1>6. r.number = 0 /\ ver[v].hash = ver[v].content
  BY <1>3, <1>5 DEF LifecycleInv, Unnumbered, Open, HashedAsSubmitted
<1>7. a \notin wrote[v] \cup {none}
  <2>1. wrote[v] \subseteq {ver[v].author, library}
    BY <1>3 DEF LifecycleInv, AuthorWrote
  <2>2. a # library /\ a # none
    BY LifecycleAssumption
  <2> QED
    BY <1>3, <2>1, <2>2
<1>8. agreed' \in [Version -> Content \cup {none}] /\ agreed'[v] = h
      /\ \A w \in Version \ {v} : agreed'[w] = agreed[w]
  BY <1>1, <1>3
<1>9. /\ r.content = agreed'[v] /\ r.hash = agreed'[v] /\ r.approver \notin wrote'[v] \cup {none}
      /\ shown' \in [Version -> SUBSET Content] /\ wrote' \in [Version -> SUBSET L!Actor]
      /\ \A w \in Version \ {v} : agreed'[w] = agreed[w] /\ wrote'[w] = wrote[w]
      /\ UNCHANGED <<publishing, retiring, run>>
  BY <1>1, <1>3, <1>5, <1>6, <1>7, <1>8
<1>10. r.status \in Open /\ ~(r.status \in {"draft", "in_review"}) /\ r.status # "in_review"
  BY <1>5 DEF Open
<1> QED
  BY <1>3, <1>4, <1>5, <1>6, <1>8, <1>9, <1>10, WritingStep

\* A function to the naturals has a greatest value on a finite set.
LEMMA Greatest ==
    ASSUME NEW S, IsFiniteSet(S), S # {}, NEW f \in [S -> Nat]
    PROVE  \E m \in S : \A w \in S : f[w] <= f[m]
<1> DEFINE Above(v) == {w \in S : f[w] > f[v]}
           Sets == {Above(v) : v \in S}
<1>1. IsWellFoundedOn(StrictSubsetOrdering(S), FiniteSubsetsOf(S)) /\ FiniteSubsetsOf(S) = SUBSET S
  BY FS_StrictSubsetOrderingWellFounded, FS_FiniteSubsetsOfFinite
<1>2. Sets \subseteq SUBSET S
  OBVIOUS
<1>3. Sets # {}
  <2>1. PICK v \in S : TRUE
    OBVIOUS
  <2>2. Above(v) \in Sets
    OBVIOUS
  <2> QED
    BY <2>2
<1> HIDE DEF Sets
<1>4. PICK x \in Sets : \A y \in Sets : ~(<<y, x>> \in StrictSubsetOrdering(S))
  BY <1>1, <1>2, <1>3, WFMin
<1>5. PICK m \in S : x = Above(m)
  BY DEF Sets
<1>6. ASSUME NEW w \in S, ~(f[w] <= f[m]) PROVE FALSE
  <2>1. w \in Above(m) /\ f[w] \in Nat /\ f[m] \in Nat
    BY <1>6
  <2>2. Above(w) \subseteq Above(m) /\ w \notin Above(w)
    BY <2>1
  <2>3. Above(w) \in Sets /\ Above(w) \in SUBSET S /\ Above(m) \in SUBSET S
    BY DEF Sets
  <2> HIDE DEF Above
  <2>4. <<Above(w), Above(m)>> \in StrictSubsetOrdering(S)
    BY <2>1, <2>2, <2>3 DEF StrictSubsetOrdering
  <2> QED
    BY <1>4, <1>5, <2>3, <2>4
<1> QED
  BY <1>6

\* The number after the latest one is the next number.
LEMMA LatestIsNext ==
    ASSUME LifecycleInv
    PROVE  L!Latest \in Nat /\ NextNumber(L!Latest + 1)
<1> DEFINE f == [v \in Version |-> ver[v].number]
           Numbers == {ver[v].number : v \in Version}
<1>1. f \in [Version -> Nat] /\ \A v \in Version : f[v] = ver[v].number /\ ver[v].number \in Nat
  BY DEF LifecycleInv, LTypes, LRow
<1> HIDE DEF f
<1>2. IsFiniteSet(Version) /\ Version # {}
  BY LifecycleAssumption
<1>3. PICK m \in Version : \A w \in Version : f[w] <= f[m]
  BY <1>1, <1>2, Greatest
<1>4. ver[m].number \in Numbers /\ \A v \in Version : ver[v].number <= ver[m].number
  BY <1>1, <1>3
<1>5. L!Latest \in Numbers /\ \A v \in Version : ver[v].number <= L!Latest
  BY <1>4 DEF L!Latest
<1>6. PICK l \in Version : ver[l].number = L!Latest
  BY <1>5
<1>7. L!Latest \in Nat
  BY <1>1, <1>6
<1> QED
  BY <1>1, <1>5, <1>6, <1>7 DEF NextNumber

\* The statements of publishing before the last one.
LEMMA LifecyclePublishing ==
    ASSUME LifecycleInv, NEW v \in Version,
           L!LockVersion(v) \/ L!FindPublished(v) \/ L!Supersede(v) \/ L!Number(v) \/ L!RollBack(v)
    PROVE  LifecycleInv'
<1>1. publishing \in [Version -> LPublishing] /\ ver \in [Version -> LRow]
  BY DEF LifecycleInv, LTypes
<1>2. publishing[v] \in LPublishing /\ L!Published \subseteq Version
  BY <1>1 DEF L!Published
<1>3. UNCHANGED <<ver, shown, agreed, wrote, retiring, run>>
  BY DEF L!LockVersion, L!FindPublished, L!Supersede, L!Number, L!RollBack, L!OnlyPublishing
<1>4. publishing[v].at # "none" => ver[v].status = "approved"
  BY DEF LifecycleInv, OnlyApproved
<1>5. CASE L!LockVersion(v)
  <2> DEFINE p == [L!NotPublishing EXCEPT !.at = "locked"]
  <2>1. p \in LPublishing /\ p.at = "locked"
    BY DEF L!NotPublishing, LPublishing
  <2>2. publishing' = [publishing EXCEPT ![v] = p] /\ ver[v].status = "approved"
    BY <1>5 DEF L!LockVersion, L!SetPublishing
  <2> HIDE DEF p
  <2> QED
    BY <1>3, <2>1, <2>2, PublishingStep
<1>6. CASE L!FindPublished(v)
  <2> DEFINE p == [publishing[v] EXCEPT !.at = "looking", !.old = L!Published]
  <2>1. p \in LPublishing /\ p.at = "looking"
    BY <1>2 DEF LPublishing
  <2>2. publishing' = [publishing EXCEPT ![v] = p] /\ ver[v].status = "approved"
    BY <1>4, <1>6 DEF L!FindPublished, L!SetPublishing
  <2> HIDE DEF p
  <2> QED
    BY <1>3, <2>1, <2>2, PublishingStep
<1>7. CASE L!Supersede(v)
  <2> DEFINE p == [publishing[v] EXCEPT !.at = "superseding", !.old = @ \cap L!Published]
  <2>1. p \in LPublishing /\ p.at = "superseding" /\ p.old = publishing[v].old \cap L!Published
    BY <1>2 DEF LPublishing
  <2>2. publishing' = [publishing EXCEPT ![v] = p] /\ ver[v].status = "approved"
        /\ \A o \in publishing[v].old : ~L!Held(o)
    BY <1>4, <1>7 DEF L!Supersede, L!SetPublishing
  <2> HIDE DEF p
  <2>3. \A o \in p.old : ver[o].status = "published" /\ \A w \in Version \ {v} : ~Holds(w, o)
    BY <2>1, <2>2 DEF L!Published, L!Held, Holds
  <2> QED
    BY <1>3, <2>1, <2>2, <2>3, PublishingStep
<1>8. CASE L!Number(v)
  <2> DEFINE n == L!Latest + 1
             p == [publishing[v] EXCEPT !.at = "numbered", !.number = n]
  <2>1. n \in Nat /\ n > 0 /\ NextNumber(n)
    BY LatestIsNext
  <2>2. publishing' = [publishing EXCEPT ![v] = p] /\ ver[v].status = "approved"
        /\ publishing[v].at = "superseding"
    BY <1>4, <1>8 DEF L!Number, L!SetPublishing
  <2> HIDE DEF n
  <2>3. p \in LPublishing /\ p.at = "numbered" /\ p.old = publishing[v].old /\ p.number = n
    BY <1>2, <2>1 DEF LPublishing
  <2> HIDE DEF p
  <2>4. ASSUME NEW o \in p.old
        PROVE  ver[o].status = "published" /\ \A w \in Version \ {v} : ~Holds(w, o)
    <3>1. o \in Version /\ Holds(v, o)
      BY <1>2, <2>3, <2>2 DEF Holds, LPublishing
    <3> QED
      BY <3>1 DEF LifecycleInv, HoldsPublished, HoldsApart
  <2>5. p.number > 0 /\ NextNumber(p.number)
    BY <2>1, <2>3
  <2> QED
    BY <1>3, <2>3, <2>2, <2>4, <2>5, PublishingStep
<1>9. CASE L!RollBack(v)
  <2>1. L!NotPublishing \in LPublishing /\ L!NotPublishing.at = "none"
    BY DEF L!NotPublishing, LPublishing
  <2>2. publishing' = [publishing EXCEPT ![v] = L!NotPublishing]
    BY <1>9 DEF L!RollBack, L!SetPublishing
  <2> QED
    BY <1>3, <2>1, <2>2, PublishingStep
<1> QED
  BY <1>5, <1>6, <1>7, <1>8, <1>9

\* The last statement of publishing: nothing else stays published, and no number is greater.
LEMMA LifecycleCommit ==
    ASSUME LifecycleInv, NEW v \in Version, L!Commit(v)
    PROVE  LifecycleInv'
<1> USE DEF LifecycleInv
<1> DEFINE p == publishing[v]
           n == p.number
           r == [ver[v] EXCEPT !.status = "published", !.number = n]
           s(w) == [ver[w] EXCEPT !.status = "superseded"]
<1>1. ver \in [Version -> LRow] /\ publishing \in [Version -> LPublishing]
      /\ p \in LPublishing /\ n \in Nat /\ p.old \subseteq Version
  BY DEF LTypes, LPublishing
<1>2. \A w \in Version : ver[w] \in LRow /\ ver[w].number \in Nat
  BY <1>1 DEF LRow
<1>3. /\ p.at = "numbered" /\ ~L!BreaksAnIndex(v)
      /\ publishing' = [publishing EXCEPT ![v] = L!NotPublishing]
      /\ UNCHANGED <<shown, agreed, wrote, retiring, run>>
  BY DEF L!Commit, L!SetPublishing
<1>4. ver[v].status = "approved" /\ ver[v].number = 0 /\ n > 0
  BY <1>3 DEF OnlyApproved, Unnumbered, Open, CountedNext
<1>5. \A o \in Version : ver[o].status = "published" <=> o \in p.old
  <2>1. \A o \in p.old : Holds(v, o)
    BY <1>3 DEF Holds
  <2>2. \A o \in p.old : ver[o].status = "published"
    BY <1>1, <2>1 DEF HoldsPublished
  <2>3. L!Published \subseteq p.old
    BY <1>3 DEF L!BreaksAnIndex
  <2> QED
    BY <2>2, <2>3 DEF L!Published
<1>6. v \notin p.old
  BY <1>4, <1>5
<1>7. ver' = [w \in Version |-> IF w = v THEN r ELSE IF w \in p.old THEN s(w) ELSE ver[w]]
  <2>1. ver' = [w \in Version |-> CASE w = v -> r [] w \in p.old -> s(w) [] OTHER -> ver[w]]
    BY Zenon DEF L!Commit
  <2>2. \A w \in Version : (CASE w = v -> r [] w \in p.old -> s(w) [] OTHER -> ver[w])
                             = IF w = v THEN r ELSE IF w \in p.old THEN s(w) ELSE ver[w]
    <3> HIDE DEF r, s
    <3> QED
      BY <1>6
  <2> HIDE DEF r, s
  <2> QED
    BY <2>1, <2>2
<1>8. NextNumber(n)
  <2>1. \A w \in Version \ {v} : ver[w].number # n
    BY <1>3 DEF L!BreaksAnIndex
  <2> QED
    BY <1>3, <1>4, <2>1 DEF CountedNext
<1>9. r \in LRow /\ r.status = "published" /\ r.number = n /\ r.content = ver[v].content
      /\ r.hash = ver[v].hash /\ r.author = ver[v].author /\ r.approver = ver[v].approver
  <2> HIDE DEF n
  <2> QED
    BY <1>1, <1>2 DEF LRow, L!Statuses
<1>10. \A w \in Version :
          /\ s(w) \in LRow /\ s(w).status = "superseded" /\ s(w).number = ver[w].number
          /\ s(w).content = ver[w].content /\ s(w).hash = ver[w].hash
          /\ s(w).author = ver[w].author /\ s(w).approver = ver[w].approver
  BY <1>2 DEF LRow, L!Statuses
<1> HIDE DEF r, s, n, p
<1>11. ver' \in [Version -> LRow]
  BY <1>2, <1>7, <1>9, <1>10
<1>12. \A w \in Version :
          /\ ver'[w].number = IF w = v THEN n ELSE ver[w].number
          /\ ver'[w].status = IF w = v THEN "published"
                              ELSE IF w \in p.old THEN "superseded" ELSE ver[w].status
          /\ ver'[w].content = ver[w].content /\ ver'[w].hash = ver[w].hash
          /\ ver'[w].author = ver[w].author /\ ver'[w].approver = ver[w].approver
  BY <1>7, <1>9, <1>10
<1>13. L!NotPublishing \in LPublishing /\ L!NotPublishing.at = "none"
  BY DEF L!NotPublishing, LPublishing
<1>14. publishing' \in [Version -> LPublishing]
       /\ \A w \in Version : publishing'[w] = IF w = v THEN L!NotPublishing ELSE publishing[w]
  BY <1>1, <1>3, <1>13
<1>15. LTypes'
  BY <1>3, <1>11, <1>14 DEF LTypes
<1>16. \A w, o \in Version : ~Holds(w, o)'
  <2> SUFFICES ASSUME NEW w \in Version, NEW o \in Version, Holds(w, o)' PROVE FALSE
    OBVIOUS
  <2>1. w # v /\ Holds(w, o)
    BY <1>13, <1>14 DEF Holds
  <2>2. ver[o].status = "published"
    BY <2>1 DEF HoldsPublished
  <2>3. Holds(v, o)
    BY <1>3, <1>5, <2>2 DEF Holds, p
  <2> QED
    BY <2>1, <2>3 DEF HoldsApart
<1>17. HoldsPublished' /\ HoldsApart'
  BY <1>16 DEF HoldsPublished, HoldsApart
<1>18. OnlyApproved'
  <2> SUFFICES ASSUME NEW w \in Version, publishing'[w].at # "none" PROVE ver'[w].status = "approved"
    BY DEF OnlyApproved
  <2>1. w # v /\ ver[w].status = "approved"
    BY <1>13, <1>14 DEF OnlyApproved
  <2>2. w \notin p.old
    BY <1>5, <2>1
  <2> QED
    BY <1>12, <2>1, <2>2
<1>19. CountedNext'
  <2> SUFFICES ASSUME NEW w \in Version, publishing'[w].at = "numbered"
               PROVE  /\ publishing'[w].number > 0
                      /\ \E x \in Version : ver'[x].number = publishing'[w].number
    BY DEF CountedNext
  <2> DEFINE m == publishing[w].number
  <2>1. w # v /\ publishing'[w] = publishing[w]
    BY <1>13, <1>14
  <2>2. m > 0 /\ m \in Nat /\ ((\E x \in Version : ver[x].number = m) \/ NextNumber(m))
    BY <1>1, <2>1 DEF CountedNext, LPublishing
  <2> HIDE DEF m
  <2>3. CASE \E x \in Version : ver[x].number = m
    <3>1. PICK x \in Version : ver[x].number = m
      BY <2>3
    <3>2. x # v
      BY <1>4, <2>2, <3>1
    <3>3. ver'[x].number = m
      BY <1>12, <3>1, <3>2
    <3> QED
      BY <2>1, <2>2, <3>3 DEF m
  <2>4. CASE NextNumber(m)
    <3>1. PICK x \in Version : ver[x].number = m - 1
      BY <2>4 DEF NextNumber
    <3>2. PICK y \in Version : ver[y].number = n - 1
      BY <1>8 DEF NextNumber
    <3>3. ver[x].number < n /\ ver[y].number < m
      BY <1>8, <2>4 DEF NextNumber
    <3>4. n \in Nat
      BY <1>1 DEF n, p
    <3>5. m = n
      BY <2>2, <3>1, <3>2, <3>3, <3>4
    <3>6. ver'[v].number = m
      BY <1>12, <3>5
    <3> QED
      BY <2>1, <2>2, <3>6 DEF m
  <2> QED
    BY <2>2, <2>3, <2>4
<1>20. Unnumbered'
  BY <1>12 DEF Unnumbered, Open
<1>21. KnowIssued'
  BY <1>3, <1>12 DEF KnowIssued, Issued, LTypes
<1>22. AuthorWrote' /\ HashedAsSubmitted'
  BY <1>3, <1>12 DEF AuthorWrote, HashedAsSubmitted
<1>23. FrozenAsRead'
  <2> SUFFICES ASSUME NEW w \in Version, ver'[w].status \in L!Frozen PROVE AsRead(w)'
    BY DEF FrozenAsRead, L!Frozen
  <2>1. ver[w].status \in L!Frozen
    BY <1>4, <1>5, <1>12 DEF L!Frozen
  <2>2. AsRead(w)
    BY <2>1 DEF FrozenAsRead
  <2> QED
    BY <1>3, <1>12, <2>2 DEF AsRead
<1>24. L!NewestInForce'
  <2>1. \A w \in Version : ver'[w].status = "published" => w = v
    BY <1>5, <1>12
  <2>2. \A w \in Version \ {v} : ver'[w].number < ver'[v].number
    BY <1>8, <1>12 DEF NextNumber
  <2> QED
    BY <2>1, <2>2 DEF L!NewestInForce, L!Published
<1> QED
  BY <1>15, <1>17, <1>18, <1>19, <1>20, <1>21, <1>22, <1>23, <1>24

\* What a retirement has read was published, and is not held by a publication.
LEMMA LifecycleRetire ==
    ASSUME LifecycleInv, L!Retire
    PROVE  LifecycleInv'
<1> USE DEF LifecycleInv
<1> DEFINE r == [ver[retiring] EXCEPT !.status = "retired"]
<1>1. ver \in [Version -> LRow] /\ retiring \in Version /\ ver[retiring].status \in Issued
  BY DEF LTypes, L!Retire, KnowIssued
<1>2. ~L!Held(retiring) /\ retiring' = none /\ UNCHANGED <<shown, agreed, wrote, publishing, run>>
  BY DEF L!Retire
<1>3. ver' = [ver EXCEPT ![retiring] = r]
  BY <1>1 DEF L!Retire
<1>4. r \in LRow /\ r.status = "retired" /\ r.number = ver[retiring].number
      /\ r.content = ver[retiring].content /\ r.hash = ver[retiring].hash
      /\ r.author = ver[retiring].author /\ r.approver = ver[retiring].approver
  BY <1>1 DEF LRow, L!Statuses
<1> HIDE DEF r
<1>5. ver' \in [Version -> LRow]
  BY <1>1, <1>3, <1>4
<1>6. \A w \in Version :
         /\ ver'[w].number = ver[w].number
         /\ ver'[w].status = IF w = retiring THEN "retired" ELSE ver[w].status
         /\ ver'[w].content = ver[w].content /\ ver'[w].hash = ver[w].hash
         /\ ver'[w].author = ver[w].author /\ ver'[w].approver = ver[w].approver
  BY <1>1, <1>3, <1>4
<1>7. LTypes'
  BY <1>2, <1>5 DEF LTypes
<1>8. publishing[retiring].at = "none" /\ \A w \in Version : ~Holds(w, retiring)
  BY <1>2 DEF L!Held, Holds
<1>9. HoldsPublished' /\ HoldsApart'
  BY <1>2, <1>6, <1>8 DEF HoldsPublished, HoldsApart, Holds
<1>10. OnlyApproved'
  BY <1>2, <1>6, <1>8 DEF OnlyApproved
<1>11. CountedNext'
  BY <1>2, <1>6 DEF CountedNext, NextNumber
<1>12. Unnumbered'
  BY <1>6 DEF Unnumbered, Open
<1>13. KnowIssued'
  BY <1>2, <1>6 DEF KnowIssued, Issued, LTypes
<1>14. AuthorWrote' /\ HashedAsSubmitted'
  BY <1>2, <1>6 DEF AuthorWrote, HashedAsSubmitted
<1>15. FrozenAsRead'
  <2> SUFFICES ASSUME NEW w \in Version, ver'[w].status \in L!Frozen PROVE AsRead(w)'
    BY DEF FrozenAsRead, L!Frozen
  <2>1. ver[w].status \in L!Frozen
    BY <1>1, <1>6 DEF L!Frozen, Issued
  <2>2. AsRead(w)
    BY <2>1 DEF FrozenAsRead
  <2> QED
    BY <1>2, <1>6, <2>2 DEF AsRead
<1>16. L!NewestInForce'
  BY <1>6 DEF L!NewestInForce, L!Published
<1> QED
  BY <1>7, <1>9, <1>10, <1>11, <1>12, <1>13, <1>14, <1>15, <1>16

\* A retirement or a run reads which version is published; a run that goes on finds one that was.
LEMMA LifecycleReading ==
    ASSUME LifecycleInv, L!FindToRetire \/ L!StartRun \/ L!ResumeRun
    PROVE  LifecycleInv'
<1> USE DEF LifecycleInv
<1>1. UNCHANGED <<ver, shown, agreed, wrote, publishing>>
  BY DEF L!FindToRetire, L!StartRun, L!ResumeRun
<1>2. none \notin Version
  BY LifecycleAssumption
<1>3. /\ retiring' = retiring \/ (retiring' \in Version /\ ver[retiring'].status \in Issued)
      /\ run' = run \/ run' = none \/ (run' \in Version /\ ver[run'].status \in Issued)
  <2>1. CASE L!FindToRetire
    BY <2>1 DEF L!FindToRetire, L!Published, Issued
  <2>2. CASE L!StartRun
    BY <2>2 DEF L!StartRun, L!Published, Issued
  <2>3. CASE L!ResumeRun
    BY <2>3 DEF L!ResumeRun, L!ForResume, Issued
  <2> QED
    BY <2>1, <2>2, <2>3
<1>4. LTypes'
  BY <1>1, <1>3 DEF LTypes
<1>5. KnowIssued'
  BY <1>1, <1>3 DEF KnowIssued
<1>6. HoldsPublished' /\ HoldsApart' /\ OnlyApproved' /\ CountedNext' /\ Unnumbered'
  BY <1>1 DEF HoldsPublished, HoldsApart, Holds, OnlyApproved, CountedNext, NextNumber, Unnumbered
<1>7. AuthorWrote' /\ HashedAsSubmitted' /\ FrozenAsRead' /\ L!NewestInForce'
  BY <1>1 DEF AuthorWrote, HashedAsSubmitted, FrozenAsRead, AsRead, L!NewestInForce, L!Published
<1> QED
  BY <1>4, <1>5, <1>6, <1>7

\* Every step of the lifecycle keeps the invariant.
LEMMA LifecycleStep == LifecycleInv /\ L!Next => LifecycleInv'
BY LifecycleAuthoring, LifecycleApproving, LifecyclePublishing, LifecycleCommit, LifecycleRetire,
   LifecycleReading DEF L!Next

LEMMA LifecycleStays == ASSUME LifecycleInv, UNCHANGED lifecycleVars PROVE LifecycleInv'
BY DEF lifecycleVars, LifecycleInv, LTypes, HoldsPublished, HoldsApart, Holds,
   OnlyApproved, CountedNext, NextNumber, Unnumbered, KnowIssued, AuthorWrote,
   HashedAsSubmitted, FrozenAsRead, AsRead, L!NewestInForce, L!Published

\* What was approved, or is run, is what was read.
LEMMA RunIsApproved == LifecycleInv => L!ApprovedAsRead
<1> SUFFICES ASSUME LifecycleInv, NEW v \in Version, ver[v].status \in L!Frozen \/ run = v
             PROVE  AsRead(v)
  BY DEF L!ApprovedAsRead, AsRead
<1>1. v # none
  BY LifecycleAssumption
<1>2. ver[v].status \in L!Frozen
  BY <1>1 DEF LifecycleInv, KnowIssued, Issued, L!Frozen
<1> QED
  BY <1>2 DEF LifecycleInv, FrozenAsRead

-----------------------------------------------------------------------------
(* The budgets of the models.                                              *)

\* The component counts with the standard module.
LEMMA SameCardinality == \A S : G!Cardinality(S) = Cardinality(S)
BY DEF G!Cardinality, Cardinality, G!IsFiniteSet, IsFiniteSet

\* Multiples of the size of a request.
LEMMA Multiples ==
    ASSUME NEW k \in Nat, NEW n \in Nat, k <= n
    PROVE  /\ k * Needed \in Nat /\ n * Needed \in Nat /\ k * Needed <= n * Needed
           /\ (n - 1) * Needed = n * Needed - Needed
           /\ (n + 1) * Needed = n * Needed + Needed
<1>1. Needed \in Nat
  BY BudgetAssumption
<1>2. PICK d \in Nat : n = k + d
  <2>1. n - k \in Nat /\ n = k + (n - k)
    OBVIOUS
  <2> QED
    BY <2>1
<1>3. n * Needed = k * Needed + d * Needed /\ k * Needed \in Nat /\ d * Needed \in Nat
  BY <1>1, <1>2
<1>4. (n - 1) * Needed = n * Needed - Needed /\ (n + 1) * Needed = n * Needed + Needed
  BY <1>1
<1> QED
  BY <1>3, <1>4

\* What was spent and what the requests F of S under way may still cost pass a budget by the
\* requests beside one at most.
Fits(F, S, spent, budget) ==
    spent + Cardinality(F) * Needed <= budget + (Cardinality(S) - 1) * Needed

InFlight(S) == {x \in S : asking[x] = "sent"}
OfRun(s) == {s} \X Attempt
OfAll == G!Scope \X Attempt

BudgetInv ==
    /\ policy \in G!Policies
    /\ asking \in [OfAll -> {"idle", "sent", "over_budget"}]
    /\ tokens \in [Advised -> Nat] /\ today \in Nat /\ over \subseteq Advised
    /\ \A s \in Advised : Fits(InFlight(OfRun(s)), OfRun(s), tokens[s], Incident)
    /\ Fits(InFlight(OfAll), OfAll, today, Daily)

LEMMA ScopesAreFinite ==
    /\ IsFiniteSet(OfAll) /\ OfAll # {} /\ OfAll = G!Scope \X Attempt
    /\ \A s \in G!Scope : /\ IsFiniteSet(OfRun(s)) /\ OfRun(s) # {} /\ OfRun(s) \subseteq OfAll
                          /\ Cardinality(OfRun(s)) = Cardinality(Attempt)
<1>1. IsFiniteSet(Advised) /\ IsFiniteSet(Attempt) /\ Attempt # {}
  BY BudgetAssumption
<1>2. IsFiniteSet(G!Scope)
  <2>1. G!Scope = Advised \cup {drafting}
    BY DEF G!Scope
  <2> QED
    BY <1>1, <2>1, FS_AddElement
<1>3. IsFiniteSet(OfAll)
  BY <1>1, <1>2, FS_Product DEF OfAll
<1>4. drafting \in G!Scope
  BY DEF G!Scope
<1>5. OfAll # {}
  <2>1. PICK a \in Attempt : TRUE
    BY <1>1
  <2>2. <<drafting, a>> \in OfAll
    BY <1>4 DEF OfAll
  <2> QED
    BY <2>2
<1>6. ASSUME NEW s \in G!Scope
      PROVE  /\ IsFiniteSet(OfRun(s)) /\ OfRun(s) # {} /\ OfRun(s) \subseteq OfAll
             /\ Cardinality(OfRun(s)) = Cardinality(Attempt)
  <2>1. IsFiniteSet({s}) /\ Cardinality({s}) = 1
    BY FS_Singleton
  <2>2. IsFiniteSet(OfRun(s)) /\ Cardinality(OfRun(s)) = 1 * Cardinality(Attempt)
    BY <1>1, <2>1, FS_Product DEF OfRun
  <2>3. Cardinality(Attempt) \in Nat
    BY <1>1, FS_CardinalityType
  <2>4. PICK a \in Attempt : TRUE
    BY <1>1
  <2>5. <<s, a>> \in OfRun(s)
    BY DEF OfRun
  <2>6. OfRun(s) \subseteq OfAll
    BY DEF OfRun, OfAll
  <2> QED
    BY <2>2, <2>3, <2>5, <2>6
<1> QED
  BY <1>3, <1>5, <1>6 DEF OfAll

\* The requests under way are counted among all of them.
LEMMA Counts ==
    ASSUME NEW S, IsFiniteSet(S), NEW F \in SUBSET S
    PROVE  /\ IsFiniteSet(F) /\ Cardinality(F) \in Nat /\ Cardinality(S) \in Nat
           /\ Cardinality(F) <= Cardinality(S)
           /\ \A x \in S \ F : Cardinality(F \cup {x}) = Cardinality(F) + 1
                               /\ Cardinality(F) + 1 <= Cardinality(S)
           /\ \A x \in F : Cardinality(F \ {x}) = Cardinality(F) - 1 /\ Cardinality(F) - 1 \in Nat
<1>1. IsFiniteSet(F) /\ Cardinality(F) <= Cardinality(S)
  BY FS_Subset
<1>2. Cardinality(F) \in Nat /\ Cardinality(S) \in Nat
  BY <1>1, FS_CardinalityType
<1>3. ASSUME NEW x \in S \ F
      PROVE  Cardinality(F \cup {x}) = Cardinality(F) + 1 /\ Cardinality(F) + 1 <= Cardinality(S)
  <2>1. Cardinality(F \cup {x}) = Cardinality(F) + 1
    BY <1>1, FS_AddElement
  <2>2. F \cup {x} \in SUBSET S
    OBVIOUS
  <2>3. Cardinality(F \cup {x}) <= Cardinality(S)
    BY <2>2, FS_Subset
  <2> QED
    BY <2>1, <2>3
<1>4. ASSUME NEW x \in F
      PROVE  Cardinality(F \ {x}) = Cardinality(F) - 1 /\ Cardinality(F) - 1 \in Nat
  <2>1. IsFiniteSet(F \ {x}) /\ Cardinality(F \ {x}) = Cardinality(F) - 1
    BY <1>1, FS_RemoveElement
  <2> QED
    BY <2>1, FS_CardinalityType
<1> QED
  BY <1>1, <1>2, <1>3, <1>4

\* What fits is within the budget and the requests beside one.
LEMMA FitsBounds ==
    ASSUME NEW S, IsFiniteSet(S), NEW F \in SUBSET S, NEW spent \in Nat, NEW budget \in Nat,
           Fits(F, S, spent, budget)
    PROVE  spent <= budget + (Cardinality(S) - 1) * Needed
<1>1. Cardinality(F) \in Nat /\ Cardinality(S) \in Nat
  BY Counts
<1>2. Cardinality(F) * Needed \in Nat /\ Cardinality(S) * Needed \in Nat
      /\ (Cardinality(S) - 1) * Needed = Cardinality(S) * Needed - Needed
  BY <1>1, Multiples
<1> QED
  BY <1>2, BudgetAssumption DEF Fits

\* A request that the budget still allows is let through.
LEMMA FitsAsked ==
    ASSUME NEW S, IsFiniteSet(S), NEW F \in SUBSET S, NEW x \in S \ F,
           NEW spent \in Nat, NEW budget \in Nat, spent + Needed <= budget
    PROVE  Fits(F \cup {x}, S, spent, budget)
<1>1. Cardinality(F) \in Nat /\ Cardinality(S) \in Nat
      /\ Cardinality(F \cup {x}) = Cardinality(F) + 1 /\ Cardinality(F) + 1 <= Cardinality(S)
  BY Counts
<1>2. (Cardinality(F) + 1) * Needed <= Cardinality(S) * Needed
      /\ (Cardinality(F) + 1) * Needed \in Nat /\ Cardinality(S) * Needed \in Nat
      /\ (Cardinality(S) - 1) * Needed = Cardinality(S) * Needed - Needed
  BY <1>1, Multiples
<1> QED
  BY <1>1, <1>2, BudgetAssumption DEF Fits

\* A request that is not counted leaves room.
LEMMA FitsFewer ==
    ASSUME NEW S, IsFiniteSet(S), NEW F \in SUBSET S, NEW x,
           NEW spent \in Nat, NEW budget \in Nat, Fits(F, S, spent, budget)
    PROVE  Fits(F \ {x}, S, spent, budget)
<1>1. CASE x \notin F
  <2>1. F \ {x} = F
    BY <1>1
  <2> QED
    BY <2>1
<1>2. CASE x \in F
  <2>1. Cardinality(F) \in Nat /\ Cardinality(S) \in Nat
        /\ Cardinality(F \ {x}) = Cardinality(F) - 1 /\ Cardinality(F) - 1 \in Nat
    BY <1>2, Counts
  <2>2. (Cardinality(F) - 1) * Needed = Cardinality(F) * Needed - Needed
        /\ Cardinality(F) * Needed \in Nat /\ Cardinality(S) * Needed \in Nat
        /\ (Cardinality(S) - 1) * Needed = Cardinality(S) * Needed - Needed
    BY <2>1, Multiples
  <2> QED
    BY <2>1, <2>2, BudgetAssumption DEF Fits
<1> QED
  BY <1>1, <1>2

\* A request costs what it was checked for at most.
LEMMA FitsCharged ==
    ASSUME NEW S, IsFiniteSet(S), NEW F \in SUBSET S, NEW x \in F, NEW spent \in Nat,
           NEW budget \in Nat, Fits(F, S, spent, budget), NEW charge \in Nat, charge <= Needed
    PROVE  Fits(F \ {x}, S, spent + charge, budget)
<1>1. Cardinality(F) \in Nat /\ Cardinality(S) \in Nat
      /\ Cardinality(F \ {x}) = Cardinality(F) - 1 /\ Cardinality(F) - 1 \in Nat
  BY Counts
<1>2. (Cardinality(F) - 1) * Needed = Cardinality(F) * Needed - Needed
      /\ Cardinality(F) * Needed \in Nat /\ Cardinality(S) * Needed \in Nat
      /\ (Cardinality(S) - 1) * Needed = Cardinality(S) * Needed - Needed
  BY <1>1, Multiples
<1> QED
  BY <1>1, <1>2, BudgetAssumption DEF Fits

\* Nothing is under way at the start.
LEMMA BudgetInit == G!Init => BudgetInv
<1> SUFFICES ASSUME G!Init PROVE BudgetInv
  OBVIOUS
<1>1. policy \in G!Policies /\ asking \in [OfAll -> {"idle", "sent", "over_budget"}]
      /\ tokens \in [Advised -> Nat] /\ today \in Nat /\ over \subseteq Advised
  BY DEF G!Init, G!Policies, OfAll
<1>2. \A S : S \subseteq OfAll => InFlight(S) = {}
  BY DEF G!Init, InFlight, OfAll
<1>3. ASSUME NEW S \in SUBSET OfAll, IsFiniteSet(S), S # {}, NEW budget \in Nat
      PROVE  Fits(InFlight(S), S, 0, budget)
  <2>1. InFlight(S) = {} /\ Cardinality({}) = 0
    BY <1>2, FS_EmptySet
  <2>2. Cardinality(S) \in Nat /\ Cardinality(S) # 0
    BY <1>3, FS_EmptySet, FS_CardinalityType
  <2>3. (Cardinality(S) - 1) * Needed \in Nat
    BY <2>2, Multiples, BudgetAssumption
  <2> QED
    BY <2>1, <2>3, BudgetAssumption DEF Fits
<1>4. \A s \in Advised : s \in G!Scope /\ tokens[s] = 0
  BY DEF G!Init, G!Scope
<1>5. today = 0
  BY DEF G!Init
<1>6. Incident \in Nat /\ Daily \in Nat
  BY BudgetAssumption
<1>7. Fits(InFlight(OfAll), OfAll, today, Daily)
  <2>1. IsFiniteSet(OfAll) /\ OfAll # {} /\ OfAll \in SUBSET OfAll
    BY ScopesAreFinite
  <2> QED
    BY <1>3, <1>5, <1>6, <2>1
<1>8. ASSUME NEW s \in Advised PROVE Fits(InFlight(OfRun(s)), OfRun(s), tokens[s], Incident)
  <2>1. IsFiniteSet(OfRun(s)) /\ OfRun(s) # {} /\ OfRun(s) \in SUBSET OfAll
    BY <1>4, ScopesAreFinite
  <2> QED
    BY <1>3, <1>4, <1>6, <2>1
<1> QED
  BY <1>1, <1>7, <1>8 DEF BudgetInv

\* Which requests are under way after one of them moved.
LEMMA InFlightMoves ==
    ASSUME BudgetInv, NEW x \in OfAll, NEW to \in {"idle", "sent", "over_budget"},
           asking' = [asking EXCEPT ![x] = to], NEW S \in SUBSET OfAll
    PROVE  /\ asking' \in [OfAll -> {"idle", "sent", "over_budget"}]
           /\ InFlight(S)' = IF x \in S /\ to = "sent" THEN InFlight(S) \cup {x} ELSE InFlight(S) \ {x}
           /\ InFlight(S) \subseteq S
<1>1. asking \in [OfAll -> {"idle", "sent", "over_budget"}]
  BY DEF BudgetInv
<1>2. \A y \in OfAll : asking'[y] = IF y = x THEN to ELSE asking[y]
  BY <1>1
<1> QED
  BY <1>1, <1>2 DEF InFlight

\* A new policy changes no request, and a new day only forgets.
LEMMA BudgetOutside ==
    ASSUME BudgetInv, G!SetPolicy \/ G!NewDay
    PROVE  BudgetInv'
<1>1. asking' = asking /\ tokens' = tokens /\ over' = over /\ (today' = today \/ today' = 0)
      /\ policy' \in G!Policies
  BY DEF BudgetInv, G!SetPolicy, G!NewDay
<1>2. \A S : InFlight(S)' = InFlight(S)
  BY <1>1 DEF InFlight
<1>3. Fits(InFlight(OfAll), OfAll, today', Daily)
  <2>1. today \in Nat /\ Fits(InFlight(OfAll), OfAll, today, Daily)
    BY DEF BudgetInv
  <2>2. InFlight(OfAll) \in SUBSET OfAll
    BY DEF InFlight
  <2>3. Cardinality(InFlight(OfAll)) \in Nat /\ Cardinality(OfAll) \in Nat
    BY <2>2, Counts, ScopesAreFinite
  <2>4. Cardinality(InFlight(OfAll)) * Needed \in Nat /\ Cardinality(OfAll) * Needed \in Nat
        /\ (Cardinality(OfAll) - 1) * Needed = Cardinality(OfAll) * Needed - Needed
    BY <2>3, Multiples
  <2> QED
    BY <1>1, <2>1, <2>4, BudgetAssumption DEF Fits
<1>4. \A s \in Advised : Fits(InFlight(OfRun(s)), OfRun(s), tokens[s], Incident)
  BY DEF BudgetInv
<1> QED
  BY <1>1, <1>2, <1>3, <1>4 DEF BudgetInv, OfRun, OfAll

\* A request is let through, refused, recorded or lost.
LEMMA BudgetRequests ==
    ASSUME BudgetInv, NEW s \in G!Scope, NEW a \in Attempt,
           G!Ask(s, a) \/ G!RecordStop(s, a) \/ G!Record(s, a) \/ G!LoseRecord(s, a)
    PROVE  BudgetInv'
<1> DEFINE x == <<s, a>>
<1>1. x \in OfAll /\ x \in OfRun(s) /\ \A r : x \in OfRun(r) => r = s
  BY DEF OfAll, OfRun
<1>2. policy' = policy /\ policy \in G!Policies /\ over' \subseteq Advised
  BY DEF BudgetInv, G!Ask, G!RecordStop, G!Record, G!LoseRecord
<1>3. /\ \A r \in Advised : /\ tokens[r] \in Nat /\ r \in G!Scope /\ OfRun(r) \in SUBSET OfAll
                            /\ IsFiniteSet(OfRun(r))
                            /\ Fits(InFlight(OfRun(r)), OfRun(r), tokens[r], Incident)
      /\ today \in Nat /\ Fits(InFlight(OfAll), OfAll, today, Daily) /\ IsFiniteSet(OfAll)
      /\ tokens \in [Advised -> Nat] /\ Incident \in Nat /\ Daily \in Nat
  BY ScopesAreFinite, BudgetAssumption DEF BudgetInv, G!Scope
<1> HIDE DEF x
<1>4. \A S \in SUBSET OfAll : InFlight(S) \in SUBSET S
  BY DEF InFlight
<1>5. SUFFICES /\ asking' \in [OfAll -> {"idle", "sent", "over_budget"}]
               /\ tokens' \in [Advised -> Nat] /\ today' \in Nat
               /\ \A r \in Advised : Fits(InFlight(OfRun(r))', OfRun(r), tokens'[r], Incident)
               /\ Fits(InFlight(OfAll)', OfAll, today', Daily)
  BY <1>2, <1>5 DEF BudgetInv, OfRun, OfAll
<1>6. CASE asking' = [asking EXCEPT ![x] = "sent"] /\ tokens' = tokens /\ today' = today
           /\ asking[x] = "idle" /\ today + Needed <= policy.daily
           /\ (s \in Advised => tokens[s] + Needed <= policy.incident)
  <2>1. policy.incident <= Incident /\ policy.daily <= Daily
        /\ policy.incident \in Nat /\ policy.daily \in Nat
    BY <1>2, BudgetAssumption DEF G!Policies
  <2>2. today + Needed <= Daily /\ (s \in Advised => tokens[s] + Needed <= Incident)
    BY <1>3, <1>6, <2>1, BudgetAssumption
  <2>3. \A S \in SUBSET OfAll :
           InFlight(S)' = (IF x \in S THEN InFlight(S) \cup {x} ELSE InFlight(S)) /\ x \notin InFlight(S)
    <3> SUFFICES ASSUME NEW S \in SUBSET OfAll
                 PROVE  /\ InFlight(S)' = IF x \in S THEN InFlight(S) \cup {x} ELSE InFlight(S)
                        /\ x \notin InFlight(S)
      OBVIOUS
    <3>1. x \notin InFlight(S)
      BY <1>6 DEF InFlight
    <3>2. InFlight(S)' = IF x \in S THEN InFlight(S) \cup {x} ELSE InFlight(S) \ {x}
      BY <1>1, <1>6, InFlightMoves
    <3>3. InFlight(S) \ {x} = InFlight(S)
      BY <3>1
    <3> QED
      BY <3>1, <3>2, <3>3
  <2>4. asking' \in [OfAll -> {"idle", "sent", "over_budget"}]
    BY <1>1, <1>6, InFlightMoves
  <2>5. Fits(InFlight(OfAll) \cup {x}, OfAll, today, Daily)
    BY <1>1, <1>3, <1>4, <2>2, <2>3, FitsAsked
  <2>6. ASSUME NEW r \in Advised
        PROVE  Fits(InFlight(OfRun(r))', OfRun(r), tokens[r], Incident)
    <3>1. CASE r = s
      <4>1. Fits(InFlight(OfRun(r)) \cup {x}, OfRun(r), tokens[r], Incident)
        BY <1>1, <1>3, <1>4, <2>2, <2>3, <3>1, FitsAsked
      <4> QED
        BY <4>1, <1>1, <1>3, <2>3, <3>1
    <3>2. CASE r # s
      BY <1>1, <1>3, <2>3, <3>2
    <3> QED
      BY <3>1, <3>2
  <2> QED
    BY <1>1, <1>3, <1>6, <2>3, <2>4, <2>5, <2>6
<1>7. CASE (asking' = [asking EXCEPT ![x] = "idle"] \/ asking' = [asking EXCEPT ![x] = "over_budget"])
           /\ tokens' = tokens /\ today' = today
  <2>1. asking' \in [OfAll -> {"idle", "sent", "over_budget"}]
    BY <1>1, <1>7, InFlightMoves
  <2>2. \A S \in SUBSET OfAll : InFlight(S)' = InFlight(S) \ {x}
    BY <1>1, <1>7, InFlightMoves
  <2>3. Fits(InFlight(OfAll) \ {x}, OfAll, today, Daily)
    BY <1>3, <1>4, FitsFewer
  <2>4. \A r \in Advised : Fits(InFlight(OfRun(r)) \ {x}, OfRun(r), tokens[r], Incident)
    BY <1>3, <1>4, FitsFewer
  <2> QED
    BY <1>3, <1>7, <2>1, <2>2, <2>3, <2>4
<1>8. CASE G!Record(s, a)
  <2>1. asking[x] = "sent" /\ asking' = [asking EXCEPT ![x] = "idle"]
    BY <1>8 DEF G!Record, x
  <2>2. PICK charge \in G!Charges :
          /\ tokens' = [r \in Advised |-> tokens[r] + IF r = s THEN charge ELSE 0]
          /\ today' = today + charge
    BY <1>8 DEF G!Record
  <2>3. charge \in Nat /\ charge <= Needed
    BY BudgetAssumption DEF G!Charges
  <2>4. asking' \in [OfAll -> {"idle", "sent", "over_budget"}]
        /\ \A S \in SUBSET OfAll : InFlight(S)' = InFlight(S) \ {x}
    BY <1>1, <2>1, InFlightMoves
  <2>5. x \in InFlight(OfAll) /\ \A S : x \in S => x \in InFlight(S)
    BY <1>1, <2>1 DEF InFlight
  <2>6. tokens' \in [Advised -> Nat] /\ today' \in Nat
        /\ \A r \in Advised : tokens'[r] = IF r = s THEN tokens[r] + charge ELSE tokens[r]
    BY <1>3, <2>2, <2>3
  <2>7. Fits(InFlight(OfAll) \ {x}, OfAll, today + charge, Daily)
    BY <1>3, <1>4, <2>3, <2>5, FitsCharged
  <2>8. ASSUME NEW r \in Advised
        PROVE  Fits(InFlight(OfRun(r)) \ {x}, OfRun(r), tokens'[r], Incident)
    <3>1. CASE r = s
      <4>1. x \in InFlight(OfRun(r))
        BY <1>1, <2>5, <3>1
      <4>2. Fits(InFlight(OfRun(r)) \ {x}, OfRun(r), tokens[r] + charge, Incident)
        BY <1>3, <1>4, <2>3, <4>1, FitsCharged
      <4> QED
        BY <2>6, <3>1, <4>2
    <3>2. CASE r # s
      BY <1>3, <1>4, <2>6, <3>2, FitsFewer
    <3> QED
      BY <3>1, <3>2
  <2> QED
    BY <1>3, <2>2, <2>4, <2>6, <2>7, <2>8
<1>9. CASE G!Ask(s, a)
  <2>1. asking[x] = "idle" /\ tokens' = tokens /\ today' = today
        /\ asking' = [asking EXCEPT ![x] = IF G!Exceeds(s) THEN "over_budget" ELSE "sent"]
    BY <1>9 DEF G!Ask, x
  <2>2. CASE G!Exceeds(s)
    BY <1>7, <2>1, <2>2
  <2>3. CASE ~G!Exceeds(s)
    <3>1. ~(today + Needed > policy.daily) /\ (s \in Advised => ~(tokens[s] + Needed > policy.incident))
      BY <2>3 DEF G!Exceeds
    <3>2. policy.incident \in Nat /\ policy.daily \in Nat /\ Needed \in Nat
      BY <1>2, BudgetAssumption DEF G!Policies
    <3>3. today + Needed <= policy.daily /\ (s \in Advised => tokens[s] + Needed <= policy.incident)
      BY <1>3, <3>1, <3>2
    <3> QED
      BY <1>6, <2>1, <2>3, <3>3
  <2> QED
    BY <2>2, <2>3
<1>10. CASE G!RecordStop(s, a) \/ G!LoseRecord(s, a)
  BY <1>7, <1>10 DEF G!RecordStop, G!LoseRecord, x
<1> QED
  BY <1>8, <1>9, <1>10

\* Every step of the gateway keeps the invariant.
LEMMA BudgetStep == BudgetInv /\ G!Next => BudgetInv'
BY BudgetOutside, BudgetRequests DEF G!Next

LEMMA BudgetStays == ASSUME BudgetInv, UNCHANGED gatewayVars PROVE BudgetInv'
BY DEF gatewayVars, BudgetInv, InFlight, Fits, OfRun, OfAll

\* What the invariant says of the records.
LEMMA BudgetWithin == BudgetInv => G!WithinBudget
<1> SUFFICES ASSUME BudgetInv PROVE G!WithinBudget
  OBVIOUS
<1>1. \A S : InFlight(S) \in SUBSET S
  BY DEF InFlight
<1>2. today <= Daily + (Cardinality(OfAll) - 1) * Needed
  BY <1>1, ScopesAreFinite, FitsBounds, BudgetAssumption DEF BudgetInv
<1>3. ASSUME NEW s \in Advised PROVE tokens[s] <= Incident + (Cardinality(Attempt) - 1) * Needed
  <2>1. s \in G!Scope
    BY DEF G!Scope
  <2>2. IsFiniteSet(OfRun(s)) /\ Cardinality(OfRun(s)) = Cardinality(Attempt)
    BY <2>1, ScopesAreFinite
  <2>3. tokens[s] \in Nat /\ Fits(InFlight(OfRun(s)), OfRun(s), tokens[s], Incident) /\ Incident \in Nat
    BY BudgetAssumption DEF BudgetInv
  <2>4. tokens[s] <= Incident + (Cardinality(OfRun(s)) - 1) * Needed
    BY <1>1, <2>2, <2>3, FitsBounds
  <2> QED
    BY <2>2, <2>4
<1> QED
  BY <1>2, <1>3, SameCardinality DEF G!WithinBudget, OfAll

\* A run whose budget was reached sends nothing more.
LEMMA StoppedStays ==
    ASSUME BudgetInv, G!Next, NEW s \in over, NEW a \in Attempt, asking[<<s, a>>] = "idle"
    PROVE  asking'[<<s, a>>] = "idle"
<1>1. asking \in [OfAll -> {"idle", "sent", "over_budget"}] /\ s \in G!Scope
  BY DEF BudgetInv, G!Scope
<1>2. <<s, a>> \in OfAll
  BY <1>1 DEF OfAll
<1>3. CASE G!SetPolicy \/ G!NewDay
  BY <1>3 DEF G!SetPolicy, G!NewDay
<1>4. ASSUME NEW r \in G!Scope, NEW b \in Attempt,
             G!Ask(r, b) \/ G!RecordStop(r, b) \/ G!Record(r, b) \/ G!LoseRecord(r, b)
      PROVE  asking'[<<s, a>>] = "idle"
  <2>1. CASE G!Ask(r, b)
    <3>1. r # s
      BY <2>1 DEF G!Ask, G!Stopped
    <3>2. <<r, b>> # <<s, a>>
      BY <3>1
    <3> QED
      BY <1>1, <1>2, <2>1, <3>2 DEF G!Ask
  <2>2. CASE asking' = [asking EXCEPT ![<<r, b>>] = "idle"]
    BY <1>1, <1>2, <2>2
  <2> QED
    BY <1>4, <2>1, <2>2 DEF G!RecordStop, G!Record, G!LoseRecord
<1> QED
  BY <1>3, <1>4 DEF G!Next

-----------------------------------------------------------------------------
(* A runner.                                                               *)

\* A call that will not be accepted again by this process.
Spent(c) == c \in received \/ Envelope[c].expires <= second

\* A call that was made, and the grant it was made by, are not accepted again.
MadeIsSpent == \A m \in made : Spent(m.call) /\ (m.grant # none => m.grant \in redeemed)

\* A call that waits for a connector to close was accepted and not made.
WaitingIsUnmade ==
    \A c \in RunnerCall :
        closing[c] = "closing" => Spent(c) /\ M!MayRead(c) /\ \A m \in made : m.call # c

RunnerInv ==
    /\ M!TypeOK /\ MadeIsSpent /\ WaitingIsUnmade
    /\ M!MadeOnce /\ M!MadeAsSent /\ M!StopIsHeard

Made == [call: RunnerCall, settings: M!Settings, grant: M!Grants, stopped: BOOLEAN, nth: 1..2]

\* A process starts without calls.
LEMMA RunnerInit == M!Init => RunnerInv
<1> SUFFICES ASSUME M!Init PROVE RunnerInv
  OBVIOUS
<1>1. second \in 0..MaxTime /\ life \in 1..MaxLives
  BY RunnerAssumption DEF M!Init
<1>2. switch = FALSE /\ received = {} /\ redeemed = {} /\ connector = none /\ made = {}
      /\ closing = [c \in RunnerCall |-> "idle"]
  BY DEF M!Init
<1>3. M!TypeOK
  BY <1>1, <1>2 DEF M!TypeOK, M!Settings
<1> QED
  BY <1>2, <1>3 DEF RunnerInv, MadeIsSpent, WaitingIsUnmade, M!MadeOnce, M!MadeAsSent, M!StopIsHeard

\* Time passes, and a call leaves the table only when it has expired.
LEMMA SpentStays ==
    ASSUME M!TypeOK, second' \in Nat, second <= second',
           received \subseteq received' \/ M!Kept \subseteq received',
           NEW c \in RunnerCall, Spent(c)
    PROVE  Spent(c)'
<1>1. second \in Nat /\ Envelope[c].expires \in Nat
  BY RunnerAssumption DEF M!TypeOK
<1>2. CASE Envelope[c].expires <= second
  BY <1>1, <1>2 DEF Spent
<1>3. CASE ~(Envelope[c].expires <= second)
  <2>1. c \in received /\ Envelope[c].expires > second
    BY <1>1, <1>3 DEF Spent
  <2>2. c \in received'
    BY <2>1 DEF M!Kept
  <2> QED
    BY <2>2 DEF Spent
<1> QED
  BY <1>2, <1>3

\* A call that was not made yet is made, by a grant that was not used yet, or is refused.
LEMMA RunnerMakes ==
    ASSUME RunnerInv, NEW c \in RunnerCall, \A m \in made : m.call # c, M!MayRead(c),
           switch' = switch,
           UNCHANGED <<redeemed, made>> \/ (M!Invoke(c) /\ connector' = M!ToUse(c))
    PROVE  /\ redeemed \subseteq redeemed' /\ redeemed' \subseteq DOMAIN Grant
           /\ made' \subseteq Made
           /\ \A m \in made' : m \in made \/ m.call = c
           /\ \A m \in made' : m.grant # none => m.grant \in redeemed'
           /\ M!MadeOnce' /\ M!MadeAsSent' /\ M!StopIsHeard'
<1> USE DEF RunnerInv
<1>1. redeemed \subseteq DOMAIN Grant /\ made \subseteq Made /\ switch \in BOOLEAN
  BY DEF M!TypeOK, Made
<1>2. CASE UNCHANGED <<redeemed, made>>
  BY <1>1, <1>2 DEF MadeIsSpent, M!MadeOnce, M!MadeAsSent, M!StopIsHeard
<1>3. CASE M!Invoke(c) /\ connector' = M!ToUse(c) /\ ~(UNCHANGED <<redeemed, made>>)
  <2>1. PICK g \in M!Grants :
          /\ made' = made \cup {[call |-> c, settings |-> connector', grant |-> g,
                                 stopped |-> switch, nth |-> M!Nth(c)]}
          /\ redeemed' = redeemed \cup ({g} \ {none})
          /\ g # none => g \notin redeemed
          /\ M!IsWrite(c) => ~switch
    <3>1. CASE M!IsWrite(c)
      <4>1. M!NotStopped /\ M!Good(c) /\ redeemed' = redeemed \cup {Envelope[c].grant}
            /\ M!Made(c, Envelope[c].grant)
        BY <1>3, <3>1 DEF M!Invoke
      <4>2. Envelope[c].grant \in M!Grants
        BY RunnerAssumption DEF M!Grants
      <4>3. Envelope[c].grant # none /\ Envelope[c].grant \notin redeemed
        BY <4>1 DEF M!Good
      <4> QED
        BY <4>1, <4>2, <4>3 DEF M!Made, M!NotStopped
    <3>2. CASE ~M!IsWrite(c)
      <4>1. M!Made(c, none) /\ redeemed' = redeemed
        BY <1>3, <3>2 DEF M!Invoke
      <4>2. none \in M!Grants /\ {none} \ {none} = {}
        BY DEF M!Grants
      <4> QED
        BY <3>2, <4>1, <4>2 DEF M!Made
    <3> QED
      BY <3>1, <3>2
  <2>2. M!Nth(c) = 1
    BY DEF M!Nth
  <2>3. connector' \in M!Settings
    BY <1>3 DEF M!Settings, M!ToUse
  <2> DEFINE new == [call |-> c, settings |-> connector', grant |-> g, stopped |-> switch, nth |-> 1]
  <2>4. made' = made \cup {new}
    BY <2>1, <2>2
  <2>5. new \in Made /\ new.call = c /\ new.settings = M!ToUse(c) /\ new.grant = g
        /\ new.stopped = switch /\ new.nth = 1
    BY <1>1, <1>3, <2>3 DEF Made
  <2> HIDE DEF new
  <2>6. redeemed \subseteq redeemed' /\ redeemed' \subseteq DOMAIN Grant
    BY <1>1, <2>1 DEF M!Grants
  <2>7. \A m \in made' : m.grant # none => m.grant \in redeemed'
    BY <2>1, <2>4, <2>5 DEF MadeIsSpent
  <2>8. M!MadeOnce'
    <3>1. \A m \in made' : m.nth = 1
      BY <2>4, <2>5 DEF M!MadeOnce
    <3>2. ASSUME NEW m \in made', NEW n \in made', m # n, m.grant # none PROVE m.grant # n.grant
      BY <3>2, <2>1, <2>4, <2>5 DEF M!MadeOnce, MadeIsSpent
    <3> QED
      BY <3>1, <3>2 DEF M!MadeOnce
  <2>9. M!MadeAsSent' /\ M!StopIsHeard'
    <3>1. Local # none \/ M!ToUse(c) \in Inside
      BY DEF M!MayRead, M!ToUse
    <3> QED
      BY <2>1, <2>4, <2>5, <3>1 DEF M!MadeAsSent, M!StopIsHeard
  <2> QED
    BY <1>1, <2>4, <2>5, <2>6, <2>7, <2>8, <2>9
<1> QED
  BY <1>2, <1>3

\* The clock, the switch, and a new process that has made nothing.
LEMMA RunnerOutside ==
    ASSUME RunnerInv, M!Tick \/ M!Throw \/ M!Restart
    PROVE  RunnerInv'
<1> USE DEF RunnerInv
<1>1. second \in 0..MaxTime /\ life \in 1..MaxLives /\ switch \in BOOLEAN
  BY DEF M!TypeOK
<1>2. CASE M!Tick
  <2>1. UNCHANGED <<life, switch, received, redeemed, connector, closing, made>>
    BY <1>2 DEF M!Tick
  <2>2. second' \in 0..MaxTime /\ second' \in Nat /\ second <= second'
    BY <1>1, <1>2, RunnerAssumption DEF M!Tick
  <2>3. M!TypeOK'
    BY <2>1, <2>2 DEF M!TypeOK
  <2>4. \A c \in RunnerCall : Spent(c) => Spent(c)'
    BY <2>1, <2>2, SpentStays
  <2>5. MadeIsSpent' /\ WaitingIsUnmade'
    BY <2>1, <2>4 DEF MadeIsSpent, WaitingIsUnmade, M!TypeOK, M!MayRead
  <2> QED
    BY <2>1, <2>3, <2>5 DEF M!MadeOnce, M!MadeAsSent, M!StopIsHeard
<1>3. CASE M!Throw
  <2>1. UNCHANGED <<second, life, received, redeemed, connector, closing, made>>
    BY <1>3 DEF M!Throw
  <2>2. switch' \in BOOLEAN
    BY <1>3, Zenon DEF M!Throw
  <2>3. M!TypeOK'
    BY <2>1, <2>2 DEF M!TypeOK
  <2> QED
    BY <2>1, <2>3 DEF MadeIsSpent, WaitingIsUnmade, Spent, M!MayRead, M!MadeOnce, M!MadeAsSent,
       M!StopIsHeard
<1>4. CASE M!Restart
  <2>1. UNCHANGED <<second, switch>> /\ received' = {} /\ redeemed' = {} /\ connector' = none
        /\ made' = {} /\ closing' = [c \in RunnerCall |-> "idle"]
    BY <1>4 DEF M!Restart
  <2>2. life' \in 1..MaxLives
    BY <1>1, <1>4, RunnerAssumption DEF M!Restart
  <2>3. M!TypeOK'
    BY <1>1, <2>1, <2>2 DEF M!TypeOK, M!Settings
  <2> QED
    BY <2>1, <2>3 DEF MadeIsSpent, WaitingIsUnmade, M!MadeOnce, M!MadeAsSent, M!StopIsHeard
<1> QED
  BY <1>2, <1>3, <1>4

\* A call is accepted once, and made, refused or left waiting.
LEMMA RunnerReceives ==
    ASSUME RunnerInv, NEW c \in RunnerCall, NEW under \in RunnerCall, NEW signed \in BOOLEAN,
           M!Receive(c, signed, under)
    PROVE  RunnerInv'
<1> USE DEF RunnerInv
<1>1. /\ UNCHANGED <<second, life, switch>>
      /\ second < Envelope[c].expires /\ c \notin received /\ received' = M!Noted(c)
      /\ closing[c] = "idle"
  BY DEF M!Receive
<1>2. second \in Nat /\ second \in 0..MaxTime /\ Envelope[c].expires \in Nat /\ received \subseteq RunnerCall
      /\ connector \in M!Settings /\ closing \in [RunnerCall -> {"idle", "closing"}]
  BY RunnerAssumption DEF M!TypeOK
<1>3. ~Spent(c) /\ \A m \in made : m.call # c
  BY <1>1, <1>2 DEF Spent, MadeIsSpent
<1>4. c \in received' /\ received' \subseteq RunnerCall
      /\ (received \subseteq received' \/ M!Kept \subseteq received')
  BY <1>1, <1>2 DEF M!Noted, M!Kept
<1>5. \A d \in RunnerCall : Spent(d) => Spent(d)'
  BY <1>1, <1>2, <1>4, SpentStays
<1>6. Spent(c)'
  BY <1>4 DEF Spent
<1>7. /\ M!WithinCeiling(c) \/ (UNCHANGED <<connector, redeemed, made, closing>>)
      /\ \/ UNCHANGED <<redeemed, made, connector>>
         \/ M!MayRead(c) /\ M!Invoke(c) /\ connector' = M!ToUse(c)
      /\ \/ closing' = closing
         \/ M!MayRead(c) /\ UNCHANGED <<redeemed, made>> /\ closing' = [closing EXCEPT ![c] = "closing"]
  <2>1. CASE ~M!WithinCeiling(c)
    BY <2>1 DEF M!Receive
  <2>2. CASE M!WithinCeiling(c)
    <3>1. M!MayRead(c)
      BY <2>2 DEF M!WithinCeiling
    <3> QED
      BY <2>2, <3>1 DEF M!Receive, M!Build, M!HeldFor
  <2> QED
    BY <2>1, <2>2
<1>8. /\ redeemed \subseteq redeemed' /\ redeemed' \subseteq DOMAIN Grant
      /\ made' \subseteq Made
      /\ \A m \in made' : m \in made \/ m.call = c
      /\ \A m \in made' : m.grant # none => m.grant \in redeemed'
      /\ M!MadeOnce' /\ M!MadeAsSent' /\ M!StopIsHeard'
  <2>1. CASE UNCHANGED <<redeemed, made, connector>>
    BY <2>1 DEF M!TypeOK, Made, MadeIsSpent, M!MadeOnce, M!MadeAsSent, M!StopIsHeard
  <2>2. CASE M!MayRead(c) /\ M!Invoke(c) /\ connector' = M!ToUse(c)
    BY <1>1, <1>3, <2>2, RunnerMakes
  <2> QED
    BY <1>7, <2>1, <2>2
<1>9. connector' \in M!Settings /\ closing' \in [RunnerCall -> {"idle", "closing"}]
  BY <1>2, <1>7 DEF M!Settings, M!ToUse
<1>10. M!TypeOK'
  BY <1>1, <1>4, <1>8, <1>9 DEF M!TypeOK, Made
<1>11. MadeIsSpent'
  BY <1>5, <1>6, <1>8 DEF MadeIsSpent, M!TypeOK, Made
<1>12. WaitingIsUnmade'
  <2> SUFFICES ASSUME NEW d \in RunnerCall, closing'[d] = "closing"
               PROVE  Spent(d)' /\ M!MayRead(d)' /\ \A m \in made' : m.call # d
    BY DEF WaitingIsUnmade
  <2>1. M!MayRead(d)' = M!MayRead(d)
    BY DEF M!MayRead
  <2>2. CASE d = c
    <3>1. M!MayRead(c) /\ UNCHANGED <<redeemed, made>>
      BY <1>1, <1>7, <2>2
    <3> QED
      BY <1>3, <1>6, <2>1, <2>2, <3>1
  <2>3. CASE d # c
    <3>1. closing[d] = "closing"
      BY <1>2, <1>7, <2>3
    <3> QED
      BY <1>5, <1>8, <2>1, <2>3, <3>1 DEF WaitingIsUnmade
  <2> QED
    BY <2>2, <2>3
<1> QED
  BY <1>8, <1>10, <1>11, <1>12

\* The connector that was held is closed, and the call that waited is made or refused.
LEMMA RunnerCloses ==
    ASSUME RunnerInv, NEW c \in RunnerCall, M!Closed(c)
    PROVE  RunnerInv'
<1> USE DEF RunnerInv
<1>1. /\ UNCHANGED <<second, life, switch, received>> /\ closing[c] = "closing"
      /\ closing' = [closing EXCEPT ![c] = "idle"]
      /\ \/ UNCHANGED <<redeemed, made, connector>>
         \/ M!Invoke(c) /\ connector' = M!ToUse(c)
  BY DEF M!Closed, M!Build
<1>2. Spent(c) /\ M!MayRead(c) /\ \A m \in made : m.call # c
  BY <1>1 DEF WaitingIsUnmade
<1>3. \A d \in RunnerCall : Spent(d)' = Spent(d)
  BY <1>1 DEF Spent
<1>4. connector \in M!Settings /\ closing \in [RunnerCall -> {"idle", "closing"}]
  BY DEF M!TypeOK
<1>5. /\ redeemed \subseteq redeemed' /\ redeemed' \subseteq DOMAIN Grant
      /\ made' \subseteq Made
      /\ \A m \in made' : m \in made \/ m.call = c
      /\ \A m \in made' : m.grant # none => m.grant \in redeemed'
      /\ M!MadeOnce' /\ M!MadeAsSent' /\ M!StopIsHeard'
  BY <1>1, <1>2, RunnerMakes
<1>6. connector' \in M!Settings /\ closing' \in [RunnerCall -> {"idle", "closing"}]
  BY <1>1, <1>4 DEF M!Settings, M!ToUse
<1>7. M!TypeOK'
  BY <1>1, <1>5, <1>6 DEF M!TypeOK, Made
<1>8. MadeIsSpent'
  <2>1. \A m \in made' : m.call \in RunnerCall
    BY <1>5 DEF Made
  <2>2. \A m \in made : Spent(m.call)
    BY DEF MadeIsSpent
  <2> QED
    BY <1>2, <1>3, <1>5, <2>1, <2>2 DEF MadeIsSpent
<1>9. WaitingIsUnmade'
  <2> SUFFICES ASSUME NEW d \in RunnerCall, closing'[d] = "closing"
               PROVE  Spent(d)' /\ M!MayRead(d)' /\ \A m \in made' : m.call # d
    BY DEF WaitingIsUnmade
  <2>1. M!MayRead(d)' = M!MayRead(d)
    BY DEF M!MayRead
  <2>2. d # c /\ closing[d] = "closing"
    BY <1>1, <1>4
  <2> QED
    BY <1>3, <1>5, <2>1, <2>2 DEF WaitingIsUnmade
<1> QED
  BY <1>5, <1>7, <1>8, <1>9

\* Every step of a runner keeps the invariant.
LEMMA RunnerStep == RunnerInv /\ M!Next => RunnerInv'
BY RunnerOutside, RunnerReceives, RunnerCloses DEF M!Next

LEMMA RunnerStays == ASSUME RunnerInv, UNCHANGED runnerVars PROVE RunnerInv'
BY DEF runnerVars, RunnerInv, M!TypeOK, MadeIsSpent, WaitingIsUnmade, Spent, M!MayRead,
   M!MadeOnce, M!MadeAsSent, M!StopIsHeard, M!Settings, M!Grants, M!ToUse, M!IsWrite

-----------------------------------------------------------------------------
(* A process of the service.                                               *)

Begun == {"read", "checked", "connected", "built", "serving", "draining", "closing", "ended"}

\* What a process that came so far has passed.
PassedChecks ==
    /\ at \in Begun => ((settings.off \/ settings.mocks) => settings.demo)
    /\ at \in Begun \ {"read"} =>
          /\ settings.secret # "short"
          /\ settings.demo => (U!DemoOpen \/ U!WebhookOpen => settings.loopback)
          /\ ~settings.demo => settings.secret # "none"
    /\ at \in Begun \ {"read", "checked"} =>
          /\ settings.demo \/ settings.database = "postgres"
          /\ settings.database = "postgres" => settings.role = "application"

\* Loops run while what they need is open.
LoopsServed ==
    /\ at \in {"built", "serving", "draining"} =>
          {"database", "itsm", "hub", "provider"} \subseteq connected
    /\ at \notin {"serving", "draining"} => \A l \in U!Loops : loops[l] \in {"none", "over"}

\* Every request is counted, and the ones let through are among them.
CountedAll ==
    \A c \in Client : /\ windows[c] = requests[c].all
                      /\ requests[c].through <= requests[c].all

ServiceInv ==
    /\ U!TypeOK /\ PassedChecks /\ LoopsServed /\ U!UsesWhatIsOpen
    /\ CountedAll /\ U!Limited

\* A process begins with nothing connected and nothing counted.
LEMMA ServiceInit == U!Init => ServiceInv
<1> SUFFICES ASSUME U!Init PROVE ServiceInv
  OBVIOUS
<1> USE DEF U!Init
<1>1. U!Unset \in U!Settings
  BY DEF U!Unset, U!Settings
<1>2. U!NotSent \in [all: 0..MaxSent, through: 0..MaxSent] /\ 0 \in 0..MaxSent
      /\ U!NotSent.all = 0 /\ U!NotSent.through = 0
  BY ServiceAssumption DEF U!NotSent
<1>3. U!TypeOK
  BY <1>1, <1>2 DEF U!TypeOK, U!Stages
<1>4. PassedChecks /\ LoopsServed /\ U!UsesWhatIsOpen
  BY DEF PassedChecks, Begun, LoopsServed, U!UsesWhatIsOpen
<1>5. CountedAll /\ U!Limited
  BY <1>2, ServiceAssumption DEF CountedAll, U!Limited
<1> QED
  BY <1>3, <1>4, <1>5 DEF ServiceInv

\* Start-up and the end: each stage is reached by the checks before it.
LEMMA ServiceStages ==
    ASSUME ServiceInv,
           U!Read \/ U!Check \/ U!Connect \/ U!Build \/ U!Serve \/ U!Signal \/ U!Drain \/ U!Close
    PROVE  ServiceInv'
<1> USE DEF ServiceInv
<1>1. UNCHANGED <<misused, windows, requests>>
  BY DEF U!Read, U!Check, U!Connect, U!Build, U!Serve, U!Signal, U!Drain, U!Close
<1>2. U!UsesWhatIsOpen' /\ CountedAll' /\ U!Limited'
  BY <1>1 DEF U!UsesWhatIsOpen, CountedAll, U!Limited
<1>3. at \in U!Stages /\ settings \in U!Settings /\ stop \in BOOLEAN
      /\ loops \in [U!Loops -> {"none", "resting", "busy", "over"}] /\ connected \subseteq U!Resources
  BY DEF U!TypeOK
<1>4. SUFFICES /\ at' \in U!Stages /\ settings' \in U!Settings /\ stop' \in BOOLEAN
               /\ loops' \in [U!Loops -> {"none", "resting", "busy", "over"}]
               /\ connected' \subseteq U!Resources
               /\ PassedChecks' /\ LoopsServed'
  <2>1. /\ misused' \in BOOLEAN /\ windows' \in [Client -> 0..MaxSent]
        /\ requests' \in [Client -> [all: 0..MaxSent, through: 0..MaxSent]]
    BY <1>1 DEF U!TypeOK
  <2>2. U!TypeOK'
    BY <1>4, <2>1, Zenon DEF U!TypeOK
  <2> QED
    BY <1>2, <1>4, <2>2
<1>5. CASE U!Read
  <2>1. PICK s \in Given : settings' = s /\ U!Goes((s.off \/ s.mocks) => s.demo, "read")
    BY <1>5 DEF U!Read
  <2>2. settings' \in U!Settings
    BY <2>1, ServiceAssumption
  <2>3. UNCHANGED <<stop, loops, connected>> /\ at = "new" /\ at' \in {"read", "refused"}
        /\ (at' = "read" => ((settings'.off \/ settings'.mocks) => settings'.demo))
    BY <1>5, <2>1 DEF U!Read, U!Goes
  <2>4. PassedChecks'
    BY <2>3 DEF PassedChecks, Begun
  <2>5. LoopsServed'
    BY <2>3 DEF LoopsServed
  <2> QED
    BY <1>3, <2>2, <2>3, <2>4, <2>5 DEF U!Stages
<1>6. CASE U!Check
  <2>1. UNCHANGED <<settings, stop, loops, connected>> /\ at = "read" /\ at' \in {"checked", "refused"}
        /\ (at' = "checked" => /\ settings.secret # "short"
                               /\ IF settings.demo THEN U!WaysIn => settings.loopback
                                  ELSE settings.secret # "none")
    BY <1>6 DEF U!Check, U!Goes
  <2>2. PassedChecks'
    BY <2>1 DEF PassedChecks, Begun, U!WaysIn, U!DemoOpen, U!WebhookOpen
  <2>3. LoopsServed'
    BY <2>1 DEF LoopsServed
  <2> QED
    BY <1>3, <2>1, <2>2, <2>3 DEF U!Stages
<1>7. CASE U!Connect
  <2>1. UNCHANGED <<settings, stop, loops>> /\ at = "checked" /\ at' \in {"connected", "refused"}
        /\ connected' \subseteq {"database"}
        /\ (at' = "connected" => /\ settings.demo \/ settings.database = "postgres"
                                 /\ settings.database = "postgres" => settings.role = "application")
    BY <1>7 DEF U!Connect, U!Goes
  <2>2. PassedChecks'
    BY <2>1 DEF PassedChecks, Begun, U!DemoOpen, U!WebhookOpen
  <2>3. LoopsServed'
    BY <2>1 DEF LoopsServed
  <2> QED
    BY <1>3, <2>1, <2>2, <2>3 DEF U!Stages, U!Resources
<1>8. CASE U!Build
  <2>1. UNCHANGED <<settings, stop, loops>> /\ at = "connected" /\ at' \in {"built", "refused"}
        /\ connected' \subseteq U!Resources
        /\ (at' = "built" => {"database", "itsm", "hub", "provider"} \subseteq connected')
    BY <1>3, <1>8 DEF U!Build, U!Goes, U!Resources
  <2>2. PassedChecks'
    BY <2>1 DEF PassedChecks, Begun, U!DemoOpen, U!WebhookOpen
  <2>3. LoopsServed'
    BY <2>1 DEF LoopsServed
  <2> QED
    BY <1>3, <2>1, <2>2, <2>3 DEF U!Stages
<1>9. CASE U!Serve
  <2>1. UNCHANGED <<settings, stop, connected>> /\ at = "built" /\ at' = "serving"
    BY <1>9 DEF U!Serve
  <2>2. loops' \in [U!Loops -> {"none", "resting", "busy", "over"}]
    BY <1>9 DEF U!Serve
  <2>3. PassedChecks'
    BY <2>1 DEF PassedChecks, Begun, U!DemoOpen, U!WebhookOpen
  <2>4. LoopsServed'
    BY <2>1 DEF LoopsServed
  <2> QED
    BY <1>3, <2>1, <2>2, <2>3, <2>4 DEF U!Stages
<1>10. CASE U!Signal
  <2>1. UNCHANGED <<settings, loops, connected>> /\ at = "serving" /\ at' = "draining" /\ stop' = TRUE
    BY <1>10 DEF U!Signal
  <2>2. PassedChecks'
    BY <2>1 DEF PassedChecks, Begun, U!DemoOpen, U!WebhookOpen
  <2>3. LoopsServed'
    BY <2>1 DEF LoopsServed
  <2> QED
    BY <1>3, <2>1, <2>2, <2>3 DEF U!Stages
<1>11. CASE U!Drain
  <2>1. UNCHANGED <<settings, stop, loops, connected>> /\ at = "draining" /\ at' = "closing"
        /\ \A l \in U!Loops : loops[l] \in {"none", "over"}
    BY <1>11 DEF U!Drain, U!Drained
  <2>2. PassedChecks'
    BY <2>1 DEF PassedChecks, Begun, U!DemoOpen, U!WebhookOpen
  <2>3. LoopsServed'
    BY <2>1 DEF LoopsServed
  <2> QED
    BY <1>3, <2>1, <2>2, <2>3 DEF U!Stages
<1>12. CASE U!Close
  <2>1. UNCHANGED <<settings, stop, loops>> /\ at = "closing" /\ at' \in {"closing", "ended"}
        /\ connected' \subseteq connected
    BY <1>12 DEF U!Close
  <2>2. PassedChecks'
    BY <2>1 DEF PassedChecks, Begun, U!DemoOpen, U!WebhookOpen
  <2>3. LoopsServed'
    BY <2>1 DEF LoopsServed
  <2> QED
    BY <1>3, <2>1, <2>2, <2>3 DEF U!Stages
<1> QED
  BY <1>5, <1>6, <1>7, <1>8, <1>9, <1>10, <1>11, <1>12

\* A loop works only where what it needs is open.
LEMMA ServiceLoops ==
    ASSUME ServiceInv, NEW l \in U!Loops, U!Begin(l) \/ U!Work(l) \/ U!Leave(l)
    PROVE  ServiceInv'
<1> USE DEF ServiceInv
<1>1. /\ UNCHANGED <<at, settings, stop, connected, windows, requests>>
      /\ loops[l] \in {"resting", "busy"}
      /\ \E t \in {"resting", "busy", "over"} : loops' = [loops EXCEPT ![l] = t]
  BY DEF U!Begin, U!Work, U!Leave
<1>2. at \in {"serving", "draining"} /\ {"database", "itsm", "hub", "provider"} \subseteq connected
  BY <1>1 DEF LoopsServed
<1>3. U!Needs(l) \subseteq connected
  BY <1>2 DEF U!Needs
<1>4. misused' = FALSE
  BY <1>3 DEF U!Begin, U!Work, U!Leave, U!UsesWhatIsOpen, U!TypeOK
<1>5. loops' \in [U!Loops -> {"none", "resting", "busy", "over"}]
  BY <1>1 DEF U!TypeOK
<1>6. /\ at' \in U!Stages /\ settings' \in U!Settings /\ stop' \in BOOLEAN
      /\ connected' \subseteq U!Resources /\ windows' \in [Client -> 0..MaxSent]
      /\ requests' \in [Client -> [all: 0..MaxSent, through: 0..MaxSent]]
  BY <1>1 DEF U!TypeOK
<1>7. U!TypeOK'
  BY <1>4, <1>5, <1>6, Zenon DEF U!TypeOK
<1>8. PassedChecks' /\ LoopsServed' /\ U!UsesWhatIsOpen'
  BY <1>1, <1>2, <1>4 DEF PassedChecks, LoopsServed, U!UsesWhatIsOpen, U!DemoOpen, U!WebhookOpen
<1>9. CountedAll' /\ U!Limited'
  BY <1>1 DEF CountedAll, U!Limited
<1> QED
  BY <1>7, <1>8, <1>9

\* A request is counted before it is let through.
LEMMA ServiceRequests ==
    ASSUME ServiceInv, (\E c \in Client : U!Request(c)) \/ U!NextMinute
    PROVE  ServiceInv'
<1> USE DEF ServiceInv
<1>1. UNCHANGED <<at, settings, stop, loops, connected, misused>>
  BY DEF U!Request, U!NextMinute
<1>2. PassedChecks' /\ LoopsServed' /\ U!UsesWhatIsOpen'
  BY <1>1 DEF PassedChecks, LoopsServed, U!UsesWhatIsOpen, U!DemoOpen, U!WebhookOpen
<1>3. SUFFICES /\ windows' \in [Client -> 0..MaxSent]
               /\ requests' \in [Client -> [all: 0..MaxSent, through: 0..MaxSent]]
               /\ CountedAll' /\ U!Limited'
  <2>1. /\ at' \in U!Stages /\ settings' \in U!Settings /\ stop' \in BOOLEAN
        /\ loops' \in [U!Loops -> {"none", "resting", "busy", "over"}]
        /\ connected' \subseteq U!Resources /\ misused' \in BOOLEAN
    BY <1>1 DEF U!TypeOK
  <2>2. U!TypeOK'
    BY <1>3, <2>1, Zenon DEF U!TypeOK
  <2> QED
    BY <1>2, <1>3, <2>2
<1>4. windows \in [Client -> 0..MaxSent]
      /\ requests \in [Client -> [all: 0..MaxSent, through: 0..MaxSent]]
  BY DEF U!TypeOK
<1>5. CASE U!NextMinute
  <2>1. windows' = [c \in Client |-> 0] /\ requests' = [c \in Client |-> U!NotSent]
    BY <1>5 DEF U!NextMinute
  <2>2. U!NotSent \in [all: 0..MaxSent, through: 0..MaxSent] /\ 0 \in 0..MaxSent
        /\ U!NotSent.all = 0 /\ U!NotSent.through = 0
    BY ServiceAssumption DEF U!NotSent
  <2> QED
    BY <2>1, <2>2, ServiceAssumption DEF CountedAll, U!Limited
<1>6. ASSUME NEW c \in Client, U!Request(c)
      PROVE  /\ windows' \in [Client -> 0..MaxSent]
             /\ requests' \in [Client -> [all: 0..MaxSent, through: 0..MaxSent]]
             /\ CountedAll' /\ U!Limited'
  <2> DEFINE all == requests[c].all
             through == requests[c].through
             let == IF all + 1 <= PerMinute THEN through + 1 ELSE through
             new == [all |-> all + 1, through |-> let]
  <2>1. windows[c] = all /\ through <= all /\ through <= PerMinute
        /\ all \in 0..MaxSent /\ through \in 0..MaxSent /\ all < MaxSent
    BY <1>4, <1>6 DEF CountedAll, U!Limited, U!Request
  <2>2. windows' = [windows EXCEPT ![c] = all + 1]
    BY <2>1, <1>4, <1>6 DEF U!Request, U!Remembered
  <2>3. [windows EXCEPT ![c] = @ + 1][c] = all + 1
    BY <1>4, <2>1
  <2>4. requests' = [requests EXCEPT ![c] = new]
    BY <1>4, <1>6, <2>3 DEF U!Request
  <2> HIDE DEF all, through
  <2>5. let <= all + 1 /\ let <= PerMinute /\ let \in 0..MaxSent /\ all + 1 \in 0..MaxSent
    BY <2>1, ServiceAssumption
  <2>6. new \in [all: 0..MaxSent, through: 0..MaxSent] /\ new.all = all + 1 /\ new.through = let
    BY <2>5
  <2> HIDE DEF new, let
  <2>7. windows' \in [Client -> 0..MaxSent]
        /\ requests' \in [Client -> [all: 0..MaxSent, through: 0..MaxSent]]
    BY <1>4, <2>2, <2>4, <2>5, <2>6
  <2>8. \A d \in Client : IF d = c THEN windows'[d] = all + 1 /\ requests'[d] = new
                          ELSE windows'[d] = windows[d] /\ requests'[d] = requests[d]
    BY <1>4, <2>2, <2>4
  <2>9. CountedAll' /\ U!Limited'
    BY <2>5, <2>6, <2>8 DEF CountedAll, U!Limited
  <2> QED
    BY <2>7, <2>9
<1> QED
  BY <1>5, <1>6

\* Every step of a process keeps the invariant.
LEMMA ServiceStep == ServiceInv /\ U!Next => ServiceInv'
BY ServiceStages, ServiceLoops, ServiceRequests DEF U!Next

LEMMA ServiceStays == ASSUME ServiceInv, UNCHANGED serviceVars PROVE ServiceInv'
BY DEF serviceVars, ServiceInv, U!TypeOK, PassedChecks, LoopsServed, U!UsesWhatIsOpen,
   CountedAll, U!Limited, U!DemoOpen, U!WebhookOpen

\* Who serves has passed every check.
LEMMA ServesPassed == ServiceInv => U!ServesSafely
<1> SUFFICES ASSUME ServiceInv, at = "serving" PROVE U!ServesSafely
  BY DEF U!ServesSafely
<1>1. settings \in U!Settings
  BY DEF ServiceInv, U!TypeOK
<1>2. settings.secret \in {"none", "short", "long"}
  BY <1>1 DEF U!Settings
<1> QED
  BY <1>2 DEF ServiceInv, PassedChecks, Begun, U!ServesSafely, U!DemoOpen, U!WebhookOpen

-----------------------------------------------------------------------------
(* Changes in ServiceNow.                                                  *)

\* Whoever is still to be asked has no approval row.
AskingAfresh == work.at = "asking" => \A p \in N!ToAsk : invited[p] = 0

\* What a sweep is about to apply is what was true when it read it.
PollIsGrounded ==
    /\ poll.state # "none" => action = "pending"
    /\ poll.state \in {"requested", "approved", "rejected"} => ground.same = poll.same
    /\ poll.state = "approved" => ground.rejected = {} /\ poll.by \in ground.approved

\* A change is closed once its action has ended.
EndedFirst ==
    /\ work.at = "closing" => action \in {"done", "failed"}
    /\ change # "open" => action \in {"done", "failed"}

ChangeInv ==
    /\ N!TypeOK /\ N!AskedOnce /\ AskingAfresh /\ PollIsGrounded
    /\ N!DecidedByOthers /\ EndedFirst /\ N!ClosedAsItEnded

Works == [at: {"idle", "reading", "asking", "asked", "closing"}, wanted: SUBSET Approver,
          already: SUBSET Approver]

\* Nothing is asked, decided or closed at the start.
LEMMA ChangeInit == N!Init => ChangeInv
BY ChangeAssumption DEF ChangeInv, N!Init, N!TypeOK, N!AskedOnce, AskingAfresh, PollIsGrounded,
   N!DecidedByOthers, EndedFirst, N!ClosedAsItEnded, N!Closed, N!NotWorking, N!NotPolling, N!NoGround

\* Faults and what people do stay within their bounds.
LEMMA ChangeBounds ==
    ASSUME N!TypeOK
    PROVE  /\ faults \in 0..MaxFaults /\ edits \in 0..MaxChanges
           /\ N!Fault => faults' \in 0..MaxFaults
           /\ N!Moved => edits' \in 0..MaxChanges
<1>1. faults \in 0..MaxFaults /\ edits \in 0..MaxChanges
  BY DEF N!TypeOK
<1>2. N!Fault => faults' \in 0..MaxFaults
  BY <1>1, ChangeAssumption DEF N!Fault
<1>3. N!Moved => edits' \in 0..MaxChanges
  BY <1>1, ChangeAssumption DEF N!Moved
<1> QED
  BY <1>1, <1>2, <1>3

\* People join, leave, vote and edit: what was read is not touched.
LEMMA ChangeOfPeople ==
    ASSUME ChangeInv, NEW p \in Approver, N!JoinOrLeave(p) \/ N!Vote(p) \/ N!Edit
    PROVE  ChangeInv'
<1> USE DEF ChangeInv
<1>1. UNCHANGED <<invited, work, action, poll, ground, change, ledger, faults>> /\ N!Moved
  BY DEF N!JoinOrLeave, N!Vote, N!Edit
<1>2. N!TypeOK'
  <2>1. edits' \in 0..MaxChanges /\ faults' \in 0..MaxFaults
    BY <1>1, ChangeBounds
  <2>2. group' \subseteq Approver
    BY DEF N!TypeOK, N!JoinOrLeave, N!Vote, N!Edit
  <2>3. vote' \in [Approver -> {"none", "requested", "approved", "rejected"}]
    BY DEF N!TypeOK, N!JoinOrLeave, N!Vote, N!Edit
  <2>4. hash' \in BOOLEAN
    BY Zenon DEF N!TypeOK, N!JoinOrLeave, N!Vote, N!Edit
  <2>5. invited' \in [Approver -> Nat] /\ work' \in Works
    BY <1>1 DEF N!TypeOK, Works
  <2>6. /\ poll' \in [state: {"none", "reading", "requested", "approved", "rejected"}, by: Approver,
                      same: BOOLEAN]
        /\ ground' \in [approved: SUBSET Approver, rejected: SUBSET Approver, same: BOOLEAN]
    BY <1>1 DEF N!TypeOK
  <2>7. /\ action' \in {"pending", "approved", "rejected", "expired", "invalid", "done", "failed"}
        /\ change' \in {"open", "scheduled", "implemented", "reviewed", "successful", "unsuccessful"}
        /\ ledger' \in {"nothing", "closed", "not closed"}
    BY <1>1 DEF N!TypeOK
  <2> QED
    BY <2>1, <2>2, <2>3, <2>4, <2>5, <2>6, <2>7, Zenon DEF N!TypeOK, Works
<1>3. N!AskedOnce' /\ AskingAfresh' /\ PollIsGrounded'
  BY <1>1 DEF N!AskedOnce, AskingAfresh, PollIsGrounded, N!ToAsk
<1>4. N!DecidedByOthers' /\ EndedFirst' /\ N!ClosedAsItEnded'
  BY <1>1 DEF N!DecidedByOthers, EndedFirst, N!ClosedAsItEnded, N!Closed
<1> QED
  BY <1>2, <1>3, <1>4

\* A worker reads whom to ask and who has a row, has asked all of them, or dies.
LEMMA ChangeOfReading ==
    ASSUME ChangeInv, N!ReadMembers \/ N!ReadAsked \/ N!AllAsked \/ N!Die
    PROVE  ChangeInv'
<1> USE DEF ChangeInv
<1>1. /\ UNCHANGED <<group, invited, vote, hash, action, poll, ground, change, ledger, edits>>
      /\ faults' = faults \/ N!Fault
  BY DEF N!ReadMembers, N!ReadAsked, N!AllAsked, N!Die
<1>2. work \in Works /\ group \subseteq Approver
  BY DEF N!TypeOK, Works
<1>3. work' \in Works /\ (work'.at # "closing" \/ work'.at = work.at)
  <2>1. CASE N!ReadMembers
    BY <2>1, <1>2 DEF N!ReadMembers, Works, N!NotWorking
  <2>2. CASE N!ReadAsked
    BY <2>2, <1>2 DEF N!ReadAsked, Works, N!Already
  <2>3. CASE N!AllAsked
    BY <2>3, <1>2 DEF N!AllAsked, Works, N!NotWorking
  <2>4. CASE N!Die
    BY <2>4, <1>2 DEF N!Die, Works, N!NotWorking
  <2> QED
    BY <2>1, <2>2, <2>3, <2>4
<1>4. faults' \in 0..MaxFaults
  BY <1>1, ChangeBounds
<1>5. N!TypeOK'
  <2>1. work' \in [at: {"idle", "reading", "asking", "asked", "closing"}, wanted: SUBSET Approver,
                   already: SUBSET Approver]
    BY <1>3 DEF Works
  <2>2. /\ group \subseteq Approver /\ invited \in [Approver -> Nat]
        /\ vote \in [Approver -> {"none", "requested", "approved", "rejected"}]
        /\ hash \in BOOLEAN
    BY DEF N!TypeOK
  <2>3. /\ action \in {"pending", "approved", "rejected", "expired", "invalid", "done", "failed"}
        /\ poll \in [state: {"none", "reading", "requested", "approved", "rejected"},
                      by: Approver, same: BOOLEAN]
        /\ ground \in [approved: SUBSET Approver, rejected: SUBSET Approver, same: BOOLEAN]
    BY DEF N!TypeOK
  <2>4. /\ change \in {"open", "scheduled", "implemented", "reviewed", "successful",
                       "unsuccessful"}
        /\ ledger \in {"nothing", "closed", "not closed"} /\ edits \in 0..MaxChanges
    BY DEF N!TypeOK
  <2>5. /\ group' = group /\ invited' = invited /\ vote' = vote /\ hash' = hash
        /\ action' = action /\ poll' = poll /\ ground' = ground
        /\ change' = change /\ ledger' = ledger /\ edits' = edits
    BY <1>1
  <2> HIDE DEF ChangeInv
  <2>6. /\ group' \subseteq Approver /\ invited' \in [Approver -> Nat]
        /\ vote' \in [Approver -> {"none", "requested", "approved", "rejected"}]
        /\ hash' \in BOOLEAN
    BY <2>2, <2>5, Zenon
  <2>7. /\ action' \in {"pending", "approved", "rejected", "expired", "invalid", "done",
                        "failed"}
        /\ poll' \in [state: {"none", "reading", "requested", "approved", "rejected"},
                       by: Approver, same: BOOLEAN]
        /\ ground' \in [approved: SUBSET Approver, rejected: SUBSET Approver, same: BOOLEAN]
    BY <2>3, <2>5, Zenon
  <2>8. /\ change' \in {"open", "scheduled", "implemented", "reviewed", "successful",
                        "unsuccessful"}
        /\ ledger' \in {"nothing", "closed", "not closed"} /\ edits' \in 0..MaxChanges
    BY <2>4, <2>5, Zenon
  <2> QED
    BY <1>4, <2>1, <2>6, <2>7, <2>8, Zenon DEF N!TypeOK
<1>6. AskingAfresh'
  <2>1. CASE N!ReadMembers
    BY <2>1 DEF N!ReadMembers, AskingAfresh, N!NotWorking
  <2>2. CASE N!ReadAsked
    <3>1. invited \in [Approver -> Nat]
      BY DEF N!TypeOK
    <3>2. work'.wanted \subseteq Approver /\ work'.already = N!Already
      BY <2>2, <1>2 DEF N!ReadAsked, Works
    <3>3. \A p \in Approver \ N!Already : invited[p] = 0
      BY <3>1 DEF N!Already
    <3> QED
      BY <1>1, <3>2, <3>3 DEF AskingAfresh, N!ToAsk
  <2>3. CASE N!AllAsked
    BY <2>3 DEF N!AllAsked, AskingAfresh, N!NotWorking
  <2>4. CASE N!Die
    BY <2>4 DEF N!Die, AskingAfresh, N!NotWorking
  <2> QED
    BY <2>1, <2>2, <2>3, <2>4
<1>7. N!AskedOnce' /\ PollIsGrounded' /\ N!DecidedByOthers'
  BY <1>1 DEF N!AskedOnce, PollIsGrounded, N!DecidedByOthers
<1>8. EndedFirst' /\ N!ClosedAsItEnded'
  BY <1>1, <1>3 DEF EndedFirst, N!ClosedAsItEnded, N!Closed
<1> QED
  BY <1>5, <1>6, <1>7, <1>8

\* Somebody without a row is asked; whether the row is there or not, nobody is asked twice.
LEMMA ChangeOfAsking ==
    ASSUME ChangeInv, NEW p \in Approver, N!AskOne(p) \/ N!AskFails(p)
    PROVE  ChangeInv'
<1> USE DEF ChangeInv
<1>1. /\ UNCHANGED <<group, hash, action, poll, ground, change, ledger, edits>>
      /\ faults' = faults \/ N!Fault
      /\ work.at = "asking" /\ p \in N!ToAsk
  BY DEF N!AskOne, N!AskFails
<1>2. work \in Works /\ invited \in [Approver -> Nat]
      /\ vote \in [Approver -> {"none", "requested", "approved", "rejected"}]
  BY DEF N!TypeOK, Works
<1>3. invited[p] = 0
  BY <1>1 DEF AskingAfresh
<1>4. invited' = invited \/ invited' = [invited EXCEPT ![p] = @ + 1]
  BY DEF N!AskOne, N!AskFails, N!Row
<1>5. vote' \in [Approver -> {"none", "requested", "approved", "rejected"}]
  BY <1>2 DEF N!AskOne, N!AskFails, N!Row
<1>6. invited' \in [Approver -> Nat]
      /\ \A q \in Approver : invited'[q] <= 1 /\ (q # p => invited'[q] = invited[q])
  BY <1>2, <1>3, <1>4 DEF N!AskedOnce
<1>7. \/ work' = [work EXCEPT !.wanted = @ \ {p}]
      \/ work' = [at |-> "asked", wanted |-> {}, already |-> {}]
  BY DEF N!AskOne, N!AskFails, N!NotWorking
<1>8. work' \in Works /\ work'.at # "closing"
  BY <1>1, <1>2, <1>7 DEF Works
<1>9. work'.at = "asking" => work'.wanted = work.wanted \ {p} /\ work'.already = work.already
  BY <1>2, <1>7 DEF Works
<1>10. faults' \in 0..MaxFaults
  BY <1>1, ChangeBounds
<1>11. N!TypeOK'
  <2>1. /\ group' = group /\ hash' = hash /\ action' = action /\ poll' = poll
        /\ ground' = ground /\ change' = change /\ ledger' = ledger /\ edits' = edits
    BY <1>1
  <2>2. N!TypeOK /\ invited' \in [Approver -> Nat] /\ work' \in Works
    BY <1>6, <1>8
  <2> HIDE DEF ChangeInv
  <2>3. group' \subseteq Approver /\ hash' \in BOOLEAN
    BY <2>1, <2>2, Zenon DEF N!TypeOK
  <2>4. /\ action' \in {"pending", "approved", "rejected", "expired", "invalid", "done", "failed"}
        /\ change' \in {"open", "scheduled", "implemented", "reviewed", "successful", "unsuccessful"}
        /\ ledger' \in {"nothing", "closed", "not closed"}
    BY <2>1, <2>2, Zenon DEF N!TypeOK
  <2>5. /\ poll' \in [state: {"none", "reading", "requested", "approved", "rejected"}, by: Approver,
                      same: BOOLEAN]
        /\ ground' \in [approved: SUBSET Approver, rejected: SUBSET Approver, same: BOOLEAN]
    BY <2>1, <2>2, Zenon DEF N!TypeOK
  <2>6. edits' \in 0..MaxChanges
    BY <2>1, <2>2, Zenon DEF N!TypeOK
  <2>7. work' \in [at: {"idle", "reading", "asking", "asked", "closing"}, wanted: SUBSET Approver,
                   already: SUBSET Approver]
    BY <2>2, Zenon DEF Works
  <2> HIDE DEF Works
  <2>8. invited' \in [Approver -> Nat]
    BY <2>2
  <2> QED
    BY ONLY <1>5, <1>10, <2>3, <2>4, <2>5, <2>6, <2>7, <2>8, Zenon DEF N!TypeOK
<1>12. AskingAfresh'
  BY <1>1, <1>2, <1>6, <1>9 DEF AskingAfresh, N!ToAsk, Works
<1>13. N!AskedOnce' /\ PollIsGrounded' /\ N!DecidedByOthers'
  BY <1>1, <1>6 DEF N!AskedOnce, PollIsGrounded, N!DecidedByOthers
<1>14. EndedFirst' /\ N!ClosedAsItEnded'
  BY <1>1, <1>8 DEF EndedFirst, N!ClosedAsItEnded, N!Closed
<1> QED
  BY <1>11, <1>12, <1>13, <1>14

\* A sweep reads the record, then the votes, and applies what it read to a pending action.
LEMMA ChangeOfSweep ==
    ASSUME ChangeInv, N!ReadRecord \/ N!ReadVotes \/ N!Apply \/ N!Expire
    PROVE  ChangeInv'
<1> USE DEF ChangeInv
<1> DEFINE Polls == [state: {"none", "reading", "requested", "approved", "rejected"}, by: Approver,
                     same: BOOLEAN]
           Grounds == [approved: SUBSET Approver, rejected: SUBSET Approver, same: BOOLEAN]
<1>1. UNCHANGED <<group, invited, vote, hash, work, change, ledger, faults, edits>>
  BY DEF N!ReadRecord, N!ReadVotes, N!Apply, N!Expire
<1>2. poll \in Polls /\ ground \in Grounds /\ hash \in BOOLEAN
  BY DEF N!TypeOK
<1>3. action = "pending"
  BY DEF N!ReadRecord, N!ReadVotes, N!Apply, N!Expire, PollIsGrounded
<1>4. change = "open" /\ work.at # "closing" /\ ledger # "closed"
  BY <1>3 DEF EndedFirst, N!ClosedAsItEnded, N!Closed
<1>5. SUFFICES
        /\ poll' \in Polls /\ ground' \in Grounds
        /\ action' \in {"pending", "approved", "rejected", "expired", "invalid"}
        /\ PollIsGrounded' /\ N!DecidedByOthers'
  <2>1. N!TypeOK'
    BY <1>1, <1>5 DEF N!TypeOK
  <2>2. N!AskedOnce' /\ AskingAfresh'
    BY <1>1 DEF N!AskedOnce, AskingAfresh, N!ToAsk
  <2>3. EndedFirst' /\ N!ClosedAsItEnded'
    BY <1>1, <1>4 DEF EndedFirst, N!ClosedAsItEnded, N!Closed
  <2> QED
    BY <1>5, <2>1, <2>2, <2>3
<1>6. CASE N!ReadRecord
  <2>1. action' = action /\ ground' = ground
        /\ poll' = [state |-> "reading", by |-> Author, same |-> hash]
    BY <1>6 DEF N!ReadRecord, N!NotPolling
  <2> QED
    BY <2>1, <1>2, <1>3, ChangeAssumption DEF PollIsGrounded, N!DecidedByOthers
<1>7. CASE N!ReadVotes
  <2>1. PICK p \in Approver : /\ N!Said(N!Outcome) # {} => p \in N!Said(N!Outcome)
                              /\ poll' = [poll EXCEPT !.state = N!Outcome, !.by = p]
    BY <1>7 DEF N!ReadVotes
  <2>2. action' = action /\ ground' = [approved |-> N!Said("approved"),
                                       rejected |-> N!Said("rejected"), same |-> poll.same]
    BY <1>7 DEF N!ReadVotes
  <2>3. N!Outcome \in {"requested", "approved", "rejected"}
        /\ (N!Outcome = "approved" => N!Said("rejected") = {} /\ N!Said("approved") # {})
    BY DEF N!Outcome
  <2>4. N!Said("approved") \in SUBSET Approver /\ N!Said("rejected") \in SUBSET Approver
    BY DEF N!Said
  <2>5. poll' \in Polls /\ poll'.state = N!Outcome /\ poll'.by = p /\ poll'.same = poll.same
    BY <1>2, <2>1, <2>3
  <2>6. ground' \in Grounds
    BY <1>2, <2>2, <2>4
  <2> QED
    BY <1>3, <2>1, <2>2, <2>3, <2>5, <2>6 DEF PollIsGrounded, N!DecidedByOthers
<1>8. CASE N!Apply
  <2>1. poll' = N!NotPolling /\ ground' = ground
        /\ poll.state \in {"requested", "approved", "rejected"}
        /\ action' = IF poll.state = "requested" THEN "pending"
                     ELSE IF ~poll.same THEN "invalid"
                     ELSE IF poll.state = "approved" /\ poll.by = Author THEN "invalid"
                     ELSE poll.state
    BY <1>3, <1>8 DEF N!Apply, N!ShownToDiffer
  <2>2. poll' \in Polls /\ poll'.state = "none"
    BY <2>1, ChangeAssumption DEF N!NotPolling
  <2>3. action' = "approved" =>
          poll.same /\ poll.by # Author /\ poll.by \in ground.approved /\ ground.rejected = {}
          /\ ground.same = poll.same
    BY <2>1 DEF PollIsGrounded
  <2>4. action' \in {"pending", "approved", "rejected", "expired", "invalid"}
    BY <2>1
  <2> QED
    BY <1>2, <2>1, <2>2, <2>3, <2>4 DEF PollIsGrounded, N!DecidedByOthers
<1>9. CASE N!Expire
  BY <1>2, <1>9 DEF N!Expire, PollIsGrounded, N!DecidedByOthers
<1> QED
  BY <1>6, <1>7, <1>8, <1>9

\* An approved action is carried out, and only then is its change closed.
LEMMA ChangeOfClosing ==
    ASSUME ChangeInv, N!CarryOut \/ N!Patch \/ N!PatchFails \/ N!NoteClosed
    PROVE  ChangeInv'
<1> USE DEF ChangeInv
<1>1. /\ UNCHANGED <<group, invited, vote, hash, poll, ground, edits>>
      /\ faults' = faults \/ N!Fault
  BY DEF N!CarryOut, N!Patch, N!PatchFails, N!NoteClosed
<1>2. faults' \in 0..MaxFaults
  BY <1>1, ChangeBounds
<1>3. work \in Works
      /\ change \in {"open", "scheduled", "implemented", "reviewed", "successful", "unsuccessful"}
      /\ ledger \in {"nothing", "closed", "not closed"}
  BY DEF N!TypeOK, Works
<1>4. N!AskedOnce'
  BY <1>1 DEF N!AskedOnce
<1>5. CASE N!CarryOut
  <2>1. /\ action = "approved" /\ action' \in {"done", "failed"}
        /\ work' = [at |-> "closing", wanted |-> {}, already |-> {}]
        /\ UNCHANGED <<change, ledger>>
    BY <1>5 DEF N!CarryOut, N!NotWorking
  <2>2. work' \in Works
    BY <2>1 DEF Works
  <2>3. N!TypeOK'
    BY <1>1, <1>2, <2>1, <2>2 DEF N!TypeOK, Works
  <2>4. AskingAfresh' /\ PollIsGrounded' /\ N!DecidedByOthers'
    BY <1>1, <2>1 DEF AskingAfresh, PollIsGrounded, N!DecidedByOthers
  <2>5. EndedFirst' /\ N!ClosedAsItEnded'
    BY <2>1, <1>3 DEF EndedFirst, N!ClosedAsItEnded, N!Closed
  <2> QED
    BY <1>4, <2>3, <2>4, <2>5
<1>6. CASE N!Patch \/ N!PatchFails \/ N!NoteClosed
  <2>1. /\ action' = action /\ work.at = "closing" /\ action \in {"done", "failed"}
        /\ work' = work \/ work' = N!NotWorking
    BY <1>6 DEF N!Patch, N!PatchFails, N!NoteClosed, EndedFirst
  <2>2. /\ N!After["open"] = "scheduled" /\ N!After["scheduled"] = "implemented"
        /\ N!After["implemented"] = "reviewed"
        /\ N!After["reviewed"] = IF action = "done" THEN "successful" ELSE "unsuccessful"
    BY DEF N!After
  <2>3. /\ change' = change \/ (~N!Closed /\ change' = N!After[change])
        /\ ledger' = ledger \/ ledger' = "not closed" \/ (ledger' = "closed" /\ N!Closed /\ change' = change)
    BY <1>6 DEF N!Patch, N!PatchFails, N!NoteClosed
  <2>4. /\ change' \in {"open", "scheduled", "implemented", "reviewed", "successful", "unsuccessful"}
        /\ ledger' \in {"nothing", "closed", "not closed"}
    BY <1>3, <2>1, <2>2, <2>3 DEF N!Closed
  <2>5. work' \in Works /\ work'.at # "asking"
    <3>1. CASE work' = work
      BY <3>1, <1>3, <2>1
    <3>2. CASE work' = N!NotWorking
      BY <3>2 DEF Works, N!NotWorking
    <3> QED
      BY <2>1, <3>1, <3>2
  <2>6. N!TypeOK'
    BY <1>1, <1>2, <2>1, <2>4, <2>5 DEF N!TypeOK, Works
  <2>7. AskingAfresh' /\ PollIsGrounded' /\ N!DecidedByOthers'
    BY <1>1, <2>1, <2>5 DEF AskingAfresh, PollIsGrounded, N!DecidedByOthers
  <2>8. EndedFirst' /\ N!ClosedAsItEnded'
    BY <1>3, <2>1, <2>2, <2>3 DEF EndedFirst, N!ClosedAsItEnded, N!Closed
  <2> QED
    BY <1>4, <2>6, <2>7, <2>8
<1> QED
  BY <1>5, <1>6

\* Every step of asking, deciding and closing keeps the invariant.
LEMMA ChangeStep == ChangeInv /\ N!Next => ChangeInv'
<1> SUFFICES ASSUME ChangeInv, N!Next PROVE ChangeInv'
  OBVIOUS
<1>1. CASE N!Edit
  BY <1>1, ChangeOfPeople, ChangeAssumption
<1>2. CASE \E p \in Approver : N!JoinOrLeave(p) \/ N!Vote(p)
  BY <1>2, ChangeOfPeople
<1>3. CASE \E p \in Approver : N!AskOne(p) \/ N!AskFails(p)
  BY <1>3, ChangeOfAsking
<1>4. CASE N!ReadMembers \/ N!ReadAsked \/ N!AllAsked \/ N!Die
  BY <1>4, ChangeOfReading
<1>5. CASE N!ReadRecord \/ N!ReadVotes \/ N!Apply \/ N!Expire
  BY <1>5, ChangeOfSweep
<1>6. CASE N!CarryOut \/ N!Patch \/ N!PatchFails \/ N!NoteClosed
  BY <1>6, ChangeOfClosing
<1> QED
  BY <1>1, <1>2, <1>3, <1>4, <1>5, <1>6 DEF N!Next

\* A step that leaves its variables alone keeps it as well.
LEMMA ChangeStays == ChangeInv /\ UNCHANGED changeVars => ChangeInv'
<1> SUFFICES ASSUME ChangeInv, UNCHANGED changeVars PROVE ChangeInv'
  OBVIOUS
<1> USE DEF ChangeInv, changeVars
<1>1. /\ group' \subseteq Approver /\ invited' \in [Approver -> Nat]
      /\ vote' \in [Approver -> {"none", "requested", "approved", "rejected"}]
      /\ work' \in Works
  BY DEF N!TypeOK, Works
<1>2. /\ poll' \in [state: {"none", "reading", "requested", "approved", "rejected"}, by: Approver,
                    same: BOOLEAN]
      /\ ground' \in [approved: SUBSET Approver, rejected: SUBSET Approver, same: BOOLEAN]
  BY DEF N!TypeOK
<1>3. /\ action' \in {"pending", "approved", "rejected", "expired", "invalid", "done", "failed"}
      /\ change' \in {"open", "scheduled", "implemented", "reviewed", "successful", "unsuccessful"}
      /\ ledger' \in {"nothing", "closed", "not closed"}
      /\ faults' \in 0..MaxFaults /\ edits' \in 0..MaxChanges
  BY DEF N!TypeOK
<1>4. hash' \in BOOLEAN
  BY DEF N!TypeOK
<1>5. N!TypeOK'
  BY <1>1, <1>2, <1>3, <1>4, Zenon DEF N!TypeOK, Works
<1>6. N!AskedOnce' /\ AskingAfresh' /\ PollIsGrounded'
  BY DEF N!AskedOnce, AskingAfresh, N!ToAsk, PollIsGrounded
<1>7. N!DecidedByOthers' /\ EndedFirst' /\ N!ClosedAsItEnded'
  BY DEF N!DecidedByOthers, EndedFirst, N!ClosedAsItEnded, N!Closed
<1> QED
  BY <1>5, <1>6, <1>7

-----------------------------------------------------------------------------
(* Knowledge syncs.                                                        *)

\* Of what was edited plainly up to time t, all is in done.
Dealt(done, t) ==
    \A a \in Article :
        article[a].rev > 0 /\ article[a].time <= t /\ article[a].how = "edited" =>
            K!Current(a) \in done

\* What a sync began with was dealt with; what it lists it keeps until it has dealt with it.
SyncRight(s) ==
    /\ sync[s].at = "listing" =>
          /\ sync[s].newest = sync[s].from /\ sync[s].offset = 0
          /\ Dealt(handled \cup lost, sync[s].from)
    /\ sync[s].at \in {"drafting", "inserting"} =>
          Dealt(handled \cup lost \cup sync[s].todo, sync[s].newest)

KnowledgeInv ==
    /\ K!TypeOK
    /\ K!OneDraftPerRevision
    /\ Dealt(handled \cup lost, cursor)
    /\ \A s \in Sync : SyncRight(s)

\* A count is the same for whoever counts.
LEMMA SameCounts == \A S : K!Cardinality(S) = Cardinality(S)
BY DEF K!Cardinality, Cardinality, K!IsFiniteSet, IsFiniteSet

LEMMA IdleSync == K!Idle \in K!SyncState /\ K!Idle.at = "idle"
BY KnowledgeAssumption DEF K!Idle, K!SyncState, K!Revision

LEMMA KnowledgeInit == K!Init => KnowledgeInv
<1> SUFFICES ASSUME K!Init PROVE KnowledgeInv
  OBVIOUS
<1> USE DEF K!Init
<1>1. article \in [Article -> [rev: 0..MaxEdits, time: 0..MaxSeconds, how: K!How]]
  <2> DEFINE none0 == [rev |-> 0, time |-> 0, how |-> "edited"]
  <2>1. 0 \in 0..MaxEdits /\ 0 \in 0..MaxSeconds
    BY KnowledgeAssumption
  <2>2. none0 \in [rev: 0..MaxEdits, time: 0..MaxSeconds, how: K!How]
    BY <2>1 DEF K!How
  <2> QED
    BY <2>2
<1>2. clock \in 0..MaxSeconds /\ cursor \in 0..MaxSeconds
  BY KnowledgeAssumption
<1>3. K!TypeOK
  BY <1>1, <1>2, IdleSync DEF K!TypeOK
<1>4. \A a \in Article : article[a].rev = 0
  OBVIOUS
<1>5. \A t, done : Dealt(done, t)
  BY <1>4 DEF Dealt
<1>6. \A s \in Sync : sync[s].at = "idle"
  BY IdleSync
<1> QED
  BY <1>3, <1>5, <1>6 DEF KnowledgeInv, SyncRight, K!OneDraftPerRevision

\* A step of one sync deals with more and forgets nothing.
LEMMA KnowledgeMoves ==
    ASSUME KnowledgeInv, NEW s \in Sync, NEW st \in K!SyncState, sync' = [sync EXCEPT ![s] = st],
           UNCHANGED <<origin, clock, article>>,
           handled \subseteq handled', handled' \subseteq K!Revision,
           lost \subseteq lost', lost' \subseteq K!Revision,
           cursor' \in 0..MaxSeconds, Dealt(handled' \cup lost', cursor'),
           rows' \in [K!Revision -> Nat], keys' \subseteq Article,
           \A r \in K!Revision : rows'[r] <= 1,
           st.at = "listing" =>
              st.newest = st.from /\ st.offset = 0 /\ Dealt(handled' \cup lost', st.from),
           st.at \in {"drafting", "inserting"} => Dealt(handled' \cup lost' \cup st.todo, st.newest)
    PROVE  KnowledgeInv'
<1>1. K!TypeOK'
  BY DEF KnowledgeInv, K!TypeOK
<1>2. K!OneDraftPerRevision'
  BY DEF K!OneDraftPerRevision
<1>3. Dealt(handled \cup lost, cursor)'
  BY DEF Dealt, K!Current
<1>4. ASSUME NEW o \in Sync PROVE SyncRight(o)'
  <2>1. sync \in [Sync -> K!SyncState]
    BY DEF KnowledgeInv, K!TypeOK
  <2>2. CASE o = s
    <3>1. sync'[o] = st
      BY <2>1, <2>2
    <3> QED
      BY <3>1 DEF SyncRight, Dealt, K!Current
  <2>3. CASE o # s
    <3>1. sync'[o] = sync[o]
      BY <2>1, <2>3
    <3>2. SyncRight(o)
      BY DEF KnowledgeInv
    <3> QED
      BY <3>1, <3>2 DEF SyncRight, Dealt, K!Current
  <2> QED
    BY <2>2, <2>3
<1> QED
  BY <1>1, <1>2, <1>3, <1>4 DEF KnowledgeInv

\* The largest of finitely many times.
LEMMA LatestTime ==
    ASSUME NEW S \in SUBSET (0..MaxSeconds), S # {}
    PROVE  K!Latest(S) \in 0..MaxSeconds
<1>1. IsFiniteSet(0..MaxSeconds)
  BY KnowledgeAssumption, FS_Interval
<1>2. IsFiniteSet(S)
  BY <1>1, FS_Subset
<1> DEFINE f == [t \in S |-> t]
<1>3. f \in [S -> Nat]
  BY KnowledgeAssumption
<1>4. PICK m \in S : \A w \in S : f[w] <= f[m]
  BY <1>2, <1>3, Greatest
<1>5. m \in S /\ \A w \in S : w <= m
  BY <1>4
<1>6. K!Latest(S) \in S
  BY <1>5 DEF K!Latest
<1> QED
  BY <1>6

LEMMA BeginStep ==
    ASSUME KnowledgeInv, NEW s \in Sync, K!Begin(s) PROVE KnowledgeInv'
<1>1. K!TypeOK /\ Dealt(handled \cup lost, cursor) /\ K!OneDraftPerRevision
  BY DEF KnowledgeInv
<1>2. PICK st : st = [K!Idle EXCEPT !.at = "listing", !.from = cursor, !.newest = cursor]
  OBVIOUS
<1>3. st \in K!SyncState /\ st.at = "listing" /\ st.from = cursor /\ st.newest = cursor /\ st.offset = 0
  BY <1>1, <1>2, IdleSync DEF K!SyncState, K!TypeOK, K!Idle
<1>4. sync' = [sync EXCEPT ![s] = st] /\ UNCHANGED <<origin, clock, article, cursor, rows, keys, handled, lost>>
  BY <1>2 DEF K!Begin, K!SetSync
<1> QED
  BY <1>1, <1>3, <1>4, KnowledgeMoves DEF K!TypeOK, K!OneDraftPerRevision

LEMMA ListStep ==
    ASSUME KnowledgeInv, NEW s \in Sync, K!ReadPage(s) \/ K!ReadCommit(s) PROVE KnowledgeInv'
<1>1. K!TypeOK /\ Dealt(handled \cup lost, cursor) /\ K!OneDraftPerRevision /\ SyncRight(s)
  BY DEF KnowledgeInv
<1>2. sync[s] \in K!SyncState
  BY <1>1 DEF K!TypeOK
<1>3. sync[s].at = "listing" /\ sync[s].newest = sync[s].from /\ sync[s].offset = 0
      /\ Dealt(handled \cup lost, sync[s].from) /\ sync[s].from \in 0..MaxSeconds
  BY <1>1, <1>2 DEF SyncRight, K!ReadPage, K!ReadCommit, K!SyncState
<1>4. \A from \in 0..MaxSeconds : \A listing \in SUBSET K!Changed(from) :
          {K!Current(a) : a \in listing} \subseteq K!Revision
                /\ {article[a].time : a \in listing} \subseteq 0..MaxSeconds
  BY <1>1, KnowledgeAssumption DEF K!TypeOK, K!Changed, K!Current, K!Revision
<1>5. PICK from \in 0..MaxSeconds, newest \in 0..MaxSeconds, found \in SUBSET K!Revision :
          /\ from <= sync[s].from
          /\ found = {K!Current(a) : a \in K!Changed(from)}
          /\ K!SetSync(s, K!Listed(s, found, newest, TRUE))
  <2>1. CASE K!ReadPage(s)
    <3> DEFINE from == sync[s].from
               rest == Cardinality(K!Changed(from)) - sync[s].offset
    <3>1. PICK listing \in SUBSET K!Changed(from) :
             /\ Cardinality(listing) = IF rest < 0 THEN 0
                                    ELSE IF rest < PageSize THEN rest ELSE PageSize
             /\ K!SetSync(s, K!Listed(s, {K!Current(a) : a \in listing},
                               K!Latest({sync[s].newest} \cup {article[a].time : a \in listing}),
                               rest <= PageSize))
      BY <2>1, SameCounts, Zenon DEF K!ReadPage
    <3>2. IsFiniteSet(K!Changed(from)) /\ Cardinality(K!Changed(from)) <= Cardinality(Article)
      <4>1. K!Changed(from) \subseteq Article
        BY DEF K!Changed
      <4> QED
        BY <4>1, FS_Subset, KnowledgeAssumption
    <3>3. Cardinality(K!Changed(from)) \in Nat /\ Cardinality(Article) \in Nat
      BY <3>2, FS_CardinalityType, KnowledgeAssumption
    <3>4. rest = Cardinality(K!Changed(from)) /\ rest <= PageSize
      BY <1>3, <3>2, <3>3, KnowledgeAssumption
    <3>5. Cardinality(listing) = Cardinality(K!Changed(from))
      BY <3>1, <3>3, <3>4, KnowledgeAssumption
    <3>6. listing = K!Changed(from)
      BY <3>2, <3>5, FS_Subset
    <3> DEFINE times == {sync[s].newest} \cup {article[a].time : a \in listing}
    <3>7. times \in SUBSET (0..MaxSeconds) /\ times # {}
      BY <1>3, <1>4
    <3> HIDE DEF times
    <3>8. K!Latest(times) \in 0..MaxSeconds
      BY <3>7, LatestTime
    <3>9. K!SetSync(s, K!Listed(s, {K!Current(a) : a \in K!Changed(from)}, K!Latest(times), TRUE))
      <4>1. (rest <= PageSize) = TRUE
        BY <3>4
      <4> HIDE DEF rest
      <4> QED
        BY <3>1, <3>6, <4>1 DEF times
    <3>10. from \in 0..MaxSeconds /\ from <= sync[s].from
      BY <1>3
    <3>11. {K!Current(a) : a \in K!Changed(from)} \in SUBSET K!Revision
      BY <1>4, <3>10
    <3> QED
      BY <3>8, <3>9, <3>10, <3>11
  <2>2. CASE K!ReadCommit(s)
    <3>1. clock \in 0..MaxSeconds /\ 0 \in 0..MaxSeconds /\ 0 <= sync[s].from /\ sync[s].from <= sync[s].from
      BY <1>1, <1>3, KnowledgeAssumption DEF K!TypeOK
    <3>2. PICK from \in {sync[s].from, 0} :
             K!SetSync(s, K!Listed(s, {K!Current(a) : a \in K!Changed(from)}, clock, TRUE))
      BY <2>2 DEF K!ReadCommit
    <3>3. from \in 0..MaxSeconds /\ from <= sync[s].from
      BY <1>3, <3>1
    <3>4. {K!Current(a) : a \in K!Changed(from)} \in SUBSET K!Revision
      BY <1>4, <3>3
    <3> QED
      BY <3>1, <3>2, <3>3, <3>4
  <2> QED
    BY <2>1, <2>2
<1>6. PICK st : st = K!Listed(s, found, newest, TRUE)
  OBVIOUS
<1>7. found \subseteq K!Revision
  BY <1>5
<1>8. st \in K!SyncState /\ st.at = "drafting" /\ found \subseteq st.todo
  BY <1>2, <1>5, <1>6, <1>7 DEF K!Listed, K!SyncState
<1>9. Dealt(handled \cup lost \cup st.todo, st.newest)
  <2> SUFFICES ASSUME NEW a \in Article, article[a].rev > 0, article[a].how = "edited"
               PROVE  K!Current(a) \in handled \cup lost \cup st.todo
    BY DEF Dealt
  <2>1. article[a].time \in 0..MaxSeconds
    BY <1>1 DEF K!TypeOK
  <2>2. CASE article[a].time <= from
    BY <1>3, <1>5, <2>1, <2>2 DEF Dealt
  <2>3. CASE article[a].time > from
    <3>1. a \in K!Changed(from)
      BY <2>3 DEF K!Changed
    <3> QED
      BY <1>5, <1>8, <3>1
  <2> QED
    BY <1>5, <2>1, <2>2, <2>3
<1>10. sync' = [sync EXCEPT ![s] = st] /\ UNCHANGED <<origin, clock, article, cursor, rows, keys, handled, lost>>
  BY <1>5, <1>6 DEF K!ReadPage, K!ReadCommit, K!SetSync
<1> QED
  BY <1>1, <1>8, <1>9, <1>10, KnowledgeMoves DEF K!TypeOK, K!OneDraftPerRevision

LEMMA DraftStep ==
    ASSUME KnowledgeInv, NEW s \in Sync, K!Look(s) \/ K!Insert(s) \/ K!Unreadable(s) PROVE KnowledgeInv'
<1>1. K!TypeOK /\ Dealt(handled \cup lost, cursor) /\ K!OneDraftPerRevision /\ SyncRight(s)
  BY DEF KnowledgeInv
<1>2. sync[s] \in K!SyncState
  BY <1>1 DEF K!TypeOK
<1>3. sync[s].at \in {"drafting", "inserting"}
  BY DEF K!Look, K!Insert, K!Unreadable
<1>4. Dealt(handled \cup lost \cup sync[s].todo, sync[s].newest)
  BY <1>1, <1>3 DEF SyncRight
<1>5. UNCHANGED <<origin, clock, article, cursor>>
  BY DEF K!Look, K!Insert, K!Unreadable
<1> DEFINE Typed == /\ handled \subseteq handled' /\ handled' \subseteq K!Revision
                    /\ lost \subseteq lost' /\ lost' \subseteq K!Revision
                    /\ rows' \in [K!Revision -> Nat] /\ keys' \subseteq Article
                    /\ \A r \in K!Revision : rows'[r] <= 1
<1>6. PICK st \in K!SyncState : /\ sync' = [sync EXCEPT ![s] = st]
                                /\ st.at \in {"drafting", "inserting"} /\ st.newest = sync[s].newest
                                /\ sync[s].todo \subseteq st.todo \cup handled' \cup lost'
                                /\ Typed
  <2>1. CASE K!Look(s)
    <3>1. PICK r \in sync[s].todo :
            IF rows[r] > 0
            THEN /\ K!SetSync(s, [sync[s] EXCEPT !.todo = @ \ {r}])
                 /\ handled' = handled \cup {r}
            ELSE /\ K!SetSync(s, [sync[s] EXCEPT !.at = "inserting", !.one = {r},
                                               !.known = r[1] \in keys])
                 /\ UNCHANGED handled
      BY <2>1 DEF K!Look
    <3>2. UNCHANGED <<rows, keys, lost>> /\ sync[s].at = "drafting"
      BY <2>1 DEF K!Look
    <3>3. r \in K!Revision
      BY <1>2 DEF K!SyncState
    <3>4. Typed
      BY <1>1, <3>1, <3>2, <3>3 DEF K!TypeOK, K!OneDraftPerRevision
    <3>5. CASE rows[r] > 0
      <4>1. PICK st : st = [sync[s] EXCEPT !.todo = @ \ {r}]
        OBVIOUS
      <4>2. st \in K!SyncState /\ st.at = "drafting" /\ st.newest = sync[s].newest
            /\ st.todo = sync[s].todo \ {r}
        BY <1>2, <3>2, <4>1 DEF K!SyncState
      <4>3. sync' = [sync EXCEPT ![s] = st] /\ handled' = handled \cup {r}
        BY <3>1, <3>5, <4>1 DEF K!SetSync
      <4> QED
        BY <3>4, <4>2, <4>3
    <3>6. CASE ~(rows[r] > 0)
      <4> DEFINE tried == r[1] \in keys
      <4>0. tried \in BOOLEAN
        OBVIOUS
      <4>1. PICK st : st = [sync[s] EXCEPT !.at = "inserting", !.one = {r}, !.known = tried]
        OBVIOUS
      <4> HIDE DEF tried
      <4>2. st \in K!SyncState /\ st.at = "inserting" /\ st.newest = sync[s].newest
            /\ st.todo = sync[s].todo
        BY <1>2, <3>3, <4>0, <4>1 DEF K!SyncState
      <4>3. sync' = [sync EXCEPT ![s] = st]
        BY <3>1, <3>6, <4>1 DEF K!SetSync, tried
      <4> QED
        BY <3>4, <4>2, <4>3
    <3> QED
      BY <3>5, <3>6
  <2>2. CASE K!Unreadable(s)
    <3>1. PICK r \in sync[s].todo : /\ K!SetSync(s, [sync[s] EXCEPT !.todo = @ \ {r}])
                                    /\ handled' = handled \cup {r}
      BY <2>2 DEF K!Unreadable
    <3>2. UNCHANGED <<rows, keys, lost>> /\ sync[s].at = "drafting"
      BY <2>2 DEF K!Unreadable
    <3>3. r \in K!Revision
      BY <1>2 DEF K!SyncState
    <3>4. Typed
      BY <1>1, <3>1, <3>2, <3>3 DEF K!TypeOK, K!OneDraftPerRevision
    <3>5. PICK st : st = [sync[s] EXCEPT !.todo = @ \ {r}]
      OBVIOUS
    <3>6. st \in K!SyncState /\ st.at = "drafting" /\ st.newest = sync[s].newest
          /\ st.todo = sync[s].todo \ {r}
      BY <1>2, <3>2, <3>5 DEF K!SyncState
    <3>7. sync' = [sync EXCEPT ![s] = st]
      BY <3>1, <3>5 DEF K!SetSync
    <3> QED
      BY <3>1, <3>4, <3>6, <3>7
  <2>3. CASE K!Insert(s)
    <3>1. PICK r \in sync[s].one :
            /\ IF K!Conflict(r, sync[s].known) THEN UNCHANGED <<rows, keys>>
               ELSE /\ rows' = [rows EXCEPT ![r] = @ + 1]
                    /\ keys' = keys \cup {r[1]}
            /\ IF K!Conflict(r, sync[s].known) /\ rows[r] = 0
               THEN lost' = lost \cup {r} /\ UNCHANGED handled
               ELSE handled' = handled \cup {r} /\ UNCHANGED lost
            /\ K!SetSync(s, [sync[s] EXCEPT !.at = "drafting", !.todo = @ \ {r}, !.one = {}])
      BY <2>3 DEF K!Insert
    <3>2. r \in K!Revision /\ r[1] \in Article
      BY <1>2 DEF K!SyncState, K!Revision
    <3>3. rows \in [K!Revision -> Nat] /\ keys \subseteq Article /\ \A q \in K!Revision : rows[q] <= 1
      BY <1>1 DEF K!TypeOK, K!OneDraftPerRevision
    <3>4. /\ rows' \in [K!Revision -> Nat] /\ keys' \subseteq Article
          /\ \A q \in K!Revision : rows'[q] <= 1
      <4>1. CASE K!Conflict(r, sync[s].known)
        BY <3>1, <3>3, <4>1
      <4>2. CASE ~K!Conflict(r, sync[s].known)
        <5>1. rows[r] = 0
          BY <3>2, <3>3, <4>2 DEF K!Conflict
        <5> QED
          BY <3>1, <3>2, <3>3, <4>2, <5>1
      <4> QED
        BY <4>1, <4>2
    <3>5. /\ handled \subseteq handled' /\ handled' \subseteq K!Revision
          /\ lost \subseteq lost' /\ lost' \subseteq K!Revision /\ r \in handled' \cup lost'
      BY <1>1, <3>1, <3>2 DEF K!TypeOK
    <3>6. PICK st : st = [sync[s] EXCEPT !.at = "drafting", !.todo = @ \ {r}, !.one = {}]
      OBVIOUS
    <3>7. st \in K!SyncState /\ st.at = "drafting" /\ st.newest = sync[s].newest
          /\ st.todo = sync[s].todo \ {r}
      BY <1>2, <3>6 DEF K!SyncState
    <3>8. sync' = [sync EXCEPT ![s] = st]
      BY <3>1, <3>6 DEF K!SetSync
    <3> QED
      BY <3>4, <3>5, <3>7, <3>8
  <2> QED
    BY <2>1, <2>2, <2>3
<1>7. Dealt(handled' \cup lost' \cup st.todo, st.newest) /\ Dealt(handled' \cup lost', cursor')
  BY <1>1, <1>4, <1>5, <1>6 DEF Dealt
<1>8. cursor' \in 0..MaxSeconds
  BY <1>1, <1>5 DEF K!TypeOK
<1> QED
  BY <1>5, <1>6, <1>7, <1>8, KnowledgeMoves

LEMMA RecordStep ==
    ASSUME KnowledgeInv, NEW s \in Sync, K!Record(s) \/ K!Fail(s) PROVE KnowledgeInv'
<1>1. K!TypeOK /\ Dealt(handled \cup lost, cursor) /\ K!OneDraftPerRevision /\ SyncRight(s)
  BY DEF KnowledgeInv
<1>2. sync[s] \in K!SyncState
  BY <1>1 DEF K!TypeOK
<1>3. sync' = [sync EXCEPT ![s] = K!Idle] /\ UNCHANGED <<origin, clock, article, rows, keys, handled, lost>>
  BY DEF K!Record, K!Fail, K!SetSync
<1>4. cursor' \in 0..MaxSeconds /\ Dealt(handled' \cup lost', cursor')
  <2>1. CASE K!Record(s)
    BY <1>1, <1>2, <1>3, <2>1 DEF K!Record, K!AllDone, SyncRight, K!SyncState, Dealt
  <2>2. CASE K!Fail(s)
    BY <1>1, <1>3, <2>2 DEF K!Fail, K!TypeOK
  <2> QED
    BY <2>1, <2>2
<1>5. PICK st : st = K!Idle
  OBVIOUS
<1> QED
  BY <1>1, <1>3, <1>4, <1>5, IdleSync, KnowledgeMoves DEF K!TypeOK, K!OneDraftPerRevision

\* An edit is later than every cursor, or tied with one.
LEMMA EditStep ==
    ASSUME KnowledgeInv, NEW a \in Article, K!Edit(a) PROVE KnowledgeInv'
<1>1. K!TypeOK /\ Dealt(handled \cup lost, cursor) /\ K!OneDraftPerRevision /\ \A s \in Sync : SyncRight(s)
  BY DEF KnowledgeInv
<1>2. article[a].rev \in 0..MaxEdits /\ article[a] \in [rev: 0..MaxEdits, time: 0..MaxSeconds, how: K!How]
  BY <1>1 DEF K!TypeOK
<1>3. article[a].rev + 1 \in 0..MaxEdits
  <2> DEFINE n == article[a].rev
             Made0 == {r \in K!Revision : r[2] <= article[r[1]].rev}
             f == [k \in 1..n |-> <<a, k>>]
  <2>1. n \in Nat /\ n <= MaxEdits /\ MaxEdits \in Nat
    BY <1>2, KnowledgeAssumption
  <2>2. IsFiniteSet(K!Revision)
    <3>1. 1 \in Int /\ MaxEdits \in Int
      BY KnowledgeAssumption
    <3>2. IsFiniteSet(1..MaxEdits)
      BY <3>1, FS_Interval
    <3> QED
      BY <3>2, KnowledgeAssumption, FS_Product DEF K!Revision
  <2>3. IsFiniteSet(Made0)
    BY <2>2, FS_Subset
  <2>4. f \in Injection(1..n, Made0)
    <3>1. \A k \in 1..n : <<a, k>> \in Made0
      BY <2>1 DEF K!Revision
    <3> QED
      BY <3>1 DEF Injection, IsInjective
  <2>5. IsFiniteSet(1..n) /\ Cardinality(1..n) = n
    <3>1. 1 \in Int /\ n \in Int /\ (IF 1 > n THEN 0 ELSE n - 1 + 1) = n
      BY <2>1
    <3> HIDE DEF n
    <3> QED
      BY <3>1, FS_Interval
  <2>6. Cardinality(Made0) < MaxEdits
    BY SameCounts DEF K!Edit
  <2> HIDE DEF Made0, f
  <2>7. Cardinality(1..n) <= Cardinality(Made0)
    BY <2>3, <2>4, FS_Injection
  <2>8. Cardinality(Made0) \in Nat
    BY <2>3, FS_CardinalityType
  <2> QED
    BY <2>1, <2>5, <2>6, <2>7, <2>8
<1>4. clock' \in 0..MaxSeconds
  BY <1>1, KnowledgeAssumption DEF K!Edit, K!TypeOK
<1>5. PICK how \in K!How :
         /\ (how = "tied") = (\E t \in {cursor} \cup {sync[s].newest : s \in Sync} : t >= clock')
         /\ article' = [article EXCEPT ![a] = [rev |-> @.rev + 1, time |-> clock', how |-> how]]
  BY DEF K!Edit
<1>6. PICK e : e = [rev |-> article[a].rev + 1, time |-> clock', how |-> how]
  OBVIOUS
<1>7. e \in [rev: 0..MaxEdits, time: 0..MaxSeconds, how: K!How] /\ e.time = clock' /\ e.how = how
  BY <1>3, <1>4, <1>6
<1>8. article' = [article EXCEPT ![a] = e]
  BY <1>5, <1>6
<1>9. /\ \A b \in Article \ {a} : article'[b] = article[b]
      /\ article'[a] = e
      /\ article' \in [Article -> [rev: 0..MaxEdits, time: 0..MaxSeconds, how: K!How]]
  BY <1>1, <1>7, <1>8 DEF K!TypeOK
<1>10. UNCHANGED <<origin, cursor, sync, rows, keys, handled, lost>>
  BY DEF K!Edit
<1>11. cursor \in 0..MaxSeconds /\ \A s \in Sync : sync[s] \in K!SyncState /\ sync[s].newest \in 0..MaxSeconds
  BY <1>1 DEF K!TypeOK, K!SyncState
<1>12. how = "edited" => ~(clock' <= cursor) /\ \A s \in Sync : ~(clock' <= sync[s].newest)
  BY <1>4, <1>5, <1>11
<1>13. K!TypeOK'
  BY <1>1, <1>4, <1>9, <1>10 DEF K!TypeOK
<1>14. Dealt(handled \cup lost, cursor)'
  BY <1>1, <1>7, <1>9, <1>10, <1>12 DEF Dealt, K!Current
<1>15. ASSUME NEW s \in Sync PROVE SyncRight(s)'
  <2>1. SyncRight(s) /\ UNCHANGED <<sync, handled, lost>> /\ (how = "edited" => ~(clock' <= sync[s].newest))
    BY <1>1, <1>10, <1>12
  <2> QED
    BY <2>1, <1>7, <1>9 DEF SyncRight, Dealt, K!Current
<1>16. K!OneDraftPerRevision'
  BY <1>1, <1>10 DEF K!OneDraftPerRevision
<1> QED
  BY <1>13, <1>14, <1>15, <1>16 DEF KnowledgeInv

LEMMA KnowledgeStays ==
    ASSUME KnowledgeInv, UNCHANGED <<article, cursor, sync, handled, lost, origin>>,
           clock' \in 0..MaxSeconds, keys' \subseteq Article, rows' \in [K!Revision -> Nat],
           \A r \in K!Revision : rows'[r] <= 1
    PROVE  KnowledgeInv'
<1>1. K!TypeOK'
  BY DEF KnowledgeInv, K!TypeOK
<1>2. K!OneDraftPerRevision'
  BY DEF K!OneDraftPerRevision
<1>3. Dealt(handled \cup lost, cursor)' /\ \A s \in Sync : SyncRight(s)'
  BY DEF KnowledgeInv, SyncRight, Dealt, K!Current
<1> QED
  BY <1>1, <1>2, <1>3 DEF KnowledgeInv

LEMMA KnowledgeStep == ASSUME KnowledgeInv, K!Next PROVE KnowledgeInv'
<1>1. K!TypeOK /\ K!OneDraftPerRevision
  BY DEF KnowledgeInv
<1>2. CASE K!Tick
  BY <1>1, <1>2, KnowledgeStays, KnowledgeAssumption DEF K!Tick, K!TypeOK, K!OneDraftPerRevision
<1>3. ASSUME NEW a \in Article, K!WriteByHand(a) PROVE KnowledgeInv'
  BY <1>1, <1>3, KnowledgeStays DEF K!WriteByHand, K!TypeOK, K!OneDraftPerRevision
<1>4. ASSUME NEW r \in K!Revision, K!DiscardDraft(r) PROVE KnowledgeInv'
  BY <1>1, <1>4, KnowledgeStays DEF K!DiscardDraft, K!TypeOK, K!OneDraftPerRevision
<1> QED
  BY <1>2, <1>3, <1>4, EditStep, BeginStep, ListStep, DraftStep, RecordStep DEF K!Next

\* What the sync's properties ask is part of the invariant.
LEMMA KnowledgeHolds == KnowledgeInv => K!OneDraftPerRevision /\ K!BehindTheCursor
BY DEF KnowledgeInv, Dealt, K!BehindTheCursor

-----------------------------------------------------------------------------
(* The policy for writes.                                                  *)

\* What may be read as the rules.
AllRules == {P!AsRead(p) : p \in Offered \cup Standing} \cup {P!NoRules}
RowStatus == {"none", "executing"} \cup P!InForce \cup P!Final
PolicyRow == [status: RowStatus, asked: BOOLEAN, until: Int, at: 0..Horizon]
Reading == [step: {"idle", "read", "counted"}, rules: AllRules, recent: Nat]

PolicyTypes ==
    /\ time \in 0..Horizon
    /\ rules \in Offered \cup Standing
    /\ kill \in BOOLEAN /\ beside \in Nat
    /\ reading \in [Gated -> Reading]
    /\ row \in [Gated -> PolicyRow]
    /\ opened \in [Gated -> [asked: Int, alone: Int]]

\* If rules let the write be made, this is the minute they did.
OpenBy(a, p) ==
    /\ P!LetsAsk(Wanted[a], p, time) => opened[a].asked = time
    /\ P!LetsAlone(Wanted[a], p, time) => opened[a].alone = time

\* So do the rules in force, and those a decision is taken by; rules that ask anything of a
\* person are valid, and so are the rules in force from then on.
OpenedNow(a) ==
    /\ opened[a].asked <= time /\ opened[a].alone <= time
    /\ OpenBy(a, P!AsRead(rules))
    /\ reading[a].step # "idle" =>
          /\ row[a].status = "none"
          /\ OpenBy(a, reading[a].rules)
          /\ reading[a].rules.level # P!Shadow => P!Valid(rules)

\* How long a decision lasts, from the minute the rules let the write be made.
RowFresh(a) ==
    /\ row[a].status = "pending" => /\ row[a].asked = TRUE /\ P!Valid(rules)
                                    /\ row[a].until <= opened[a].asked + MaxTtl
    /\ row[a].status = "approved" => /\ row[a].asked = TRUE
                                     /\ row[a].until <= opened[a].asked + MaxTtl - 1 + MaxWithin
    /\ row[a].status = "allowed" => /\ row[a].asked = FALSE
                                    /\ row[a].until <= opened[a].alone + MaxWithin
    /\ row[a].status = "executing" =>
          /\ row[a].at <= time
          /\ row[a].asked = TRUE => row[a].at - opened[a].asked <= MaxTtl - 1 + MaxWithin - 1
          /\ row[a].asked = FALSE => row[a].at - opened[a].alone <= MaxWithin - 1

\* A write is coming when it is decided, or about to be and the count left room for it.
Coming(a) ==
    \/ row[a].status \in P!InForce
    \/ /\ reading[a].step = "counted" /\ reading[a].rules.level # P!Shadow
       /\ reading[a].recent < reading[a].rules.rate.max
Taken(minutes) == P!Recent(minutes) \cup {b \in Gated : Coming(b)}
Window(a, minutes) ==
    {b \in Gated : row[b].status = "executing" /\ row[b].at \in (row[a].at - minutes)..row[a].at}

\* What was made in the last minutes and what is coming are within the limit but for those that
\* were beside another; a write that is made goes from the one to the other.
RatesKept ==
    \A p \in Offered \cup Standing :
        /\ Cardinality(Taken(p.rate.minutes)) <= p.rate.max + beside
        /\ \A a \in Gated : row[a].status = "executing" =>
              Cardinality(Window(a, p.rate.minutes)) <= p.rate.max + beside

PolicyInv ==
    /\ PolicyTypes
    /\ \A a \in Gated : OpenedNow(a)
    /\ \A a \in Gated : RowFresh(a)
    /\ RatesKept

LEMMA SamePolicyCounts == \A S : P!Cardinality(S) = Cardinality(S)
BY DEF P!Cardinality, Cardinality, P!IsFiniteSet, IsFiniteSet

LEMMA NoRulesAre ==
    /\ P!Valid(P!NoRules) /\ P!NoRules.level = P!Shadow /\ P!NoRules.sop.level = P!Shadow
    /\ P!NoRules.freeze = {} /\ P!NoRules.hours = {}
    /\ P!NoRules.rate.max = 0 /\ P!NoRules.rate.minutes = 60
    /\ P!NoRules.ttl = 60 /\ P!NoRules.within = 15
BY DEF P!NoRules, P!Valid, P!Shadow

\* Rules that are read are valid and well-formed, and give no more time than the longest.
LEMMA RulesRead ==
    ASSUME NEW p \in AllRules
    PROVE  /\ P!Valid(p)
           /\ p.level \in 0..3 /\ p.sop.level \in 0..3
           /\ \A w \in p.freeze : w.start \in Nat /\ w.end \in Nat
           /\ \A h \in p.hours : h.start \in Nat /\ h.end \in Nat
           /\ p.rate.max \in Nat /\ p.rate.minutes \in Nat /\ p.ttl \in Nat /\ p.within \in Nat
           /\ p.level # P!Shadow => /\ p.ttl <= MaxTtl /\ p.within <= MaxWithin
                                    /\ p.rate.max > 0
                                    /\ \A q \in Offered \cup Standing : p.rate = q.rate
<1>1. CASE p = P!NoRules
  BY <1>1, NoRulesAre DEF P!Shadow
<1>2. CASE p # P!NoRules
  <2>1. p \in Offered \cup Standing /\ P!Valid(p)
    BY <1>2 DEF AllRules, P!AsRead
  <2>2. p.level \in 0..3 /\ p.sop.level \in 0..3
    BY <2>1, PolicyAssumption DEF P!Shadow, P!Automatic
  <2>3. /\ \A w \in p.freeze : w.start \in Nat /\ w.end \in Nat
        /\ \A h \in p.hours : h.start \in Nat /\ h.end \in Nat
    BY <2>1, PolicyAssumption
  <2>4. /\ p.rate.max \in Nat /\ p.rate.minutes \in Nat /\ p.ttl \in Nat /\ p.within \in Nat
        /\ p.ttl <= MaxTtl /\ p.within <= MaxWithin /\ p.rate.max > 0
    BY <2>1, PolicyAssumption
  <2>5. \A q \in Offered \cup Standing : p.rate = q.rate
    BY <2>1, PolicyAssumption
  <2> QED
    BY <2>1, <2>2, <2>3, <2>4, <2>5
<1> QED
  BY <1>1, <1>2

\* The smallest of the three levels.
LEMMA LevelIsLeast ==
    ASSUME NEW q, NEW p \in AllRules
    PROVE  /\ P!Level(q, p) \in Nat
           /\ P!Level(q, p) <= p.level /\ P!Level(q, p) <= P!SopLevel(q, p)
<1>1. p.level \in Nat /\ p.sop.level \in Nat /\ LevelCeiling \in Nat
  BY RulesRead, PolicyAssumption
<1>2. P!SopLevel(q, p) \in Nat
  BY <1>1 DEF P!SopLevel, P!Shadow
<1> DEFINE S == {p.level, P!SopLevel(q, p), LevelCeiling}
<1>3. \E n \in S : \A k \in S : n <= k
  <2>1. PICK x, y, z \in Nat : x = p.level /\ y = P!SopLevel(q, p) /\ z = LevelCeiling
    BY <1>1, <1>2
  <2>2. S = {x, y, z}
    BY <2>1
  <2> HIDE DEF S
  <2>3. (x <= y /\ x <= z) \/ (y <= x /\ y <= z) \/ (z <= x /\ z <= y)
    OBVIOUS
  <2> QED
    BY <2>2, <2>3
<1>4. P!Level(q, p) \in S /\ \A k \in S : P!Level(q, p) <= k
  BY <1>3 DEF P!Level, P!Lowest
<1> QED
  BY <1>1, <1>2, <1>4

\* A ruling lets a write be made, or be asked for, only at a minute the rules describe.
LEMMA RulingLets ==
    ASSUME NEW q, NEW p \in AllRules, NEW t \in 0..Horizon, NEW recent \in Nat
    PROVE  /\ P!Ruling(q, p, recent, t) \in {"denied", "shadowed", "recommended", "allowed", "pending"}
           /\ P!Ruling(q, p, recent, t) = "pending" =>
                 P!LetsAsk(q, p, t) /\ p.level # P!Shadow /\ recent < p.rate.max
           /\ P!Ruling(q, p, recent, t) = "allowed" =>
                 P!LetsAlone(q, p, t) /\ P!LetsAsk(q, p, t) /\ p.level # P!Shadow /\ recent < p.rate.max
<1> DEFINE R == P!Ruling(q, p, recent, t)
           l == P!Level(q, p)
<1>1. R \in {"denied", "shadowed", "recommended", "allowed", "pending"}
  BY DEF P!Ruling
<1>2. R \in {"allowed", "pending"} =>
         ~P!Refused(q, p, recent, t) /\ l # P!Shadow /\ l # P!Recommend
  <2>1. P!Refused(q, p, recent, t) => R = "denied"
    BY DEF P!Ruling
  <2>2. l = P!Shadow => R \in {"denied", "shadowed"}
    BY DEF P!Ruling, P!Shadow, P!Recommend, P!Automatic
  <2>3. l = P!Recommend => R \in {"denied", "recommended"}
    BY DEF P!Ruling, P!Shadow, P!Recommend, P!Automatic
  <2> HIDE DEF R
  <2> QED
    BY <2>1, <2>2, <2>3
<1>3. R = "allowed" => l = P!Automatic /\ P!Tier(q, p) = 1 /\ P!OnList(q, p)
  BY DEF P!Ruling
<1> HIDE DEF R
<1>4. /\ p.level \in 0..3 /\ p.sop.level \in 0..3 /\ p.rate.max \in Nat
      /\ l \in Nat /\ l <= p.level /\ l <= P!SopLevel(q, p)
  BY RulesRead, LevelIsLeast
<1> HIDE DEF l
<1>5. ASSUME R \in {"allowed", "pending"}
      PROVE  /\ p.level >= P!Approval /\ p.sop.level >= P!Approval /\ p.sop.hash = q.hash
             /\ l = P!Automatic => p.level = P!Automatic /\ p.sop.level = P!Automatic
  <2>1. l >= 2
    BY <1>2, <1>4, <1>5 DEF P!Shadow, P!Recommend
  <2>2. p.sop.hash = q.hash /\ P!SopLevel(q, p) = p.sop.level
    BY <1>4, <2>1 DEF P!SopLevel, P!Shadow
  <2> QED
    BY <1>4, <2>1, <2>2 DEF P!Approval, P!Automatic
<1>6. ASSUME R \in {"allowed", "pending"} PROVE P!LetsAsk(q, p, t)
  <2>1. ~P!Frozen(p, t) /\ \A h \in p.hours : P!Permits(h, t)
    BY <1>2, <1>6 DEF P!Refused
  <2>2. t \notin UNION {w.start..(w.end - 1) : w \in p.freeze}
    <3> SUFFICES ASSUME NEW w \in p.freeze, t \in w.start..(w.end - 1) PROVE FALSE
      OBVIOUS
    <3>1. w.start \in Nat /\ w.end \in Nat
      BY RulesRead
    <3> QED
      BY <2>1, <3>1 DEF P!Frozen
  <2>3. ASSUME NEW h \in p.hours PROVE t \in P!OpenMinutes(h)
    <3>1. h.start \in Nat /\ h.end \in Nat /\ h.start # h.end
      BY RulesRead DEF P!Valid
    <3>2. P!Permits(h, t)
      BY <2>1
    <3>3. PICK m : m = t % Day
      OBVIOUS
    <3>4. m \in 0..(Day - 1)
      BY <3>3, PolicyAssumption
    <3>5. (t \div Day) % Week \in h.days
      BY <3>2 DEF P!Permits
    <3>6. IF h.start <= h.end THEN h.start <= m /\ m < h.end ELSE m >= h.start \/ m < h.end
      BY <3>2, <3>3 DEF P!Permits
    <3>7. m \in IF h.start < h.end THEN h.start..(h.end - 1)
                                   ELSE (0..(Day - 1)) \ (h.end..(h.start - 1))
      BY <3>1, <3>4, <3>6
    <3> QED
      BY <3>3, <3>5, <3>7 DEF P!OpenMinutes
  <2> QED
    BY <1>5, <1>6, <2>2, <2>3 DEF P!LetsAsk
<1>7. R = "allowed" => P!LetsAlone(q, p, t)
  <2> SUFFICES ASSUME R = "allowed" PROVE P!LetsAlone(q, p, t)
    OBVIOUS
  <2>1. q.targets \cap p.raise = {} /\ q.tier = 1
    BY <1>3 DEF P!Tier
  <2>2. q.targets \ p.automatic = {}
    BY <1>3 DEF P!OnList
  <2> QED
    BY <1>3, <1>5, <1>6, <2>1, <2>2 DEF P!LetsAlone
<1>8. ASSUME R \in {"allowed", "pending"} PROVE p.level # P!Shadow /\ recent < p.rate.max
  <2>1. p.level # P!Shadow
    BY <1>4, <1>5, <1>8 DEF P!Approval, P!Shadow
  <2>2. p.rate.max > 0
    BY <2>1, RulesRead
  <2> QED
    BY <1>2, <1>4, <1>8, <2>1, <2>2 DEF P!Refused
<1> QED
  BY <1>1, <1>6, <1>7, <1>8 DEF R

LEMMA PolicyInit == P!Init => PolicyInv
<1> SUFFICES ASSUME P!Init PROVE PolicyInv
  OBVIOUS
<1>1. /\ time = 0 /\ rules \in Standing /\ kill = FALSE /\ beside = 0
      /\ reading = [a \in Gated |-> P!Idle] /\ row = [a \in Gated |-> P!Undecided]
  BY DEF P!Init
<1>2. P!Never \in Int /\ P!Never <= 0 /\ 0 \in 0..Horizon
  BY PolicyAssumption DEF P!Never
<1>3. P!Idle \in Reading /\ P!Idle.step = "idle"
  BY DEF P!Idle, Reading, AllRules
<1>4. P!Undecided \in PolicyRow /\ P!Undecided.status = "none"
  BY <1>2 DEF P!Undecided, PolicyRow, RowStatus
<1>5. opened = [a \in Gated |->
                  [asked |-> IF P!LetsAsk(Wanted[a], P!AsRead(rules), 0) THEN 0 ELSE P!Never,
                   alone |-> IF P!LetsAlone(Wanted[a], P!AsRead(rules), 0) THEN 0 ELSE P!Never]]
  BY DEF P!Init
<1>6. opened \in [Gated -> [asked: Int, alone: Int]]
  BY <1>2, <1>5
<1>7. PolicyTypes
  BY <1>1, <1>2, <1>3, <1>4, <1>6 DEF PolicyTypes
<1>8. \A a \in Gated : reading[a].step = "idle" /\ row[a].status = "none"
  BY <1>1, <1>3, <1>4
<1>9. ASSUME NEW a \in Gated PROVE OpenedNow(a)
  <2>1. /\ opened[a].asked = IF P!LetsAsk(Wanted[a], P!AsRead(rules), 0) THEN 0 ELSE P!Never
        /\ opened[a].alone = IF P!LetsAlone(Wanted[a], P!AsRead(rules), 0) THEN 0 ELSE P!Never
    BY <1>5
  <2> QED
    BY <1>1, <1>2, <1>8, <2>1 DEF OpenedNow, OpenBy
<1>10. \A a \in Gated : RowFresh(a)
  BY <1>8 DEF RowFresh
<1>11. RatesKept
  <2> SUFFICES ASSUME NEW p \in Offered \cup Standing
               PROVE  Cardinality(Taken(p.rate.minutes)) <= p.rate.max + beside
    BY <1>8 DEF RatesKept
  <2>1. \A b \in Gated : ~Coming(b) /\ row[b].status # "executing"
    BY <1>8 DEF Coming, P!InForce
  <2>2. Taken(p.rate.minutes) = {}
    BY <2>1 DEF Taken, P!Recent
  <2>3. Cardinality(Taken(p.rate.minutes)) = 0
    BY <2>2, FS_EmptySet
  <2>4. p.rate.max \in Nat
    BY PolicyAssumption
  <2> QED
    BY <1>1, <2>3, <2>4
<1> QED
  BY <1>7, <1>9, <1>10, <1>11 DEF PolicyInv

\* Sets of writes are finite, and smaller ones have fewer.
LEMMA FewerWrites ==
    ASSUME NEW S, S \subseteq Gated, NEW T, T \subseteq S
    PROVE  /\ IsFiniteSet(S) /\ Cardinality(S) \in Nat
           /\ IsFiniteSet(T) /\ Cardinality(T) \in Nat /\ Cardinality(T) <= Cardinality(S)
<1>1. IsFiniteSet(S)
  BY PolicyAssumption, FS_Subset
<1> QED
  BY <1>1, FS_Subset, FS_CardinalityType

\* Writes that are being made stay what they are and none is coming that was not, while time may
\* pass.
LEMMA RatesQuiet ==
    ASSUME PolicyInv, PolicyTypes', time <= time', beside <= beside',
           \A b \in Gated : /\ row'[b].status = "executing" <=> row[b].status = "executing"
                            /\ row[b].status = "executing" => row'[b].at = row[b].at
                            /\ Coming(b)' => Coming(b)
    PROVE  RatesKept'
<1>1. time \in Nat /\ time' \in Nat /\ beside \in Nat /\ beside' \in Nat
  BY DEF PolicyInv, PolicyTypes
<1> SUFFICES ASSUME NEW p \in Offered \cup Standing
             PROVE  /\ Cardinality(Taken(p.rate.minutes))' <= p.rate.max + beside'
                    /\ \A a \in Gated : row'[a].status = "executing" =>
                          Cardinality(Window(a, p.rate.minutes))' <= p.rate.max + beside'
  BY DEF RatesKept
<1>2. PICK m \in Nat, n \in Nat : m = p.rate.minutes /\ n = p.rate.max
  BY PolicyAssumption
<1>3. /\ Cardinality(Taken(m)) <= n + beside
      /\ \A a \in Gated : row[a].status = "executing" => Cardinality(Window(a, m)) <= n + beside
  BY <1>2 DEF PolicyInv, RatesKept
<1>4. Taken(m)' \subseteq Taken(m)
  <2>1. ASSUME NEW b \in Gated, row'[b].status = "executing", row'[b].at >= time' - m
        PROVE  row[b].status = "executing" /\ row[b].at >= time - m
    <3>1. row[b].status = "executing" /\ row'[b].at = row[b].at
      BY <2>1
    <3>2. row[b].at \in Nat
      BY DEF PolicyInv, PolicyTypes, PolicyRow
    <3> QED
      BY <1>1, <2>1, <3>1, <3>2
  <2> QED
    BY <2>1 DEF Taken, P!Recent
<1>5. Taken(m) \subseteq Gated
  BY DEF Taken, P!Recent
<1>6. /\ Cardinality(Taken(m)') <= Cardinality(Taken(m))
      /\ Cardinality(Taken(m)') \in Nat /\ Cardinality(Taken(m)) \in Nat
  BY <1>4, <1>5, FewerWrites
<1>7. Cardinality(Taken(m)') <= n + beside'
  BY <1>1, <1>3, <1>6
<1>8. ASSUME NEW a \in Gated, row'[a].status = "executing"
      PROVE  Cardinality(Window(a, m)') <= n + beside'
  <2>1. Window(a, m)' = Window(a, m)
    BY <1>8 DEF Window
  <2>2. Cardinality(Window(a, m)) \in Nat
    BY FewerWrites DEF Window
  <2> QED
    BY <1>1, <1>3, <1>8, <2>1, <2>2
<1> QED
  BY <1>2, <1>7, <1>8

\* The rules change, or a minute passes, and what they let be made is noted.
LEMMA RulesChange ==
    ASSUME PolicyInv, time' \in 0..Horizon, time <= time', rules' \in Offered \cup Standing,
           P!Valid(rules) => P!Valid(rules'),
           opened' = P!Opened(rules', time'), UNCHANGED <<reading, row, beside>>, kill' \in BOOLEAN,
           time' = time \/ \A a \in Gated : reading[a].step = "idle"
    PROVE  PolicyInv'
<1>1. PolicyTypes
  BY DEF PolicyInv
<1>2. ASSUME NEW a \in Gated
      PROVE  /\ opened'[a] \in [asked: Int, alone: Int]
             /\ opened[a].asked <= opened'[a].asked /\ opened'[a].asked <= time'
             /\ opened[a].alone <= opened'[a].alone /\ opened'[a].alone <= time'
             /\ opened[a].asked \in Int /\ opened[a].alone \in Int
             /\ opened'[a].asked \in Int /\ opened'[a].alone \in Int
             /\ OpenBy(a, P!AsRead(rules))'
             /\ opened'[a].asked = time' \/ opened'[a].asked = opened[a].asked
             /\ opened'[a].alone = time' \/ opened'[a].alone = opened[a].alone
  <2>1. opened[a] \in [asked: Int, alone: Int] /\ time \in Int /\ time' \in Int
        /\ opened[a].asked <= time /\ opened[a].alone <= time
    BY <1>1 DEF PolicyTypes, PolicyInv, OpenedNow
  <2>2. opened'[a] = [asked |-> IF P!LetsAsk(Wanted[a], P!AsRead(rules'), time') THEN time' ELSE opened[a].asked,
                      alone |-> IF P!LetsAlone(Wanted[a], P!AsRead(rules'), time') THEN time' ELSE opened[a].alone]
    BY DEF P!Opened
  <2>3. /\ opened'[a].asked = IF P!LetsAsk(Wanted[a], P!AsRead(rules'), time') THEN time' ELSE opened[a].asked
        /\ opened'[a].alone = IF P!LetsAlone(Wanted[a], P!AsRead(rules'), time') THEN time' ELSE opened[a].alone
    BY <2>2
  <2>4. opened'[a] \in [asked: Int, alone: Int]
    BY <2>1, <2>2
  <2>5. OpenBy(a, P!AsRead(rules))'
    BY <2>3 DEF OpenBy
  <2> QED
    BY <2>1, <2>3, <2>4, <2>5
<1>3. PolicyTypes'
  <2>1. opened' \in [Gated -> [asked: Int, alone: Int]]
    <3>1. opened' = [a \in Gated |-> opened'[a]]
      BY DEF P!Opened
    <3> QED
      BY <1>2, <3>1
  <2> QED
    BY <1>1, <2>1 DEF PolicyTypes
<1>4. ASSUME NEW a \in Gated PROVE OpenedNow(a)'
  <2>1. OpenedNow(a)
    BY DEF PolicyInv
  <2>2. reading[a].step # "idle" => time' = time
    OBVIOUS
  <2>3. ASSUME reading[a].step # "idle" PROVE OpenBy(a, reading[a].rules)'
    <3>1. time' = time /\ UNCHANGED reading /\ time \in Int
      BY <1>1, <2>2, <2>3 DEF PolicyTypes
    <3>2. opened[a].asked = time => opened'[a].asked = time
      BY <1>2, <3>1
    <3>3. opened[a].alone = time => opened'[a].alone = time
      BY <1>2, <3>1
    <3> QED
      BY <2>1, <2>3, <3>1, <3>2, <3>3 DEF OpenedNow, OpenBy
  <2>4. reading[a].step # "idle" /\ reading[a].rules.level # P!Shadow => P!Valid(rules')
    BY <2>1 DEF OpenedNow
  <2> QED
    BY <1>2, <2>1, <2>3, <2>4 DEF OpenedNow, P!Shadow
<1>5. ASSUME NEW a \in Gated PROVE RowFresh(a)'
  <2>1. RowFresh(a)
    BY DEF PolicyInv
  <2>2. row[a] \in PolicyRow /\ row[a].until \in Int /\ row[a].at \in Int /\ time \in Int /\ time' \in Int
    BY <1>1 DEF PolicyTypes, PolicyRow
  <2>3. MaxTtl \in Int /\ MaxWithin \in Int
    BY PolicyAssumption
  <2> QED
    BY <1>2, <2>1, <2>2, <2>3 DEF RowFresh
<1>6. RatesKept'
  <2>1. \A a \in Gated : Coming(a)' => Coming(a)
    BY DEF Coming
  <2>2. beside <= beside'
    BY <1>1 DEF PolicyTypes
  <2> QED
    BY <1>3, <2>1, <2>2, RatesQuiet
<1> QED
  BY <1>3, <1>4, <1>5, <1>6 DEF PolicyInv

\* A step of one write, which leaves the others, the rules and the time as they are.
LEMMA OneWrite ==
    ASSUME PolicyInv, NEW a \in Gated, UNCHANGED <<time, rules, kill, opened>>,
           reading' \in [Gated -> Reading], row' \in [Gated -> PolicyRow], beside' \in Nat,
           \A b \in Gated \ {a} : reading'[b] = reading[b] /\ row'[b] = row[b],
           OpenedNow(a)', RowFresh(a)', PolicyTypes' => RatesKept'
    PROVE  PolicyInv'
<1>1. PolicyTypes'
  BY DEF PolicyInv, PolicyTypes
<1>2. ASSUME NEW b \in Gated PROVE OpenedNow(b)' /\ RowFresh(b)'
  <2>1. CASE b # a
    BY <2>1 DEF PolicyInv, OpenedNow, OpenBy, RowFresh
  <2> QED
    BY <2>1
<1> QED
  BY <1>1, <1>2 DEF PolicyInv

LEMMA PolicySetPolicy == ASSUME PolicyInv, P!SetPolicy PROVE PolicyInv'
<1>1. time \in 0..Horizon /\ rules' \in Offered /\ P!Valid(rules') /\ kill \in BOOLEAN
  BY DEF P!SetPolicy, PolicyInv, PolicyTypes
<1>2. /\ opened' = P!Opened(rules', time') /\ UNCHANGED <<time, kill, reading, row, beside>>
      /\ time <= time' /\ time' = time
  BY <1>1 DEF P!SetPolicy
<1> QED
  BY <1>1, <1>2, RulesChange

LEMMA PolicyTick == ASSUME PolicyInv, P!Tick PROVE PolicyInv'
<1>1. time \in 0..Horizon /\ rules \in Offered \cup Standing /\ kill \in BOOLEAN /\ Horizon \in Nat
  BY PolicyAssumption DEF PolicyInv, PolicyTypes
<1>2. /\ opened' = P!Opened(rules', time') /\ UNCHANGED <<rules, kill, reading, row, beside>>
      /\ time' = time + 1 /\ time < Horizon /\ \A a \in Gated : reading[a].step = "idle"
  BY DEF P!Tick
<1>3. time' \in 0..Horizon /\ time <= time'
  BY <1>1, <1>2
<1> QED
  BY <1>1, <1>2, <1>3, RulesChange

\* Nothing but the kill switch.
LEMMA PolicyKeepsStill ==
    ASSUME PolicyInv, UNCHANGED <<time, rules, reading, row, opened, beside>>, kill' \in BOOLEAN
    PROVE  PolicyInv'
<1>1. PolicyTypes'
  BY DEF PolicyInv, PolicyTypes
<1>2. \A a \in Gated : OpenedNow(a)' /\ RowFresh(a)'
  BY DEF PolicyInv, OpenedNow, OpenBy, RowFresh
<1>3. RatesKept'
  BY DEF PolicyInv, RatesKept, Taken, Coming, Window, P!Recent
<1> QED
  BY <1>1, <1>2, <1>3 DEF PolicyInv

LEMMA PolicyReadPolicy == ASSUME PolicyInv, NEW a \in Gated, P!ReadPolicy(a) PROVE PolicyInv'
<1>1. PolicyTypes /\ OpenedNow(a) /\ RowFresh(a)
  BY DEF PolicyInv
<1> DEFINE R == [step |-> "read", rules |-> P!AsRead(rules), recent |-> 0]
<1>2. /\ row[a].status = "none" /\ reading[a].step = "idle"
      /\ reading' = [reading EXCEPT ![a] = R]
      /\ UNCHANGED <<time, rules, kill, row, opened, beside>>
  BY DEF P!ReadPolicy
<1>3. P!AsRead(rules) \in AllRules
  BY <1>1 DEF AllRules, PolicyTypes
<1>4. R \in Reading /\ R.step = "read" /\ R.rules = P!AsRead(rules)
  BY <1>3 DEF Reading
<1> HIDE DEF R
<1>5. /\ reading' \in [Gated -> Reading] /\ reading'[a] = R
      /\ \A b \in Gated \ {a} : reading'[b] = reading[b]
  BY <1>1, <1>2, <1>4 DEF PolicyTypes
<1>6. R.rules.level # P!Shadow => P!Valid(rules)
  BY <1>4, NoRulesAre DEF P!AsRead
<1>7. OpenedNow(a)'
  BY <1>1, <1>2, <1>4, <1>5, <1>6 DEF OpenedNow, OpenBy, P!Shadow
<1>8. RowFresh(a)'
  BY <1>1, <1>2 DEF RowFresh
<1>9. ASSUME PolicyTypes' PROVE RatesKept'
  <2>1. time <= time' /\ beside <= beside'
    BY <1>1, <1>2 DEF PolicyTypes
  <2>2. \A b \in Gated : Coming(b)' => Coming(b)
    BY <1>2, <1>4, <1>5 DEF Coming
  <2> QED
    BY <1>2, <1>9, <2>1, <2>2, RatesQuiet
<1> QED
  BY <1>1, <1>2, <1>5, <1>7, <1>8, <1>9, OneWrite DEF PolicyTypes

LEMMA PolicyCountRecent == ASSUME PolicyInv, NEW a \in Gated, P!CountRecent(a) PROVE PolicyInv'
<1>1. PolicyTypes /\ OpenedNow(a) /\ RowFresh(a)
  BY DEF PolicyInv
<1> DEFINE n == Cardinality(P!Recent(reading[a].rules.rate.minutes))
           R == [reading[a] EXCEPT !.step = "counted", !.recent = n]
<1>2. /\ reading[a].step = "read" /\ reading' = [reading EXCEPT ![a] = R]
      /\ UNCHANGED <<time, rules, kill, row, opened>>
  BY SamePolicyCounts DEF P!CountRecent
<1> DEFINE k == Cardinality(P!OnTheirWay)
<1>3. beside' = IF k > beside THEN k ELSE beside
  BY SamePolicyCounts DEF P!CountRecent
<1>4. n \in Nat
  <2>1. IsFiniteSet(P!Recent(reading[a].rules.rate.minutes))
    BY PolicyAssumption, FS_Subset DEF P!Recent
  <2> QED
    BY <2>1, FS_CardinalityType
<1> HIDE DEF n
<1>5. R \in Reading /\ R.step = "counted" /\ R.rules = reading[a].rules /\ R.recent = n
  <2>1. reading[a] \in Reading
    BY <1>1 DEF PolicyTypes
  <2> QED
    BY <1>4, <2>1 DEF Reading
<1> HIDE DEF R
<1>6. /\ reading' \in [Gated -> Reading] /\ reading'[a] = R
      /\ \A b \in Gated \ {a} : reading'[b] = reading[b]
  BY <1>1, <1>2, <1>5 DEF PolicyTypes
<1>7. OpenedNow(a)'
  BY <1>1, <1>2, <1>5, <1>6 DEF OpenedNow, OpenBy, P!Shadow
<1>8. RowFresh(a)'
  BY <1>1, <1>2 DEF RowFresh
<1>9. k \in Nat /\ beside \in Nat /\ beside <= beside' /\ k <= beside' /\ beside' \in Nat
  <2>1. P!OnTheirWay \subseteq Gated
    BY DEF P!OnTheirWay
  <2>2. k \in Nat
    BY <2>1, FewerWrites
  <2>3. beside \in Nat
    BY <1>1 DEF PolicyTypes
  <2> HIDE DEF k
  <2> QED
    BY <1>3, <2>2, <2>3
<1>10. ASSUME Coming(a)', NEW p \in Offered \cup Standing
       PROVE  Cardinality(Taken(p.rate.minutes))' <= p.rate.max + beside'
  <2> DEFINE Past == P!Recent(p.rate.minutes)
             Way == P!OnTheirWay
  <2>1. row[a].status \notin P!InForce
    BY <1>1, <1>2 DEF OpenedNow, P!InForce
  <2>2. /\ reading[a].rules.level # P!Shadow /\ n < reading[a].rules.rate.max
    BY <1>2, <1>5, <1>6, <1>10, <2>1 DEF Coming
  <2>3. reading[a].rules \in AllRules
    BY <1>1 DEF PolicyTypes, Reading
  <2>4. reading[a].rules.rate = p.rate
    BY <2>2, <2>3, RulesRead
  <2>5. n = Cardinality(Past) /\ Cardinality(Past) < p.rate.max /\ p.rate.max \in Nat
    BY <2>2, <2>4, PolicyAssumption DEF n
  <2>6. Taken(p.rate.minutes)' \subseteq Past \cup (Way \cup {a})
    <3>1. P!Recent(p.rate.minutes)' = Past
      BY <1>2 DEF P!Recent
    <3>2. ASSUME NEW b \in Gated \ {a}, Coming(b)' PROVE b \in Way
      BY <1>2, <1>6, <3>2 DEF Coming, P!OnTheirWay
    <3> QED
      BY <3>1, <3>2 DEF Taken
  <2>7. Past \subseteq Gated /\ Way \subseteq Gated
    BY DEF P!Recent, P!OnTheirWay
  <2>8. /\ IsFiniteSet(Past) /\ Cardinality(Past) \in Nat /\ IsFiniteSet(Way) /\ Cardinality(Way) = k
    BY <2>7, FewerWrites
  <2> HIDE DEF Past, Way, k
  <2>9. IsFiniteSet(Way \cup {a}) /\ Cardinality(Way \cup {a}) <= k + 1 /\ Cardinality(Way \cup {a}) \in Nat
    <3>1. /\ IsFiniteSet(Way \cup {a})
          /\ Cardinality(Way \cup {a}) = IF a \in Way THEN Cardinality(Way) ELSE Cardinality(Way) + 1
      BY <2>8, FS_AddElement
    <3>2. CASE a \in Way
      BY <1>9, <2>8, <3>1, <3>2
    <3>3. CASE a \notin Way
      BY <1>9, <2>8, <3>1, <3>3
    <3> QED
      BY <3>2, <3>3
  <2>10. /\ Cardinality(Past \cup (Way \cup {a})) = Cardinality(Past) + Cardinality(Way \cup {a})
                                             - Cardinality(Past \cap (Way \cup {a}))
         /\ Cardinality(Past \cap (Way \cup {a})) \in Nat
    <3>1. IsFiniteSet(Past \cap (Way \cup {a}))
      BY <2>8, FS_Subset
    <3> QED
      BY <2>8, <2>9, <3>1, FS_Union, FS_CardinalityType
  <2>11. Past \cup (Way \cup {a}) \subseteq Gated
    BY <2>7
  <2>12. /\ Cardinality(Taken(p.rate.minutes)') <= Cardinality(Past \cup (Way \cup {a}))
         /\ Cardinality(Taken(p.rate.minutes)') \in Nat
         /\ Cardinality(Past \cup (Way \cup {a})) \in Nat
    BY <2>6, <2>11, FewerWrites
  <2> QED
    BY <1>9, <2>5, <2>8, <2>9, <2>10, <2>12
<1>11. ASSUME PolicyTypes' PROVE RatesKept'
  <2>1. CASE ~Coming(a)'
    <3>1. \A b \in Gated : Coming(b)' => Coming(b)
      BY <1>2, <1>6, <2>1 DEF Coming
    <3>2. time <= time'
      BY <1>1, <1>2 DEF PolicyTypes
    <3> QED
      BY <1>2, <1>9, <1>11, <3>1, <3>2, RatesQuiet
  <2>2. CASE Coming(a)'
    <3> SUFFICES ASSUME NEW p \in Offered \cup Standing, NEW c \in Gated, row'[c].status = "executing"
                 PROVE  Cardinality(Window(c, p.rate.minutes))' <= p.rate.max + beside'
      BY <1>10, <2>2 DEF RatesKept
    <3>1. Window(c, p.rate.minutes)' = Window(c, p.rate.minutes)
      BY <1>2 DEF Window
    <3>2. Cardinality(Window(c, p.rate.minutes)) <= p.rate.max + beside
      BY <1>2 DEF PolicyInv, RatesKept
    <3>3. Cardinality(Window(c, p.rate.minutes)) \in Nat /\ p.rate.max \in Nat
      BY FewerWrites, PolicyAssumption DEF Window
    <3> QED
      BY <1>9, <3>1, <3>2, <3>3
  <2> QED
    BY <2>1, <2>2
<1> QED
  BY <1>1, <1>2, <1>6, <1>7, <1>8, <1>9, <1>11, OneWrite DEF PolicyTypes

LEMMA PolicyCrash == ASSUME PolicyInv, NEW a \in Gated, P!Crash(a) PROVE PolicyInv'
<1>1. PolicyTypes /\ OpenedNow(a) /\ RowFresh(a)
  BY DEF PolicyInv
<1>2. reading' = [reading EXCEPT ![a] = P!Idle] /\ UNCHANGED <<time, rules, kill, row, opened, beside>>
  BY DEF P!Crash
<1>3. P!Idle \in Reading /\ P!Idle.step = "idle"
  BY DEF P!Idle, Reading, AllRules
<1>4. /\ reading' \in [Gated -> Reading] /\ reading'[a].step = "idle"
      /\ \A b \in Gated \ {a} : reading'[b] = reading[b]
  BY <1>1, <1>2, <1>3 DEF PolicyTypes
<1>5. OpenedNow(a)' /\ RowFresh(a)'
  BY <1>1, <1>2, <1>4 DEF OpenedNow, OpenBy, RowFresh
<1>6. ASSUME PolicyTypes' PROVE RatesKept'
  <2>1. time <= time' /\ beside <= beside'
    BY <1>1, <1>2 DEF PolicyTypes
  <2>2. \A b \in Gated : Coming(b)' => Coming(b)
    BY <1>2, <1>4 DEF Coming
  <2> QED
    BY <1>2, <1>6, <2>1, <2>2, RatesQuiet
<1> QED
  BY <1>1, <1>2, <1>4, <1>5, <1>6, OneWrite DEF PolicyTypes

\* A row that is in force is given a final status.
LEMMA PolicyTo ==
    ASSUME PolicyInv, NEW a \in Gated, NEW s \in P!Final, row[a].status \in P!InForce, P!To(a, s)
    PROVE  PolicyInv'
<1>1. PolicyTypes /\ OpenedNow(a) /\ RowFresh(a)
  BY DEF PolicyInv
<1> DEFINE R == [P!Undecided EXCEPT !.status = s]
<1>2. row' = [row EXCEPT ![a] = R] /\ UNCHANGED <<time, rules, kill, reading, opened, beside>>
  BY DEF P!To
<1>3. R \in PolicyRow /\ R.status = s
  <2>1. 0 \in 0..Horizon
    BY PolicyAssumption
  <2>2. P!Undecided \in PolicyRow
    BY <2>1 DEF P!Undecided, PolicyRow, RowStatus
  <2>3. s \in RowStatus
    BY DEF RowStatus
  <2> QED
    BY <2>2, <2>3 DEF PolicyRow
<1> HIDE DEF R
<1>4. /\ row' \in [Gated -> PolicyRow] /\ row'[a].status = s
      /\ \A b \in Gated \ {a} : row'[b] = row[b]
  BY <1>1, <1>2, <1>3 DEF PolicyTypes
<1>5. /\ s # "none" /\ s # "executing" /\ s \notin P!InForce
      /\ s # "pending" /\ s # "approved" /\ s # "allowed" /\ row[a].status # "none"
      /\ row[a].status # "executing"
  BY DEF P!Final, P!InForce
<1>6. OpenedNow(a)' /\ RowFresh(a)'
  BY <1>1, <1>2, <1>4, <1>5 DEF OpenedNow, OpenBy, RowFresh
<1>7. ASSUME PolicyTypes' PROVE RatesKept'
  <2>1. time <= time' /\ beside <= beside'
    BY <1>1, <1>2 DEF PolicyTypes
  <2>2. \A b \in Gated : Coming(b)' => Coming(b)
    BY <1>2, <1>4, <1>5 DEF Coming
  <2> QED
    BY <1>4, <1>5, <1>7, <2>1, <2>2, RatesQuiet
<1> QED
  BY <1>1, <1>2, <1>4, <1>6, <1>7, OneWrite DEF PolicyTypes

LEMMA PolicyApprove == ASSUME PolicyInv, NEW a \in Gated, P!Approve(a) PROVE PolicyInv'
<1>1. PolicyTypes /\ OpenedNow(a) /\ RowFresh(a)
  BY DEF PolicyInv
<1> DEFINE t == time + P!AsRead(rules).within
           R == [row[a] EXCEPT !.status = "approved", !.until = t]
<1>2. /\ row[a].status = "pending" /\ time < row[a].until
      /\ row' = [row EXCEPT ![a] = R] /\ UNCHANGED <<time, rules, kill, reading, opened, beside>>
  BY DEF P!Approve, P!InTime
<1>3. row[a].asked = TRUE /\ P!Valid(rules) /\ row[a].until <= opened[a].asked + MaxTtl
  BY <1>1, <1>2 DEF RowFresh
<1>4. /\ row[a] \in PolicyRow /\ row[a].until \in Int /\ time \in Nat /\ opened[a].asked \in Int
      /\ MaxTtl \in Nat /\ MaxWithin \in Nat
  BY <1>1, PolicyAssumption DEF PolicyTypes, PolicyRow
<1>5. t \in Int /\ t <= opened[a].asked + MaxTtl - 1 + MaxWithin
  <2>1. P!AsRead(rules) = rules /\ rules \in Offered \cup Standing
    BY <1>1, <1>3 DEF P!AsRead, PolicyTypes
  <2>2. rules.within \in Nat /\ rules.within <= MaxWithin
    BY <1>3, <2>1, PolicyAssumption
  <2> QED
    BY <1>2, <1>3, <1>4, <2>1, <2>2
<1> HIDE DEF t
<1>6. R \in PolicyRow /\ R.status = "approved" /\ R.asked = TRUE /\ R.until = t
  BY <1>3, <1>4, <1>5 DEF PolicyRow, RowStatus, P!InForce
<1> HIDE DEF R
<1>7. /\ row' \in [Gated -> PolicyRow] /\ row'[a] = R
      /\ \A b \in Gated \ {a} : row'[b] = row[b]
  BY <1>1, <1>2, <1>6 DEF PolicyTypes
<1>8. OpenedNow(a)' /\ RowFresh(a)'
  BY <1>1, <1>2, <1>5, <1>6, <1>7 DEF OpenedNow, OpenBy, RowFresh
<1>9. ASSUME PolicyTypes' PROVE RatesKept'
  <2>1. time <= time' /\ beside <= beside'
    BY <1>1, <1>2 DEF PolicyTypes
  <2>2. row[a].status \in P!InForce /\ R.status # "executing" /\ row[a].status # "executing"
    BY <1>2, <1>6 DEF P!InForce
  <2>3. \A b \in Gated : Coming(b)' => Coming(b)
    BY <1>2, <1>7, <2>2 DEF Coming
  <2> QED
    BY <1>7, <1>9, <2>1, <2>2, <2>3, RatesQuiet
<1> QED
  BY <1>1, <1>2, <1>7, <1>8, <1>9, OneWrite DEF PolicyTypes

LEMMA PolicyDecide == ASSUME PolicyInv, NEW a \in Gated, P!Decide(a) PROVE PolicyInv'
<1>1. PolicyTypes /\ OpenedNow(a) /\ RowFresh(a)
  BY DEF PolicyInv
<1> DEFINE p == reading[a].rules
           s == P!Ruling(Wanted[a], p, reading[a].recent, time)
           asks == s = "pending"
           t == CASE s = "pending" -> time + p.ttl [] s = "allowed" -> time + p.within [] OTHER -> 0
           R == [status |-> s, asked |-> asks, until |-> t, at |-> 0]
<1>2. /\ reading[a].step = "counted" /\ row' = [row EXCEPT ![a] = R]
      /\ reading' = [reading EXCEPT ![a] = P!Idle] /\ UNCHANGED <<time, rules, kill, opened, beside>>
  BY DEF P!Decide
<1>3. /\ reading[a] \in Reading /\ p \in AllRules /\ reading[a].recent \in Nat
      /\ time \in 0..Horizon /\ time \in Nat /\ Horizon \in Nat
      /\ opened[a].asked \in Int /\ opened[a].alone \in Int
      /\ MaxTtl \in Nat /\ MaxWithin \in Nat
  BY <1>1, PolicyAssumption DEF PolicyTypes, Reading
<1>4. /\ row[a].status = "none" /\ OpenBy(a, p)
      /\ p.level # P!Shadow => P!Valid(rules)
  BY <1>1, <1>2 DEF OpenedNow
<1>5. /\ s \in {"denied", "shadowed", "recommended", "allowed", "pending"}
      /\ s = "pending" => P!LetsAsk(Wanted[a], p, time) /\ p.level # P!Shadow /\ reading[a].recent < p.rate.max
      /\ s = "allowed" => P!LetsAlone(Wanted[a], p, time) /\ p.level # P!Shadow /\ reading[a].recent < p.rate.max
  BY <1>3, RulingLets
<1>6. p.ttl \in Nat /\ p.within \in Nat
      /\ (p.level # P!Shadow => p.ttl <= MaxTtl /\ p.within <= MaxWithin)
      /\ (p.level # P!Shadow => \A q \in Offered \cup Standing : p.rate = q.rate)
  BY <1>3, RulesRead
<1> HIDE DEF s
<1>7. /\ t \in Int /\ (s = "pending" => t = time + p.ttl) /\ (s = "allowed" => t = time + p.within)
  BY <1>3, <1>6
<1>8. /\ s = "pending" => t <= opened[a].asked + MaxTtl /\ P!Valid(rules)
      /\ s = "allowed" => t <= opened[a].alone + MaxWithin
  BY <1>3, <1>4, <1>5, <1>6, <1>7 DEF OpenBy
<1> HIDE DEF t
<1>9. asks \in BOOLEAN /\ (s = "pending" => asks = TRUE) /\ (s = "allowed" => asks = FALSE)
  OBVIOUS
<1> HIDE DEF asks
<1>10. R \in PolicyRow /\ R.status = s /\ R.asked = asks /\ R.until = t
  <2>1. s \in RowStatus
    BY <1>5 DEF RowStatus, P!InForce, P!Final
  <2>2. 0 \in 0..Horizon
    BY <1>3
  <2> QED
    BY <1>7, <1>9, <2>1, <2>2 DEF PolicyRow
<1> HIDE DEF R
<1>11. P!Idle \in Reading /\ P!Idle.step = "idle"
  BY DEF P!Idle, Reading, AllRules
<1>12. /\ reading' \in [Gated -> Reading] /\ reading'[a].step = "idle"
       /\ row' \in [Gated -> PolicyRow] /\ row'[a] = R
       /\ \A b \in Gated \ {a} : reading'[b] = reading[b] /\ row'[b] = row[b]
  BY <1>1, <1>2, <1>10, <1>11 DEF PolicyTypes
<1>13. OpenedNow(a)'
  BY <1>1, <1>2, <1>12 DEF OpenedNow, OpenBy
<1>14. RowFresh(a)'
  <2>1. s # "approved" /\ s # "executing"
    BY <1>5
  <2> QED
    BY <1>2, <1>8, <1>9, <1>10, <1>12, <2>1 DEF RowFresh
<1>15. ASSUME PolicyTypes' PROVE RatesKept'
  <2>1. time <= time' /\ beside <= beside'
    BY <1>1, <1>2, <1>3 DEF PolicyTypes
  <2>2. row'[a].status # "executing" /\ row[a].status # "executing"
    BY <1>4, <1>5, <1>10, <1>12
  <2>3. ASSUME Coming(a)' PROVE Coming(a)
    <3>1. s \in {"pending", "allowed"}
      BY <1>5, <1>10, <1>12, <2>3 DEF Coming, P!InForce
    <3> QED
      BY <1>2, <1>5, <3>1 DEF Coming
  <2>4. \A b \in Gated : Coming(b)' => Coming(b)
    BY <1>12, <2>3 DEF Coming
  <2> QED
    BY <1>12, <1>15, <2>1, <2>2, <2>4, RatesQuiet
<1> QED
  BY <1>1, <1>2, <1>12, <1>13, <1>14, <1>15, OneWrite DEF PolicyTypes

\* A write is made: it was coming, and is counted as one or the other.
LEMMA PolicySend ==
    ASSUME PolicyInv, NEW a \in Gated, row[a].status \in {"approved", "allowed"}, P!InTime(a),
           row' = [row EXCEPT ![a].status = "executing", ![a].at = time],
           UNCHANGED <<time, rules, kill, reading, opened, beside>>
    PROVE  PolicyInv'
<1>1. PolicyTypes /\ OpenedNow(a) /\ RowFresh(a)
  BY DEF PolicyInv
<1> DEFINE R == [row[a] EXCEPT !.status = "executing", !.at = time]
<1>2. row' = [row EXCEPT ![a] = R] /\ time < row[a].until
  BY DEF P!InTime
<1>3. /\ row[a] \in PolicyRow /\ row[a].until \in Int /\ row[a].asked \in BOOLEAN
      /\ time \in 0..Horizon /\ time \in Nat /\ Horizon \in Nat
      /\ opened[a].asked \in Int /\ opened[a].alone \in Int
      /\ MaxTtl \in Nat /\ MaxWithin \in Nat
  BY <1>1, PolicyAssumption DEF PolicyTypes, PolicyRow
<1>4. R \in PolicyRow /\ R.status = "executing" /\ R.asked = row[a].asked /\ R.at = time
  BY <1>3 DEF PolicyRow, RowStatus
<1> HIDE DEF R
<1>5. /\ row' \in [Gated -> PolicyRow] /\ row'[a] = R
      /\ \A b \in Gated \ {a} : row'[b] = row[b]
  BY <1>1, <1>2, <1>4 DEF PolicyTypes
<1>6. reading[a].step = "idle" /\ OpenedNow(a)'
  BY <1>1, <1>5 DEF OpenedNow, OpenBy
<1>7. RowFresh(a)'
  <2>1. row[a].asked = TRUE => time - opened[a].asked <= MaxTtl - 1 + MaxWithin - 1
    BY <1>1, <1>2, <1>3 DEF RowFresh
  <2>2. row[a].asked = FALSE => time - opened[a].alone <= MaxWithin - 1
    BY <1>1, <1>2, <1>3 DEF RowFresh
  <2> QED
    BY <1>3, <1>4, <1>5, <2>1, <2>2 DEF RowFresh
<1>8. ASSUME NEW p \in Offered \cup Standing
      PROVE  /\ Cardinality(Taken(p.rate.minutes))' <= p.rate.max + beside
             /\ \A c \in Gated : row'[c].status = "executing" =>
                   Cardinality(Window(c, p.rate.minutes))' <= p.rate.max + beside
  <2>1. PICK m \in Nat, n \in Nat : m = p.rate.minutes /\ n = p.rate.max
    BY PolicyAssumption
  <2>2. /\ Cardinality(Taken(m)) <= n + beside
        /\ \A c \in Gated : row[c].status = "executing" => Cardinality(Window(c, m)) <= n + beside
    BY <2>1 DEF PolicyInv, RatesKept
  <2>3. Coming(a) /\ \A b \in Gated : Coming(b)' => Coming(b)
    BY <1>5 DEF Coming, P!InForce
  <2>4. beside \in Nat /\ \A b \in Gated : row[b].at \in Nat /\ (row[b].status = "executing" => row[b].at <= time)
    BY <1>1 DEF PolicyInv, PolicyTypes, PolicyRow, RowFresh
  <2>5. \A b \in Gated : row'[b].status = "executing" /\ row'[b].at >= time - m => b \in Taken(m)
    BY <1>5, <2>3 DEF Taken, P!Recent
  <2>6. Taken(m)' \subseteq Taken(m) /\ Taken(m) \subseteq Gated
    <3>1. \A b \in P!Recent(m)' : b \in Gated /\ row'[b].status = "executing" /\ row'[b].at >= time - m
      BY DEF P!Recent
    <3> QED
      BY <2>3, <2>5, <3>1 DEF Taken, P!Recent
  <2>7. Cardinality(Taken(m)') <= n + beside
    <3>1. /\ Cardinality(Taken(m)') <= Cardinality(Taken(m))
          /\ Cardinality(Taken(m)') \in Nat /\ Cardinality(Taken(m)) \in Nat
      BY <2>6, FewerWrites
    <3> QED
      BY <2>2, <2>4, <3>1
  <2>8. ASSUME NEW c \in Gated, row'[c].status = "executing"
        PROVE  Cardinality(Window(c, m)') <= n + beside
    <3> DEFINE W == Window(c, m)'
    <3>1. W = {b \in Gated : row'[b].status = "executing" /\ row'[b].at \in (row'[c].at - m)..row'[c].at}
      BY DEF Window
    <3> HIDE DEF W
    <3>2. CASE row'[c].at = time
      <4>1. W \subseteq Taken(m)
        <5> SUFFICES ASSUME NEW b \in W PROVE b \in Taken(m)
          OBVIOUS
        <5>1. b \in Gated /\ row'[b].status = "executing" /\ row'[b].at \in (time - m)..time
          BY <3>1, <3>2
        <5> QED
          BY <1>3, <2>5, <5>1
      <4>2. Cardinality(W) <= Cardinality(Taken(m)) /\ Cardinality(W) \in Nat /\ Cardinality(Taken(m)) \in Nat
        BY <2>6, <4>1, FewerWrites
      <4>3. Cardinality(W) <= n + beside
        BY <2>2, <2>4, <4>2
      <4> QED
        BY <4>3 DEF W
    <3>3. CASE row'[c].at # time
      <4>1. c # a /\ row'[c] = row[c] /\ row[c].status = "executing"
        BY <1>4, <1>5, <2>8, <3>3
      <4>2. row[c].at < time /\ row[c].at \in Nat
        BY <1>3, <2>4, <3>3, <4>1
      <4> DEFINE Older == Window(c, m)
      <4>3. Older = {b \in Gated : row[b].status = "executing" /\ row[b].at \in (row[c].at - m)..row[c].at}
        BY DEF Window
      <4>4. Cardinality(Older) <= n + beside /\ Older \subseteq Gated
        BY <2>2, <4>1, <4>3
      <4> HIDE DEF Older
      <4>5. a \notin W
        BY <1>3, <1>4, <1>5, <3>1, <4>1, <4>2
      <4>6. W \subseteq Older
        BY <1>5, <3>1, <4>1, <4>3, <4>5
      <4>7. Cardinality(W) <= Cardinality(Older) /\ Cardinality(W) \in Nat /\ Cardinality(Older) \in Nat
        BY <4>4, <4>6, FewerWrites
      <4>8. Cardinality(W) <= n + beside
        BY <2>4, <4>4, <4>7
      <4> QED
        BY <4>8 DEF W
    <3> QED
      BY <3>2, <3>3
  <2> QED
    BY <2>1, <2>7, <2>8
<1>9. RatesKept'
  BY <1>8 DEF RatesKept
<1> QED
  BY <1>1, <1>5, <1>6, <1>7, <1>9, OneWrite DEF PolicyTypes

LEMMA PolicyAuthorise == ASSUME PolicyInv, NEW a \in Gated, P!Authorise(a) PROVE PolicyInv'
<1>1. row[a].status \in {"approved", "allowed"} /\ row[a].status \in P!InForce
  BY DEF P!Authorise, P!InForce
<1>2. "aborted" \in P!Final /\ "invalid" \in P!Final
  BY DEF P!Final
<1>3. CASE kill
  <2>1. P!To(a, "aborted")
    BY <1>3 DEF P!Authorise
  <2> QED
    BY <1>1, <1>2, <2>1, PolicyTo
<1>4. CASE ~kill /\ ~P!InTime(a)
  <2>1. P!To(a, "invalid")
    BY <1>4 DEF P!Authorise
  <2> QED
    BY <1>1, <1>2, <2>1, PolicyTo
<1>5. CASE ~kill /\ P!InTime(a)
  <2>1. /\ row' = [row EXCEPT ![a].status = "executing", ![a].at = time]
        /\ UNCHANGED <<time, rules, kill, reading, opened, beside>>
    BY <1>5 DEF P!Authorise
  <2> QED
    BY <1>1, <1>5, <2>1, PolicySend
<1> QED
  BY <1>3, <1>4, <1>5

LEMMA PolicyStep == ASSUME PolicyInv, P!Next PROVE PolicyInv'
<1>1. CASE P!SetKillSwitch
  BY <1>1, PolicyKeepsStill DEF P!SetKillSwitch
<1>2. CASE \E a \in Gated : P!Reject(a) \/ P!Expire(a)
  <2>1. PICK a \in Gated : P!Reject(a) \/ P!Expire(a)
    BY <1>2
  <2>2. row[a].status \in P!InForce /\ "rejected" \in P!Final /\ "expired" \in P!Final
    BY <2>1 DEF P!Reject, P!Expire, P!InForce, P!Final
  <2>3. P!To(a, "rejected") \/ P!To(a, "expired")
    BY <2>1 DEF P!Reject, P!Expire
  <2> QED
    BY <2>2, <2>3, PolicyTo
<1> QED
  BY <1>1, <1>2, PolicySetPolicy, PolicyTick, PolicyReadPolicy, PolicyCountRecent, PolicyDecide,
     PolicyCrash, PolicyApprove, PolicyAuthorise DEF P!Next

LEMMA PolicyStays == ASSUME PolicyInv, UNCHANGED policyVars PROVE PolicyInv'
<1>1. UNCHANGED <<time, rules, reading, row, opened, beside>> /\ kill' \in BOOLEAN
  BY DEF policyVars, PolicyInv, PolicyTypes
<1> QED
  BY <1>1, PolicyKeepsStill

\* What it comes to.
LEMMA PolicyKept == ASSUME PolicyInv PROVE P!GroundIsFresh /\ P!RateHolds
<1>1. P!GroundIsFresh
  <2> SUFFICES ASSUME NEW a \in Gated, row[a].status = "executing"
               PROVE  IF row[a].asked THEN row[a].at - opened[a].asked <= MaxTtl - 1 + MaxWithin - 1
                                      ELSE row[a].at - opened[a].alone <= MaxWithin - 1
    BY DEF P!GroundIsFresh
  <2>1. row[a].asked = TRUE \/ row[a].asked = FALSE
    BY DEF PolicyInv, PolicyTypes, PolicyRow
  <2>2. RowFresh(a)
    BY DEF PolicyInv
  <2>3. CASE row[a].asked = TRUE
    BY <2>2, <2>3 DEF RowFresh
  <2>4. CASE row[a].asked = FALSE
    BY <2>2, <2>4 DEF RowFresh
  <2> QED
    BY <2>1, <2>3, <2>4
<1>2. P!RateHolds
  BY SamePolicyCounts DEF P!RateHolds, PolicyInv, RatesKept, Window
<1> QED
  BY <1>1, <1>2

-----------------------------------------------------------------------------
(* The connections a process holds.                                        *)

Busy == {"reading", "found", "closing"}
CallRecord == [at: {"idle", "given"} \cup Busy, since: 0..Delay, had: C!Saved \cup {C!Unbuilt},
               found: C!Saved, replaced: BOOLEAN,
               got: Connection \cup {C!Nothing, C!NoClient, C!Fallback}]

ConnectionTypes ==
    /\ holder \in {"handle", "hub"}
    /\ saved \in C!Saved /\ checked \in 0..Refresh
    /\ noted \in C!Saved \cup {C!Unbuilt}
    /\ held \in Connection \cup {C!Nothing, C!NoClient, C!Unbuilt}
    /\ holder = "handle" => held \in Connection \cup {C!NoClient}
    /\ call \in [Task -> CallRecord]
    /\ age \in [C!Saved -> 0..Refresh] /\ age[saved] = 0

\* What is held was saved no longer ago than it was looked up.
HeldLately ==
    /\ noted # C!Unbuilt => age[noted] <= checked
    /\ noted = C!Unbuilt => holder = "hub" /\ checked = Refresh

\* What a reload found was saved since it asked.
FoundLately == \A c \in Task :
    call[c].at \in {"found", "closing"} => age[call[c].found] <= call[c].since

\* A reload of the hub began with the entry that is there, or knows that it was replaced.
HubRight ==
    holder = "hub" =>
        /\ held = noted
        /\ \A c \in Task : call[c].at \in Busy => call[c].replaced = TRUE \/ call[c].had = noted

\* The client for what is noted.
Built(content) == IF content = C!Nothing THEN C!NoClient ELSE C!ClientOf(content)

\* By itself, a reload of the handle leaves the client for what it notes, or is about to.
HandleRight ==
    holder = "handle" /\ together = FALSE =>
        /\ \A c, d \in Task : call[c].at \in Busy /\ call[d].at \in Busy => c = d
        /\ \A c \in Task : call[c].at = "closing" => noted = call[c].found /\ held = C!NoClient
        /\ (\A c \in Task : call[c].at # "closing") => held = Built(noted)

ConnectionInv ==
    /\ ConnectionTypes /\ together \in BOOLEAN
    /\ HeldLately /\ FoundLately /\ HubRight /\ HandleRight

LEMMA IdleCall ==
    /\ C!Idle \in CallRecord /\ C!Idle.at = "idle" /\ C!Idle.since = 0 /\ C!Idle.replaced = FALSE
    /\ \A v \in Connection \cup {C!Nothing, C!NoClient, C!Fallback} :
          LET g == [C!Idle EXCEPT !.at = "given", !.got = v] IN
          g \in CallRecord /\ g.at = "given" /\ g.got = v
    /\ \A n \in C!Saved \cup {C!Unbuilt} :
          LET g == [C!Idle EXCEPT !.at = "reading", !.had = n] IN
          g \in CallRecord /\ g.at = "reading" /\ g.had = n
<1>1. 0 \in 0..Delay /\ C!Nothing \in C!Saved
  BY ConnectionAssumption DEF C!Saved
<1>2. C!Idle \in CallRecord /\ C!Idle.at = "idle" /\ C!Idle.since = 0 /\ C!Idle.replaced = FALSE
  BY <1>1 DEF C!Idle, CallRecord
<1> QED
  BY <1>2 DEF CallRecord, Busy

\* What a caller may be given.
AsSaved(value) ==
    \/ \E s \in C!Meant(value) : age[s] < Refresh
    \/ value = C!NoClient /\ \E o \in Task : call[o].at = "closing"
Answers ==
    \A c \in Task :
        call[c].at # "given" /\ call'[c].at = "given" /\ together = FALSE => AsSaved(call'[c].got)

\* The client, or the set, for what was saved lately.
LEMMA LatelyIsAsSaved ==
    ASSUME NEW s \in C!Saved, age[s] < Refresh
    PROVE  AsSaved(s) /\ (holder = "handle" => AsSaved(C!Current(s, Built(s))))
<1>1. s \notin {C!NoClient, C!Fallback}
  BY ConnectionAssumption DEF C!Saved, C!Nothing, C!NoClient, C!Fallback
<1>2. AsSaved(s)
  <2>1. C!Meant(s) = {s}
    BY <1>1 DEF C!Meant
  <2> QED
    BY <2>1 DEF AsSaved
<1>3. ASSUME holder = "handle" PROVE AsSaved(C!Current(s, Built(s)))
  <2>1. CASE s = C!Nothing
    <3>1. C!Current(s, Built(s)) = C!Fallback
      BY <1>3, <2>1 DEF C!Current
    <3>2. C!Meant(C!Fallback) = {C!Nothing}
      BY DEF C!Meant, C!NoClient, C!Fallback
    <3> QED
      BY <2>1, <3>1, <3>2 DEF AsSaved
  <2>2. CASE s # C!Nothing /\ s \in Broken
    <3>1. C!Current(s, Built(s)) = C!NoClient
      BY <1>3, <2>2 DEF C!Current, Built, C!ClientOf
    <3>2. C!Meant(C!NoClient) = Broken
      BY DEF C!Meant, C!NoClient, C!Fallback
    <3> QED
      BY <2>2, <3>1, <3>2 DEF AsSaved
  <2>3. CASE s # C!Nothing /\ s \notin Broken
    <3>1. C!Current(s, Built(s)) = s
      BY <1>3, <2>3 DEF C!Current, Built, C!ClientOf
    <3> QED
      BY <1>2, <3>1
  <2> QED
    BY <2>1, <2>2, <2>3
<1> QED
  BY <1>2, <1>3

LEMMA ConnectionInit == C!Init => ConnectionInv
<1> SUFFICES ASSUME C!Init PROVE ConnectionInv
  OBVIOUS
<1>1. call = [c \in Task |-> C!Idle] /\ together = FALSE /\ saved = C!Nothing /\ checked = Refresh
      /\ age = [s \in C!Saved |-> IF s = C!Nothing THEN 0 ELSE Refresh]
      /\ holder \in {"handle", "hub"}
      /\ noted = (IF holder = "hub" THEN C!Unbuilt ELSE C!Nothing)
      /\ held = (IF holder = "hub" THEN C!Unbuilt ELSE C!NoClient)
  BY DEF C!Init
<1>2. \A c \in Task : call[c].at = "idle"
  BY <1>1, IdleCall
<1>3. C!Nothing \in C!Saved /\ C!Unbuilt # C!Nothing
  BY DEF C!Saved, C!Unbuilt, C!Nothing
<1>4. age \in [C!Saved -> 0..Refresh] /\ age[saved] = 0 /\ checked \in 0..Refresh
  BY <1>1, <1>3, ConnectionAssumption
<1>5. ConnectionTypes /\ together \in BOOLEAN
  BY <1>1, <1>3, <1>4, IdleCall DEF ConnectionTypes
<1>6. HeldLately /\ FoundLately /\ HubRight
  BY <1>1, <1>2, <1>3, <1>4 DEF HeldLately, FoundLately, HubRight, Busy
<1>7. HandleRight
  BY <1>1, <1>2 DEF HandleRight, Busy, Built
<1> QED
  BY <1>5, <1>6, <1>7 DEF ConnectionInv

LEMMA ConnectionTick ==
    ASSUME ConnectionInv, C!Tick PROVE ConnectionInv'
<1> USE ConnectionAssumption
<1>1. ConnectionTypes /\ HeldLately /\ FoundLately /\ HubRight /\ HandleRight /\ together \in BOOLEAN
  BY DEF ConnectionInv
<1>2. UNCHANGED <<holder, saved, noted, held, together>>
  BY DEF C!Tick
<1>3. \A c \in Task : call[c] \in CallRecord /\ call[c].since \in 0..Delay
  BY <1>1 DEF ConnectionTypes, CallRecord
<1>4. ASSUME NEW c \in Task
      PROVE  /\ call'[c] \in CallRecord
             /\ call'[c].at = call[c].at /\ call'[c].had = call[c].had
             /\ call'[c].found = call[c].found /\ call'[c].replaced = call[c].replaced
             /\ call[c].at \in Busy => call'[c].since = call[c].since + 1
  <2>1. call'[c] = IF call[c].at \in Busy THEN [call[c] EXCEPT !.since = @ + 1] ELSE call[c]
    BY DEF C!Tick, C!Reloading, Busy
  <2>2. call[c].at \in Busy => call[c].since + 1 \in 0..Delay
    BY <1>3 DEF C!Tick, C!Reloading, Busy
  <2> DEFINE n == call[c].since + 1
  <2>3. call[c].at \in Busy => n \in 0..Delay
    BY <2>2
  <2>4. call'[c] = IF call[c].at \in Busy THEN [call[c] EXCEPT !.since = n] ELSE call[c]
    BY <2>1
  <2> HIDE DEF n
  <2>5. call'[c] \in CallRecord /\ (call[c].at \in Busy => call'[c].since = n)
        /\ call'[c].at = call[c].at /\ call'[c].had = call[c].had
        /\ call'[c].found = call[c].found /\ call'[c].replaced = call[c].replaced
    BY <1>3, <2>3, <2>4 DEF CallRecord
  <2> QED
    BY <2>5 DEF n
<1>5. call' \in [Task -> CallRecord]
  <2>1. call' = [c \in Task |-> call'[c]]
    BY DEF C!Tick
  <2> QED
    BY <1>4, <2>1
<1>6. \A s \in C!Saved : age'[s] \in 0..Refresh /\ age'[s] <= age[s] + 1 /\ (age[s] <= Refresh => age'[s] <= Refresh)
  BY <1>1 DEF C!Tick, C!Older, ConnectionTypes
<1>7. age' \in [C!Saved -> 0..Refresh] /\ age'[saved] = 0
  BY <1>1, <1>6 DEF C!Tick, ConnectionTypes
<1>8. checked' \in 0..Refresh /\ (checked < Refresh => checked' = checked + 1) /\ (checked = Refresh => checked' = Refresh)
  BY <1>1 DEF C!Tick, C!Older, ConnectionTypes
<1>9. ConnectionTypes'
  BY <1>1, <1>2, <1>5, <1>7, <1>8 DEF ConnectionTypes
<1>10. HeldLately'
  <2>1. noted # C!Unbuilt => noted \in C!Saved /\ age[noted] \in 0..Refresh /\ checked \in 0..Refresh
    BY <1>1 DEF ConnectionTypes
  <2>2. noted # C!Unbuilt => age'[noted] <= checked'
    BY <1>1, <1>6, <1>8, <2>1 DEF HeldLately
  <2> QED
    BY <1>1, <1>2, <1>8, <2>2 DEF HeldLately
<1>11. FoundLately'
  <2> SUFFICES ASSUME NEW c \in Task, call[c].at \in {"found", "closing"}
               PROVE  age'[call[c].found] <= call'[c].since
    BY <1>4 DEF FoundLately
  <2>1. call[c].found \in C!Saved /\ age[call[c].found] \in 0..Refresh
    BY <1>1, <1>3 DEF CallRecord, ConnectionTypes
  <2>2. age[call[c].found] <= call[c].since /\ call'[c].since = call[c].since + 1
    BY <1>1, <1>4 DEF FoundLately, Busy
  <2> QED
    BY <1>3, <1>6, <2>1, <2>2
<1>12. HubRight' /\ HandleRight'
  BY <1>1, <1>2, <1>4 DEF HubRight, HandleRight, Built, C!ClientOf
<1> QED
  BY <1>1, <1>2, <1>9, <1>10, <1>11, <1>12 DEF ConnectionInv

LEMMA ConnectionSave ==
    ASSUME ConnectionInv, C!Save PROVE ConnectionInv'
<1> USE ConnectionAssumption
<1>1. ConnectionTypes /\ HeldLately /\ FoundLately /\ HubRight /\ HandleRight /\ together \in BOOLEAN
  BY DEF ConnectionInv
<1>2. UNCHANGED <<holder, checked, noted, held, call, together>>
  BY DEF C!Save
<1>3. /\ saved' \in C!Saved /\ age' \in [C!Saved -> 0..Refresh] /\ age'[saved'] = 0
      /\ \A s \in C!Saved : age'[s] <= age[s] /\ age[s] \in 0..Refresh /\ age'[s] \in 0..Refresh
  BY <1>1 DEF C!Save, ConnectionTypes
<1>4. ConnectionTypes'
  BY <1>1, <1>2, <1>3 DEF ConnectionTypes
<1>5. HeldLately'
  BY <1>1, <1>2, <1>3 DEF HeldLately, ConnectionTypes
<1>6. FoundLately'
  <2> SUFFICES ASSUME NEW c \in Task, call[c].at \in {"found", "closing"}
               PROVE  age'[call[c].found] <= call[c].since
    BY <1>2 DEF FoundLately
  <2>1. call[c].found \in C!Saved /\ call[c].since \in 0..Delay
    BY <1>1 DEF CallRecord, ConnectionTypes
  <2> QED
    BY <1>1, <1>3, <2>1 DEF FoundLately
<1>7. HubRight' /\ HandleRight'
  BY <1>1, <1>2 DEF HubRight, HandleRight, Built, C!ClientOf
<1> QED
  BY <1>1, <1>2, <1>4, <1>5, <1>6, <1>7 DEF ConnectionInv

\* A step of one caller that leaves what is held alone.
LEMMA CallerMoves ==
    ASSUME ConnectionInv, NEW c \in Task, NEW r \in CallRecord, call' = [call EXCEPT ![c] = r],
           UNCHANGED <<holder, saved, noted, held, age>>, together' \in BOOLEAN,
           together' = FALSE => together = FALSE,
           checked' \in 0..Refresh, noted # C!Unbuilt => age[noted] <= checked',
           noted = C!Unbuilt => checked' = checked,
           r.at \in {"found", "closing"} => age[r.found] <= r.since,
           holder = "hub" /\ r.at \in Busy => r.replaced = TRUE \/ r.had = noted,
           holder = "handle" => r.at # "closing",
           holder = "handle" /\ r.at \in Busy /\ together' = FALSE =>
              \A d \in Task \ {c} : call[d].at \notin Busy,
           holder = "handle" /\ call[c].at = "closing" /\ together' = FALSE => held = Built(noted)
    PROVE  ConnectionInv'
<1>1. ConnectionTypes /\ HeldLately /\ FoundLately /\ HubRight /\ HandleRight
  BY DEF ConnectionInv
<1>2. call' \in [Task -> CallRecord] /\ call'[c] = r /\ \A d \in Task \ {c} : call'[d] = call[d]
  BY <1>1 DEF ConnectionTypes
<1>3. ConnectionTypes'
  BY <1>1, <1>2 DEF ConnectionTypes
<1>4. HeldLately'
  BY <1>1 DEF HeldLately
<1>5. FoundLately'
  BY <1>1, <1>2 DEF FoundLately
<1>6. HubRight'
  BY <1>1, <1>2 DEF HubRight
<1>7. HandleRight'
  <2> SUFFICES ASSUME holder = "handle", together' = FALSE
               PROVE  /\ \A p, q \in Task : call'[p].at \in Busy /\ call'[q].at \in Busy => p = q
                      /\ \A p \in Task : call'[p].at = "closing" => noted = call'[p].found /\ held = C!NoClient
                      /\ (\A p \in Task : call'[p].at # "closing") => held = Built(noted)
    BY DEF HandleRight, Built, C!ClientOf
  <2>1. /\ \A p, q \in Task : call[p].at \in Busy /\ call[q].at \in Busy => p = q
        /\ \A p \in Task : call[p].at = "closing" => noted = call[p].found /\ held = C!NoClient
        /\ (\A p \in Task : call[p].at # "closing") => held = Built(noted)
    BY <1>1 DEF HandleRight
  <2>2. \A p, q \in Task : call'[p].at \in Busy /\ call'[q].at \in Busy => p = q
    BY <1>2, <2>1
  <2>3. \A p \in Task : call'[p].at = "closing" => noted = call'[p].found /\ held = C!NoClient
    BY <1>2, <2>1
  <2>4. (\A p \in Task : call'[p].at # "closing") => held = Built(noted)
    BY <1>2, <2>1
  <2> QED
    BY <2>2, <2>3, <2>4
<1> QED
  BY <1>3, <1>4, <1>5, <1>6, <1>7 DEF ConnectionInv

\* Where what is held is looked up no longer ago than Refresh, a caller may have it.
LEMMA UseStep ==
    ASSUME ConnectionInv, NEW c \in Task, NEW force \in BOOLEAN, C!Use(c, force)
    PROVE  ConnectionInv' /\ Answers
<1>1. ConnectionTypes /\ HeldLately /\ HubRight /\ HandleRight /\ together \in BOOLEAN
  BY DEF ConnectionInv
<1>2. UNCHANGED <<holder, saved, checked, noted, held, age>> /\ call[c].at = "idle"
  BY DEF C!Use
<1>3. call \in [Task -> CallRecord]
  BY <1>1 DEF ConnectionTypes
<1>4. CASE force = FALSE /\ checked < Refresh
  <2>1. noted \in C!Saved /\ age[noted] < Refresh
    <3>1. noted # C!Unbuilt
      BY <1>1, <1>4, ConnectionAssumption DEF HeldLately
    <3> QED
      BY <1>1, <1>4, <3>1, ConnectionAssumption DEF HeldLately, ConnectionTypes
  <2>2. PICK v : v = C!Current(noted, held)
    OBVIOUS
  <2>3. v \in Connection \cup {C!Nothing, C!NoClient, C!Fallback}
    BY <1>1, <2>1, <2>2 DEF C!Current, ConnectionTypes, C!Saved, HubRight
  <2>4. PICK r : r = [C!Idle EXCEPT !.at = "given", !.got = v]
    OBVIOUS
  <2>5. r \in CallRecord /\ r.at = "given" /\ r.got = v
    BY <2>3, <2>4, IdleCall
  <2>6. call' = [call EXCEPT ![c] = r] /\ together' = together
    BY <1>4, <2>2, <2>4 DEF C!Use, C!Give
  <2>7. ConnectionInv'
    BY <1>1, <1>2, <2>5, <2>6, CallerMoves DEF HeldLately, Busy, ConnectionTypes
  <2>8. together = FALSE => AsSaved(v)
    <3>1. CASE holder = "hub"
      BY <1>1, <2>1, <2>2, <3>1, LatelyIsAsSaved DEF HubRight, C!Current
    <3>2. CASE holder = "handle" /\ together = FALSE /\ \A o \in Task : call[o].at # "closing"
      BY <1>1, <2>1, <2>2, <3>2, LatelyIsAsSaved DEF HandleRight
    <3>3. CASE holder = "handle" /\ together = FALSE /\ \E o \in Task : call[o].at = "closing"
      <4>1. held = C!NoClient
        BY <1>1, <3>3 DEF HandleRight
      <4>2. CASE noted = C!Nothing
        <5>1. v = C!Current(noted, Built(noted))
          BY <2>2, <3>3, <4>2 DEF C!Current
        <5> QED
          BY <2>1, <3>3, <5>1, LatelyIsAsSaved
      <4>3. CASE noted # C!Nothing
        BY <2>2, <3>3, <4>1, <4>3 DEF C!Current, AsSaved
      <4> QED
        BY <4>2, <4>3
    <3> QED
      BY <1>1, <3>1, <3>2, <3>3 DEF ConnectionTypes
  <2>9. Answers
    BY <1>3, <2>5, <2>6, <2>8 DEF Answers
  <2> QED
    BY <2>7, <2>9
<1>5. CASE ~(force = FALSE /\ checked < Refresh)
  <2>1. PICK r : r = [C!Idle EXCEPT !.at = "reading", !.had = noted]
    OBVIOUS
  <2>2. r \in CallRecord /\ r.at = "reading" /\ r.had = noted
    BY <1>1, <2>1, IdleCall DEF ConnectionTypes
  <2>3. call' = [call EXCEPT ![c] = r]
        /\ together' = (together \/ (holder = "handle" /\ C!Reloading # {}))
    BY <1>5, <2>1 DEF C!Use
  <2>4. /\ together' \in BOOLEAN /\ (together' = FALSE => together = FALSE)
        /\ holder = "handle" /\ together' = FALSE => C!Reloading = {}
    BY <1>1, <2>3
  <2>5. C!Reloading = {} => \A d \in Task : call[d].at \notin Busy
    BY DEF C!Reloading, Busy
  <2>6. ConnectionInv'
    BY <1>1, <1>2, <2>2, <2>3, <2>4, <2>5, CallerMoves DEF HeldLately, ConnectionTypes
  <2>7. Answers
    BY <1>3, <2>2, <2>3 DEF Answers
  <2> QED
    BY <2>6, <2>7
<1> QED
  BY <1>4, <1>5

LEMMA ReadTakeStep ==
    ASSUME ConnectionInv, NEW c \in Task, C!Read(c) \/ C!Take(c)
    PROVE  ConnectionInv' /\ Answers
<1>1. ConnectionTypes /\ HeldLately /\ HubRight /\ HandleRight /\ together \in BOOLEAN
  BY DEF ConnectionInv
<1>2. UNCHANGED <<holder, saved, checked, noted, held, age, together>>
  BY DEF C!Read, C!Take
<1>3. call \in [Task -> CallRecord] /\ call[c] \in CallRecord /\ saved \in C!Saved /\ age[saved] = 0
  BY <1>1 DEF ConnectionTypes
<1>4. CASE C!Read(c)
  <2>1. PICK r : r = [call[c] EXCEPT !.at = "found", !.found = saved]
    OBVIOUS
  <2>2. r \in CallRecord /\ r.at = "found" /\ r.found = saved /\ r.since \in 0..Delay
        /\ r.had = call[c].had /\ r.replaced = call[c].replaced
    BY <1>3, <2>1 DEF CallRecord, Busy
  <2>3. call' = [call EXCEPT ![c] = r] /\ call[c].at = "reading"
    BY <1>3, <1>4, <2>1 DEF C!Read
  <2>4. age[r.found] <= r.since
    BY <1>3, <2>2, ConnectionAssumption
  <2>5. holder = "hub" => r.replaced = TRUE \/ r.had = noted
    BY <1>1, <2>2, <2>3 DEF HubRight, Busy
  <2>6. holder = "handle" /\ together = FALSE => \A d \in Task \ {c} : call[d].at \notin Busy
    BY <1>1, <2>3 DEF HandleRight, Busy
  <2>7. ConnectionInv'
    BY <1>1, <1>2, <2>2, <2>3, <2>4, <2>5, <2>6, CallerMoves DEF HeldLately, ConnectionTypes
  <2> QED
    BY <1>3, <2>2, <2>3, <2>7 DEF Answers
<1>5. CASE C!Take(c)
  <2>1. PICK r : r = C!Idle
    OBVIOUS
  <2>2. r \in CallRecord /\ r.at = "idle"
    BY <2>1, IdleCall
  <2>3. call' = [call EXCEPT ![c] = r] /\ call[c].at = "given"
    BY <1>5, <2>1 DEF C!Take
  <2>4. ConnectionInv'
    BY <1>1, <1>2, <2>2, <2>3, CallerMoves DEF HeldLately, ConnectionTypes, Busy
  <2> QED
    BY <1>3, <2>2, <2>3, <2>4 DEF Answers
<1> QED
  BY <1>4, <1>5

LEMMA ForgetStep ==
    ASSUME ConnectionInv, C!Forget PROVE ConnectionInv' /\ Answers
<1>1. ConnectionTypes /\ HeldLately /\ FoundLately /\ HubRight /\ HandleRight /\ together \in BOOLEAN
  BY DEF ConnectionInv
<1>2. UNCHANGED <<holder, saved, noted, held, call, age, together>> /\ checked' = Refresh /\ noted # C!Unbuilt
  BY DEF C!Forget
<1>3. ConnectionTypes' /\ HeldLately'
  BY <1>1, <1>2, ConnectionAssumption DEF ConnectionTypes, HeldLately
<1>4. FoundLately' /\ HubRight' /\ HandleRight' /\ Answers
  BY <1>1, <1>2 DEF FoundLately, HubRight, HandleRight, Built, C!ClientOf, Answers
<1> QED
  BY <1>1, <1>2, <1>3, <1>4 DEF ConnectionInv

\* What a reload found may be given, and is as old as its question.
LEMMA FoundIsLate ==
    ASSUME ConnectionInv, NEW c \in Task, call[c].at \in {"found", "closing"}
    PROVE  /\ call[c] \in CallRecord /\ call[c].found \in C!Saved
           /\ age[call[c].found] \in Nat
           /\ age[call[c].found] <= call[c].since /\ call[c].since \in 0..Refresh
           /\ age[call[c].found] < Refresh
<1>1. ConnectionTypes /\ FoundLately
  BY DEF ConnectionInv
<1>2. call[c] \in CallRecord
  BY <1>1 DEF ConnectionTypes
<1>3. call[c].found \in C!Saved /\ call[c].since \in 0..Delay
  BY <1>2 DEF CallRecord
<1>4. age[call[c].found] \in 0..Refresh
  BY <1>1, <1>3 DEF ConnectionTypes
<1> QED
  BY <1>1, <1>2, <1>3, <1>4, ConnectionAssumption DEF FoundLately

\* The handle notes another connection, or has the client for the one it notes.
LEMMA HandleMoves ==
    ASSUME ConnectionInv, holder = "handle", NEW c \in Task, NEW r \in CallRecord,
           call' = [call EXCEPT ![c] = r], UNCHANGED <<holder, saved, age, together>>,
           noted' \in C!Saved, checked' \in 0..Refresh, age[noted'] <= checked',
           held' \in Connection \cup {C!NoClient},
           r.at \in {"given", "closing"},
           r.at = "closing" => age[r.found] <= r.since,
           together = FALSE =>
              /\ \A d \in Task \ {c} : call[d].at \notin Busy
              /\ r.at = "given" => held' = Built(noted')
              /\ r.at = "closing" => noted' = r.found /\ held' = C!NoClient
    PROVE  ConnectionInv'
<1>1. ConnectionTypes /\ FoundLately /\ together \in BOOLEAN
  BY DEF ConnectionInv
<1>2. call' \in [Task -> CallRecord] /\ call'[c] = r /\ \A d \in Task \ {c} : call'[d] = call[d]
  BY <1>1 DEF ConnectionTypes
<1>3. ConnectionTypes'
  BY <1>1, <1>2 DEF ConnectionTypes
<1>4. HeldLately'
  BY ConnectionAssumption DEF HeldLately, C!Saved, C!Nothing, C!Unbuilt
<1>5. FoundLately'
  BY <1>1, <1>2 DEF FoundLately
<1>6. HubRight'
  BY DEF HubRight
<1>7. HandleRight'
  <2> SUFFICES ASSUME together' = FALSE
               PROVE  /\ \A p, q \in Task : call'[p].at \in Busy /\ call'[q].at \in Busy => p = q
                      /\ \A p \in Task : call'[p].at = "closing" => noted' = call'[p].found /\ held' = C!NoClient
                      /\ (\A p \in Task : call'[p].at # "closing") => held' = Built(noted')
    BY DEF HandleRight, Built, C!ClientOf
  <2>1. \A d \in Task \ {c} : call'[d].at \notin Busy
    BY <1>2
  <2> QED
    BY <1>2, <2>1 DEF Busy
<1> QED
  BY <1>1, <1>3, <1>4, <1>5, <1>6, <1>7 DEF ConnectionInv

\* The handle exchanges its client.
LEMMA HandleStep ==
    ASSUME ConnectionInv, holder = "handle", NEW c \in Task,
           UNCHANGED <<holder, saved, age, together>>,
           \/ call[c].at = "found" /\ (C!UnchangedClient(c) \/ C!ChangedClient(c))
           \/ call[c].at = "closing" /\ C!BuildClient(c)
    PROVE  ConnectionInv' /\ Answers
<1>1. ConnectionTypes /\ HeldLately /\ FoundLately /\ HandleRight /\ together \in BOOLEAN
  BY DEF ConnectionInv
<1>2. call \in [Task -> CallRecord] /\ held \in Connection \cup {C!Nothing, C!NoClient, C!Unbuilt}
  BY <1>1 DEF ConnectionTypes
<1>3. PICK found, looked : found = call[c].found /\ looked = call[c].since
  OBVIOUS
<1>4. /\ call[c] \in CallRecord /\ found \in C!Saved /\ age[found] \in Nat
      /\ age[found] <= looked /\ looked \in 0..Refresh /\ age[found] < Refresh
  BY <1>3, FoundIsLate
<1>5. noted \in C!Saved
  BY <1>1 DEF HeldLately, ConnectionTypes
<1>6. together = FALSE => \A d \in Task \ {c} : call[d].at \notin Busy
  BY <1>1 DEF HandleRight, Busy
<1>7. \A n \in C!Saved : /\ Built(n) \in Connection \cup {C!NoClient}
                         /\ C!Current(n, Built(n)) \in Connection \cup {C!Nothing, C!NoClient, C!Fallback}
  BY DEF Built, C!ClientOf, C!Saved, C!Current
<1>8. CASE call[c].at = "found" /\ C!UnchangedClient(c)
  <2>1. found = noted /\ checked' = looked /\ UNCHANGED <<noted, held>>
    BY <1>3, <1>8 DEF C!UnchangedClient, C!LookedUp
  <2>2. PICK v : v = C!Current(noted, held)
    OBVIOUS
  <2>3. v \in Connection \cup {C!Nothing, C!NoClient, C!Fallback}
    BY <1>1, <2>2 DEF C!Current, ConnectionTypes
  <2>4. PICK r : r = [C!Idle EXCEPT !.at = "given", !.got = v]
    OBVIOUS
  <2>5. r \in CallRecord /\ r.at = "given" /\ r.got = v
    BY <2>3, <2>4, IdleCall
  <2>6. call' = [call EXCEPT ![c] = r]
    BY <1>8, <2>2, <2>4 DEF C!UnchangedClient, C!Give
  <2>7. ConnectionInv'
    BY <1>1, <1>4, <1>5, <1>8, <2>1, <2>5, <2>6, CallerMoves, ConnectionAssumption
       DEF Busy, C!Saved, C!Nothing, C!Unbuilt
  <2>8. ASSUME together = FALSE PROVE AsSaved(v)
    <3>1. held = Built(noted)
      BY <1>1, <1>6, <1>8, <2>8 DEF HandleRight, Busy
    <3> QED
      BY <1>4, <2>1, <2>2, <3>1, LatelyIsAsSaved
  <2> QED
    BY <1>2, <2>5, <2>6, <2>7, <2>8 DEF Answers
<1>9. CASE call[c].at = "found" /\ C!ChangedClient(c) /\ held = C!NoClient
  <2>1. checked' = looked /\ noted' = found /\ held' = Built(found)
    BY <1>3, <1>9 DEF C!ChangedClient, C!LookedUp, Built
  <2>2. PICK v : v = C!Current(found, Built(found))
    OBVIOUS
  <2>3. PICK r : r = [C!Idle EXCEPT !.at = "given", !.got = v]
    OBVIOUS
  <2>4. r \in CallRecord /\ r.at = "given" /\ r.got = v
    <3>1. v \in Connection \cup {C!Nothing, C!NoClient, C!Fallback}
      BY <1>4, <1>7, <2>2
    <3> QED
      BY <2>3, <3>1, IdleCall
  <2>5. call' = [call EXCEPT ![c] = r]
    BY <1>9, <2>1, <2>2, <2>3 DEF C!ChangedClient, C!Give
  <2>6. AsSaved(v)
    BY <1>4, <2>2, LatelyIsAsSaved
  <2>7. ConnectionInv'
    BY <1>4, <1>6, <1>7, <2>1, <2>4, <2>5, HandleMoves DEF Busy
  <2> QED
    BY <1>2, <2>4, <2>5, <2>6, <2>7 DEF Answers
<1>10. CASE call[c].at = "found" /\ C!ChangedClient(c) /\ held # C!NoClient
  <2>1. checked' = looked /\ noted' = found /\ held' = C!NoClient
    BY <1>3, <1>10 DEF C!ChangedClient, C!LookedUp
  <2>2. PICK r : r = [call[c] EXCEPT !.at = "closing"]
    OBVIOUS
  <2>3. r \in CallRecord /\ r.at = "closing" /\ r.found = found /\ r.since = looked
    BY <1>3, <1>4, <2>2 DEF CallRecord, Busy
  <2>4. call' = [call EXCEPT ![c] = r]
    BY <1>2, <1>10, <2>2 DEF C!ChangedClient
  <2>5. ConnectionInv'
    BY <1>4, <1>6, <2>1, <2>3, <2>4, HandleMoves
  <2> QED
    BY <1>2, <2>3, <2>4, <2>5 DEF Answers
<1>11. CASE call[c].at = "closing" /\ C!BuildClient(c)
  <2>1. UNCHANGED <<checked, noted>>
    BY <1>11 DEF C!BuildClient
  <2>2. held' = IF found \in Broken \cup {C!Nothing} THEN held ELSE found
    BY <1>3, <1>11 DEF C!BuildClient
  <2>3. held' \in Connection \cup {C!NoClient}
    BY <1>1, <1>4, <2>2 DEF ConnectionTypes, C!Saved
  <2>4. ASSUME together = FALSE PROVE noted = found /\ held' = Built(found)
    <3>1. noted = found /\ held = C!NoClient
      BY <1>1, <1>3, <1>11, <2>4 DEF HandleRight
    <3> QED
      BY <2>2, <3>1 DEF Built, C!ClientOf
  <2>5. PICK v : v = C!Current(noted, held')
    OBVIOUS
  <2>6. v \in Connection \cup {C!Nothing, C!NoClient, C!Fallback}
    BY <2>3, <2>5 DEF C!Current
  <2>7. PICK r : r = [C!Idle EXCEPT !.at = "given", !.got = v]
    OBVIOUS
  <2>8. r \in CallRecord /\ r.at = "given" /\ r.got = v
    BY <2>6, <2>7, IdleCall
  <2>9. call' = [call EXCEPT ![c] = r]
    BY <1>11, <2>5, <2>7 DEF C!BuildClient, C!Give
  <2>10. together = FALSE => AsSaved(v)
    BY <1>4, <2>4, <2>5, LatelyIsAsSaved
  <2>11. noted' \in C!Saved /\ checked' \in 0..Refresh /\ age[noted'] <= checked'
    BY <1>1, <1>5, <2>1, ConnectionAssumption
       DEF HeldLately, ConnectionTypes, C!Saved, C!Nothing, C!Unbuilt
  <2>12. ConnectionInv'
    BY <1>4, <1>6, <2>1, <2>3, <2>4, <2>8, <2>9, <2>11, HandleMoves DEF Busy
  <2> QED
    BY <1>2, <2>8, <2>9, <2>10, <2>12 DEF Answers
<1> QED
  BY <1>8, <1>9, <1>10, <1>11

\* The hub exchanges its set of connectors.
LEMMA HubStep ==
    ASSUME ConnectionInv, holder = "hub", NEW c \in Task,
           UNCHANGED <<holder, saved, age, together>>,
           \/ call[c].at = "found" /\ (C!UnchangedSet(c) \/ C!ChangedSet(c))
           \/ call[c].at = "closing" /\ C!Install(c)
    PROVE  ConnectionInv' /\ Answers
<1>1. ConnectionTypes /\ HeldLately /\ FoundLately /\ HubRight /\ together \in BOOLEAN
  BY DEF ConnectionInv
<1>2. call \in [Task -> CallRecord]
  BY <1>1 DEF ConnectionTypes
<1>3. PICK found, looked : found = call[c].found /\ looked = call[c].since
  OBVIOUS
<1>4. /\ call[c] \in CallRecord /\ found \in C!Saved /\ age[found] \in Nat
      /\ age[found] <= looked /\ looked \in 0..Refresh /\ age[found] < Refresh
  BY <1>3, FoundIsLate
<1>5. found # C!Unbuilt
  BY <1>4, ConnectionAssumption DEF C!Saved, C!Nothing, C!Unbuilt
<1>6. PICK given : given = [C!Idle EXCEPT !.at = "given", !.got = found]
  OBVIOUS
<1>7. given \in CallRecord /\ given.at = "given" /\ given.got = found
  BY <1>4, <1>6, IdleCall DEF C!Saved
<1>8. AsSaved(found)
  BY <1>4, LatelyIsAsSaved
<1>9. CASE call[c].at = "found" /\ C!UnchangedSet(c)
  <2>1. /\ found = call[c].had /\ call' = [call EXCEPT ![c] = given] /\ UNCHANGED <<noted, held>>
        /\ checked' = IF call[c].replaced THEN checked ELSE looked
    BY <1>3, <1>6, <1>9 DEF C!UnchangedSet, C!Give, C!LookedUp
  <2>2. call[c].replaced = TRUE \/ (call[c].replaced = FALSE /\ noted = found)
    BY <1>1, <1>4, <1>9, <2>1 DEF HubRight, Busy, CallRecord
  <2>3. checked' = checked \/ (checked' = looked /\ noted = found)
    BY <2>1, <2>2
  <2>4. checked' \in 0..Refresh /\ (noted # C!Unbuilt => age[noted] <= checked')
        /\ (noted = C!Unbuilt => checked' = checked)
    BY <1>1, <1>4, <1>5, <2>3 DEF ConnectionTypes, HeldLately
  <2>5. ConnectionInv'
    BY <1>1, <1>7, <2>1, <2>4, CallerMoves DEF Busy
  <2> QED
    BY <1>2, <1>7, <1>8, <2>1, <2>5 DEF Answers
<1>10. CASE C!Install(c)
  <2>1. checked' = looked /\ noted' = found /\ held' = found
    BY <1>3, <1>10 DEF C!Install, C!LookedUp
  <2>2. call' = [o \in Task |-> IF o = c THEN given ELSE [call[o] EXCEPT !.replaced = o \in C!Reloading]]
    BY <1>3, <1>6, <1>10 DEF C!Install
  <2>3. ASSUME NEW o \in Task, o # c
        PROVE  /\ call'[o] \in CallRecord /\ call'[o].at = call[o].at
               /\ call'[o].found = call[o].found /\ call'[o].since = call[o].since
               /\ call[o].at \in Busy => call'[o].replaced = TRUE
    <3> DEFINE b == o \in C!Reloading
    <3>1. b \in BOOLEAN /\ (call[o].at \in Busy => b = TRUE)
      BY DEF C!Reloading, Busy
    <3>2. call'[o] = [call[o] EXCEPT !.replaced = b]
      BY <2>2, <2>3
    <3> HIDE DEF b
    <3>3. call[o] \in CallRecord
      BY <1>2
    <3> QED
      BY <3>1, <3>2, <3>3 DEF CallRecord
  <2>4. call'[c] = given
    BY <2>2
  <2>5. call' \in [Task -> CallRecord]
    <3>1. \A o \in Task : call'[o] \in CallRecord
      BY <1>7, <2>3, <2>4
    <3>2. call' = [o \in Task |-> call'[o]]
      BY <2>2
    <3> QED
      BY <3>1, <3>2
  <2>6. ConnectionTypes'
    BY <1>1, <1>4, <2>1, <2>5 DEF ConnectionTypes, C!Saved
  <2>7. HeldLately'
    BY <1>4, <1>5, <2>1 DEF HeldLately
  <2>8. FoundLately'
    BY <1>1, <1>7, <2>3, <2>4 DEF FoundLately
  <2>9. HubRight' /\ HandleRight'
    BY <1>7, <2>1, <2>3, <2>4 DEF HubRight, HandleRight, Busy
  <2>10. Answers
    BY <1>7, <1>8, <2>3, <2>4 DEF Answers
  <2> QED
    BY <1>1, <2>6, <2>7, <2>8, <2>9, <2>10 DEF ConnectionInv
<1>11. CASE call[c].at = "found" /\ C!CloseSet(c)
  <2>1. PICK r : r = [call[c] EXCEPT !.at = "closing"]
    OBVIOUS
  <2>2. r \in CallRecord /\ r.at = "closing" /\ r.found = found /\ r.since = looked
        /\ r.had = call[c].had /\ r.replaced = call[c].replaced
    BY <1>3, <1>4, <2>1 DEF CallRecord, Busy
  <2>3. call' = [call EXCEPT ![c] = r] /\ UNCHANGED <<checked, noted, held>>
    BY <1>2, <1>11, <2>1 DEF C!CloseSet
  <2>4. r.replaced = TRUE \/ r.had = noted
    BY <1>1, <1>11, <2>2 DEF HubRight, Busy
  <2>5. ConnectionInv'
    BY <1>1, <1>4, <2>2, <2>3, <2>4, CallerMoves DEF HeldLately, ConnectionTypes
  <2> QED
    BY <1>2, <2>2, <2>3, <2>5 DEF Answers
<1> QED
  BY <1>9, <1>10, <1>11 DEF C!ChangedSet

\* Every step keeps what is held in order, and gives what was saved.
LEMMA ConnectionStep == ASSUME ConnectionInv, C!Next PROVE ConnectionInv' /\ Answers
<1>1. CASE C!Tick
  <2>1. \A c \in Task : call'[c].at = call[c].at
    <3> SUFFICES ASSUME NEW c \in Task PROVE call'[c].at = call[c].at
      OBVIOUS
    <3>1. call[c] \in CallRecord
      BY DEF ConnectionInv, ConnectionTypes
    <3>2. call'[c] = call[c] \/ call'[c] = [call[c] EXCEPT !.since = @ + 1]
      BY <1>1 DEF C!Tick
    <3> QED
      BY <3>1, <3>2 DEF CallRecord
  <2> QED
    BY <1>1, <2>1, ConnectionTick DEF Answers
<1>2. CASE C!Save
  BY <1>2, ConnectionSave DEF C!Save, Answers
<1>3. ASSUME NEW c \in Task, C!Compare(c) \/ C!Exchange(c) PROVE ConnectionInv' /\ Answers
  <2>1. holder \in {"handle", "hub"} /\ UNCHANGED <<holder, saved, age, together>>
    BY <1>3 DEF ConnectionInv, ConnectionTypes, C!Compare, C!Exchange
  <2>2. CASE holder = "handle"
    BY <1>3, <2>1, <2>2, HandleStep DEF C!Compare, C!Exchange
  <2>3. CASE holder = "hub"
    BY <1>3, <2>1, <2>3, HubStep DEF C!Compare, C!Exchange
  <2> QED
    BY <2>1, <2>2, <2>3
<1> QED
  BY <1>1, <1>2, <1>3, ForgetStep, UseStep, ReadTakeStep DEF C!Next

LEMMA ConnectionStays == ASSUME ConnectionInv, UNCHANGED connectionVars PROVE ConnectionInv'
<1>1. ConnectionTypes' /\ (together \in BOOLEAN)'
  BY DEF connectionVars, ConnectionInv, ConnectionTypes
<1>2. HeldLately' /\ FoundLately'
  BY DEF connectionVars, ConnectionInv, HeldLately, FoundLately
<1>3. HubRight' /\ HandleRight'
  BY DEF connectionVars, ConnectionInv, HubRight, HandleRight, Built, C!ClientOf
<1> QED
  BY <1>1, <1>2, <1>3 DEF ConnectionInv

-----------------------------------------------------------------------------
(* Signing in.                                                             *)

\* The row of the login state is there only until a callback has taken it, and one has.
InTheCallback == {"exchanging", "granted", "signed_in"}
TakenByOne ==
    /\ \A c, d \in Callback : callback[c] \in InTheCallback /\ callback[d] \in InTheCallback => c = d
    /\ login # 0 => \A c \in Callback : callback[c] \notin InTheCallback
SignedInHave == \A c \in Callback : session[c].at # "none" => callback[c] = "signed_in"

\* A request under way began a short while ago.
UnderWay ==
    \A q \in Callback \X Tab :
        request[q].at = "read" =>
            /\ session[q[1]].at # "none"
            /\ request[q].began <= minute /\ minute - request[q].began <= Slow

\* The last use in the row is behind the real one by what is not worth a write, and requests that
\* do not write it were that close to it when they began.
NearlyWritten ==
    \A c \in Callback :
        /\ session[c].seen <= used[c] /\ used[c] <= minute
        /\ used[c] <= session[c].seen + Granule
        /\ \A t \in Tab :
              request[<<c, t>>].at = "read" /\ ~request[<<c, t>>].write =>
                  request[<<c, t>>].began <= session[c].seen + Granule

SessionInv ==
    /\ Z!TypeOK
    /\ TakenByOne /\ SignedInHave
    /\ UnderWay /\ NearlyWritten
    /\ Z!IdleIsIdle

LEMMA SessionInit == Z!Init => SessionInv
<1> SUFFICES ASSUME Z!Init PROVE SessionInv
  OBVIOUS
<1> USE SessionAssumption
<1>1. Z!TypeOK
  BY DEF Z!Init, Z!TypeOK, Z!NoSession, Z!NoRequest, Z!NoVerdict
<1>2. TakenByOne /\ SignedInHave
  BY DEF Z!Init, TakenByOne, SignedInHave, InTheCallback, Z!NoSession
<1>3. UnderWay /\ NearlyWritten
  BY DEF Z!Init, UnderWay, NearlyWritten, Z!NoSession, Z!NoRequest
<1>4. Z!IdleIsIdle
  BY DEF Z!Init, Z!IdleIsIdle, Z!NoVerdict
<1> QED
  BY <1>1, <1>2, <1>3, <1>4 DEF SessionInv

\* Sign-in: nothing of it changes a session but the last step.
LEMMA SessionSignIn ==
    ASSUME SessionInv, Z!Map \/ Z!StartLogin \/ \E c \in Callback : Z!Consume(c) \/ Z!Exchange(c)
    PROVE  SessionInv'
<1> USE SessionAssumption
<1>1. Z!TypeOK'
  <2>1. CASE Z!Map
    BY <2>1 DEF SessionInv, Z!TypeOK, Z!Map
  <2>2. CASE Z!StartLogin
    BY <2>2 DEF SessionInv, Z!TypeOK, Z!StartLogin
  <2>3. ASSUME NEW c \in Callback, Z!Consume(c) PROVE Z!TypeOK'
    <3>1. callback' \in [Callback -> {"none", "exchanging", "granted", "refused", "signed_in"}]
      BY <2>3 DEF SessionInv, Z!TypeOK, Z!Consume
    <3>2. login' \in 0..(MaxMinutes + StateLife)
      BY <2>3 DEF SessionInv, Z!TypeOK, Z!Consume, Z!Consumed
    <3> QED
      BY <2>3, <3>1, <3>2 DEF SessionInv, Z!TypeOK, Z!Consume
  <2>4. CASE \E c \in Callback : Z!Exchange(c)
    BY <2>4 DEF SessionInv, Z!TypeOK, Z!Exchange
  <2> QED
    BY <2>1, <2>2, <2>3, <2>4
<1>2. TakenByOne'
  <2>1. CASE Z!Map
    BY <2>1 DEF SessionInv, TakenByOne, Z!Map
  <2>2. CASE Z!StartLogin
    BY <2>2 DEF SessionInv, TakenByOne, InTheCallback, Z!StartLogin
  <2>3. ASSUME NEW c \in Callback, Z!Consume(c) PROVE TakenByOne'
    <3>1. callback \in [Callback -> {"none", "exchanging", "granted", "refused", "signed_in"}]
          /\ login \in Nat /\ minute \in Nat /\ TakenByOne
      BY DEF SessionInv, Z!TypeOK
    <3>2. CASE login > minute
      <4>1. login' = 0 /\ callback' = [callback EXCEPT ![c] = "exchanging"]
        BY <2>3, <3>2 DEF Z!Consume, Z!Consumed
      <4>2. \A d \in Callback \ {c} : callback'[d] \notin InTheCallback
        BY <3>1, <3>2, <4>1 DEF TakenByOne
      <4> QED
        BY <4>1, <4>2 DEF TakenByOne
    <3>3. CASE ~(login > minute)
      <4>1. login' = login /\ callback' = [callback EXCEPT ![c] = "refused"]
        BY <2>3, <3>3 DEF Z!Consume
      <4>2. \A d \in Callback : callback'[d] \in InTheCallback => callback[d] \in InTheCallback
        BY <3>1, <4>1 DEF InTheCallback
      <4> QED
        BY <3>1, <4>1, <4>2 DEF TakenByOne
    <3> QED
      BY <3>2, <3>3
  <2>4. ASSUME NEW c \in Callback, Z!Exchange(c) PROVE TakenByOne'
    BY <2>4 DEF SessionInv, Z!TypeOK, TakenByOne, InTheCallback, Z!Exchange
  <2> QED
    BY <2>1, <2>2, <2>3, <2>4
<1>3. UNCHANGED <<minute, session, request, used, verdict>>
  BY DEF Z!Map, Z!StartLogin, Z!Consume, Z!Exchange
<1>4. SignedInHave'
  <2>1. \A c \in Callback : callback[c] = "signed_in" => callback'[c] = "signed_in"
    BY DEF SessionInv, Z!TypeOK, Z!Map, Z!StartLogin, Z!Consume, Z!Exchange
  <2> QED
    BY <1>3, <2>1 DEF SessionInv, SignedInHave
<1>5. UnderWay' /\ NearlyWritten' /\ Z!IdleIsIdle'
  BY <1>3 DEF SessionInv, UnderWay, NearlyWritten, Z!IdleIsIdle
<1> QED
  BY <1>1, <1>2, <1>4, <1>5 DEF SessionInv

\* The session of a callback that had none.
LEMMA SessionMade == ASSUME SessionInv, NEW c \in Callback, Z!SignIn(c) PROVE SessionInv'
<1> DEFINE s == [at |-> "open", seen |-> minute, expires |-> minute + SessionLife]
<1> USE SessionAssumption
<1>1. /\ session \in [Callback -> [at: {"none", "open", "revoked"}, seen: 0..MaxMinutes,
                                   expires: 0..(MaxMinutes + SessionLife)]]
      /\ minute \in 1..MaxMinutes /\ used \in [Callback -> 0..MaxMinutes]
      /\ callback \in [Callback -> {"none", "exchanging", "granted", "refused", "signed_in"}]
  BY DEF SessionInv, Z!TypeOK
<1>2. /\ callback[c] = "granted" /\ callback' = [callback EXCEPT ![c] = "signed_in"]
      /\ session' = [session EXCEPT ![c] = s] /\ used' = [used EXCEPT ![c] = minute]
      /\ UNCHANGED <<minute, login, mapped, request, verdict>>
  BY DEF Z!SignIn
<1>3. /\ s \in [at: {"none", "open", "revoked"}, seen: 0..MaxMinutes,
                expires: 0..(MaxMinutes + SessionLife)]
      /\ s.at = "open" /\ s.seen = minute
  BY <1>1
<1> HIDE DEF s
<1>4. session[c].at = "none" /\ \A t \in Tab : request[<<c, t>>].at # "read"
  BY <1>2 DEF SessionInv, SignedInHave, UnderWay
<1>5. Z!TypeOK'
  BY <1>1, <1>2, <1>3 DEF SessionInv, Z!TypeOK
<1>6. TakenByOne' /\ SignedInHave'
  BY <1>1, <1>2, <1>3 DEF SessionInv, TakenByOne, SignedInHave, InTheCallback
<1>7. UnderWay'
  BY <1>1, <1>2, <1>3 DEF SessionInv, UnderWay
<1>8. NearlyWritten'
  <2> SUFFICES ASSUME NEW d \in Callback
               PROVE  /\ session'[d].seen <= used'[d] /\ used'[d] <= minute
                      /\ used'[d] <= session'[d].seen + Granule
                      /\ \A t \in Tab :
                            request[<<d, t>>].at = "read" /\ ~request[<<d, t>>].write =>
                                request[<<d, t>>].began <= session'[d].seen + Granule
    BY <1>2 DEF NearlyWritten
  <2>1. CASE d = c
    BY <1>1, <1>2, <1>3, <1>4, <2>1
  <2>2. CASE d # c
    BY <1>1, <1>2, <2>2 DEF SessionInv, NearlyWritten
  <2> QED
    BY <2>1, <2>2
<1>9. Z!IdleIsIdle'
  BY <1>2 DEF SessionInv, Z!IdleIsIdle
<1> QED
  BY <1>5, <1>6, <1>7, <1>8, <1>9 DEF SessionInv

LEMMA SessionTick == ASSUME SessionInv, Z!Tick PROVE SessionInv'
<1> USE SessionAssumption
<1>1. /\ minute < MaxMinutes /\ minute' = minute + 1
      /\ UNCHANGED <<login, mapped, callback, session, request, used, verdict>>
      /\ \A q \in DOMAIN request : request[q].at = "read" => minute - request[q].began < Slow
  BY DEF Z!Tick
<1>2. Z!TypeOK'
  BY <1>1 DEF SessionInv, Z!TypeOK
<1>3. TakenByOne' /\ SignedInHave' /\ Z!IdleIsIdle'
  BY <1>1 DEF SessionInv, TakenByOne, SignedInHave, Z!IdleIsIdle
<1>4. /\ request \in [Callback \X Tab ->
                         [at: {"none", "read"}, began: 0..MaxMinutes, write: BOOLEAN]]
      /\ used \in [Callback -> 0..MaxMinutes] /\ minute \in Nat
  BY DEF SessionInv, Z!TypeOK
<1>5. UnderWay'
  <2> SUFFICES ASSUME NEW q \in Callback \X Tab, request[q].at = "read"
               PROVE  /\ session[q[1]].at # "none"
                      /\ request[q].began <= minute + 1 /\ (minute + 1) - request[q].began <= Slow
    BY <1>1 DEF UnderWay
  <2>1. /\ session[q[1]].at # "none" /\ request[q].began <= minute
        /\ minute - request[q].began < Slow /\ request[q].began \in Nat
    BY <1>1, <1>4 DEF SessionInv, UnderWay
  <2> QED
    BY <1>4, <2>1
<1>6. NearlyWritten'
  BY <1>1, <1>4 DEF SessionInv, NearlyWritten
<1> QED
  BY <1>2, <1>3, <1>5, <1>6 DEF SessionInv

LEMMA SessionLoad ==
    ASSUME SessionInv, NEW c \in Callback, NEW t \in Tab, Z!Load(c, t) PROVE SessionInv'
<1> DEFINE q == <<c, t>>
           r == [at |-> "read", began |-> minute, write |-> Z!Writes(c)]
<1> USE SessionAssumption
<1>1. /\ session \in [Callback -> [at: {"none", "open", "revoked"}, seen: 0..MaxMinutes,
                                   expires: 0..(MaxMinutes + SessionLife)]]
      /\ minute \in 1..MaxMinutes /\ used \in [Callback -> 0..MaxMinutes]
      /\ request \in [Callback \X Tab ->
                         [at: {"none", "read"}, began: 0..MaxMinutes, write: BOOLEAN]]
      /\ q \in Callback \X Tab
  BY DEF SessionInv, Z!TypeOK
<1>2. /\ session[c].at = "open" /\ request[q].at = "none"
      /\ UNCHANGED <<minute, login, mapped, callback, session, used>>
      /\ \/ /\ session[c].seen + IdleTime > minute
            /\ request' = [request EXCEPT ![q] = r] /\ Z!Answer(c, "served")
         \/ /\ ~(session[c].seen + IdleTime > minute)
            /\ request' = request /\ Z!Answer(c, "refused")
  BY DEF Z!Load
<1>3. /\ r \in [at: {"none", "read"}, began: 0..MaxMinutes, write: BOOLEAN]
      /\ r.at = "read" /\ r.began = minute /\ (~r.write => minute <= session[c].seen + Granule)
  <2>1. Z!Writes(c) \in BOOLEAN /\ (~Z!Writes(c) => minute <= session[c].seen + Granule)
    BY <1>1 DEF Z!Writes
  <2> QED
    BY <1>1, <2>1
<1> HIDE DEF r
<1>4. /\ session[c].seen \in Nat /\ used[c] \in Nat /\ minute \in Nat
      /\ session[c].seen <= used[c] /\ used[c] <= minute /\ used[c] <= session[c].seen + Granule
  BY <1>1 DEF SessionInv, NearlyWritten
<1>5. minute - used[c] \in 0..MaxMinutes
  BY <1>1, <1>4
<1>6. request' \in [Callback \X Tab ->
                       [at: {"none", "read"}, began: 0..MaxMinutes, write: BOOLEAN]]
  BY <1>1, <1>2, <1>3
<1>7. verdict' \in [answer: {"none", "served", "refused"}, unused: 0..MaxMinutes]
  BY <1>2, <1>5 DEF Z!Answer
<1>8. Z!TypeOK'
  BY <1>2, <1>6, <1>7 DEF SessionInv, Z!TypeOK
<1>9. TakenByOne' /\ SignedInHave'
  BY <1>2 DEF SessionInv, TakenByOne, SignedInHave
<1>10. UnderWay'
  <2> SUFFICES ASSUME NEW p \in Callback \X Tab, request'[p].at = "read"
               PROVE  /\ session[p[1]].at # "none" /\ request'[p].began <= minute
                      /\ minute - request'[p].began <= Slow
    BY <1>2 DEF UnderWay
  <2>1. CASE p = q /\ request' # request
    BY <1>1, <1>2, <1>3, <1>4, <2>1
  <2>2. CASE request'[p] = request[p]
    BY <1>2, <2>2 DEF SessionInv, UnderWay
  <2> QED
    BY <1>1, <1>2, <2>1, <2>2
<1>11. NearlyWritten'
  <2> SUFFICES ASSUME NEW d \in Callback, NEW u \in Tab, request'[<<d, u>>].at = "read",
                      ~request'[<<d, u>>].write
               PROVE  request'[<<d, u>>].began <= session[d].seen + Granule
    BY <1>2 DEF SessionInv, NearlyWritten
  <2>1. CASE <<d, u>> = q /\ request' # request
    BY <1>1, <1>2, <1>3, <2>1
  <2>2. CASE request'[<<d, u>>] = request[<<d, u>>]
    BY <2>2 DEF SessionInv, NearlyWritten
  <2> QED
    BY <1>1, <1>2, <2>1, <2>2
<1>12. Z!IdleIsIdle'
  BY <1>2, <1>4 DEF Z!IdleIsIdle, Z!Answer
<1> QED
  BY <1>8, <1>9, <1>10, <1>11, <1>12 DEF SessionInv

LEMMA SessionEndLoad ==
    ASSUME SessionInv, NEW c \in Callback, NEW t \in Tab, Z!EndLoad(c, t) PROVE SessionInv'
<1> DEFINE q == <<c, t>>
           r == request[q]
           s == [session[c] EXCEPT !.seen = IF r.write THEN r.began ELSE @]
           u == Z!Latest(used[c], r.began)
<1> USE SessionAssumption
<1>1. /\ session \in [Callback -> [at: {"none", "open", "revoked"}, seen: 0..MaxMinutes,
                                   expires: 0..(MaxMinutes + SessionLife)]]
      /\ minute \in 1..MaxMinutes /\ used \in [Callback -> 0..MaxMinutes]
      /\ request \in [Callback \X Tab ->
                         [at: {"none", "read"}, began: 0..MaxMinutes, write: BOOLEAN]]
      /\ q \in Callback \X Tab
  BY DEF SessionInv, Z!TypeOK
<1>2. /\ r.at = "read" /\ session' = [session EXCEPT ![c] = s] /\ used' = [used EXCEPT ![c] = u]
      /\ request' = [request EXCEPT ![q] = Z!NoRequest]
      /\ UNCHANGED <<minute, login, mapped, callback, verdict>>
  BY <1>1 DEF Z!EndLoad
<1>3. /\ r.began \in 0..MaxMinutes /\ r.began <= minute /\ minute <= r.began + Slow
      /\ session[c].at # "none"
      /\ r.write \/ (~r.write /\ r.began <= session[c].seen + Granule)
  BY <1>1, <1>2 DEF SessionInv, UnderWay, NearlyWritten
<1>4. /\ s \in [at: {"none", "open", "revoked"}, seen: 0..MaxMinutes,
                expires: 0..(MaxMinutes + SessionLife)]
      /\ s.at = session[c].at
      /\ r.write => s.seen = r.began
      /\ ~r.write => s.seen = session[c].seen
  BY <1>1, <1>3
<1>5. /\ u \in 0..MaxMinutes /\ used[c] <= u /\ r.began <= u /\ u <= minute
      /\ u = used[c] \/ u = r.began
      /\ session[c].seen <= used[c] /\ used[c] <= session[c].seen + Granule
  BY <1>1, <1>3 DEF Z!Latest, SessionInv, NearlyWritten
<1>6. Z!NoRequest \in [at: {"none", "read"}, began: 0..MaxMinutes, write: BOOLEAN]
      /\ Z!NoRequest.at = "none"
  BY DEF Z!NoRequest
<1> HIDE DEF s, u, q
<1>7. s.seen \in Nat /\ s.seen <= u /\ u <= s.seen + Granule
  BY <1>1, <1>3, <1>4, <1>5
<1>8. Z!TypeOK'
  BY <1>1, <1>2, <1>4, <1>5, <1>6 DEF SessionInv, Z!TypeOK
<1>9. \A d \in Callback : session'[d].at = session[d].at
  BY <1>1, <1>2, <1>4
<1>10. \A p \in Callback \X Tab : request'[p].at = "read" => p # q /\ request'[p] = request[p]
  BY <1>1, <1>2, <1>6
<1>11. TakenByOne' /\ SignedInHave'
  BY <1>2, <1>9 DEF SessionInv, TakenByOne, SignedInHave
<1>12. UnderWay'
  BY <1>2, <1>9, <1>10 DEF SessionInv, UnderWay
<1>13. NearlyWritten'
  <2> SUFFICES ASSUME NEW d \in Callback
               PROVE  /\ session'[d].seen <= used'[d] /\ used'[d] <= minute
                      /\ used'[d] <= session'[d].seen + Granule
                      /\ \A v \in Tab :
                            request'[<<d, v>>].at = "read" /\ ~request'[<<d, v>>].write =>
                                request'[<<d, v>>].began <= session'[d].seen + Granule
    BY <1>2 DEF NearlyWritten
  <2>1. CASE d # c
    <3>1. session'[d] = session[d] /\ used'[d] = used[d]
      BY <1>1, <1>2, <2>1
    <3> QED
      BY <1>10, <3>1 DEF SessionInv, NearlyWritten
  <2>2. CASE d = c
    <3>1. session'[d] = s /\ used'[d] = u
      BY <1>1, <1>2, <2>2
    <3>2. ASSUME NEW v \in Tab, request'[<<d, v>>].at = "read", ~request'[<<d, v>>].write
          PROVE  request'[<<d, v>>].began <= s.seen + Granule
      <4>1. request'[<<d, v>>] = request[<<d, v>>]
        BY <1>10, <3>2
      <4>2. /\ request[<<d, v>>].began \in Nat /\ request[<<d, v>>].began <= minute
            /\ request[<<d, v>>].began <= session[c].seen + Granule
        BY <1>1, <2>2, <3>2, <4>1 DEF SessionInv, UnderWay, NearlyWritten
      <4> QED
        BY <1>1, <1>3, <1>4, <4>1, <4>2
    <3> QED
      BY <1>5, <1>7, <3>1, <3>2
  <2> QED
    BY <2>1, <2>2
<1>14. Z!IdleIsIdle'
  BY <1>2 DEF SessionInv, Z!IdleIsIdle
<1> QED
  BY <1>8, <1>11, <1>12, <1>13, <1>14 DEF SessionInv

LEMMA SessionEnd == ASSUME SessionInv, NEW c \in Callback, Z!End(c) PROVE SessionInv'
<1> DEFINE s == [session[c] EXCEPT !.at = "revoked"]
<1>1. session \in [Callback -> [at: {"none", "open", "revoked"}, seen: 0..MaxMinutes,
                                expires: 0..(MaxMinutes + SessionLife)]]
  BY DEF SessionInv, Z!TypeOK
<1>2. /\ session[c].at = "open" /\ session' = [session EXCEPT ![c] = s]
      /\ UNCHANGED <<minute, login, mapped, callback, request, used, verdict>>
  BY <1>1 DEF Z!End
<1>3. /\ s \in [at: {"none", "open", "revoked"}, seen: 0..MaxMinutes,
                expires: 0..(MaxMinutes + SessionLife)]
      /\ s.at = "revoked" /\ s.seen = session[c].seen
  BY <1>1
<1> HIDE DEF s
<1>4. \A d \in Callback : /\ session'[d].seen = session[d].seen
                          /\ session'[d].at # "none" <=> session[d].at # "none"
  BY <1>1, <1>2, <1>3
<1>5. Z!TypeOK'
  BY <1>1, <1>2, <1>3 DEF SessionInv, Z!TypeOK
<1>6. TakenByOne' /\ SignedInHave' /\ Z!IdleIsIdle'
  BY <1>2, <1>4 DEF SessionInv, TakenByOne, SignedInHave, Z!IdleIsIdle
<1>7. UnderWay' /\ NearlyWritten'
  BY <1>2, <1>4 DEF SessionInv, UnderWay, NearlyWritten
<1> QED
  BY <1>5, <1>6, <1>7 DEF SessionInv

LEMMA SessionStep == ASSUME SessionInv, Z!Next PROVE SessionInv'
<1>1. CASE Z!Tick
  BY <1>1, SessionTick
<1>2. CASE Z!Map \/ Z!StartLogin \/ \E c \in Callback : Z!Consume(c) \/ Z!Exchange(c)
  BY <1>2, SessionSignIn
<1>3. CASE \E c \in Callback : Z!SignIn(c)
  BY <1>3, SessionMade
<1>4. CASE \E c \in Callback : Z!End(c)
  BY <1>4, SessionEnd
<1>5. CASE \E c \in Callback, t \in Tab : Z!Load(c, t) \/ Z!EndLoad(c, t)
  BY <1>5, SessionLoad, SessionEndLoad
<1> QED
  BY <1>1, <1>2, <1>3, <1>4, <1>5 DEF Z!Next

LEMMA SessionStays == ASSUME SessionInv, UNCHANGED sessionVars PROVE SessionInv'
BY DEF sessionVars, SessionInv, Z!TypeOK, TakenByOne, SignedInHave, UnderWay, NearlyWritten,
   Z!IdleIsIdle

\* One of the callbacks at most has a session.
LEMMA SessionHolds == ASSUME SessionInv PROVE Z!OneSessionPerSignIn /\ Z!IdleIsIdle
<1> DEFINE T == {c \in Callback : session[c].at # "none"}
<1>1. \A c, d \in T : c = d
  BY DEF SessionInv, SignedInHave, TakenByOne, InTheCallback
<1>2. Cardinality(T) <= 1
  <2>1. CASE T = {}
    BY <2>1, FS_EmptySet
  <2>2. ASSUME NEW c \in T PROVE Cardinality(T) <= 1
    <3>1. T = {c}
      BY <1>1, <2>2
    <3> QED
      BY <3>1, FS_Singleton
  <2> QED
    BY <2>1, <2>2
<1>3. Z!Cardinality(T) = Cardinality(T)
  BY DEF Z!Cardinality, Cardinality
<1> QED
  BY <1>2, <1>3 DEF SessionInv, Z!OneSessionPerSignIn

-----------------------------------------------------------------------------
(* Authority.                                                              *)

\* Authority outlives the mapping of a role by a look-up, a session and a request at most.
Stays == Pause + Hours
RunsFor == Stays + Handling

HSession == [at: {"none", "open", "revoked"}, roles: SUBSET (Mapped \cup {"tenant_admin"}),
             expires: 0..(MaxHours + Hours)]
HRequest == [at: {"none", "authorized"}, by: H!Caller, needs: H!Permissions \cup {"authenticated"},
             does: H!Deeds, began: 0..MaxHours, asked: BOOLEAN]
HToken == [at: {"none", "valid", "revoked"}, permissions: SUBSET H!Permissions,
           expires: 0..(MaxHours + Days)]

\* Which roles were mapped at a moment is known from the last one each was.
MappedNow ==
    /\ \A r \in Mapped : mappedAt[r] <= hour
    /\ \A r \in roles : mappedAt[r] = hour

\* Roles that a sign-in found were mapped then, a short while ago.
LookedUpLately ==
    signing # H!NotSigningIn =>
        /\ signing.at <= hour /\ hour - signing.at <= Pause
        /\ \A r \in signing.roles : signing.at <= mappedAt[r]

\* Roles of a session were mapped not longer before its end than it lasts.
MappedWhenMade ==
    /\ person["person"].roles \subseteq Mapped
    /\ \A r \in person["person"].roles : person["person"].expires <= mappedAt[r] + Stays

\* A request by a person was let through by a role that had been mapped then.
Backed(q) ==
    visit[q].by = "person" /\ visit[q].needs # "authenticated" =>
        \E r \in Mapped : /\ visit[q].needs \in H!RolePermissions[r]
                          /\ visit[q].began < mappedAt[r] + Stays
LetThrough ==
    \A q \in Visit :
        visit[q].at = "authorized" =>
            /\ visit[q].began <= hour /\ hour - visit[q].began <= Handling
            /\ Backed(q)
            /\ visit[q].by = "token" => visit[q].does \in {"nothing", "log_out"}
            /\ visit[q].by \in H!Person /\ visit[q].does # "nothing" => visit[q].asked = TRUE

AccessInv ==
    /\ H!TypeOK
    /\ token.permissions \subseteq H!TokenPermissions
    /\ MappedNow /\ LookedUpLately /\ MappedWhenMade /\ LetThrough
    /\ H!AuthorityRunsOut /\ H!TokensOnlyRead /\ H!OnlyWhatThePageAsked

\* The numbers among the constants.
LEMMA AccessBounds ==
    /\ Hours \in Nat \ {0} /\ Emergency \in Nat /\ Emergency <= Hours /\ Days \in Nat
    /\ Pause \in Nat /\ Handling \in Nat /\ MaxHours \in Nat \ {0}
BY AccessAssumption

LEMMA RolePermits ==
    /\ DOMAIN H!RolePermissions = {"viewer", "operator", "approver", "sop_author", "sop_approver",
                                   "tenant_admin", "auditor"}
    /\ \A r \in DOMAIN H!RolePermissions : H!RolePermissions[r] \subseteq H!Permissions
    /\ H!TokenPermissions \subseteq H!Permissions
    /\ "authenticated" \notin H!Permissions
    /\ Mapped \subseteq DOMAIN H!RolePermissions
<1>1. DOMAIN H!RolePermissions = {"viewer", "operator", "approver", "sop_author", "sop_approver",
                                   "tenant_admin", "auditor"}
  BY DEF H!RolePermissions
<1>2. \A r \in DOMAIN H!RolePermissions : H!RolePermissions[r] \subseteq H!Permissions
  BY DEF H!Permissions, H!PermissionsFor
<1>3. /\ H!RolePermissions["operator"] = {"incidents.read", "system.read", "metrics.read",
                                          "runs.operate", "actions.stop"}
      /\ H!RolePermissions["auditor"] = {"incidents.read", "audit.read"}
  BY DEF H!RolePermissions
<1>4. H!TokenPermissions \subseteq H!Permissions
  BY <1>1, <1>2, <1>3 DEF H!TokenPermissions
<1>5. \A r \in DOMAIN H!RolePermissions : "authenticated" \notin H!RolePermissions[r]
  BY <1>1 DEF H!RolePermissions
<1>6. "authenticated" \notin H!Permissions
  BY <1>5 DEF H!Permissions, H!PermissionsFor
<1> QED
  BY <1>1, <1>2, <1>4, <1>6, AccessAssumption

\* Of the routes, those with a permission a token may carry only read, and those that need none
\* do nothing but log out; whatever is not a GET does something.
LEMMA RoutesRead ==
    ASSUME NEW route \in H!Routes
    PROVE  /\ route.needs \in H!TokenPermissions => route.does = "nothing"
           /\ route.needs = "authenticated" => route.does \in {"nothing", "log_out"}
           /\ route.method = "GET" => route.does = "nothing"
<1> DEFINE Right(r) == /\ r.needs \in H!TokenPermissions => r.does = "nothing"
                       /\ r.needs = "authenticated" => r.does \in {"nothing", "log_out"}
                       /\ r.method = "GET" => r.does = "nothing"
<1>1. \A n : Right(H!Get(n))
  BY DEF H!Get
<1>2. ASSUME NEW n, NEW d, n \notin H!TokenPermissions \cup {"authenticated"}
      PROVE  Right(H!Post(n, d)) /\ Right(H!Put(n, d)) /\ Right(H!Delete(n, d))
  BY <1>2 DEF H!Post, H!Put, H!Delete, H!Route
<1>3. Right(H!Post("authenticated", "log_out"))
  BY DEF H!Post, H!Route, H!TokenPermissions
<1>4. {"tokens.manage", "roles.manage", "sops.author", "sops.approve", "connectors.manage",
       "actions.approve", "actions.stop", "policy.manage"}
         \cap (H!TokenPermissions \cup {"authenticated"}) = {}
  BY DEF H!TokenPermissions
<1> SUFFICES Right(route)
  OBVIOUS
<1> HIDE DEF Right
<1>5. CASE route \in H!OperationsRoutes \cup H!OwnRoutes
  BY <1>1, <1>3, <1>5 DEF H!OperationsRoutes, H!OwnRoutes
<1>6. CASE route \in H!AdministrationRoutes
  BY <1>1, <1>2, <1>4, <1>6 DEF H!AdministrationRoutes
<1>7. CASE route \in H!SopRoutes
  BY <1>1, <1>2, <1>4, <1>7 DEF H!SopRoutes
<1>8. CASE route \in H!ConnectorRoutes
  BY <1>1, <1>2, <1>4, <1>8 DEF H!ConnectorRoutes
<1>9. CASE route \in H!RunnerRoutes
  BY <1>1, <1>2, <1>4, <1>9 DEF H!RunnerRoutes
<1>10. CASE route \in H!ActionRoutes
  BY <1>1, <1>2, <1>4, <1>10 DEF H!ActionRoutes
<1>11. CASE route \in H!PolicyRoutes
  BY <1>1, <1>2, <1>4, <1>11 DEF H!PolicyRoutes
<1>12. CASE route \in H!ModelRoutes \cup H!AuditRoutes
  BY <1>1, <1>2, <1>4, <1>12 DEF H!ModelRoutes, H!AuditRoutes
<1> QED
  BY <1>5, <1>6, <1>7, <1>8, <1>9, <1>10, <1>11, <1>12 DEF H!Routes

LEMMA AccessInit == H!Init => AccessInv
<1> SUFFICES ASSUME H!Init PROVE AccessInv
  OBVIOUS
<1> USE AccessBounds
<1>1. H!TypeOK
  BY DEF H!Init, H!TypeOK, H!NoSession, H!NoToken, H!NotSigningIn, H!NoRequest, H!NoDeed, H!Person,
     H!Caller, H!Deeds, H!Here
<1>2. token.permissions \subseteq H!TokenPermissions
  BY DEF H!Init, H!NoToken
<1>3. MappedNow /\ LookedUpLately
  BY DEF H!Init, MappedNow, LookedUpLately
<1>4. person["person"].roles = {}
  BY DEF H!Init, H!NoSession, H!Person
<1>5. MappedWhenMade
  BY <1>4 DEF MappedWhenMade
<1>6. LetThrough
  BY DEF H!Init, LetThrough, H!NoRequest
<1>7. H!AuthorityRunsOut /\ H!TokensOnlyRead /\ H!OnlyWhatThePageAsked
  BY DEF H!Init, H!AuthorityRunsOut, H!TokensOnlyRead, H!OnlyWhatThePageAsked, H!NoDeed
<1> QED
  BY <1>1, <1>2, <1>3, <1>5, <1>6, <1>7 DEF AccessInv

\* Nothing done is nothing wrong.
LEMMA NothingDone ==
    ASSUME deed' = H!NoDeed
    PROVE  /\ (H!AuthorityRunsOut /\ H!TokensOnlyRead /\ H!OnlyWhatThePageAsked)'
           /\ deed' \in [by: H!Caller, does: H!Deeds, asked: BOOLEAN, unmapped: 0..MaxHours]
BY AccessBounds DEF H!AuthorityRunsOut, H!TokensOnlyRead, H!OnlyWhatThePageAsked, H!NoDeed,
   H!Caller, H!Person, H!Deeds, H!Here

LEMMA AccessTick == ASSUME AccessInv, H!Tick PROVE AccessInv'
<1> USE AccessBounds
<1>1. /\ hour < MaxHours /\ hour' = hour + 1 /\ deed' = H!NoDeed
      /\ signing # H!NotSigningIn => hour - signing.at < Pause
      /\ \A q \in Visit : visit[q].at = "authorized" => hour - visit[q].began < Handling
      /\ mappedAt' = [r \in Mapped |-> IF r \in roles THEN hour + 1 ELSE mappedAt[r]]
      /\ UNCHANGED <<roles, signing, person, token, visit>>
  BY DEF H!Tick
<1>2. /\ hour \in 1..MaxHours /\ mappedAt \in [Mapped -> 0..MaxHours] /\ roles \subseteq Mapped
      /\ signing \in [roles: SUBSET Mapped, at: 0..MaxHours]
      /\ visit \in [Visit -> HRequest]
      /\ person \in [H!Person -> HSession]
  BY DEF AccessInv, H!TypeOK, HRequest, HSession
<1>3. /\ mappedAt' \in [Mapped -> 0..MaxHours]
      /\ \A r \in Mapped : mappedAt[r] <= mappedAt'[r] /\ mappedAt'[r] <= hour + 1
      /\ \A r \in roles : mappedAt'[r] = hour + 1
  BY <1>1, <1>2 DEF AccessInv, MappedNow
<1>4. H!TypeOK'
  BY <1>1, <1>2, <1>3, NothingDone DEF AccessInv, H!TypeOK
<1>5. MappedNow'
  BY <1>1, <1>3 DEF MappedNow
<1>6. LookedUpLately'
  BY <1>1, <1>2, <1>3 DEF AccessInv, LookedUpLately
<1>7. MappedWhenMade'
  <2> SUFFICES ASSUME NEW r \in person["person"].roles
               PROVE  person["person"].expires <= mappedAt'[r] + Stays
    BY <1>1 DEF AccessInv, MappedWhenMade
  <2>1. r \in Mapped /\ person["person"].expires <= mappedAt[r] + Stays
    BY DEF AccessInv, MappedWhenMade
  <2>2. person["person"].expires \in Nat /\ mappedAt[r] \in Nat /\ mappedAt'[r] \in Nat
    BY <1>2, <1>3, <2>1 DEF H!Person, HSession
  <2> QED
    BY <1>3, <2>1, <2>2 DEF Stays
<1>8. LetThrough'
  <2> SUFFICES ASSUME NEW q \in Visit, visit[q].at = "authorized"
               PROVE  /\ visit[q].began <= hour + 1 /\ (hour + 1) - visit[q].began <= Handling
                      /\ Backed(q)'
                      /\ visit[q].by = "token" => visit[q].does \in {"nothing", "log_out"}
                      /\ visit[q].by \in H!Person /\ visit[q].does # "nothing" => visit[q].asked = TRUE
    BY <1>1 DEF LetThrough
  <2>1. /\ visit[q].began <= hour /\ Backed(q) /\ hour - visit[q].began < Handling
        /\ visit[q].by = "token" => visit[q].does \in {"nothing", "log_out"}
        /\ visit[q].by \in H!Person /\ visit[q].does # "nothing" => visit[q].asked = TRUE
    BY <1>1 DEF AccessInv, LetThrough
  <2>2. visit[q].began \in Nat
    BY <1>2 DEF HRequest
  <2>3. Backed(q)'
    <3> SUFFICES ASSUME visit[q].by = "person", visit[q].needs # "authenticated"
                 PROVE  \E r \in Mapped : /\ visit[q].needs \in H!RolePermissions[r]
                                          /\ visit[q].began < mappedAt'[r] + Stays
      BY <1>1 DEF Backed
    <3>1. PICK r \in Mapped : /\ visit[q].needs \in H!RolePermissions[r]
                              /\ visit[q].began < mappedAt[r] + Stays
      BY <2>1 DEF Backed
    <3> QED
      BY <1>2, <1>3, <2>2, <3>1 DEF Stays
  <2>4. visit[q].began <= hour + 1 /\ (hour + 1) - visit[q].began <= Handling
    BY <1>2, <2>1, <2>2
  <2> QED
    BY <2>1, <2>3, <2>4
<1> QED
  BY <1>1, <1>4, <1>5, <1>6, <1>7, <1>8, NothingDone DEF AccessInv

\* The steps of signing in change a session and what was looked up.
LEMMA AccessSignIn ==
    ASSUME AccessInv, H!LookUp \/ H!Establish \/ H!BreakGlass PROVE AccessInv'
<1> USE AccessBounds
<1>1. /\ hour \in 1..MaxHours /\ mappedAt \in [Mapped -> 0..MaxHours] /\ roles \subseteq Mapped
      /\ signing \in [roles: SUBSET Mapped, at: 0..MaxHours]
      /\ person \in [H!Person -> HSession]
  BY DEF AccessInv, H!TypeOK, HSession
<1>2. UNCHANGED <<hour, roles, mappedAt, token, visit>> /\ deed' = H!NoDeed
  BY DEF H!LookUp, H!Establish, H!BreakGlass, H!Open
<1>3. signing' \in [roles: SUBSET Mapped, at: 0..MaxHours] /\ LookedUpLately'
  <2>1. CASE H!LookUp
    <3>1. signing' = [roles |-> roles, at |-> hour]
      BY <2>1 DEF H!LookUp
    <3> QED
      BY <1>1, <1>2, <3>1 DEF AccessInv, LookedUpLately, MappedNow
  <2>2. CASE H!Establish
    <3>1. signing' = H!NotSigningIn
      BY <2>2 DEF H!Establish
    <3> QED
      BY <1>1, <3>1 DEF LookedUpLately, H!NotSigningIn
  <2>3. CASE H!BreakGlass
    <3>1. signing' = signing
      BY <2>3 DEF H!BreakGlass
    <3> QED
      BY <1>1, <1>2, <3>1 DEF AccessInv, LookedUpLately
  <2> QED
    BY <2>1, <2>2, <2>3
<1>4. person' \in [H!Person -> HSession] /\ MappedWhenMade'
  <2>1. CASE H!LookUp
    BY <1>1, <1>2, <2>1 DEF AccessInv, MappedWhenMade, H!LookUp
  <2>2. CASE H!Establish
    <3> DEFINE s == [at |-> "open", roles |-> signing.roles, expires |-> hour + Hours]
    <3>1. person' = [person EXCEPT !["person"] = s] /\ signing # H!NotSigningIn
      BY <2>2 DEF H!Establish, H!Open
    <3>2. s \in HSession /\ s.roles = signing.roles /\ s.expires = hour + Hours
      BY <1>1 DEF HSession
    <3> HIDE DEF s
    <3>3. person' \in [H!Person -> HSession] /\ person'["person"] = s
      BY <1>1, <3>1, <3>2 DEF H!Person
    <3>4. ASSUME NEW r \in signing.roles PROVE hour + Hours <= mappedAt[r] + Stays
      <4>1. /\ signing.at \in Nat /\ mappedAt[r] \in Nat
            /\ signing.at <= mappedAt[r] /\ hour - signing.at <= Pause
        BY <1>1, <3>1, <3>4 DEF AccessInv, LookedUpLately
      <4> QED
        BY <1>1, <4>1 DEF Stays
    <3> QED
      BY <1>1, <1>2, <3>2, <3>3, <3>4 DEF MappedWhenMade
  <2>3. CASE H!BreakGlass
    <3> DEFINE s == [at |-> "open", roles |-> {"tenant_admin"}, expires |-> hour + Emergency]
    <3>1. person' = [person EXCEPT !["break-glass"] = s]
      BY <2>3 DEF H!BreakGlass, H!Open
    <3>2. s \in HSession
      BY <1>1 DEF HSession
    <3> HIDE DEF s
    <3>3. person' \in [H!Person -> HSession] /\ person'["person"] = person["person"]
      BY <1>1, <3>1, <3>2 DEF H!Person
    <3> QED
      BY <1>2, <3>3 DEF AccessInv, MappedWhenMade
  <2> QED
    BY <2>1, <2>2, <2>3
<1>5. H!TypeOK'
  BY <1>2, <1>3, <1>4, NothingDone DEF AccessInv, H!TypeOK, HSession
<1>6. MappedNow' /\ LetThrough' /\ (token.permissions \subseteq H!TokenPermissions)'
  BY <1>2 DEF AccessInv, MappedNow, LetThrough, Backed
<1> QED
  BY <1>2, <1>3, <1>4, <1>5, <1>6, NothingDone DEF AccessInv

LEMMA AccessAuthorize ==
    ASSUME AccessInv, NEW c \in H!Caller, NEW q \in Visit, NEW route \in H!Routes,
           NEW asked \in BOOLEAN, H!Authorize(c, q, route, asked)
    PROVE  AccessInv'
<1> DEFINE v == [at |-> "authorized", by |-> c, needs |-> route.needs, does |-> H!Does(route),
                 began |-> hour, asked |-> asked]
<1> USE AccessBounds
<1>1. /\ hour \in 1..MaxHours /\ mappedAt \in [Mapped -> 0..MaxHours] /\ roles \subseteq Mapped
      /\ person \in [H!Person -> HSession] /\ visit \in [Visit -> HRequest]
      /\ token \in HToken
  BY DEF AccessInv, H!TypeOK, HSession, HRequest, HToken
<1>2. /\ H!Authenticated(c) /\ H!Permits(c, route.needs)
      /\ c \in H!Person /\ route.method # "GET" => asked = TRUE
      /\ visit' = [visit EXCEPT ![q] = v] /\ deed' = H!NoDeed
      /\ UNCHANGED <<hour, roles, mappedAt, signing, person, token>>
  BY DEF H!Authorize, H!Used
<1>3. H!Holds(c) \subseteq H!Permissions
  <2>1. CASE c = "token"
    BY <1>1, <2>1 DEF H!Holds, HToken
  <2>2. CASE c # "token"
    <3>1. c \in H!Person
      BY <2>2 DEF H!Caller
    <3>2. person[c].roles \subseteq DOMAIN H!RolePermissions
      BY <1>1, <3>1, RolePermits DEF HSession
    <3> QED
      BY <2>2, <3>2, RolePermits DEF H!Holds, H!PermissionsFor
  <2> QED
    BY <2>1, <2>2
<1>4. route.needs \in H!Permissions \cup {"authenticated"} /\ H!Does(route) \in H!Deeds
  BY <1>2, <1>3 DEF H!Permits, H!Does, H!Deeds
<1>5. /\ v \in HRequest
      /\ v.by = c /\ v.needs = route.needs /\ v.does = H!Does(route) /\ v.began = hour
      /\ v.asked = asked
  BY <1>1, <1>4 DEF HRequest
<1> HIDE DEF v
<1>6. ASSUME v.by = "person", v.needs # "authenticated"
      PROVE  \E r \in Mapped : v.needs \in H!RolePermissions[r] /\ v.began < mappedAt[r] + Stays
  <2>1. /\ c = "person" /\ c # "token" /\ hour < person["person"].expires
        /\ route.needs \in H!PermissionsFor(person["person"].roles)
    BY <1>2, <1>5, <1>6 DEF H!Authenticated, H!Permits, H!Holds
  <2>2. PICK r \in person["person"].roles : route.needs \in H!RolePermissions[r]
    BY <2>1 DEF H!PermissionsFor
  <2>3. r \in Mapped /\ person["person"].expires <= mappedAt[r] + Stays
    BY <2>2 DEF AccessInv, MappedWhenMade
  <2>4. person["person"].expires \in Nat /\ mappedAt[r] \in Nat /\ hour \in Nat /\ Stays \in Nat
    BY <1>1, <2>3 DEF H!Person, HSession, Stays
  <2>5. hour < mappedAt[r] + Stays
    BY <2>1, <2>3, <2>4
  <2> QED
    BY <1>5, <2>2, <2>3, <2>5
<1>7. v.by = "token" => v.does \in {"nothing", "log_out"}
  <2> SUFFICES ASSUME c = "token" PROVE H!Does(route) \in {"nothing", "log_out"}
    BY <1>5
  <2>1. route.needs = "authenticated" \/ route.needs \in H!TokenPermissions
    BY <1>2 DEF H!Permits, H!Holds, AccessInv
  <2> QED
    BY <2>1, RoutesRead DEF H!Does, H!Here
<1>8. v.by \in H!Person /\ v.does # "nothing" => v.asked = TRUE
  <2>1. route.method = "GET" => H!Does(route) = "nothing"
    BY RoutesRead DEF H!Does, H!Here
  <2> QED
    BY <1>2, <1>5, <2>1
<1>9. visit' \in [Visit -> HRequest]
  BY <1>1, <1>2, <1>5
<1>10. H!TypeOK'
  BY <1>2, <1>9, NothingDone DEF AccessInv, H!TypeOK, HRequest
<1>11. MappedNow' /\ LookedUpLately' /\ MappedWhenMade' /\ (token.permissions \subseteq H!TokenPermissions)'
  BY <1>2 DEF AccessInv, MappedNow, LookedUpLately, MappedWhenMade
<1>12. LetThrough'
  <2> SUFFICES ASSUME NEW p \in Visit, visit'[p].at = "authorized"
               PROVE  /\ visit'[p].began <= hour /\ hour - visit'[p].began <= Handling
                      /\ Backed(p)'
                      /\ visit'[p].by = "token" => visit'[p].does \in {"nothing", "log_out"}
                      /\ visit'[p].by \in H!Person /\ visit'[p].does # "nothing" => visit'[p].asked = TRUE
    BY <1>2 DEF LetThrough
  <2>1. CASE p = q
    <3>1. visit'[p] = v
      BY <1>1, <1>2, <2>1
    <3>2. Backed(p)'
      BY <1>2, <1>6, <3>1 DEF Backed
    <3>3. v.began <= hour /\ hour - v.began <= Handling
      BY <1>1, <1>5
    <3> QED
      BY <1>7, <1>8, <3>1, <3>2, <3>3
  <2>2. CASE p # q
    <3>1. visit'[p] = visit[p]
      BY <1>1, <1>2, <2>2
    <3> QED
      BY <1>2, <3>1 DEF AccessInv, LetThrough, Backed
  <2> QED
    BY <2>1, <2>2
<1> QED
  BY <1>2, <1>10, <1>11, <1>12, NothingDone DEF AccessInv

\* Of a permission that some role has, the time since one was mapped is the shortest there is.
LEMMA UnmappedIsLeast ==
    ASSUME AccessInv, NEW needs, NEW r \in Mapped, needs \in H!RolePermissions[r]
    PROVE  H!Unmapped(needs) \in 0..MaxHours /\ H!Unmapped(needs) <= hour - mappedAt[r]
<1> DEFINE W == {w \in Mapped : needs \in H!RolePermissions[w]}
           f == [w \in W |-> mappedAt[w]]
<1> USE AccessBounds
<1>1. /\ hour \in 1..MaxHours /\ mappedAt \in [Mapped -> 0..MaxHours]
      /\ \A w \in Mapped : mappedAt[w] <= hour
  BY DEF AccessInv, H!TypeOK, MappedNow
<1>2. IsFiniteSet(W) /\ r \in W
  BY AccessAssumption, FS_Subset
<1>3. f \in [W -> Nat] /\ \A w \in W : f[w] = mappedAt[w]
  BY <1>1
<1> HIDE DEF f
<1>4. PICK m \in W : \A w \in W : f[w] <= f[m]
  BY <1>2, <1>3, Greatest
<1> DEFINE ago == hour - mappedAt[m]
<1>5. ago \in 0..MaxHours /\ \A w \in W : hour - mappedAt[w] >= ago
  BY <1>1, <1>3, <1>4
<1>6. \E w \in W : hour - mappedAt[w] = ago
  OBVIOUS
<1> HIDE DEF ago
<1>7. H!Unmapped(needs) = CHOOSE a \in 0..MaxHours : /\ \E w \in W : hour - mappedAt[w] = a
                                                   /\ \A w \in W : hour - mappedAt[w] >= a
  BY DEF H!Unmapped
<1> HIDE DEF W
<1>8. /\ H!Unmapped(needs) \in 0..MaxHours
      /\ \A w \in W : hour - mappedAt[w] >= H!Unmapped(needs)
  BY <1>5, <1>6, <1>7
<1> QED
  BY <1>1, <1>2, <1>8

\* What is noted of a request that was let through.
LEMMA Noted ==
    ASSUME AccessInv, NEW q \in Visit, visit[q].at = "authorized",
           visit[q].does # "log_out" \/ visit[q].by # "token", H!Note(visit[q])
    PROVE  /\ (H!AuthorityRunsOut /\ H!TokensOnlyRead /\ H!OnlyWhatThePageAsked)'
           /\ deed' \in [by: H!Caller, does: H!Deeds, asked: BOOLEAN, unmapped: 0..MaxHours]
<1> DEFINE r == visit[q]
           u == IF r.by = "person" /\ r.needs # "authenticated" THEN H!Unmapped(r.needs) ELSE 0
<1> USE AccessBounds
<1>1. r \in HRequest /\ hour \in 1..MaxHours /\ mappedAt \in [Mapped -> 0..MaxHours]
  BY DEF AccessInv, H!TypeOK, HRequest
<1>2. /\ r.began \in Nat /\ r.began <= hour /\ hour - r.began <= Handling
      /\ r.by = "token" => r.does \in {"nothing", "log_out"}
      /\ r.by \in H!Person /\ r.does # "nothing" => r.asked = TRUE
      /\ Backed(q)
  <2>1. r.began \in Nat
    BY <1>1 DEF HRequest
  <2> QED
    BY <2>1 DEF AccessInv, LetThrough
<1>3. u \in 0..MaxHours /\ u < RunsFor
  <2>1. CASE r.by = "person" /\ r.needs # "authenticated"
    <3>1. PICK w \in Mapped : r.needs \in H!RolePermissions[w] /\ r.began < mappedAt[w] + Stays
      BY <1>2, <2>1 DEF Backed
    <3>2. H!Unmapped(r.needs) \in 0..MaxHours /\ H!Unmapped(r.needs) <= hour - mappedAt[w]
      BY <3>1, UnmappedIsLeast
    <3>3. mappedAt[w] \in Nat /\ hour \in Nat
      BY <1>1
    <3>4. hour - mappedAt[w] < RunsFor
      BY <1>2, <3>1, <3>3 DEF RunsFor, Stays
    <3>5. u = H!Unmapped(r.needs)
      BY <2>1
    <3> HIDE DEF u, r
    <3> QED
      BY <3>2, <3>3, <3>4, <3>5 DEF RunsFor, Stays
  <2>2. CASE ~(r.by = "person" /\ r.needs # "authenticated")
    BY <2>2 DEF RunsFor, Stays
  <2> QED
    BY <2>1, <2>2
<1>4. deed' = [by |-> r.by, does |-> r.does, asked |-> r.asked, unmapped |-> u]
  BY DEF H!Note
<1> HIDE DEF u
<1>5. r.by \in H!Caller /\ r.does \in H!Deeds /\ r.asked \in BOOLEAN
  BY <1>1 DEF HRequest
<1> HIDE DEF r
<1>6. deed'.by = r.by /\ deed'.does = r.does /\ deed'.asked = r.asked /\ deed'.unmapped = u
  BY <1>4
<1>7. r.by = "token" => r.does = "nothing"
  BY <1>2 DEF r
<1>8. H!AuthorityRunsOut'
  BY <1>3, <1>6 DEF H!AuthorityRunsOut, RunsFor, Stays
<1>9. H!TokensOnlyRead' /\ H!OnlyWhatThePageAsked'
  BY <1>2, <1>6, <1>7 DEF H!TokensOnlyRead, H!OnlyWhatThePageAsked
<1> QED
  BY <1>3, <1>4, <1>5, <1>8, <1>9

\* What a handler does to the mapping, the sessions and the token.
LEMMA AccessHandle == ASSUME AccessInv, NEW q \in Visit, H!Handle(q) PROVE AccessInv'
<1> DEFINE r == visit[q]
<1> USE AccessBounds
<1>1. /\ hour \in 1..MaxHours /\ mappedAt \in [Mapped -> 0..MaxHours] /\ roles \subseteq Mapped
      /\ person \in [H!Person -> HSession] /\ visit \in [Visit -> HRequest] /\ token \in HToken
  BY DEF AccessInv, H!TypeOK, HSession, HRequest, HToken
<1>2. /\ r.at = "authorized"
      /\ H!Map(r) \/ H!CreateToken(r) \/ H!RevokeToken(r) \/ H!LogOut(r) \/ H!Other(r)
      /\ IF r.does = "log_out" /\ r.by = "token" THEN deed' = H!NoDeed ELSE H!Note(r)
      /\ visit' = [visit EXCEPT ![q] = H!NoRequest]
      /\ UNCHANGED <<hour, signing>>
  BY DEF H!Handle
<1>3. /\ (H!AuthorityRunsOut /\ H!TokensOnlyRead /\ H!OnlyWhatThePageAsked)'
      /\ deed' \in [by: H!Caller, does: H!Deeds, asked: BOOLEAN, unmapped: 0..MaxHours]
  <2>1. CASE r.does = "log_out" /\ r.by = "token"
    BY <1>2, <2>1, NothingDone
  <2>2. CASE r.does # "log_out" \/ r.by # "token"
    BY <1>2, <2>2, Noted
  <2> QED
    BY <2>1, <2>2
<1>4. /\ roles' \subseteq Mapped /\ mappedAt' \in [Mapped -> 0..MaxHours]
      /\ \A w \in Mapped : mappedAt[w] <= mappedAt'[w]
      /\ MappedNow'
  <2>1. CASE H!Map(r)
    <3>1. PICK role \in Mapped :
             /\ roles' = IF r.does = "grant_role" THEN roles \cup {role} ELSE roles \ {role}
             /\ mappedAt' = IF role \in roles \cup roles' THEN [mappedAt EXCEPT ![role] = hour]
                            ELSE mappedAt
      BY <2>1 DEF H!Map
    <3>2. \A w \in Mapped : mappedAt[w] <= hour
      BY DEF AccessInv, MappedNow
    <3>3. \A w \in roles : mappedAt[w] = hour
      BY DEF AccessInv, MappedNow
    <3>4. roles' \subseteq Mapped /\ roles' \subseteq roles \cup {role}
      BY <1>1, <3>1
    <3>5. CASE role \in roles \cup roles'
      BY <1>1, <1>2, <3>1, <3>2, <3>3, <3>4, <3>5 DEF MappedNow
    <3>6. CASE role \notin roles \cup roles'
      BY <1>1, <1>2, <3>1, <3>2, <3>3, <3>4, <3>6 DEF MappedNow
    <3> QED
      BY <3>5, <3>6
  <2>2. CASE UNCHANGED <<roles, mappedAt>>
    BY <1>1, <1>2, <2>2 DEF AccessInv, MappedNow
  <2> QED
    BY <1>2, <2>1, <2>2 DEF H!CreateToken, H!RevokeToken, H!LogOut, H!Other
<1>5. token' \in HToken /\ token'.permissions \subseteq H!TokenPermissions
  <2>1. CASE H!CreateToken(r)
    <3>1. PICK permissions \in Tokened :
             token' = IF permissions \subseteq H!TokenPermissions
                      THEN [at |-> "valid", permissions |-> permissions, expires |-> hour + Days]
                      ELSE token
      BY <2>1 DEF H!CreateToken
    <3>2. CASE permissions \subseteq H!TokenPermissions
      BY <1>1, <3>1, <3>2, RolePermits DEF HToken
    <3>3. CASE ~(permissions \subseteq H!TokenPermissions)
      BY <1>1, <3>1, <3>3 DEF AccessInv
    <3> QED
      BY <3>2, <3>3
  <2>2. CASE H!RevokeToken(r)
    BY <1>1, <2>2 DEF AccessInv, H!RevokeToken, HToken
  <2>3. CASE token' = token
    BY <1>1, <2>3 DEF AccessInv
  <2> QED
    BY <1>2, <2>1, <2>2, <2>3 DEF H!Map, H!LogOut, H!Other
<1>6. /\ person' \in [H!Person -> HSession]
      /\ person'["person"].roles = person["person"].roles
      /\ person'["person"].expires = person["person"].expires
  <2>1. CASE H!LogOut(r) /\ r.by \in H!Person
    <3> DEFINE s == [person[r.by] EXCEPT !.at = "revoked"]
    <3>1. person' = [person EXCEPT ![r.by] = s]
      BY <1>1, <2>1 DEF H!LogOut
    <3>2. s \in HSession /\ s.roles = person[r.by].roles /\ s.expires = person[r.by].expires
      BY <1>1, <2>1 DEF HSession
    <3> HIDE DEF s
    <3> QED
      BY <1>1, <2>1, <3>1, <3>2 DEF H!Person
  <2>2. CASE person' = person
    BY <1>1, <2>2
  <2> QED
    BY <1>2, <2>1, <2>2 DEF H!Map, H!CreateToken, H!RevokeToken, H!LogOut, H!Other
<1>7. H!NoRequest \in HRequest /\ H!NoRequest.at = "none"
  BY <1>1 DEF H!NoRequest, HRequest, H!Caller, H!Person, H!Deeds, H!Here
<1> HIDE DEF r
<1>8. H!TypeOK'
  BY <1>1, <1>2, <1>3, <1>4, <1>5, <1>6, <1>7 DEF AccessInv, H!TypeOK, HSession, HRequest, HToken
<1>9. LookedUpLately'
  <2> SUFFICES ASSUME signing # H!NotSigningIn, NEW w \in signing.roles
               PROVE  signing.at <= mappedAt'[w]
    BY <1>2 DEF AccessInv, LookedUpLately
  <2>1. w \in Mapped /\ signing.at \in Nat /\ signing.at <= mappedAt[w]
    BY DEF AccessInv, H!TypeOK, LookedUpLately
  <2> QED
    BY <1>1, <1>4, <2>1
<1>10. MappedWhenMade'
  <2> SUFFICES ASSUME NEW w \in person["person"].roles
               PROVE  person["person"].expires <= mappedAt'[w] + Stays
    BY <1>6 DEF AccessInv, MappedWhenMade
  <2>1. w \in Mapped /\ person["person"].expires <= mappedAt[w] + Stays
    BY DEF AccessInv, MappedWhenMade
  <2>2. person["person"].expires \in Nat /\ mappedAt[w] \in Nat /\ mappedAt'[w] \in Nat
    BY <1>1, <1>4, <2>1 DEF H!Person, HSession
  <2> QED
    BY <1>4, <2>1, <2>2 DEF Stays
<1>11. LetThrough'
  <2> SUFFICES ASSUME NEW p \in Visit, visit'[p].at = "authorized"
               PROVE  /\ visit'[p].began <= hour /\ hour - visit'[p].began <= Handling
                      /\ Backed(p)'
                      /\ visit'[p].by = "token" => visit'[p].does \in {"nothing", "log_out"}
                      /\ visit'[p].by \in H!Person /\ visit'[p].does # "nothing" => visit'[p].asked = TRUE
    BY <1>2 DEF LetThrough
  <2>1. visit'[p] = visit[p]
    BY <1>1, <1>2, <1>7
  <2>2. visit[p].began \in Nat
    BY <1>1 DEF HRequest
  <2>3. Backed(p)'
    <3> SUFFICES ASSUME visit[p].by = "person", visit[p].needs # "authenticated"
                 PROVE  \E w \in Mapped : /\ visit[p].needs \in H!RolePermissions[w]
                                          /\ visit[p].began < mappedAt'[w] + Stays
      BY <2>1 DEF Backed
    <3>1. PICK w \in Mapped : /\ visit[p].needs \in H!RolePermissions[w]
                              /\ visit[p].began < mappedAt[w] + Stays
      BY <2>1 DEF AccessInv, LetThrough, Backed
    <3>2. visit[p].began < mappedAt'[w] + Stays
      BY <1>1, <1>4, <2>2, <3>1 DEF Stays
    <3> QED
      BY <3>1, <3>2
  <2> QED
    BY <2>1, <2>3 DEF AccessInv, LetThrough
<1> QED
  BY <1>2, <1>3, <1>4, <1>5, <1>8, <1>9, <1>10, <1>11 DEF AccessInv

LEMMA AccessStep == ASSUME AccessInv, H!Next PROVE AccessInv'
<1>1. CASE H!Tick
  BY <1>1, AccessTick
<1>2. CASE H!LookUp \/ H!Establish \/ H!BreakGlass
  BY <1>2, AccessSignIn
<1>3. ASSUME NEW c \in H!Caller, NEW q \in Visit, NEW route \in H!Routes, NEW asked \in BOOLEAN,
             H!Authorize(c, q, route, asked)
      PROVE  AccessInv'
  BY <1>3, AccessAuthorize
<1>4. CASE \E q \in Visit : H!Handle(q)
  BY <1>4, AccessHandle
<1> QED
  BY <1>1, <1>2, <1>3, <1>4 DEF H!Next

LEMMA AccessStays == ASSUME AccessInv, UNCHANGED accessVars PROVE AccessInv'
BY DEF accessVars, AccessInv, H!TypeOK, MappedNow, LookedUpLately, MappedWhenMade, LetThrough, Backed,
   H!AuthorityRunsOut, H!TokensOnlyRead, H!OnlyWhatThePageAsked

-----------------------------------------------------------------------------
(* Live events.                                                            *)

\* A finite set of numbers has a greatest.
LEMMA MaxIsGreatest ==
    ASSUME NEW S \in SUBSET Nat, IsFiniteSet(S), S # {}
    PROVE  V!Max(S) \in S /\ \A y \in S : y <= V!Max(S)
<1> DEFINE f == [x \in S |-> x]
<1>1. f \in [S -> Nat]
  OBVIOUS
<1> HIDE DEF f
<1>2. PICK m \in S : \A w \in S : f[w] <= f[m]
  BY <1>1, Greatest
<1>3. m \in S /\ \A y \in S : m >= y
  BY <1>2 DEF f
<1> QED
  BY <1>3 DEF V!Max

LEMMA StreamCounts == \A S : V!Cardinality(S) = Cardinality(S)
BY DEF V!Cardinality, Cardinality, V!IsFiniteSet, IsFiniteSet

\* A finite set of numbers in ascending order: each of them, once.
LEMMA AscendingOrders ==
    ASSUME NEW S \in SUBSET Nat, IsFiniteSet(S)
    PROVE  /\ V!Ascending(S) \in Seq(S) /\ Len(V!Ascending(S)) = Cardinality(S)
           /\ \A i, j \in 1..Len(V!Ascending(S)) : i < j => V!Ascending(S)[i] < V!Ascending(S)[j]
           /\ \A x \in S : \E i \in 1..Len(V!Ascending(S)) : V!Ascending(S)[i] = x
<1> DEFINE n == Cardinality(S)
           upto(x) == {y \in S : y <= x}
           rank == [x \in S |-> Cardinality(upto(x))]
           place == Inverse(rank, S, 1..n)
<1>1. n \in Nat /\ IsFiniteSet(1..n) /\ Cardinality(1..n) = n
  BY FS_CardinalityType, FS_Interval
<1>2. ASSUME NEW x \in S
      PROVE  IsFiniteSet(upto(x)) /\ Cardinality(upto(x)) \in 1..n
  <2>1. IsFiniteSet(upto(x)) /\ Cardinality(upto(x)) <= n
    <3>1. upto(x) \in SUBSET S
      OBVIOUS
    <3> QED
      BY <3>1, FS_Subset
  <2>2. upto(x) # {}
    OBVIOUS
  <2>3. Cardinality(upto(x)) \in Nat /\ Cardinality(upto(x)) # 0
    BY <2>1, <2>2, FS_CardinalityType, FS_EmptySet
  <2> QED
    BY <1>1, <2>1, <2>3
<1>3. ASSUME NEW x \in S, NEW y \in S, x < y PROVE rank[x] < rank[y]
  <2>0. x \in Nat /\ y \in Nat /\ \A z \in S : z \in Nat
    OBVIOUS
  <2>1. upto(x) \in SUBSET upto(y)
    <3>1. ASSUME NEW z \in S, z <= x PROVE z <= y
      BY <1>3, <2>0, <3>1
    <3> QED
      BY <3>1
  <2>4. y \in upto(y) /\ y \notin upto(x)
    BY <1>3, <2>0
  <2> HIDE DEF upto, n
  <2>5. Cardinality(upto(x)) \in 1..n /\ Cardinality(upto(y)) \in 1..n
    BY <1>2
  <2>2. IsFiniteSet(upto(y)) /\ Cardinality(upto(x)) \in Nat /\ Cardinality(upto(y)) \in Nat
    BY <1>1, <1>2, <2>5
  <2>3. Cardinality(upto(x)) <= Cardinality(upto(y)) /\ Cardinality(upto(y)) # Cardinality(upto(x))
    BY <2>1, <2>2, <2>4, FS_Subset
  <2> QED
    BY <2>2, <2>3
<1>4. rank \in [S -> 1..n]
  BY <1>2
<1> HIDE DEF rank, n
<1>5. rank \in Injection(S, 1..n)
  <2>1. ASSUME NEW a \in S, NEW b \in S, rank[a] = rank[b] PROVE a = b
    <3>1. a \in Nat /\ b \in Nat /\ rank[a] \in Nat /\ rank[b] \in Nat
      BY <1>1, <1>4
    <3>2. ~(a < b) /\ ~(b < a)
      BY <1>3, <2>1, <3>1
    <3> QED
      BY <3>1, <3>2
  <2> QED
    BY <1>4, <2>1, Fun_IsInj
<1>6. rank \in Bijection(S, 1..n)
  <2>1. rank \in Surjection(S, 1..n)
    BY <1>1, <1>5, FS_Injection DEF n
  <2> QED
    BY <1>5, <2>1, Fun_IsBij
<1>16. \A i \in 1..n : \E x \in S : rank[x] = i
  BY <1>6 DEF Bijection, Surjection
<1>7. place \in Bijection(1..n, S) /\ \A s \in S : place[rank[s]] = s
  BY <1>6, Fun_BijInverse
<1> HIDE DEF place
<1>8. place \in [1..n -> S]
  BY <1>7, Fun_BijectionProperties
<1>9. ASSUME NEW i \in 1..n, NEW j \in 1..n, i < j PROVE place[i] < place[j]
  <2>1. PICK x \in S, y \in S : rank[x] = i /\ rank[y] = j
    BY <1>16
  <2>2. place[rank[x]] = x /\ place[rank[y]] = y /\ x \in Nat /\ y \in Nat
    BY <1>7
  <2>3. ~(y < x) /\ x # y
    BY <1>1, <1>3, <1>9, <2>1
  <2> QED
    BY <2>1, <2>2, <2>3
<1>10. \E s \in [1..n -> S] : \A i, j \in DOMAIN s : i < j => s[i] < s[j]
  BY <1>8, <1>9
<1> DEFINE t == V!Ascending(S)
<1>11. t \in [1..n -> S] /\ \A i, j \in DOMAIN t : i < j => t[i] < t[j]
  BY <1>10, StreamCounts DEF V!Ascending, n
<1> HIDE DEF t
<1>12. t \in Seq(S) /\ Len(t) = n /\ DOMAIN t = 1..n
  BY <1>1, <1>11
<1>13. t \in Injection(1..n, S)
  <2>1. ASSUME NEW i \in 1..n, NEW j \in 1..n, t[i] = t[j] PROVE i = j
    <3>1. i \in Nat /\ j \in Nat /\ t[i] \in S /\ t[j] \in S
      BY <1>1, <1>11
    <3>3. t[i] \in Nat /\ t[j] \in Nat
      BY <3>1
    <3>2. ~(i < j) /\ ~(j < i)
      BY <1>11, <1>12, <2>1, <3>3
    <3> QED
      BY <3>1, <3>2
  <2> QED
    BY <1>11, <2>1, Fun_IsInj
<1>14. t \in Surjection(1..n, S)
  BY <1>1, <1>13, FS_Injection DEF n
<1>15. \A x \in S : \E i \in 1..n : t[i] = x
  BY <1>14 DEF Surjection
<1> QED
  BY <1>11, <1>12, <1>15 DEF t, n

VFeed == [on: BOOLEAN, last: 0..MaxEvents, quiet: 0..Beat]
VPage == [es: {"none", "connecting", "open", "closed"}, connected: BOOLEAN]

\* What was sent is in order.
SentInOrder == \A i, j \in DOMAIN streamed : i < j => streamed[i] < streamed[j]

\* A stream that runs has come to an event that is committed, or to none; all it sent were up to
\* there, and all up to there that were committed in time it has sent.
FeedRight ==
    feed.on =>
        /\ feed.last = 0 \/ event[feed.last] = "committed"
        /\ \A i \in DOMAIN streamed : streamed[i] <= feed.last
        /\ \A e \in V!Id : event[e] = "committed" /\ start < e /\ e <= feed.last =>
              e \in late \/ \E i \in DOMAIN streamed : streamed[i] = e

\* The page heard from the server when the server was last not quiet, or later.
HeardSince ==
    /\ feed.on => beat <= feed.quiet /\ feed.quiet < Beat
    /\ page.connected => page.es = "open"
    /\ page.es # "none" => beat <= Timeout + Watch

\* An event source that is not closed, or a retry.
OneWay ==
    \/ page.es \in {"connecting", "open"} /\ sources = 1 /\ timers = 0
    \/ page.es \in {"closed", "none"} /\ sources = 0 /\ timers = 1

StreamInv == V!TypeOK /\ SentInOrder /\ FeedRight /\ HeardSince /\ OneWay

LEMMA StreamInit == V!Init => StreamInv
<1> SUFFICES ASSUME V!Init PROVE StreamInv
  OBVIOUS
<1> USE StreamAssumption
<1>1. V!NoFeed \in VFeed /\ ~V!NoFeed.on
  BY DEF V!NoFeed, VFeed
<1>2. [es |-> "connecting", connected |-> FALSE] \in VPage
  BY DEF VPage
<1>3. V!TypeOK
  BY <1>1, <1>2 DEF V!Init, V!TypeOK, VFeed, VPage, V!Id
<1> QED
  BY <1>1, <1>3 DEF V!Init, StreamInv, SentInOrder, FeedRight, HeardSince, OneWay

LEMMA StreamEvents ==
    ASSUME StreamInv, NEW e \in V!Id, V!Write(e) \/ V!Settle(e)
    PROVE  StreamInv'
<1> USE StreamAssumption
<1>1. /\ UNCHANGED <<feed, start, streamed, wire, page, beat, sources, timers, waited>>
      /\ event' \in [V!Id -> {"none", "open", "committed", "aborted"}]
      /\ late' \in SUBSET V!Id
      /\ \A d \in V!Id : d # e => event'[d] = event[d]
      /\ event[e] # "committed"
      /\ \A d \in late : d \in late'
      /\ event'[e] = "committed" /\ feed.on /\ feed.last > e => e \in late'
  BY DEF StreamInv, V!TypeOK, V!Write, V!Settle, V!server, V!client
<1>2. V!TypeOK'
  BY <1>1 DEF StreamInv, V!TypeOK
<1>3. FeedRight'
  <2> SUFFICES ASSUME feed.on
               PROVE  /\ feed.last = 0 \/ event'[feed.last] = "committed"
                      /\ \A d \in V!Id : event'[d] = "committed" /\ start < d /\ d <= feed.last =>
                            d \in late' \/ \E i \in DOMAIN streamed : streamed[i] = d
    BY <1>1 DEF StreamInv, FeedRight
  <2>1. feed.last \in 0..MaxEvents
    BY DEF StreamInv, V!TypeOK
  <2>2. feed.last # e
    BY <1>1 DEF StreamInv, FeedRight, V!Id
  <2>3. feed.last = 0 \/ event'[feed.last] = "committed"
    BY <1>1, <2>1, <2>2 DEF StreamInv, FeedRight, V!Id
  <2>4. ASSUME NEW d \in V!Id, event'[d] = "committed", start < d, d <= feed.last
        PROVE  d \in late' \/ \E i \in DOMAIN streamed : streamed[i] = d
    <3>1. CASE d = e
      BY <1>1, <2>1, <2>2, <2>4, <3>1 DEF V!Id
    <3>2. CASE d # e
      BY <1>1, <2>4, <3>2 DEF StreamInv, FeedRight
    <3> QED
      BY <3>1, <3>2
  <2> QED
    BY <2>3, <2>4
<1>4. SentInOrder' /\ HeardSince' /\ OneWay'
  BY <1>1 DEF StreamInv, SentInOrder, HeardSince, OneWay
<1> QED
  BY <1>2, <1>3, <1>4 DEF StreamInv

\* The events that are committed are finitely many numbers.
LEMMA CommittedFinite ==
    V!Committed \subseteq V!Id /\ V!Id \subseteq Nat /\ IsFiniteSet(V!Committed)
<1>1. V!Committed \subseteq V!Id /\ V!Id \subseteq Nat
  BY StreamAssumption DEF V!Committed, V!Id
<1>2. IsFiniteSet(V!Id)
  BY StreamAssumption, FS_Interval DEF V!Id
<1> QED
  BY <1>1, <1>2, FS_Subset

LEMMA StreamAccept == ASSUME StreamInv, V!Accept PROVE StreamInv'
<1> USE StreamAssumption
<1>1. V!Latest = 0 \/ V!Latest \in V!Committed
  <2>1. V!Committed \cup {0} \in SUBSET Nat /\ V!Committed \cup {0} # {}
    BY CommittedFinite
  <2>2. IsFiniteSet(V!Committed \cup {0})
    BY CommittedFinite, FS_AddElement
  <2> QED
    BY <2>1, <2>2, MaxIsGreatest DEF V!Latest
<1>2. V!Latest \in 0..MaxEvents
  <2>1. 0 \in 0..MaxEvents /\ V!Committed \subseteq 0..MaxEvents
    BY CommittedFinite DEF V!Id
  <2> QED
    BY <1>1, <2>1
<1>3. /\ feed' = [on |-> TRUE, last |-> V!Latest, quiet |-> 0]
      /\ start' = V!Latest /\ streamed' = <<>> /\ late' = {}
      /\ page' = [es |-> "open", connected |-> TRUE] /\ page.es = "connecting"
      /\ beat' = 0 /\ UNCHANGED <<event, wire, sources, timers, waited>>
  BY DEF V!Accept
<1> HIDE DEF V!Latest
<1>4. feed' \in VFeed /\ page' \in VPage
  BY <1>2, <1>3 DEF VFeed, VPage
<1>5. V!TypeOK'
  BY <1>2, <1>3, <1>4 DEF StreamInv, V!TypeOK, VFeed, VPage
<1>6. FeedRight'
  BY <1>1, <1>2, <1>3 DEF FeedRight, V!Committed, V!Id
<1>7. SentInOrder' /\ HeardSince' /\ OneWay'
  BY <1>3 DEF StreamInv, SentInOrder, HeardSince, OneWay
<1> QED
  BY <1>5, <1>6, <1>7 DEF StreamInv

LEMMA StreamClient ==
    ASSUME StreamInv, V!Retry \/ V!OnError \/ V!CutWire \/ V!GiveUp
    PROVE  StreamInv'
<1> USE StreamAssumption
<1>1. /\ UNCHANGED <<event, start, streamed, late>>
      /\ feed' = feed \/ feed' = V!NoFeed
  BY DEF V!Retry, V!OnError, V!CutWire, V!GiveUp, V!server, V!client
<1>2. V!NoFeed \in VFeed /\ ~V!NoFeed.on
  BY DEF V!NoFeed, VFeed
<1>3. page \in VPage /\ feed \in VFeed
  BY DEF StreamInv, V!TypeOK, VPage, VFeed
<1>4. feed' \in VFeed
  BY <1>1, <1>2, <1>3
<1>5. OneWay' /\ page' \in VPage /\ wire' \in {"whole", "cut"} /\ waited' \in 0..RetryMax
      /\ (beat' = beat \/ beat' = 0) /\ (page'.connected => page'.es = "open")
      /\ (page'.es # "none" => page.es # "none" \/ beat' = 0)
      /\ (feed' = feed /\ feed.on => (page' = page /\ beat' = beat) \/ beat' = 0)
  <2>1. CASE V!Retry
    <3>1. ~page.connected
      BY <2>1 DEF V!Retry, StreamInv, OneWay, HeardSince
    <3>2. page'.es = "connecting" /\ page' \in VPage /\ ~page'.connected
      BY <1>3, <2>1, <3>1 DEF V!Retry, VPage
    <3>3. beat' = 0 /\ UNCHANGED waited /\ wire' = "whole"
      BY <2>1 DEF V!Retry
    <3>4. OneWay'
      BY <2>1, <3>2 DEF V!Retry, StreamInv, OneWay
    <3> QED
      BY <3>2, <3>3, <3>4 DEF StreamInv, V!TypeOK
  <2>2. CASE V!OnError
    <3>1. page' \in VPage /\ page'.es = "closed" /\ ~page'.connected
      BY <2>2 DEF V!OnError, VPage
    <3> QED
      BY <1>2, <2>2, <3>1 DEF V!OnError, V!ScheduleRetry, StreamInv, V!TypeOK, OneWay, HeardSince
  <2>3. CASE V!CutWire
    BY <1>3, <2>3 DEF V!CutWire, StreamInv, V!TypeOK, OneWay, HeardSince, V!client
  <2>4. CASE V!GiveUp
    <3>1. page' \in VPage /\ page'.es = "none" /\ ~page'.connected
      BY <2>4 DEF V!GiveUp, VPage
    <3> QED
      BY <2>4, <3>1 DEF V!GiveUp, V!Stale, V!ScheduleRetry, V!Cleared, StreamInv, V!TypeOK, OneWay,
         HeardSince
  <2> QED
    BY <2>1, <2>2, <2>3, <2>4
<1>6. ~feed'.on \/ (feed' = feed /\ feed.on)
  BY <1>1, <1>2
<1>7. beat \in Nat /\ beat \in 0..(Timeout + Watch + 1)
  BY DEF StreamInv, V!TypeOK
<1>8. feed' = feed /\ feed.on => beat' <= feed.quiet
  BY <1>3, <1>5, <1>7 DEF StreamInv, HeardSince, VFeed
<1>9. HeardSince'
  BY <1>5, <1>6, <1>7, <1>8 DEF StreamInv, HeardSince
<1>10. V!TypeOK'
  BY <1>1, <1>4, <1>5, <1>7 DEF StreamInv, V!TypeOK, OneWay, VFeed, VPage
<1>11. FeedRight'
  BY <1>1, <1>6 DEF StreamInv, FeedRight
<1>12. SentInOrder'
  BY <1>1 DEF StreamInv, SentInOrder
<1> QED
  BY <1>5, <1>9, <1>10, <1>11, <1>12 DEF StreamInv

\* What is read are the lowest of the committed ids above the last one.
LEMMA RowsAreLowest ==
    ASSUME NEW after \in Nat
    PROVE  /\ V!Rows(after) \subseteq V!Committed /\ IsFiniteSet(V!Rows(after))
           /\ \A e \in V!Rows(after) : e > after
           /\ \A d \in V!Committed, e \in V!Rows(after) : after < d /\ d < e => d \in V!Rows(after)
<1> DEFINE found == V!Above(after)
           below(e) == {d \in found : d < e}
<1>1. found \subseteq V!Committed /\ \A e \in found : e > after
  BY DEF V!Above
<1>2. IsFiniteSet(found) /\ found \subseteq Nat
  BY <1>1, CommittedFinite, FS_Subset
<1>3. V!Rows(after) = {e \in found : Cardinality(below(e)) < Limit}
  BY StreamCounts DEF V!Rows
<1>4. V!Rows(after) \subseteq found /\ IsFiniteSet(V!Rows(after))
  BY <1>2, <1>3, FS_Subset
<1>5. ASSUME NEW d \in V!Committed, NEW e \in V!Rows(after), after < d, d < e
      PROVE  d \in V!Rows(after)
  <2>1. d \in found /\ e \in found
    BY <1>4, <1>5 DEF V!Above
  <2>2. below(d) \subseteq below(e)
    <3>1. ASSUME NEW z \in found, z < d PROVE z < e
      BY <1>2, <1>5, <2>1, <3>1
    <3> QED
      BY <3>1
  <2>3. IsFiniteSet(below(e)) /\ below(d) \in SUBSET below(e)
    <3>1. below(e) \in SUBSET found
      OBVIOUS
    <3> QED
      BY <1>2, <2>2, <3>1, FS_Subset
  <2>4. Cardinality(below(e)) < Limit
    BY <1>3
  <2> HIDE DEF below
  <2>5. Cardinality(below(d)) <= Cardinality(below(e)) /\ IsFiniteSet(below(d))
    BY <2>3, FS_Subset
  <2>6. Cardinality(below(d)) \in Nat /\ Cardinality(below(e)) \in Nat /\ Limit \in Nat
    BY <2>3, <2>5, FS_CardinalityType, StreamAssumption
  <2>7. Cardinality(below(d)) < Limit
    BY <2>4, <2>5, <2>6
  <2> QED
    BY <1>3, <2>1, <2>7
<1> QED
  BY <1>1, <1>4, <1>5

LEMMA StreamTurn ==
    ASSUME StreamInv, feed.on, V!Turn
    PROVE  /\ feed' \in VFeed /\ feed'.on /\ feed'.quiet < Beat
           /\ beat' \in 0..feed'.quiet
           /\ streamed' \in Seq(V!Id) /\ SentInOrder'
           /\ feed'.last \in V!Committed \cup {0}
           /\ \A i \in DOMAIN streamed' : streamed'[i] <= feed'.last
           /\ \A e \in V!Committed : start < e /\ e <= feed'.last =>
                 e \in late \/ \E i \in DOMAIN streamed' : streamed'[i] = e
<1> USE StreamAssumption
<1> DEFINE picked == V!Rows(feed.last)
           quiet == IF picked = {} THEN feed.quiet + 1 ELSE 0
           more == V!Ascending(picked)
<1>1. feed \in VFeed /\ feed.quiet \in 0..Beat /\ feed.last \in 0..MaxEvents
      /\ streamed \in Seq(V!Id) /\ beat \in Nat /\ beat <= feed.quiet /\ feed.quiet < Beat
  BY DEF StreamInv, V!TypeOK, VFeed, HeardSince
<1>2. feed.last \in V!Committed \cup {0}
  BY <1>1 DEF StreamInv, FeedRight, V!Committed, V!Id
<1>3. /\ picked \subseteq V!Committed /\ IsFiniteSet(picked) /\ picked \subseteq Nat /\ picked \subseteq V!Id
      /\ \A e \in picked : e > feed.last
      /\ \A d \in V!Committed, e \in picked : feed.last < d /\ d < e => d \in picked
  <2>1. feed.last \in Nat
    BY <1>1
  <2>2. /\ picked \subseteq V!Committed /\ IsFiniteSet(picked)
        /\ \A e \in picked : e > feed.last
        /\ \A d \in V!Committed, e \in picked : feed.last < d /\ d < e => d \in picked
    BY <2>1, RowsAreLowest
  <2> HIDE DEF picked
  <2> QED
    BY <2>2, CommittedFinite
<1> DEFINE last == IF picked = {} THEN feed.last ELSE V!Max(picked)
<1>4. /\ feed' = [feed EXCEPT !.last = last, !.quiet = IF quiet >= Beat THEN 0 ELSE quiet]
      /\ streamed' = streamed \o more
      /\ beat' = IF picked # {} \/ quiet >= Beat THEN 0 ELSE beat + 1
  BY DEF V!Turn
<1>5. /\ last \in V!Committed \cup {0} /\ last \in 0..MaxEvents /\ feed.last <= last
      /\ \A e \in picked : e <= last
  <2> HIDE DEF picked
  <2>1. CASE picked = {}
    BY <1>1, <1>2, <2>1
  <2>2. CASE picked # {}
    <3>1. V!Max(picked) \in picked /\ \A y \in picked : y <= V!Max(picked)
      BY <1>3, <2>2, MaxIsGreatest
    <3>2. last = V!Max(picked) /\ last \in V!Id /\ last > feed.last /\ last \in V!Committed
      BY <1>3, <2>2, <3>1
    <3> QED
      BY <1>1, <3>1, <3>2 DEF V!Id
  <2> QED
    BY <2>1, <2>2
<1>6. \A e \in V!Committed : feed.last < e /\ e <= last => e \in picked
  <2> HIDE DEF picked
  <2> SUFFICES ASSUME NEW e \in V!Committed, feed.last < e, e <= last PROVE e \in picked
    OBVIOUS
  <2>1. e \in Nat /\ feed.last \in Nat
    BY <1>1, CommittedFinite
  <2>2. picked # {} /\ last \in picked
    <3>1. picked # {}
      BY <2>1
    <3> QED
      BY <1>3, <3>1, MaxIsGreatest
  <2>3. last \in Nat
    BY <1>3, <2>2
  <2> QED
    BY <1>3, <2>1, <2>2, <2>3
<1>7. /\ more \in Seq(picked)
      /\ \A i, j \in 1..Len(more) : i < j => more[i] < more[j]
      /\ \A x \in picked : \E i \in 1..Len(more) : more[i] = x
  BY <1>3, AscendingOrders
<1> HIDE DEF picked, more, last
<1>8. more \in Seq(V!Id) /\ Len(more) \in Nat /\ \A i \in 1..Len(more) : more[i] \in picked
  <2>1. more \in Seq(V!Id)
    BY <1>3, <1>7, SeqMonotonic
  <2>2. Len(more) \in Nat /\ \A i \in 1..Len(more) : more[i] \in picked
    BY <1>7, LenProperties, ElementOfSeq
  <2> QED
    BY <2>1, <2>2
<1>9. /\ streamed' \in Seq(V!Id) /\ Len(streamed') = Len(streamed) + Len(more) /\ Len(streamed) \in Nat
      /\ DOMAIN streamed' = 1..(Len(streamed) + Len(more)) /\ DOMAIN streamed = 1..Len(streamed)
      /\ \A i \in 1..Len(streamed) : streamed'[i] = streamed[i]
      /\ \A i \in 1..(Len(streamed) + Len(more)) :
            i > Len(streamed) => streamed'[i] = more[i - Len(streamed)]
  <2>1. /\ streamed' \in Seq(V!Id) /\ Len(streamed') = Len(streamed) + Len(more)
        /\ \A i \in 1..(Len(streamed) + Len(more)) : streamed'[i] =
              IF i <= Len(streamed) THEN streamed[i] ELSE more[i - Len(streamed)]
    BY <1>1, <1>4, <1>8, ConcatProperties
  <2>2. Len(streamed) \in Nat
    BY <1>1
  <2> QED
    BY <1>1, <1>8, <2>1, <2>2
<1>10. \A i \in DOMAIN streamed : streamed[i] \in V!Id /\ streamed[i] <= feed.last
  BY <1>1 DEF StreamInv, FeedRight
<1>11. \A i \in DOMAIN streamed' :
          \/ i \in DOMAIN streamed /\ streamed'[i] = streamed[i]
          \/ /\ i \notin DOMAIN streamed /\ i - Len(streamed) \in 1..Len(more)
             /\ streamed'[i] = more[i - Len(streamed)] /\ streamed'[i] \in picked
  BY <1>8, <1>9
<1>12. SentInOrder'
  <2> SUFFICES ASSUME NEW i \in DOMAIN streamed', NEW j \in DOMAIN streamed', i < j
               PROVE  streamed'[i] < streamed'[j]
    BY DEF SentInOrder
  <2>1. i \in Nat /\ j \in Nat
    BY <1>8, <1>9
  <2>2. CASE j \in DOMAIN streamed
    <3>1. i \in DOMAIN streamed
      BY <1>9, <2>1, <2>2
    <3> QED
      BY <1>11, <2>2, <3>1 DEF StreamInv, SentInOrder
  <2>3. CASE j \notin DOMAIN streamed /\ i \in DOMAIN streamed
    <3>1. streamed'[i] <= feed.last /\ streamed'[i] \in V!Id /\ streamed'[j] \in picked
      BY <1>10, <1>11, <2>3
    <3>2. streamed'[i] \in Nat /\ streamed'[j] \in Nat /\ feed.last \in Nat /\ streamed'[j] > feed.last
      <4>1. feed.last \in Nat
        BY <1>1
      <4>2. streamed'[j] \in Nat /\ streamed'[j] > feed.last
        BY <1>3, <3>1
      <4>3. streamed'[i] \in Nat
        BY <3>1, CommittedFinite
      <4> QED
        BY <4>1, <4>2, <4>3
    <3> QED
      BY <3>1, <3>2
  <2>4. CASE j \notin DOMAIN streamed /\ i \notin DOMAIN streamed
    <3>1. i - Len(streamed) \in 1..Len(more) /\ j - Len(streamed) \in 1..Len(more)
      BY <1>11, <2>4
    <3>2. i - Len(streamed) < j - Len(streamed)
      BY <1>9, <2>1
    <3>3. more[i - Len(streamed)] < more[j - Len(streamed)]
      BY <1>7, <3>1, <3>2
    <3> QED
      BY <1>11, <2>4, <3>3
  <2> QED
    BY <2>2, <2>3, <2>4
<1>13. feed' \in VFeed /\ feed'.on /\ feed'.last = last
       /\ feed'.quiet = IF quiet >= Beat THEN 0 ELSE quiet
  <2>1. (IF quiet >= Beat THEN 0 ELSE quiet) \in 0..Beat
    BY <1>1
  <2> HIDE DEF quiet
  <2> QED
    BY <1>1, <1>4, <1>5, <2>1 DEF VFeed
<1>14. feed'.quiet < Beat /\ beat' \in 0..feed'.quiet
  BY <1>1, <1>4, <1>13, SMTT(30)
<1>15. \A i \in DOMAIN streamed' : streamed'[i] <= last
  <2> SUFFICES ASSUME NEW i \in DOMAIN streamed' PROVE streamed'[i] <= last
    OBVIOUS
  <2>1. CASE i \in DOMAIN streamed
    <3>1. streamed'[i] \in V!Id /\ streamed'[i] <= feed.last
      BY <1>10, <1>11, <2>1
    <3>2. streamed'[i] \in Nat /\ feed.last \in Nat /\ last \in Nat
      <4>1. feed.last \in Nat
        BY <1>1
      <4>2. last \in Nat
        BY <1>5
      <4>3. streamed'[i] \in Nat
        BY <3>1, CommittedFinite
      <4> QED
        BY <4>1, <4>2, <4>3
    <3> QED
      BY <1>5, <3>1, <3>2
  <2>2. CASE i \notin DOMAIN streamed
    BY <1>5, <1>11, <2>2
  <2> QED
    BY <2>1, <2>2
<1>16. \A e \in V!Committed : start < e /\ e <= last =>
          e \in late \/ \E i \in DOMAIN streamed' : streamed'[i] = e
  <2> SUFFICES ASSUME NEW e \in V!Committed, start < e, e <= last, e \notin late
               PROVE  \E i \in DOMAIN streamed' : streamed'[i] = e
    OBVIOUS
  <2>1. e \in V!Id /\ event[e] = "committed" /\ e \in Nat
    BY CommittedFinite DEF V!Committed
  <2>2. CASE e <= feed.last
    <3>1. PICK i \in DOMAIN streamed : streamed[i] = e
      BY <2>1, <2>2 DEF StreamInv, FeedRight
    <3> QED
      BY <1>8, <1>9, <3>1
  <2>3. CASE feed.last < e
    <3>1. PICK i \in 1..Len(more) : more[i] = e
      BY <1>6, <1>7, <2>3
    <3>2. i + Len(streamed) \in DOMAIN streamed' /\ i + Len(streamed) > Len(streamed)
          /\ (i + Len(streamed)) - Len(streamed) = i
      BY <1>8, <1>9, <3>1
    <3> QED
      BY <1>9, <3>1, <3>2
  <2> QED
    BY <1>1, <2>1, <2>2, <2>3
<1> QED
  BY <1>5, <1>9, <1>12, <1>13, <1>14, <1>15, <1>16

LEMMA StreamTick == ASSUME StreamInv, V!Tick PROVE StreamInv'
<1> USE StreamAssumption
<1>1. /\ UNCHANGED <<event, late, wire, page, sources, timers>>
      /\ V!Stale => beat < Timeout + Watch
      /\ waited' = IF timers > 0 THEN waited + 1 ELSE waited
      /\ timers > 0 => waited < RetryMax
      /\ feed.on => V!Turn
      /\ ~feed.on => /\ UNCHANGED <<feed, start, streamed>>
                     /\ beat' = IF page.es = "none" THEN beat ELSE beat + 1
  BY DEF V!Tick, V!server
<1>2. feed \in VFeed /\ beat \in 0..(Timeout + Watch + 1) /\ waited \in 0..RetryMax /\ timers \in Nat
      /\ streamed \in Seq(V!Id)
  BY DEF StreamInv, V!TypeOK, VFeed
<1>3. waited' \in 0..RetryMax
  BY <1>1, <1>2
<1>4. OneWay'
  BY <1>1 DEF StreamInv, OneWay
<1>5. CASE feed.on
  <2>1. UNCHANGED start
    BY <1>1, <1>5 DEF V!Turn
  <2>2. V!Turn
    BY <1>1, <1>5
  <2>3. feed'.quiet \in 0..Beat
    BY <1>5, <2>2, StreamTurn DEF VFeed
  <2>4. beat' \in 0..(Timeout + Watch)
    BY <1>5, <2>2, <2>3, StreamTurn
  <2>5. V!TypeOK'
    BY <1>1, <1>3, <1>5, <2>1, <2>2, <2>4, StreamTurn DEF StreamInv, V!TypeOK, VFeed, OneWay
  <2>6. HeardSince'
    BY <1>1, <1>5, <2>2, <2>3, <2>4, StreamTurn DEF StreamInv, HeardSince
  <2>7. FeedRight'
    BY <1>1, <1>5, <2>1, <2>2, StreamTurn DEF FeedRight, V!Committed
  <2>8. SentInOrder'
    BY <1>5, <2>2, StreamTurn
  <2> QED
    BY <1>4, <2>5, <2>6, <2>7, <2>8 DEF StreamInv
<1>6. CASE ~feed.on
  <2>1. page.es # "none" => beat' \in 0..(Timeout + Watch)
    BY <1>1, <1>2, <1>6 DEF StreamInv, HeardSince, V!Stale
  <2>2. V!TypeOK'
    BY <1>1, <1>2, <1>3, <1>6, <2>1 DEF StreamInv, V!TypeOK, OneWay
  <2>3. HeardSince'
    BY <1>1, <1>2, <1>6, <2>1 DEF StreamInv, HeardSince
  <2>4. FeedRight' /\ SentInOrder'
    BY <1>1, <1>6 DEF StreamInv, FeedRight, SentInOrder
  <2> QED
    BY <1>4, <2>2, <2>3, <2>4 DEF StreamInv
<1> QED
  BY <1>5, <1>6

LEMMA StreamStep == ASSUME StreamInv, V!Next PROVE StreamInv'
BY StreamEvents, StreamAccept, StreamClient, StreamTick DEF V!Next

LEMMA StreamStays == ASSUME StreamInv, UNCHANGED streamVars PROVE StreamInv'
BY DEF streamVars, StreamInv, V!TypeOK, SentInOrder, FeedRight, HeardSince, OneWay

\* What was sent is in order and whole, the page has heard lately, and it tries in one way.
LEMMA StreamHolds == ASSUME StreamInv PROVE V!InOrder /\ V!HeardLately /\ V!AlwaysTrying
<1>1. feed \in VFeed /\ beat \in Nat /\ feed.last \in 0..MaxEvents
  BY StreamAssumption DEF StreamInv, V!TypeOK, VFeed
<1>2. V!InOrder
  BY <1>1, StreamAssumption DEF StreamInv, SentInOrder, FeedRight, V!InOrder, V!Committed, V!Id
<1>3. V!HeardLately
  BY <1>1, StreamAssumption DEF StreamInv, HeardSince, V!HeardLately, VFeed
<1>4. V!AlwaysTrying
  BY DEF StreamInv, OneWay, V!AlwaysTrying
<1> QED
  BY <1>2, <1>3, <1>4

-----------------------------------------------------------------------------
(* Credentials that are rotated.                                           *)

Credentials == 0..(MaxRotations + 1)
CredentialCall ==
    [at: {"idle", "reading", "fetched", "checking", "checked", "closing", "sent", "waiting",
          "refused"},
     value: Credentials, sends: Nat, again: BOOLEAN, before: Credentials, blamed: BOOLEAN]

CredentialTypes ==
    /\ user \in {"client", "connector"}
    /\ valid \in Credentials /\ cache \in Credentials /\ seen \in Credentials
    /\ using \in [Task -> CredentialCall]

\* What a call has read by the second time it is sent is what the backend holds; a connector that
\* found the credential it had seen to be in force was not refused for it.
ReadAgain(c) ==
    /\ using[c].at # "refused"
    /\ using[c].again = TRUE /\ using[c].at \in {"fetched", "sent", "closing"} =>
          using[c].value = valid
    /\ using[c].again = TRUE /\ using[c].at \in {"sent", "waiting", "closing"} =>
          cache \in {Y!None, valid}
    /\ user = "connector" /\ using[c].at \in {"sent", "closing"} => seen = using[c].value
    /\ using[c].at \in {"checking", "checked"} /\ using[c].blamed = TRUE =>
          using[c].before # valid
    /\ using[c].at = "checked" => using[c].value = valid
    /\ user = "connector" /\ using[c].at \in {"reading", "fetched"} => using[c].again = FALSE
    /\ using[c].at \in {"checking", "checked", "closing"} => user = "connector"
    /\ using[c].at = "waiting" => user = "client"

\* That is so of a call that runs by itself.
ByItself(c) ==
    using[c].at # "idle" /\ c \notin disturbed =>
        ReadAgain(c) /\ \A d \in Task : d # c => using[d].at = "idle"

CredentialInv ==
    /\ CredentialTypes
    /\ \A c \in Task : ByItself(c) /\ (using[c].at = "idle" => using[c].again = FALSE)

LEMMA CredentialInit == Y!Init => CredentialInv
BY CallAssumption
   DEF Y!Init, CredentialInv, CredentialTypes, ByItself, CredentialCall, Credentials, Y!Idle, Y!None

\* A step of one call: the others that run are not by themselves.
LEMMA OneCallMoves ==
    ASSUME CredentialInv, NEW c \in Task, NEW r \in CredentialCall,
           using' = [using EXCEPT ![c] = r], using[c].at # "idle",
           UNCHANGED <<user, valid, disturbed>>, cache' \in Credentials, seen' \in Credentials,
           r.at = "idle" => r.again = FALSE,
           r.at # "idle" /\ c \notin disturbed => ReadAgain(c)'
    PROVE  CredentialInv'
<1>1. CredentialTypes'
  BY DEF CredentialInv, CredentialTypes
<1>2. using'[c] = r /\ \A d \in Task : d # c => using'[d] = using[d]
  BY DEF CredentialInv, CredentialTypes
<1>3. ASSUME NEW d \in Task
      PROVE  ByItself(d)' /\ (using'[d].at = "idle" => using'[d].again = FALSE)
  <2>1. CASE d = c
    BY <1>2, <2>1 DEF ByItself, CredentialInv
  <2>2. CASE d # c
    BY <1>2, <2>2 DEF ByItself, CredentialInv
  <2> QED
    BY <2>1, <2>2
<1> QED
  BY <1>1, <1>3 DEF CredentialInv

\* What a call does with a credential it has: the second time it is one that was read again.
LEMMA CredentialUsed ==
    ASSUME CredentialInv, NEW c \in Task, NEW v \in Credentials, using[c].at # "idle",
           Y!Proceed(c, v), UNCHANGED <<user, valid, disturbed>>, cache' \in Credentials,
           /\ using[c].again = TRUE /\ c \notin disturbed => v = valid /\ cache' \in {Y!None, valid}
           /\ user = "connector" /\ c \notin disturbed => using[c].again = FALSE
    PROVE  CredentialInv'
<1>1. CredentialTypes /\ ByItself(c)
  BY DEF CredentialInv
<1>2. CASE user = "client"
  <2>1. PICK r : r = [using[c] EXCEPT !.at = "sent", !.value = v, !.sends = @ + 1]
    OBVIOUS
  <2>2. using' = [using EXCEPT ![c] = r] /\ seen' = seen
    BY <1>1, <1>2, <2>1 DEF Y!Proceed, Y!Headers, CredentialTypes
  <2>3. /\ r \in CredentialCall /\ r.at = "sent" /\ r.value = v
        /\ r.again = using[c].again /\ r.before = using[c].before /\ r.blamed = using[c].blamed
    <3>1. using[c] \in CredentialCall
      BY <1>1 DEF CredentialTypes
    <3>2. PICK n \in Nat : n = using[c].sends + 1
      BY <3>1 DEF CredentialCall
    <3>3. r = [using[c] EXCEPT !.at = "sent", !.value = v, !.sends = n]
      BY <2>1, <3>2
    <3> QED
      BY <3>1, <3>3 DEF CredentialCall
  <2>4. using'[c] = r
    BY <1>1, <2>2 DEF CredentialTypes
  <2>5. c \notin disturbed => ReadAgain(c)'
    BY <1>2, <2>3, <2>4 DEF ReadAgain, Y!None
  <2> QED
    BY <1>1, <2>2, <2>3, <2>5, OneCallMoves DEF CredentialTypes
<1>3. CASE user = "connector"
  <2>1. PICK r : r = [using[c] EXCEPT !.at = IF built' = v THEN "sent" ELSE "closing",
                                      !.value = v, !.again = using[c].again]
    OBVIOUS
  <2>2. using' = [using EXCEPT ![c] = r] /\ seen' = v
    BY <1>1, <1>3, <2>1 DEF Y!Proceed, Y!Adapter, CredentialTypes
  <2>3. /\ r \in CredentialCall /\ r.at \in {"sent", "closing"} /\ r.value = v
        /\ r.again = using[c].again /\ r.before = using[c].before /\ r.blamed = using[c].blamed
    BY <1>1, <2>1 DEF CredentialTypes, CredentialCall
  <2>4. using'[c] = r
    BY <1>1, <2>2 DEF CredentialTypes
  <2>5. c \notin disturbed => ReadAgain(c)'
    BY <1>3, <2>2, <2>3, <2>4 DEF ReadAgain, Y!None
  <2> QED
    BY <1>1, <2>2, <2>3, <2>5, OneCallMoves DEF CredentialTypes
<1> QED
  BY <1>1, <1>2, <1>3 DEF CredentialTypes

\* Calls that read, and read again.
LEMMA CredentialRead ==
    ASSUME CredentialInv, NEW c \in Task,
           \/ Y!Fetch(c) \/ Y!Store(c) \/ Y!Resend(c) \/ Y!Build(c)
    PROVE  CredentialInv'
<1>1. CredentialTypes /\ ByItself(c) /\ using[c] \in CredentialCall
  BY DEF CredentialInv, CredentialTypes
<1>2. CASE Y!Fetch(c)
  <2>1. PICK r : r = [using[c] EXCEPT !.at = IF @ = "reading" THEN "fetched" ELSE "checked",
                                      !.value = valid]
    OBVIOUS
  <2>2. using' = [using EXCEPT ![c] = r]
    BY <1>1, <1>2, <2>1 DEF Y!Fetch, CredentialTypes
  <2>3. /\ r \in CredentialCall /\ r.value = valid
        /\ r.again = using[c].again /\ r.before = using[c].before /\ r.blamed = using[c].blamed
        /\ \/ using[c].at = "reading" /\ r.at = "fetched"
           \/ using[c].at = "checking" /\ r.at = "checked"
    BY <1>1, <1>2, <2>1 DEF CredentialTypes, CredentialCall, Y!Fetch
  <2>4. using'[c] = r
    BY <1>1, <2>2 DEF CredentialTypes
  <2>5. c \notin disturbed => ReadAgain(c)'
    BY <1>1, <1>2, <2>3, <2>4 DEF ReadAgain, ByItself, Y!Fetch
  <2> QED
    BY <1>1, <1>2, <2>2, <2>3, <2>5, OneCallMoves DEF CredentialTypes, Y!Fetch
<1>3. CASE Y!Store(c)
  BY <1>1, <1>3, CredentialUsed DEF Y!Store, CredentialTypes, CredentialCall, ByItself, ReadAgain
<1>4. CASE Y!Resend(c)
  <2>1. /\ using[c].at = "waiting"
        /\ UNCHANGED <<user, valid, cache, disturbed>>
    BY <1>4 DEF Y!Resend
  <2>2. CASE cache # Y!None /\ ~fresh
    <3>1. Y!Proceed(c, cache)
      BY <1>4, <2>2 DEF Y!Resend, Y!Get
    <3> QED
      BY <1>1, <2>1, <2>2, <3>1, CredentialUsed DEF CredentialTypes, ByItself, ReadAgain
  <2>3. CASE ~(cache # Y!None /\ ~fresh)
    <3>1. PICK r : r = [using[c] EXCEPT !.at = "reading"]
      OBVIOUS
    <3>2. using' = [using EXCEPT ![c] = r] /\ seen' = seen
      BY <1>1, <1>4, <2>3, <3>1 DEF Y!Resend, Y!Get, Y!Moves, CredentialTypes
    <3>3. /\ r \in CredentialCall /\ r.at = "reading"
          /\ r.again = using[c].again /\ r.before = using[c].before /\ r.blamed = using[c].blamed
      BY <1>1, <3>1 DEF CredentialTypes, CredentialCall
    <3>4. using'[c] = r
      BY <1>1, <3>2 DEF CredentialTypes
    <3>5. c \notin disturbed => ReadAgain(c)'
      BY <1>1, <2>1, <3>3, <3>4 DEF ReadAgain, ByItself
    <3> QED
      BY <1>1, <2>1, <3>2, <3>3, <3>5, OneCallMoves DEF CredentialTypes
  <2> QED
    BY <2>2, <2>3
<1>5. CASE Y!Build(c)
  <2>1. PICK r : r = [using[c] EXCEPT !.at = "sent"]
    OBVIOUS
  <2>2. using' = [using EXCEPT ![c] = r] /\ using[c].at = "closing"
    BY <1>1, <1>5, <2>1 DEF Y!Build, Y!Moves, CredentialTypes
  <2>3. /\ r \in CredentialCall /\ r.at = "sent" /\ r.value = using[c].value
        /\ r.again = using[c].again /\ r.before = using[c].before /\ r.blamed = using[c].blamed
    BY <1>1, <2>1 DEF CredentialTypes, CredentialCall
  <2>4. using'[c] = r
    BY <1>1, <2>2 DEF CredentialTypes
  <2>5. c \notin disturbed => ReadAgain(c)'
    BY <1>1, <1>5, <2>2, <2>3, <2>4 DEF ReadAgain, ByItself, Y!Build, Y!None
  <2> QED
    BY <1>1, <1>5, <2>2, <2>3, <2>5, OneCallMoves DEF CredentialTypes, Y!Build
<1> QED
  BY <1>2, <1>3, <1>4, <1>5

\* Calls that are answered.
LEMMA CredentialEnds ==
    ASSUME CredentialInv, NEW c \in Task,
           \/ Y!Unreadable(c) \/ Y!Accept(c) \/ Y!Return(c)
           \/ Y!Busy(c) /\ using[c].sends >= Sends
           \/ Y!Fail(c) /\ using[c].again = TRUE /\ using[c].value = valid
           \/ Y!Unchanged(c) /\ using[c].blamed = FALSE
    PROVE  CredentialInv'
<1>1. CredentialTypes /\ ByItself(c) /\ using[c] \in CredentialCall
  BY DEF CredentialInv, CredentialTypes
<1>2. /\ using' = [using EXCEPT ![c] = Y!Idle]
      /\ using[c].at # "idle" /\ UNCHANGED <<user, valid, disturbed>>
      /\ cache' \in Credentials /\ seen' \in Credentials
  <2>1. CASE Y!Unreadable(c)
    BY <1>1, <2>1 DEF Y!Unreadable, Y!Done, CredentialTypes
  <2>2. CASE Y!Accept(c)
    BY <1>1, <2>2 DEF Y!Accept, Y!Done, CredentialTypes
  <2>3. CASE Y!Return(c)
    BY <1>1, <2>3 DEF Y!Return, Y!Done, CredentialTypes
  <2>4. CASE Y!Busy(c) /\ using[c].sends >= Sends
    BY <1>1, <2>4, CallAssumption DEF Y!Busy, Y!Done, CredentialTypes, CredentialCall
  <2>5. CASE Y!Fail(c) /\ using[c].again = TRUE /\ using[c].value = valid
    BY <1>1, <2>5 DEF Y!Fail, Y!End, Y!Done, CredentialTypes
  <2>6. CASE Y!Unchanged(c) /\ using[c].blamed = FALSE
    BY <1>1, <2>6 DEF Y!Unchanged, Y!End, Y!Done, CredentialTypes, CredentialCall
  <2> QED
    BY <2>1, <2>2, <2>3, <2>4, <2>5, <2>6
<1>3. Y!Idle \in CredentialCall /\ Y!Idle.at = "idle" /\ Y!Idle.again = FALSE
  BY CallAssumption DEF Y!Idle, Y!None, CredentialCall, Credentials
<1> HIDE DEF Y!Idle
<1> QED
  BY <1>2, <1>3, OneCallMoves

\* Calls that are sent again after a while, or with another credential.
LEMMA CredentialRetry ==
    ASSUME CredentialInv, NEW c \in Task,
           Y!Refuse(c) \/ Y!Busy(c) \/ Y!Fail(c) \/ Y!Unchanged(c) \/ Y!Changed(c)
    PROVE  CredentialInv'
<1>1. CredentialTypes /\ ByItself(c) /\ using[c] \in CredentialCall
  BY DEF CredentialInv, CredentialTypes
<1>2. CASE Y!Busy(c) /\ using[c].sends >= Sends
  BY <1>2, CredentialEnds
<1>3. CASE Y!Busy(c) /\ using[c].sends < Sends
  <2>1. PICK r : r = [using[c] EXCEPT !.at = "waiting"]
    OBVIOUS
  <2>2. /\ using' = [using EXCEPT ![c] = r] /\ using[c].at = "sent" /\ user = "client"
        /\ UNCHANGED <<user, valid, cache, seen, disturbed>>
    BY <1>1, <1>3, <2>1 DEF Y!Busy, Y!Moves, CredentialTypes
  <2>3. /\ r \in CredentialCall /\ r.at = "waiting" /\ r.value = using[c].value
        /\ r.again = using[c].again /\ r.before = using[c].before /\ r.blamed = using[c].blamed
    BY <1>1, <2>1 DEF CredentialCall
  <2>4. using'[c] = r
    BY <1>1, <2>2 DEF CredentialTypes
  <2>5. c \notin disturbed => ReadAgain(c)'
    BY <1>1, <2>2, <2>3, <2>4 DEF ReadAgain, ByItself, Y!None
  <2> QED
    BY <1>1, <2>2, <2>3, <2>5, OneCallMoves DEF CredentialTypes
<1>4. CASE Y!Refuse(c)
  <2>1. PICK r : r = IF using[c].again = TRUE THEN [using[c] EXCEPT !.at = "refused"]
                     ELSE [using[c] EXCEPT !.again = TRUE, !.at = "reading"]
    OBVIOUS
  <2>2. /\ using[c].at = "sent" /\ user = "client" /\ using[c].value # valid
        /\ UNCHANGED <<user, valid, cache, seen, disturbed>>
    BY <1>4 DEF Y!Refuse
  <2>3. using' = [using EXCEPT ![c] = r]
    <3>1. CASE using[c].again = TRUE
      BY <1>1, <1>4, <2>1, <3>1 DEF Y!Refuse, Y!Moves, CredentialTypes
    <3>2. CASE using[c].again = FALSE
      <4>1. using' = [using EXCEPT ![c].again = TRUE, ![c].at = "reading"]
        BY <1>4, <3>2 DEF Y!Refuse, Y!Rejected
      <4> QED
        BY <1>1, <2>1, <3>2, <4>1 DEF CredentialTypes
    <3> QED
      BY <1>1, <3>1, <3>2 DEF CredentialCall
  <2>4. r \in CredentialCall /\ r.at \in {"refused", "reading"}
    <3>1. CASE using[c].again = TRUE
      BY <1>1, <2>1, <3>1 DEF CredentialCall
    <3>2. CASE using[c].again # TRUE
      BY <1>1, <2>1, <3>2 DEF CredentialCall
    <3> QED
      BY <3>1, <3>2
  <2>5. c \notin disturbed => r.at = "reading"
    BY <1>1, <2>1, <2>2 DEF ByItself, ReadAgain, CredentialCall
  <2>6. using'[c] = r
    BY <1>1, <2>3 DEF CredentialTypes
  <2>7. c \notin disturbed => ReadAgain(c)'
    BY <2>2, <2>5, <2>6 DEF ReadAgain
  <2> QED
    BY <1>1, <2>2, <2>3, <2>4, <2>7, OneCallMoves DEF CredentialTypes
<1>5. CASE Y!Fail(c)
  <2>1. /\ using[c].at = "sent" /\ user = "connector"
        /\ UNCHANGED <<user, valid, cache, seen, disturbed>>
    BY <1>5 DEF Y!Fail
  <2>2. CASE using[c].again = TRUE /\ using[c].value = valid
    BY <1>5, <2>2, CredentialEnds
  <2>3. CASE using[c].again = TRUE /\ using[c].value # valid
    <3>1. PICK r : r = [using[c] EXCEPT !.at = "refused"]
      OBVIOUS
    <3>2. using' = [using EXCEPT ![c] = r]
      BY <1>1, <1>5, <2>3, <3>1 DEF Y!Fail, Y!End, Y!Moves, CredentialTypes
    <3>3. r \in CredentialCall /\ r.at = "refused"
      BY <1>1, <3>1 DEF CredentialCall
    <3>4. c \in disturbed
      BY <1>1, <2>1, <2>3 DEF ByItself, ReadAgain
    <3> QED
      BY <1>1, <2>1, <3>2, <3>3, <3>4, OneCallMoves DEF CredentialTypes
  <2>4. CASE using[c].again = FALSE
    <3>1. PICK b \in BOOLEAN : b = (using[c].value # valid)
      OBVIOUS
    <3>2. PICK r : r = [using[c] EXCEPT !.at = "checking", !.before = seen, !.blamed = b]
      OBVIOUS
    <3>3. using' = [using EXCEPT ![c] = r]
      BY <1>1, <1>5, <2>4, <3>1, <3>2 DEF Y!Fail, CredentialTypes
    <3>4. /\ r \in CredentialCall /\ r.at = "checking" /\ r.before = seen /\ r.blamed = b
          /\ r.again = FALSE
      BY <1>1, <2>4, <3>1, <3>2 DEF CredentialCall, CredentialTypes
    <3>5. using'[c] = r
      BY <1>1, <3>3 DEF CredentialTypes
    <3>6. c \notin disturbed => ReadAgain(c)'
      <4>1. c \notin disturbed /\ b = TRUE => seen # valid
        BY <1>1, <2>1, <3>1 DEF ByItself, ReadAgain
      <4> QED
        BY <2>1, <3>4, <3>5, <4>1 DEF ReadAgain
    <3> QED
      BY <1>1, <2>1, <3>3, <3>4, <3>6, OneCallMoves DEF CredentialTypes
  <2> QED
    BY <1>1, <2>2, <2>3, <2>4 DEF CredentialCall
<1>6. CASE Y!Unchanged(c)
  <2>1. CASE using[c].blamed = FALSE
    BY <1>6, <2>1, CredentialEnds
  <2>2. CASE using[c].blamed = TRUE
    <3>1. PICK r : r = [using[c] EXCEPT !.at = "refused"]
      OBVIOUS
    <3>2. /\ using' = [using EXCEPT ![c] = r] /\ using[c].at = "checked"
          /\ using[c].value = using[c].before
          /\ cache' \in Credentials /\ seen' \in Credentials
          /\ UNCHANGED <<user, valid, disturbed>>
      BY <1>1, <1>6, <2>2, <3>1 DEF Y!Unchanged, Y!End, Y!Moves, CredentialTypes, CredentialCall
    <3>3. r \in CredentialCall /\ r.at = "refused"
      BY <1>1, <3>1 DEF CredentialCall
    <3>4. c \in disturbed
      BY <1>1, <2>2, <3>2 DEF ByItself, ReadAgain
    <3> QED
      BY <1>1, <3>2, <3>3, <3>4, OneCallMoves
  <2> QED
    BY <1>1, <2>1, <2>2 DEF CredentialCall
<1>7. CASE Y!Changed(c)
  <2>1. PICK v : v = using[c].value
    OBVIOUS
  <2>2. PICK r : r = [using[c] EXCEPT !.at = IF built' = v THEN "sent" ELSE "closing",
                                      !.value = v, !.again = TRUE]
    OBVIOUS
  <2>3. /\ using' = [using EXCEPT ![c] = r] /\ seen' = v /\ cache' = v
        /\ using[c].at = "checked" /\ UNCHANGED <<user, valid, disturbed>>
    BY <1>1, <1>7, <2>1, <2>2 DEF Y!Changed, Y!Adapter, CredentialTypes
  <2>4. /\ r \in CredentialCall /\ r.at \in {"sent", "closing"} /\ r.value = v
        /\ r.again = TRUE /\ v \in Credentials
    BY <1>1, <2>1, <2>2 DEF CredentialCall
  <2>5. using'[c] = r
    BY <1>1, <2>3 DEF CredentialTypes
  <2>6. c \notin disturbed => v = valid /\ user = "connector"
    BY <1>1, <2>1, <2>3 DEF ByItself, ReadAgain
  <2>7. c \notin disturbed => ReadAgain(c)'
    BY <2>3, <2>4, <2>5, <2>6 DEF ReadAgain
  <2> QED
    BY <1>1, <2>3, <2>4, <2>7, OneCallMoves
<1>8. Y!Busy(c) => using[c].sends >= Sends \/ using[c].sends < Sends
  BY <1>1, CallAssumption DEF CredentialCall
<1> QED
  BY <1>2, <1>3, <1>4, <1>5, <1>6, <1>7, <1>8

\* What is not a step of a call that runs.
LEMMA CredentialBegin ==
    ASSUME CredentialInv,
           Y!Rotate \/ Y!Lapse \/ \E c \in Task : Y!Begin(c)
    PROVE  CredentialInv'
<1>1. CredentialTypes
  BY DEF CredentialInv
<1>2. CASE Y!Rotate
  <2>1. /\ using' = using /\ cache' = cache /\ user' = user /\ seen' = seen
        /\ valid' = valid + 1 /\ valid < MaxRotations
        /\ \A c \in Task : using[c].at # "idle" => c \in disturbed'
    BY <1>2 DEF Y!Rotate, Y!Running
  <2>2. valid' \in Credentials
    BY <1>1, <2>1, CallAssumption DEF CredentialTypes, Credentials
  <2> QED
    BY <1>1, <2>1, <2>2 DEF CredentialInv, CredentialTypes, ByItself
<1>3. CASE Y!Lapse
  <2>1. cache' = Y!None /\ UNCHANGED <<user, valid, seen, using, disturbed>>
    BY <1>3 DEF Y!Lapse
  <2>2. cache' \in Credentials
    BY <2>1, CallAssumption DEF Y!None, Credentials
  <2> QED
    BY <1>1, <2>1, <2>2 DEF CredentialInv, CredentialTypes, ByItself, ReadAgain
<1>4. ASSUME NEW c \in Task, Y!Begin(c) PROVE CredentialInv'
  <2>1. /\ using[c].at = "idle" /\ UNCHANGED <<user, valid, cache>>
        /\ disturbed' = IF Y!Running = {} THEN disturbed \ {c} ELSE disturbed \cup Y!Running \cup {c}
        /\ using[c].again = FALSE /\ using[c] \in CredentialCall
    BY <1>1, <1>4 DEF Y!Begin, CredentialInv, CredentialTypes
  <2>2. \E r \in CredentialCall :
           /\ using' = [using EXCEPT ![c] = r] /\ seen' \in Credentials
           /\ r.again = FALSE /\ r.at \in {"reading", "sent", "closing"}
           /\ r.at \in {"sent", "closing"} /\ user = "connector" => seen' = r.value
           /\ r.at = "closing" => user = "connector"
    <3>1. CASE cache # Y!None /\ ~fresh /\ user = "client"
      <4>1. PICK n \in Nat : n = using[c].sends + 1
        BY <2>1 DEF CredentialCall
      <4>2. PICK r : r = [using[c] EXCEPT !.at = "sent", !.value = cache, !.sends = n]
        OBVIOUS
      <4>3. using' = [using EXCEPT ![c] = r] /\ seen' = seen
        BY <1>1, <1>4, <3>1, <4>1, <4>2
           DEF Y!Begin, Y!Get, Y!Proceed, Y!Headers, CredentialTypes
      <4>4. r \in CredentialCall /\ r.again = FALSE /\ r.at = "sent"
        BY <1>1, <2>1, <4>1, <4>2 DEF CredentialCall, CredentialTypes
      <4> QED
        BY <1>1, <3>1, <4>3, <4>4 DEF CredentialTypes
    <3>2. CASE cache # Y!None /\ ~fresh /\ user = "connector"
      <4>1. PICK r : r = [using[c] EXCEPT !.at = IF built' = cache THEN "sent" ELSE "closing",
                                          !.value = cache, !.again = using[c].again]
        OBVIOUS
      <4>2. using' = [using EXCEPT ![c] = r] /\ seen' = cache
        BY <1>1, <1>4, <3>2, <4>1 DEF Y!Begin, Y!Get, Y!Proceed, Y!Adapter, CredentialTypes
      <4>3. r \in CredentialCall /\ r.again = FALSE /\ r.at \in {"sent", "closing"} /\ r.value = cache
        BY <1>1, <2>1, <4>1 DEF CredentialCall, CredentialTypes
      <4> QED
        BY <1>1, <3>2, <4>2, <4>3 DEF CredentialTypes
    <3>3. CASE ~(cache # Y!None /\ ~fresh)
      <4>1. PICK r : r = [using[c] EXCEPT !.at = "reading"]
        OBVIOUS
      <4>2. using' = [using EXCEPT ![c] = r] /\ seen' = seen
        BY <1>1, <1>4, <3>3, <4>1 DEF Y!Begin, Y!Get, Y!Moves, CredentialTypes
      <4>3. r \in CredentialCall /\ r.again = FALSE /\ r.at = "reading"
        BY <1>1, <2>1, <4>1 DEF CredentialCall
      <4> QED
        BY <1>1, <4>2, <4>3 DEF CredentialTypes
    <3> QED
      BY <1>1, <3>1, <3>2, <3>3 DEF CredentialTypes
  <2>3. PICK r \in CredentialCall :
           /\ using' = [using EXCEPT ![c] = r] /\ seen' \in Credentials
           /\ r.again = FALSE /\ r.at \in {"reading", "sent", "closing"}
           /\ r.at \in {"sent", "closing"} /\ user = "connector" => seen' = r.value
           /\ r.at = "closing" => user = "connector"
    BY <2>2
  <2>4. CredentialTypes'
    BY <1>1, <2>1, <2>3 DEF CredentialTypes
  <2>5. using'[c] = r /\ \A d \in Task : d # c => using'[d] = using[d]
    BY <1>1, <2>3 DEF CredentialTypes
  <2>6. ReadAgain(c)'
    BY <2>1, <2>3, <2>5 DEF ReadAgain
  <2>7. c \notin disturbed' => \A d \in Task : d # c => using'[d].at = "idle"
    BY <2>1, <2>5 DEF Y!Running
  <2>8. ASSUME NEW d \in Task, d # c PROVE ByItself(d)'
    BY <2>1, <2>5, <2>8 DEF Y!Running, ByItself
  <2>9. ASSUME NEW d \in Task PROVE using'[d].at = "idle" => using'[d].again = FALSE
    BY <2>3, <2>5, <2>9 DEF CredentialInv
  <2>10. ByItself(c)'
    BY <2>6, <2>7 DEF ByItself
  <2> QED
    BY <2>4, <2>8, <2>9, <2>10 DEF CredentialInv
<1> QED
  BY <1>2, <1>3, <1>4

LEMMA CredentialStep == ASSUME CredentialInv, Y!Next PROVE CredentialInv'
BY CredentialRead, CredentialEnds, CredentialRetry, CredentialBegin DEF Y!Next

LEMMA CredentialStays == ASSUME CredentialInv, UNCHANGED credentialVars PROVE CredentialInv'
BY DEF CredentialInv, CredentialTypes, ByItself, ReadAgain, credentialVars

LEMMA CredentialHolds == ASSUME CredentialInv PROVE Y!RotationIsMet
BY DEF CredentialInv, ByItself, ReadAgain, Y!RotationIsMet

-----------------------------------------------------------------------------
(* Calls behind a breaker.                                                 *)

LEMMA BreakerCounts ==
    \A S : B!Cardinality(S) = Cardinality(S) /\ B!IsFiniteSet(S) = IsFiniteSet(S)
BY DEF B!Cardinality, Cardinality, B!IsFiniteSet, IsFiniteSet

GuardedCall == [at: {"idle", "sent", "waiting"}, attempt: 0..Tries]
OnTheWay == {c \in Task : trying[c].at = "sent"}

CallTypes ==
    /\ breaker \in {"closed", "open", "half_open"}
    /\ failures \in 0..(Threshold + 1) /\ since \in 0..Reset
    /\ trying \in [Task -> GuardedCall]
    /\ sent \in [0..(Reset - 1) -> Nat]

\* A request since the last success has failed or is on its way; at most those on their way are
\* about to fail when the breaker is closed, and none was sent since it is open.
Spared ==
    /\ breaker = "closed" =>
          failures < Threshold /\ Cardinality(B!Recent) <= failures + Cardinality(OnTheWay)
    /\ breaker # "closed" => failures >= Threshold
    /\ breaker = "half_open" => Cardinality(B!Recent) <= Cardinality(OnTheWay)
    /\ breaker = "open" =>
          /\ Cardinality(B!Recent) <= Threshold + Cardinality(Task) - 1
          /\ \A n \in 0..(Reset - 1) : n < since => sent[n] = 0

CallInv ==
    /\ CallTypes /\ Spared
    /\ \A c \in Task : trying[c].at = "waiting" => trying[c].attempt < Tries
    /\ IsFiniteSet(B!Recent)

LEMMA TaskCounts ==
    /\ Cardinality(Task) \in Nat
    /\ IsFiniteSet(OnTheWay) /\ Cardinality(OnTheWay) \in Nat
    /\ Cardinality(OnTheWay) <= Cardinality(Task)
<1>1. IsFiniteSet(Task) /\ OnTheWay \in SUBSET Task
  BY CallAssumption DEF OnTheWay
<1> QED
  BY <1>1, FS_Subset, FS_CardinalityType

LEMMA TaskCountsNext ==
    /\ IsFiniteSet(OnTheWay') /\ Cardinality(OnTheWay') \in Nat
    /\ Cardinality(OnTheWay') <= Cardinality(Task)
<1>1. IsFiniteSet(Task) /\ OnTheWay' \in SUBSET Task
  BY CallAssumption DEF OnTheWay
<1> QED
  BY <1>1, FS_Subset, FS_CardinalityType

\* The requests by their age.
LEMMA RecentAre ==
    /\ \A x : x \in B!Recent <=>
          \E n \in 0..(Reset - 1) : \E i \in 1..sent[n] : x = <<n, i>>
    /\ \A x : x \in B!Recent' <=>
          \E n \in 0..(Reset - 1) : \E i \in 1..sent'[n] : x = <<n, i>>
BY DEF B!Recent

LEMMA NothingRecent ==
    ASSUME \A n \in 0..(Reset - 1) : sent[n] = 0 PROVE B!Recent = {}
BY DEF B!Recent

LEMMA NothingRecentNext ==
    ASSUME \A n \in 0..(Reset - 1) : sent'[n] = 0 PROVE B!Recent' = {}
BY DEF B!Recent

LEMMA CallInit == B!Init => CallInv
<1> SUFFICES ASSUME B!Init PROVE CallInv
  OBVIOUS
<1> USE CallAssumption
<1>1. B!Idle \in GuardedCall /\ B!Idle.at = "idle"
  BY DEF B!Idle, GuardedCall
<1>2. trying \in [Task -> GuardedCall] /\ \A c \in Task : trying[c].at = "idle"
  BY <1>1 DEF B!Init
<1>3. CallTypes /\ \A n \in 0..(Reset - 1) : sent[n] = 0
  BY <1>2 DEF B!Init, CallTypes, B!None
<1>4. B!Recent = {}
  BY <1>3, NothingRecent
<1>5. IsFiniteSet(B!Recent) /\ Cardinality(B!Recent) = 0
  BY <1>4, FS_EmptySet
<1>6. Spared
  BY <1>5, TaskCounts DEF B!Init, Spared
<1> QED
  BY <1>2, <1>3, <1>5, <1>6 DEF CallInv

\* A request that is sent is one more.
LEMMA OneMoreSent ==
    ASSUME CallTypes, IsFiniteSet(B!Recent), sent' = [sent EXCEPT ![0] = @ + 1]
    PROVE  /\ IsFiniteSet(B!Recent') /\ Cardinality(B!Recent') <= Cardinality(B!Recent) + 1
           /\ Cardinality(B!Recent) \in Nat /\ Cardinality(B!Recent') \in Nat
<1> DEFINE x == <<0, sent[0] + 1>>
<1>1. B!Recent' \subseteq B!Recent \cup {x}
  <2> SUFFICES ASSUME NEW y \in B!Recent' PROVE y \in B!Recent \cup {x}
    OBVIOUS
  <2>1a. PICK n \in 0..(Reset - 1) : \E i \in 1..sent'[n] : y = <<n, i>>
    BY RecentAre
  <2>1. PICK i \in 1..sent'[n] : y = <<n, i>>
    BY <2>1a
  <2>2. sent[n] \in Nat /\ sent'[n] = IF n = 0 THEN sent[n] + 1 ELSE sent[n]
    BY CallAssumption DEF CallTypes
  <2>3. i \in 1..sent[n] \/ (n = 0 /\ i = sent[n] + 1)
    BY <2>1, <2>2
  <2> QED
    BY <2>1, <2>3, RecentAre
<1>2. /\ IsFiniteSet(B!Recent \cup {x}) /\ Cardinality(B!Recent) \in Nat
      /\ Cardinality(B!Recent \cup {x}) <= Cardinality(B!Recent) + 1
  BY FS_AddElement, FS_CardinalityType
<1> HIDE DEF x
<1>3. IsFiniteSet(B!Recent') /\ Cardinality(B!Recent') <= Cardinality(B!Recent \cup {x})
  BY <1>1, <1>2, FS_Subset
<1>4. Cardinality(B!Recent') \in Nat /\ Cardinality(B!Recent \cup {x}) \in Nat
  BY <1>2, <1>3, FS_CardinalityType
<1> QED
  BY <1>2, <1>3, <1>4

\* Time passes: no request is younger, and there are no more of them.
LEMMA NoMoreWithTime ==
    ASSUME CallTypes, IsFiniteSet(B!Recent), B!Tick
    PROVE  /\ IsFiniteSet(B!Recent') /\ Cardinality(B!Recent') <= Cardinality(B!Recent)
           /\ Cardinality(B!Recent) \in Nat /\ Cardinality(B!Recent') \in Nat
<1> DEFINE f == [x \in B!Recent' |-> <<x[1] - 1, x[2]>>]
<1>1. \A n \in 0..(Reset - 1) : sent'[n] = IF n = 0 THEN 0 ELSE sent[n - 1]
  BY DEF B!Tick
<1>2. ASSUME NEW x \in B!Recent'
      PROVE  \E n \in 1..(Reset - 1) : \E i \in 1..sent[n - 1] : x = <<n, i>>
  <2>1a. PICK n \in 0..(Reset - 1) : \E i \in 1..sent'[n] : x = <<n, i>>
    BY RecentAre
  <2>1. PICK i \in 1..sent'[n] : x = <<n, i>>
    BY <2>1a
  <2>2. n # 0
    BY <1>1, <2>1
  <2> QED
    BY <1>1, <2>1, <2>2, CallAssumption
<1>3. f \in [B!Recent' -> B!Recent]
  <2> SUFFICES ASSUME NEW x \in B!Recent' PROVE <<x[1] - 1, x[2]>> \in B!Recent
    OBVIOUS
  <2>1a. PICK n \in 1..(Reset - 1) : \E i \in 1..sent[n - 1] : x = <<n, i>>
    BY <1>2
  <2>1. PICK i \in 1..sent[n - 1] : x = <<n, i>>
    BY <2>1a
  <2>2. n - 1 \in 0..(Reset - 1) /\ x[1] - 1 = n - 1 /\ x[2] = i
    BY <2>1, CallAssumption
  <2> QED
    BY <2>1, <2>2, RecentAre
<1>4. ASSUME NEW x \in B!Recent', NEW y \in B!Recent', f[x] = f[y] PROVE x = y
  <2>1a. PICK n \in 1..(Reset - 1) : \E i \in 1..sent[n - 1] : x = <<n, i>>
    BY <1>2
  <2>1. PICK i \in 1..sent[n - 1] : x = <<n, i>>
    BY <2>1a
  <2>2a. PICK m \in 1..(Reset - 1) : \E j \in 1..sent[m - 1] : y = <<m, j>>
    BY <1>2
  <2>2. PICK j \in 1..sent[m - 1] : y = <<m, j>>
    BY <2>2a
  <2>3. f[x] = <<n - 1, i>> /\ f[y] = <<m - 1, j>>
    BY <2>1, <2>2
  <2> QED
    BY <1>4, <2>1, <2>2, <2>3
<1> HIDE DEF f
<1>5. f \in Injection(B!Recent', B!Recent)
  BY <1>3, <1>4, Fun_IsInj
<1>6. IsFiniteSet(B!Recent') /\ Cardinality(B!Recent') <= Cardinality(B!Recent)
  BY <1>5, FS_Injection
<1> QED
  BY <1>6, FS_CardinalityType

LEMMA CallTick == ASSUME CallInv, B!Tick PROVE CallInv'
<1> USE CallAssumption
<1>1. CallTypes /\ Spared /\ IsFiniteSet(B!Recent)
  BY DEF CallInv
<1>2. /\ since' = IF since < Reset THEN since + 1 ELSE since
      /\ UNCHANGED <<breaker, failures, trying>>
      /\ sent' = [n \in 0..(Reset - 1) |-> IF n = 0 THEN 0 ELSE sent[n - 1]]
  BY DEF B!Tick
<1>3. \A n \in 0..(Reset - 1) : n # 0 => n - 1 \in 0..(Reset - 1)
  OBVIOUS
<1>4. sent' \in [0..(Reset - 1) -> Nat]
  BY <1>1, <1>2, <1>3 DEF CallTypes
<1>5. CallTypes'
  BY <1>1, <1>2, <1>4 DEF CallTypes
<1>6. OnTheWay' = OnTheWay
  BY <1>2 DEF OnTheWay
<1>7. breaker = "open" => \A n \in 0..(Reset - 1) : n < since' => sent'[n] = 0
  <2> SUFFICES ASSUME breaker = "open", NEW n \in 0..(Reset - 1), n < since' PROVE sent'[n] = 0
    OBVIOUS
  <2>1. n # 0 => n - 1 < since
    BY <1>1, <1>2 DEF CallTypes
  <2> QED
    BY <1>1, <1>2, <1>3, <2>1 DEF Spared
<1>8. Spared'
  BY <1>1, <1>2, <1>6, <1>7, NoMoreWithTime, TaskCounts, SMTT(30) DEF Spared, CallTypes
<1> QED
  BY <1>1, <1>2, <1>5, <1>8, NoMoreWithTime DEF CallInv

\* Who is on the way when one call goes another way.
LEMMA OneIsOnTheWay ==
    ASSUME CallTypes, NEW c \in Task, NEW r \in GuardedCall, trying' = [trying EXCEPT ![c] = r]
    PROVE  /\ trying' \in [Task -> GuardedCall] /\ trying'[c] = r
           /\ \A d \in Task : d # c => trying'[d] = trying[d]
           /\ Cardinality(OnTheWay') =
                 Cardinality(OnTheWay) - (IF trying[c].at = "sent" THEN 1 ELSE 0)
                                       + (IF r.at = "sent" THEN 1 ELSE 0)
<1>1. /\ trying' \in [Task -> GuardedCall] /\ trying'[c] = r
      /\ \A d \in Task : d # c => trying'[d] = trying[d]
  BY DEF CallTypes
<1>2. OnTheWay' = IF r.at = "sent" THEN (OnTheWay \ {c}) \cup {c} ELSE OnTheWay \ {c}
  BY <1>1 DEF OnTheWay
<1>3. c \in OnTheWay <=> trying[c].at = "sent"
  BY DEF OnTheWay
<1>4. /\ IsFiniteSet(OnTheWay \ {c}) /\ Cardinality(OnTheWay) \in Nat
      /\ Cardinality(OnTheWay \ {c}) =
            IF trying[c].at = "sent" THEN Cardinality(OnTheWay) - 1 ELSE Cardinality(OnTheWay)
  BY <1>3, TaskCounts, FS_RemoveElement
<1>5. Cardinality((OnTheWay \ {c}) \cup {c}) = Cardinality(OnTheWay \ {c}) + 1
  BY <1>4, FS_AddElement
<1>6. CASE r.at = "sent"
  BY <1>1, <1>2, <1>4, <1>5, <1>6
<1>7. CASE r.at # "sent"
  BY <1>1, <1>2, <1>4, <1>7
<1> QED
  BY <1>6, <1>7

LEMMA CallBegins == ASSUME CallInv, NEW c \in Task, B!Begin(c) \/ B!Retry(c) PROVE CallInv'
<1> USE CallAssumption
<1>1. CallTypes /\ Spared /\ IsFiniteSet(B!Recent)
  BY DEF CallInv
<1>2. PICK n \in 0..Tries : B!Try(c, n) /\ trying[c].at # "sent"
  <2>1. CASE B!Begin(c)
    BY <2>1 DEF B!Begin
  <2>2. CASE B!Retry(c)
    <3>1. trying[c].attempt + 1 \in 0..Tries
      BY <1>1, <2>2 DEF CallInv, CallTypes, GuardedCall, B!Retry
    <3> QED
      BY <2>2, <3>1 DEF B!Retry
  <2> QED
    BY <2>1, <2>2
<1>3. breaker' = B!Now /\ UNCHANGED <<failures, since>>
  BY <1>2 DEF B!Try
<1>4. CASE B!Now = "open"
  <2>1. PICK r : r = B!Idle
    OBVIOUS
  <2>2. trying' = [trying EXCEPT ![c] = r] /\ sent' = sent /\ breaker = "open"
    BY <1>1, <1>2, <1>4, <2>1 DEF B!Try, B!Now
  <2>3. r \in GuardedCall /\ r.at = "idle"
    BY <2>1 DEF B!Idle, GuardedCall
  <2>4. B!Recent' = B!Recent
    BY <2>2 DEF B!Recent
  <2> QED
    BY <1>1, <1>3, <1>4, <2>2, <2>3, <2>4, OneIsOnTheWay DEF CallInv, CallTypes, Spared
<1>5. CASE B!Now # "open"
  <2>1. PICK r : r = [at |-> "sent", attempt |-> n]
    OBVIOUS
  <2>2. trying' = [trying EXCEPT ![c] = r] /\ sent' = [sent EXCEPT ![0] = @ + 1]
    BY <1>2, <1>5, <2>1 DEF B!Try
  <2>3. r \in GuardedCall /\ r.at = "sent"
    BY <2>1 DEF GuardedCall
  <2>4. /\ trying' \in [Task -> GuardedCall] /\ Cardinality(OnTheWay') = Cardinality(OnTheWay) + 1
        /\ \A d \in Task : trying'[d].at = "waiting" => trying'[d].attempt < Tries
    <3>1. /\ trying' \in [Task -> GuardedCall] /\ trying'[c] = r
          /\ \A d \in Task : d # c => trying'[d] = trying[d]
          /\ Cardinality(OnTheWay') = Cardinality(OnTheWay) - 0 + 1
      BY <1>1, <1>2, <2>2, <2>3, OneIsOnTheWay
    <3>2. \A d \in Task : trying'[d].at = "waiting" => trying'[d].attempt < Tries
      BY <2>3, <3>1 DEF CallInv
    <3> QED
      BY <3>1, <3>2, TaskCounts
  <2>5. sent' \in [0..(Reset - 1) -> Nat]
    <3>1. sent' = [m \in 0..(Reset - 1) |-> IF m = 0 THEN sent[0] + 1 ELSE sent[m]]
      BY <1>1, <2>2 DEF CallTypes
    <3>2. \A m \in 0..(Reset - 1) : sent[m] \in Nat
      BY <1>1 DEF CallTypes
    <3>3. \A m \in 0..(Reset - 1) : (IF m = 0 THEN sent[0] + 1 ELSE sent[m]) \in Nat
      BY <3>2
    <3> QED
      BY <3>1, <3>3
  <2>6. CallTypes'
    BY <1>1, <1>3, <2>4, <2>5 DEF CallTypes, B!Now
  <2>7. breaker = "open" => Cardinality(B!Recent) = 0
    <3> SUFFICES ASSUME breaker = "open" PROVE Cardinality(B!Recent) = 0
      OBVIOUS
    <3>1. since >= Reset
      BY <1>5 DEF B!Now
    <3>2. \A m \in 0..(Reset - 1) : sent[m] = 0
      BY <1>1, <3>1 DEF Spared, CallTypes
    <3> QED
      BY <3>2, NothingRecent, FS_EmptySet
  <2>8. breaker' = IF breaker = "open" THEN "half_open" ELSE breaker
    BY <1>3, <1>5 DEF B!Now
  <2>9. /\ IsFiniteSet(B!Recent') /\ Cardinality(B!Recent') <= Cardinality(B!Recent) + 1
        /\ Cardinality(B!Recent) \in Nat /\ Cardinality(B!Recent') \in Nat
    BY <1>1, <2>2, OneMoreSent
  <2>10. Spared'
    BY <1>1, <1>3, <2>4, <2>7, <2>8, <2>9, TaskCounts DEF Spared, CallTypes
  <2> QED
    BY <2>4, <2>6, <2>9, <2>10 DEF CallInv
<1> QED
  BY <1>4, <1>5

LEMMA CallEnds ==
    ASSUME CallInv, NEW c \in Task, B!Succeed(c) \/ B!Fail(c) \/ B!GiveUp(c)
    PROVE  CallInv'
<1> USE CallAssumption
<1>1. CallTypes /\ Spared /\ IsFiniteSet(B!Recent) /\ Cardinality(B!Recent) \in Nat
  BY FS_CardinalityType DEF CallInv
<1>2. B!Idle \in GuardedCall /\ B!Idle.at = "idle"
  BY DEF B!Idle, GuardedCall
<1>3. CASE B!Succeed(c)
  <2>1. PICK r : r = B!Idle
    OBVIOUS
  <2>2. /\ trying' = [trying EXCEPT ![c] = r] /\ sent' = [n \in 0..(Reset - 1) |-> 0]
        /\ breaker' = "closed" /\ failures' = 0 /\ since' = since
    BY <1>3, <2>1 DEF B!Succeed, B!None
  <2>3. r \in GuardedCall /\ r.at = "idle"
    BY <1>2, <2>1
  <2>4. /\ trying' \in [Task -> GuardedCall]
        /\ \A d \in Task : trying'[d].at = "waiting" => trying'[d].attempt < Tries
    BY <1>1, <2>2, <2>3, OneIsOnTheWay DEF CallInv
  <2>5. CallTypes'
    BY <1>1, <2>2, <2>4 DEF CallTypes
  <2>6. B!Recent' = {}
    BY <2>2, NothingRecentNext
  <2>7. IsFiniteSet(B!Recent') /\ Cardinality(B!Recent') = 0
    BY <2>6, FS_EmptySet
  <2>8. Spared'
    BY <2>2, <2>7, TaskCountsNext DEF Spared
  <2> QED
    BY <2>4, <2>5, <2>7, <2>8 DEF CallInv
<1>4. CASE B!Fail(c) \/ B!GiveUp(c)
  <2>1. PICK r \in GuardedCall :
           /\ trying' = [trying EXCEPT ![c] = r] /\ r.at # "sent"
           /\ r.at = "waiting" => r.attempt < Tries
    <3>1. CASE B!GiveUp(c)
      BY <1>2, <3>1 DEF B!GiveUp
    <3>2. CASE B!Fail(c)
      <4>1. trying[c] \in GuardedCall
        BY <1>1 DEF CallTypes
      <4>2. CASE trying[c].attempt = Tries
        BY <1>1, <1>2, <3>2, <4>2 DEF B!Fail, CallTypes
      <4>3. CASE trying[c].attempt # Tries
        <5>1. PICK r : r = [trying[c] EXCEPT !.at = "waiting"]
          OBVIOUS
        <5>2. trying' = [trying EXCEPT ![c] = r]
          BY <1>1, <3>2, <4>3, <5>1 DEF B!Fail, CallTypes
        <5>3. r \in GuardedCall /\ r.at = "waiting" /\ r.attempt = trying[c].attempt
          BY <4>1, <5>1 DEF GuardedCall
        <5>4. r.attempt < Tries
          BY <4>1, <4>3, <5>3 DEF GuardedCall
        <5> QED
          BY <5>2, <5>3, <5>4
      <4> QED
        BY <4>2, <4>3
    <3> QED
      BY <1>4, <3>1, <3>2
  <2>2. /\ trying[c].at = "sent" /\ sent' = sent /\ since' = 0
        /\ failures' = IF failures < Threshold + 1 THEN failures + 1 ELSE failures
        /\ breaker' = IF failures' >= Threshold THEN "open" ELSE breaker
    BY <1>4 DEF B!Fail, B!GiveUp, B!RecordFailure, B!Trips, B!Most
  <2>3. /\ trying' \in [Task -> GuardedCall] /\ Cardinality(OnTheWay') = Cardinality(OnTheWay) - 1
        /\ \A d \in Task : trying'[d].at = "waiting" => trying'[d].attempt < Tries
    <3>1. /\ trying' \in [Task -> GuardedCall] /\ trying'[c] = r
          /\ \A d \in Task : d # c => trying'[d] = trying[d]
          /\ Cardinality(OnTheWay') = Cardinality(OnTheWay) - 1 + 0
      BY <1>1, <2>1, <2>2, OneIsOnTheWay
    <3>2. \A d \in Task : trying'[d].at = "waiting" => trying'[d].attempt < Tries
      BY <2>1, <3>1 DEF CallInv
    <3> QED
      BY <3>1, <3>2, TaskCounts
  <2>4. CallTypes'
    BY <1>1, <2>2, <2>3 DEF CallTypes
  <2>5. B!Recent' = B!Recent
    BY <2>2 DEF B!Recent
  <2>6. Spared'
    BY <1>1, <2>2, <2>3, <2>5, TaskCounts, TaskCountsNext DEF Spared, CallTypes
  <2> QED
    BY <1>1, <2>3, <2>4, <2>5, <2>6 DEF CallInv
<1> QED
  BY <1>3, <1>4

LEMMA CallStep == ASSUME CallInv, B!Next PROVE CallInv'
BY CallTick, CallBegins, CallEnds DEF B!Next

LEMMA CallStays == ASSUME CallInv, UNCHANGED callVars PROVE CallInv'
<1>1. UNCHANGED <<breaker, failures, since, trying, sent>>
  BY DEF callVars
<1>2. B!Recent' = B!Recent /\ OnTheWay' = OnTheWay
  BY <1>1 DEF B!Recent, OnTheWay
<1> QED
  BY <1>1, <1>2 DEF CallInv, CallTypes, Spared

LEMMA CallHolds == ASSUME CallInv PROVE B!SparesTheTarget
<1>1. Cardinality(B!Recent) \in Nat /\ CallTypes /\ Spared
  BY FS_CardinalityType DEF CallInv
<1>2. Cardinality(B!Recent) <= Threshold + Cardinality(Task) - 1
  BY <1>1, TaskCounts, CallAssumption DEF CallTypes, Spared
<1> QED
  BY <1>2, BreakerCounts DEF B!SparesTheTarget

-----------------------------------------------------------------------------
(* Signed deliveries.                                                      *)

Arrived == [at: {"new", "checked", "ended"}, since: 0..MaxNow]

DeliveryTypes ==
    /\ now \in 0..MaxNow
    /\ stamp \in [Message -> Nat]
    /\ copy \in [Message \X Copy -> Arrived]
    /\ nonces \in [Message -> Nat]
    /\ accepted \in [Message -> Nat]

\* A timestamp is ahead of when it was made by no more than the sender's clock is, and a copy
\* was checked when the timestamp was near enough.
StampedNear ==
    \A m \in Message :
        /\ stamp[m] # O!NotSent => stamp[m] <= now + Ahead
        /\ \A c \in Copy : copy[<<m, c>>].at = "checked" =>
              /\ stamp[m] # O!NotSent
              /\ copy[<<m, c>>].since <= stamp[m] + Skew
              /\ stamp[m] <= copy[<<m, c>>].since + Ahead
              /\ copy[<<m, c>>].since <= now

\* What was accepted is remembered until no copy of it can be near enough any more.
Remembered ==
    \A m \in Message :
        /\ accepted[m] <= 1
        /\ accepted[m] = 1 =>
              /\ stamp[m] # O!NotSent
              /\ \/ nonces[m] # 0 /\ stamp[m] + 2 * Skew <= nonces[m] + Ahead
                 \/ stamp[m] + 2 * Skew < now + Ahead

DeliveryInv == DeliveryTypes /\ StampedNear /\ Remembered

LEMMA DeliveryInit == O!Init => DeliveryInv
BY DeliveryAssumption
   DEF O!Init, DeliveryInv, DeliveryTypes, StampedNear, Remembered, Arrived, O!NotSent

LEMMA DeliveryArrives ==
    ASSUME DeliveryInv,
           \/ O!Tick \/ \E m \in Message : O!Send(m)
           \/ \E m \in Message, c \in Copy : O!Check(m, c)
    PROVE  DeliveryInv'
<1> USE DeliveryAssumption
<1>1. DeliveryTypes /\ StampedNear /\ Remembered
  BY DEF DeliveryInv
<1>2. CASE O!Tick
  <2>1. /\ now < MaxNow /\ now' = now + 1 /\ UNCHANGED <<stamp, copy, nonces, accepted>>
    BY <1>2 DEF O!Tick
  <2>2. DeliveryTypes'
    BY <1>1, <2>1 DEF DeliveryTypes
  <2>3. \A m \in Message : stamp[m] \in Nat /\ nonces[m] \in Nat
    BY <1>1 DEF DeliveryTypes
  <2>4. \A m \in Message, c \in Copy : copy[<<m, c>>].since \in 0..MaxNow
    BY <1>1 DEF DeliveryTypes, Arrived
  <2>5. now \in Nat
    BY <1>1 DEF DeliveryTypes
  <2>6. StampedNear'
    BY <1>1, <2>1, <2>3, <2>4, <2>5 DEF StampedNear, O!NotSent
  <2>7. Remembered'
    BY <1>1, <2>1, <2>3, <2>5 DEF Remembered, O!NotSent
  <2> QED
    BY <2>2, <2>6, <2>7 DEF DeliveryInv
<1>3. ASSUME NEW m \in Message, O!Send(m) PROVE DeliveryInv'
  <2>1. PICK ahead \in 0..Ahead : stamp' = [stamp EXCEPT ![m] = now + ahead]
    BY <1>3 DEF O!Send
  <2>2. stamp[m] = O!NotSent /\ UNCHANGED <<now, copy, nonces, accepted>>
    BY <1>3 DEF O!Send
  <2>3. now \in Nat /\ now + ahead \in Nat /\ now + ahead <= now + Ahead
    BY <1>1 DEF DeliveryTypes
  <2>4. DeliveryTypes'
    BY <1>1, <2>1, <2>2, <2>3 DEF DeliveryTypes
  <2>5. \A n \in Message : stamp'[n] = IF n = m THEN now + ahead ELSE stamp[n]
    BY <1>1, <2>1 DEF DeliveryTypes
  <2>6. StampedNear'
    BY <1>1, <2>2, <2>3, <2>5 DEF StampedNear
  <2>7. Remembered'
    BY <1>1, <2>2, <2>5 DEF Remembered
  <2> QED
    BY <2>4, <2>6, <2>7 DEF DeliveryInv
<1>4. ASSUME NEW m \in Message, NEW c \in Copy, O!Check(m, c) PROVE DeliveryInv'
  <2>1. PICK r : r = [at |-> IF O!Apart(now, stamp[m]) <= Skew THEN "checked" ELSE "ended",
                      since |-> now]
    OBVIOUS
  <2>2. /\ copy' = [copy EXCEPT ![<<m, c>>] = r] /\ stamp[m] # O!NotSent
        /\ UNCHANGED <<now, stamp, nonces, accepted>>
    BY <1>4, <2>1 DEF O!Check
  <2>3. r \in Arrived /\ r.since = now /\ (r.at = "checked" => O!Apart(now, stamp[m]) <= Skew)
    BY <1>1, <2>1 DEF Arrived, DeliveryTypes
  <2>4. <<m, c>> \in Message \X Copy
    OBVIOUS
  <2>5. DeliveryTypes'
    BY <1>1, <2>2, <2>3, <2>4 DEF DeliveryTypes
  <2>6. \A n \in Message, d \in Copy :
           copy'[<<n, d>>] = IF n = m /\ d = c THEN r ELSE copy[<<n, d>>]
    BY <1>1, <2>2 DEF DeliveryTypes
  <2>7. now \in Nat /\ stamp[m] \in Nat /\ stamp[m] <= now + Ahead
    BY <1>1, <2>2 DEF DeliveryTypes, StampedNear
  <2>8. r.at = "checked" => r.since <= stamp[m] + Skew
    BY <2>3, <2>7 DEF O!Apart
  <2>9. StampedNear'
    BY <1>1, <2>2, <2>3, <2>6, <2>7, <2>8 DEF StampedNear
  <2>10. Remembered'
    BY <1>1, <2>2 DEF Remembered
  <2> QED
    BY <2>5, <2>9, <2>10 DEF DeliveryInv
<1> QED
  BY <1>2, <1>3, <1>4

LEMMA DeliveryUsed ==
    ASSUME DeliveryInv, NEW m \in Message, NEW c \in Copy, O!Use(m, c) PROVE DeliveryInv'
<1> USE DeliveryAssumption
<1>1. DeliveryTypes /\ StampedNear /\ Remembered
  BY DEF DeliveryInv
<1>2. PICK kept : kept = [n \in Message |-> IF nonces[n] < now THEN 0 ELSE nonces[n]]
  OBVIOUS
<1>3. PICK born : born = copy[<<m, c>>].since
  OBVIOUS
<1>4. /\ copy[<<m, c>>].at = "checked" /\ now - born <= Upload
      /\ copy' = [copy EXCEPT ![<<m, c>>].at = "ended"] /\ UNCHANGED <<now, stamp>>
      /\ IF kept[m] = 0
         THEN /\ nonces' = [kept EXCEPT ![m] = now + 2 * Skew]
              /\ accepted' = [accepted EXCEPT ![m] = @ + 1]
         ELSE nonces' = kept /\ accepted' = accepted
  BY <1>2, <1>3 DEF O!Use, O!Expires
<1>5. now \in Nat /\ born \in Nat /\ \A n \in Message : stamp[n] \in Nat /\ nonces[n] \in Nat
  BY <1>1, <1>3 DEF DeliveryTypes, Arrived
<1>6. kept \in [Message -> Nat] /\ \A n \in Message : kept[n] = IF nonces[n] < now THEN 0 ELSE nonces[n]
  BY <1>2, <1>5
<1>7. copy[<<m, c>>] \in Arrived /\ <<m, c>> \in Message \X Copy
  BY <1>1 DEF DeliveryTypes
<1>8. PICK r : r = [copy[<<m, c>>] EXCEPT !.at = "ended"]
  OBVIOUS
<1>9. copy' = [copy EXCEPT ![<<m, c>>] = r] /\ r \in Arrived /\ r.at = "ended"
  BY <1>1, <1>4, <1>7, <1>8 DEF DeliveryTypes, Arrived
<1>10. /\ copy' \in [Message \X Copy -> Arrived]
       /\ \A n \in Message, d \in Copy :
             copy'[<<n, d>>] = IF n = m /\ d = c THEN r ELSE copy[<<n, d>>]
  BY <1>1, <1>7, <1>9 DEF DeliveryTypes
<1>11. /\ stamp[m] # O!NotSent /\ born <= stamp[m] + Skew
       /\ stamp[m] <= born + Ahead /\ born <= now
  BY <1>1, <1>3, <1>4 DEF StampedNear
<1>12. StampedNear'
  BY <1>1, <1>4, <1>9, <1>10 DEF StampedNear
<1>13. accepted[m] = 1 => kept[m] # 0
  <2> SUFFICES ASSUME accepted[m] = 1 PROVE kept[m] # 0
    OBVIOUS
  <2>1. now + Ahead <= stamp[m] + 2 * Skew
    BY <1>4, <1>5, <1>11
  <2>2. nonces[m] # 0 /\ stamp[m] + 2 * Skew <= nonces[m] + Ahead
    BY <1>1, <1>5, <2>1 DEF Remembered
  <2> QED
    BY <1>5, <1>6, <2>1, <2>2
<1>14. CASE kept[m] # 0
  <2>1. nonces' = kept /\ accepted' = accepted
    BY <1>4, <1>14
  <2>2. DeliveryTypes'
    BY <1>1, <1>4, <1>6, <1>10, <2>1 DEF DeliveryTypes
  <2>3. Remembered'
    BY <1>1, <1>4, <1>5, <1>6, <2>1 DEF Remembered
  <2> QED
    BY <1>12, <2>2, <2>3 DEF DeliveryInv
<1>15. CASE kept[m] = 0
  <2>1. /\ nonces' = [kept EXCEPT ![m] = now + 2 * Skew]
        /\ accepted' = [accepted EXCEPT ![m] = @ + 1]
    BY <1>4, <1>15
  <2>2. accepted[m] = 0
    BY <1>1, <1>13, <1>15 DEF Remembered, DeliveryTypes
  <2>3. /\ now + 2 * Skew \in Nat /\ now + 2 * Skew # 0
        /\ stamp[m] + 2 * Skew <= now + 2 * Skew + Ahead
    BY <1>5, <1>11
  <2>4. accepted' = [accepted EXCEPT ![m] = 1]
    BY <1>1, <2>1, <2>2 DEF DeliveryTypes
  <2>5. /\ nonces' \in [Message -> Nat] /\ accepted' \in [Message -> Nat]
        /\ \A n \in Message : /\ nonces'[n] = IF n = m THEN now + 2 * Skew ELSE kept[n]
                              /\ accepted'[n] = IF n = m THEN 1 ELSE accepted[n]
    BY <1>1, <1>6, <2>1, <2>3, <2>4 DEF DeliveryTypes
  <2>6. DeliveryTypes'
    BY <1>1, <1>4, <1>10, <2>5 DEF DeliveryTypes
  <2>7. ASSUME NEW n \in Message
        PROVE  /\ accepted'[n] <= 1
               /\ accepted'[n] = 1 =>
                     /\ stamp[n] # O!NotSent
                     /\ \/ nonces'[n] # 0 /\ stamp[n] + 2 * Skew <= nonces'[n] + Ahead
                        \/ stamp[n] + 2 * Skew < now + Ahead
    <3>1. CASE n = m
      BY <1>11, <2>3, <2>5, <3>1
    <3>2. CASE n # m
      BY <1>1, <1>5, <1>6, <2>5, <3>2 DEF Remembered
    <3> QED
      BY <3>1, <3>2
  <2>8. Remembered'
    BY <1>4, <2>7 DEF Remembered, O!NotSent
  <2> QED
    BY <1>12, <2>6, <2>8 DEF DeliveryInv
<1> QED
  BY <1>14, <1>15

LEMMA DeliveryStep == ASSUME DeliveryInv, O!Next PROVE DeliveryInv'
BY DeliveryArrives, DeliveryUsed DEF O!Next

LEMMA DeliveryStays == ASSUME DeliveryInv, UNCHANGED deliveryVars PROVE DeliveryInv'
BY DEF DeliveryInv, DeliveryTypes, StampedNear, Remembered, deliveryVars, O!NotSent

LEMMA DeliveryHolds == ASSUME DeliveryInv PROVE O!TakenOnce
BY DEF DeliveryInv, Remembered, O!TakenOnce
=============================================================================
