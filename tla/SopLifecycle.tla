---------------------------- MODULE SopLifecycle ----------------------------
(***************************************************************************)
(* The life of the versions of one SOP (sop/store.py): written, reviewed,  *)
(* approved by a second person, published, superseded or retired.          *)
(*                                                                         *)
(* Every request but two is one transaction that locks the row it changes. *)
(* Publishing locks its own row, then changes another one and counts the   *)
(* numbers, a statement at a time; retiring reads the published row        *)
(* without a lock.  Those two are modelled by statement, as PostgreSQL     *)
(* runs them under READ COMMITTED: a statement sees what is committed when *)
(* it begins, waits for a locked row and then looks at it again.           *)
(*                                                                         *)
(* A content stands for its hash.  Whether the registry still accepts it   *)
(* (problems_of) may change at any time, so a refusal is a request that    *)
(* does not happen.                                                        *)
(***************************************************************************)
EXTENDS Naturals, FiniteSets

CONSTANTS
    Version,     \* version rows of the SOP
    Seeded,      \* the one of them the demo library published at start-up
    Content,     \* contents of the SOP, each with its hash
    Person,      \* people who write and review
    Library,     \* the system that writes seeds and ingested drafts
    Reviewer,    \* the system that approves the seeds
    NoOne, NoContent, NoVersion

VARIABLES
    ver,         \* sop_versions
    shown,       \* contents a version has been shown with
    agreed,      \* the content the approver of a version had read
    wrote,       \* everyone who wrote or submitted a version
    publishing,  \* the transactions that publish a version
    retiring,    \* the version a retire request has read as the published one
    run          \* the version a run was started with

vars == <<ver, shown, agreed, wrote, publishing, retiring, run>>

Actor == Person \cup {Library}
Statuses == {"none", "draft", "in_review", "approved", "published", "superseded", "retired"}
Frozen == {"approved", "published", "superseded", "retired"}

Row == [status: Statuses, content: Content \cup {NoContent}, hash: Content \cup {NoContent},
        author: Actor \cup {NoOne}, approver: Person \cup {Reviewer, NoOne},
        number: 0..Cardinality(Version)]
Absent == [status |-> "none", content |-> NoContent, hash |-> NoContent,
           author |-> NoOne, approver |-> NoOne, number |-> 0]
Publishing == [at: {"none", "locked", "looking", "superseding", "numbered"},
               old: SUBSET Version, number: 0..Cardinality(Version)]
NotPublishing == [at |-> "none", old |-> {}, number |-> 0]

TypeOK ==
    /\ ver \in [Version -> Row]
    /\ shown \in [Version -> SUBSET Content]
    /\ agreed \in [Version -> Content \cup {NoContent}]
    /\ wrote \in [Version -> SUBSET Actor]
    /\ publishing \in [Version -> Publishing]
    /\ retiring \in Version \cup {NoVersion}
    /\ run \in Version \cup {NoVersion}

\* seed_published goes through the lifecycle below with two system actors.
Seed == CHOOSE c \in Content : TRUE
Init ==
    /\ ver = [v \in Version |->
                 IF v = Seeded THEN [status |-> "published", content |-> Seed, hash |-> Seed,
                                     author |-> Library, approver |-> Reviewer, number |-> 1]
                 ELSE Absent]
    /\ shown = [v \in Version |-> {}]
    /\ agreed = [v \in Version |-> IF v = Seeded THEN Seed ELSE NoContent]
    /\ wrote = [v \in Version |-> IF v = Seeded THEN {Library} ELSE {}]
    /\ publishing = [v \in Version |-> NotPublishing]
    /\ retiring = NoVersion
    /\ run = NoVersion

\* Rows another transaction holds: the one it publishes, the ones it supersedes.
Held(v) == \/ publishing[v].at # "none"
           \/ \E w \in Version : /\ publishing[w].at \in {"superseding", "numbered"}
                                 /\ v \in publishing[w].old

-----------------------------------------------------------------------------
(* Authoring.                                                              *)

CreateDraft(v, a, c) ==
    /\ ver[v].status = "none"
    /\ ver' = [ver EXCEPT ![v] = [Absent EXCEPT !.status = "draft", !.content = c, !.author = a]]
    /\ wrote' = [wrote EXCEPT ![v] = {a}]
    /\ shown' = [shown EXCEPT ![v] = {c}]
    /\ UNCHANGED <<agreed, publishing, retiring, run>>

\* Mutant: whoever edits an ingested draft leaves the system as its author.
LeaveToLibrary(v, a) == ver[v].author

\* A draft the library wrote becomes its first editor's; any other stays its author's.
Adopted(v, a) == IF ver[v].author = Library THEN a ELSE ver[v].author
MayWrite(v, a) == ver[v].status = "draft" /\ ver[v].author \in {a, Library}

UpdateDraft(v, a, c) ==
    /\ MayWrite(v, a)
    /\ ver' = [ver EXCEPT ![v].content = c, ![v].author = Adopted(v, a)]
    /\ wrote' = [wrote EXCEPT ![v] = @ \cup {a}]
    /\ shown' = [shown EXCEPT ![v] = @ \cup {c}]
    /\ UNCHANGED <<agreed, publishing, retiring, run>>

\* Anyone who may write SOPs may discard any draft; the row is deleted.
Discard(v) ==
    /\ ver[v].status = "draft"
    /\ ver' = [ver EXCEPT ![v] = Absent]
    /\ wrote' = [wrote EXCEPT ![v] = {}]
    /\ shown' = [shown EXCEPT ![v] = {}]
    /\ UNCHANGED <<agreed, publishing, retiring, run>>

Submit(v, a) ==
    /\ MayWrite(v, a)
    /\ ver' = [ver EXCEPT ![v].status = "in_review", ![v].hash = ver[v].content,
                          ![v].author = Adopted(v, a)]
    /\ wrote' = [wrote EXCEPT ![v] = @ \cup {a}]
    /\ UNCHANGED <<shown, agreed, publishing, retiring, run>>

-----------------------------------------------------------------------------
(* Review.                                                                 *)

\* Mutant: the version is approved as it is, whatever was read.
AnythingRead(v, h) == TRUE

\* The reviewer sends the hash of the content on the screen, which may be an old one.
ReadIsStored(v, h) == h = ver[v].hash
Approve(v, a, h) ==
    /\ ver[v].status = "in_review"
    /\ ver[v].author # a
    /\ h \in shown[v] /\ ReadIsStored(v, h)
    /\ ver' = [ver EXCEPT ![v].status = "approved", ![v].approver = a]
    /\ agreed' = [agreed EXCEPT ![v] = h]
    /\ UNCHANGED <<shown, wrote, publishing, retiring, run>>

\* The author may send it back as well; the hash of the submission stays in the row.
RequestChanges(v) ==
    /\ ver[v].status = "in_review"
    /\ ver' = [ver EXCEPT ![v].status = "draft"]
    /\ UNCHANGED <<shown, agreed, wrote, publishing, retiring, run>>

-----------------------------------------------------------------------------
(* publish, one statement at a time.                                       *)

Published == {v \in Version : ver[v].status = "published"}
SetPublishing(v, p) == publishing' = [publishing EXCEPT ![v] = p]
OnlyPublishing == UNCHANGED <<ver, shown, agreed, wrote, retiring, run>>

LockVersion(v) ==
    /\ ver[v].status = "approved" /\ ~Held(v)
    /\ SetPublishing(v, [NotPublishing EXCEPT !.at = "locked"])
    /\ OnlyPublishing

\* The update finds the published row as it begins ...
FindPublished(v) ==
    /\ publishing[v].at = "locked"
    /\ SetPublishing(v, [publishing[v] EXCEPT !.at = "looking", !.old = Published])
    /\ OnlyPublishing

\* ... waits until no other transaction holds it, and supersedes it if it still is published.
Supersede(v) ==
    /\ publishing[v].at = "looking"
    /\ \A o \in publishing[v].old : ~Held(o)
    /\ SetPublishing(v, [publishing[v] EXCEPT !.at = "superseding", !.old = @ \cap Published])
    /\ OnlyPublishing

Latest == CHOOSE n \in {ver[v].number : v \in Version} : \A v \in Version : ver[v].number <= n
Number(v) ==
    /\ publishing[v].at = "superseding"
    /\ SetPublishing(v, [publishing[v] EXCEPT !.at = "numbered", !.number = Latest + 1])
    /\ OnlyPublishing

\* Mutant: the number is unique, the published version is not.
SameNumber(v) == \E w \in Version \ {v} : ver[w].number = publishing[v].number

\* uq_sop_versions_one_published and uq_sop_versions_number: a second entry waits for the
\* transaction that wrote the first one, and fails when that one commits.
BreaksAnIndex(v) ==
    \/ Published \ publishing[v].old # {}
    \/ \E w \in Version \ {v} : ver[w].number = publishing[v].number

Commit(v) ==
    /\ publishing[v].at = "numbered" /\ ~BreaksAnIndex(v)
    /\ ver' = [w \in Version |->
                  CASE w = v -> [ver[v] EXCEPT !.status = "published",
                                               !.number = publishing[v].number]
                    [] w \in publishing[v].old -> [ver[w] EXCEPT !.status = "superseded"]
                    [] OTHER -> ver[w]]
    /\ SetPublishing(v, NotPublishing)
    /\ UNCHANGED <<shown, agreed, wrote, retiring, run>>

\* An index refuses the row, or the process or its connection dies.
RollBack(v) ==
    /\ publishing[v].at # "none"
    /\ SetPublishing(v, NotPublishing)
    /\ OnlyPublishing

-----------------------------------------------------------------------------
(* retire, in two statements; the second has no condition on the status.   *)

FindToRetire ==
    /\ retiring = NoVersion
    /\ \E v \in Published : retiring' = v
    /\ UNCHANGED <<ver, shown, agreed, wrote, publishing, run>>

Retire ==
    /\ retiring # NoVersion /\ ~Held(retiring)
    /\ ver' = [ver EXCEPT ![retiring].status = "retired"]
    /\ retiring' = NoVersion
    /\ UNCHANGED <<shown, agreed, wrote, publishing, run>>

-----------------------------------------------------------------------------
(* The engine: a run takes the published version, and an interrupted run   *)
(* goes on with the version of that number and hash unless it was retired. *)

StartRun ==
    /\ run = NoVersion
    /\ \E v \in Published : run' = v
    /\ UNCHANGED <<ver, shown, agreed, wrote, publishing, retiring>>

ForResume(number, hash) ==
    {v \in Version : /\ ver[v].number = number /\ ver[v].hash = hash
                     /\ ver[v].status \in {"published", "superseded"}}
ResumeRun ==
    /\ run # NoVersion
    /\ LET found == ForResume(ver[run].number, ver[run].hash)
       IN  run' \in (IF found = {} THEN {NoVersion} ELSE found)
    /\ UNCHANGED <<ver, shown, agreed, wrote, publishing, retiring>>

-----------------------------------------------------------------------------
Next ==
    \/ \E v \in Version, a \in Actor, c \in Content : CreateDraft(v, a, c)
    \/ \E v \in Version, a \in Person, c \in Content : UpdateDraft(v, a, c)
    \/ \E v \in Version : Discard(v) \/ RequestChanges(v)
    \/ \E v \in Version, a \in Person : Submit(v, a)
    \/ \E v \in Version, a \in Person, h \in Content : Approve(v, a, h)
    \/ \E v \in Version : LockVersion(v) \/ FindPublished(v) \/ Supersede(v) \/ Number(v)
    \/ \E v \in Version : Commit(v) \/ RollBack(v)
    \/ FindToRetire \/ Retire
    \/ StartRun \/ ResumeRun

Spec == Init /\ [][Next]_vars

-----------------------------------------------------------------------------
\* What the engine matches is one version, the one published last: publications and
\* retirements of several versions at once leave no second one, nor an older one, in force.
NewestInForce ==
    \A v \in Published : \A w \in Version \ {v} : ver[w].number < ver[v].number

\* A version that was approved holds exactly what its approver had on the screen, and
\* nobody who wrote or submitted it is its approver, through every edit, adoption, return
\* and resubmission; a run goes on with such a version.
ApprovedAsRead ==
    \A v \in Version :
        ver[v].status \in Frozen \/ run = v =>
            /\ ver[v].content = agreed[v] /\ ver[v].hash = agreed[v]
            /\ ver[v].approver \notin wrote[v] \cup {NoOne}
=============================================================================
