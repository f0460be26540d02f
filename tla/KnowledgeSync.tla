---------------------------- MODULE KnowledgeSync ----------------------------
(***************************************************************************)
(* Articles of a knowledge source become SOP drafts (sop/ingest.py and     *)
(* create_draft of sop/store.py), from a ServiceNow knowledge base         *)
(* (connectors/knowledge/servicenow_kb.py) or a Git repository (git.py).   *)
(*                                                                         *)
(* Several syncs of the same source may run at once: an operator's, the    *)
(* command line's and one that began long ago.  A sync reads the stored    *)
(* cursor, lists what changed since, makes a draft of each revision in a   *)
(* transaction of its own and at last stores the new cursor.  People edit  *)
(* articles, discard drafts and write SOPs meanwhile.                      *)
(*                                                                         *)
(* Time is the source's: seconds for ServiceNow, commits for Git.  What a  *)
(* draft contains, and whether a model drafted its steps, is Drafts.       *)
(***************************************************************************)
EXTENDS Naturals, FiniteSets

CONSTANTS
    Article,    \* articles; each gives its SOP a key of its own
    Sync,       \* syncs that may run at the same time
    PageSize,   \* SERVICENOW_PAGE_SIZE
    MaxEdits,   \* bound: revisions of all articles together
    MaxTime     \* bound: seconds or commits

VARIABLES
    origin,     \* where the articles are: kb or git
    clock,
    article,    \* what the source has: revision, its time, how it came about
    cursor,     \* knowledge_sources.cursor, 0 for none
    sync,       \* the syncs under way
    rows,       \* how many sop_versions rows hold a revision
    keys,       \* the articles whose SOP key is in sops
    handled,    \* revisions that were made a draft, or whose failure was recorded
    lost        \* revisions taken for ingested because another draft added their SOP first

vars == <<origin, clock, article, cursor, sync, rows, keys, handled, lost>>

\* Plainly edited; edited by the commit that renamed it; saved in a second that is already
\* the newest one of a sync or of the cursor.
How == {"edited", "renamed", "tied"}
Revision == Article \X (1..MaxEdits)
Idle == [at |-> "idle", from |-> 0, offset |-> 0, todo |-> {}, newest |-> 0,
         one |-> {}, known |-> FALSE]
SyncState == [at: {"idle", "listing", "drafting", "inserting"}, from: 0..MaxTime,
              offset: Nat, todo: SUBSET Revision, newest: 0..MaxTime,
              one: SUBSET Revision, known: BOOLEAN]

TypeOK ==
    /\ origin \in {"kb", "git"}
    /\ clock \in 0..MaxTime
    /\ article \in [Article -> [rev: 0..MaxEdits, time: 0..MaxTime, how: How]]
    /\ cursor \in 0..MaxTime
    /\ sync \in [Sync -> SyncState]
    /\ rows \in [Revision -> Nat]
    /\ keys \subseteq Article
    /\ handled \subseteq Revision /\ lost \subseteq Revision

Init ==
    /\ origin \in {"kb", "git"}
    /\ clock = IF origin = "git" THEN 0 ELSE 1
    /\ article = [a \in Article |-> [rev |-> 0, time |-> 0, how |-> "edited"]]
    /\ cursor = 0
    /\ sync = [s \in Sync |-> Idle]
    /\ rows = [r \in Revision |-> 0]
    /\ keys = {} /\ handled = {} /\ lost = {}

Current(a) == <<a, article[a].rev>>
SetSync(s, state) == sync' = [sync EXCEPT ![s] = state]

-----------------------------------------------------------------------------
(* The source and the people.                                              *)

\* A commit has a number of its own; a second has room for several edits.
Edit(a) ==
    /\ Cardinality({r \in Revision : r[2] <= article[r[1]].rev}) < MaxEdits
    /\ clock' = IF origin = "git" THEN clock + 1 ELSE clock
    /\ clock' <= MaxTime
    /\ \E how \in How :
          /\ how = "renamed" => origin = "git" /\ article[a].rev > 0
          /\ (how = "tied") = (\E t \in {cursor} \cup {sync[s].newest : s \in Sync} : t >= clock')
          /\ article' = [article EXCEPT ![a] = [rev |-> @.rev + 1, time |-> clock', how |-> how]]
    /\ UNCHANGED <<origin, cursor, sync, rows, keys, handled, lost>>

Tick ==
    /\ origin = "kb" /\ clock < MaxTime
    /\ clock' = clock + 1
    /\ UNCHANGED <<origin, article, cursor, sync, rows, keys, handled, lost>>

\* A person's own draft, for an SOP whose key an article also has.
WriteByHand(a) ==
    /\ keys' = keys \cup {a}
    /\ UNCHANGED <<origin, clock, article, cursor, sync, rows, handled, lost>>

DiscardDraft(r) ==
    /\ rows[r] > 0
    /\ rows' = [rows EXCEPT ![r] = @ - 1]
    /\ UNCHANGED <<origin, clock, article, cursor, sync, keys, handled, lost>>

-----------------------------------------------------------------------------
(* sync_source.                                                            *)

Begin(s) ==
    /\ sync[s].at = "idle"
    /\ SetSync(s, [Idle EXCEPT !.at = "listing", !.from = cursor, !.newest = cursor])
    /\ UNCHANGED <<origin, clock, article, cursor, rows, keys, handled, lost>>

\* The query: strictly later than the cursor, everything without one.  Git compares two
\* commits and keeps what was added or modified, which a renamed file is not.
Changed(from) == {a \in Article : /\ article[a].rev > 0
                                  /\ article[a].time > from
                                  /\ (article[a].how = "renamed" => from = 0)}
Before(a, from) == {b \in Changed(from) : article[b].time < article[a].time}
UpTo(a, from) == {b \in Changed(from) : article[b].time <= article[a].time}

Listed(s, found, newest, done) ==
    [sync[s] EXCEPT !.at = IF done THEN "drafting" ELSE "listing", !.todo = @ \cup found,
                    !.offset = IF done THEN 0 ELSE @ + PageSize, !.newest = newest]
Latest(times) == CHOOSE t \in times : \A u \in times : u <= t

\* A page is what stands at an offset in the list as it is now, ordered by time; the list
\* ends where the total says.  The newest time read becomes the cursor.
ReadPage(s) ==
    /\ origin = "kb" /\ sync[s].at = "listing"
    /\ LET from == sync[s].from
           offset == sync[s].offset
           rest == Cardinality(Changed(from)) - offset
       IN  \E page \in SUBSET Changed(from) :
              /\ Cardinality(page) = IF rest < 0 THEN 0
                                     ELSE IF rest < PageSize THEN rest ELSE PageSize
              /\ \A a \in page : /\ Cardinality(Before(a, from)) < offset + PageSize
                                 /\ offset < Cardinality(UpTo(a, from))
              /\ SetSync(s, Listed(s, {Current(a) : a \in page},
                                   Latest({sync[s].newest} \cup {article[a].time : a \in page}),
                                   rest <= PageSize))
    /\ UNCHANGED <<origin, clock, article, cursor, rows, keys, handled, lost>>

\* The mirror is fetched and compared under a lock; the new cursor is the branch's head.  The
\* commit of the old cursor may be gone, and then every file is read.
ReadCommit(s) ==
    /\ origin = "git" /\ sync[s].at = "listing"
    /\ \E from \in {sync[s].from, 0} :
          SetSync(s, Listed(s, {Current(a) : a \in Changed(from)}, clock, TRUE))
    /\ UNCHANGED <<origin, clock, article, cursor, rows, keys, handled, lost>>

\* The source cannot be read: an error is recorded, the cursor stays.  Or the process dies.
Fail(s) ==
    /\ sync[s].at # "idle"
    /\ SetSync(s, Idle)
    /\ UNCHANGED <<origin, clock, article, cursor, rows, keys, handled, lost>>

\* create_draft: first it looks for the SOP and for the revision ...
Look(s) ==
    /\ sync[s].at = "drafting"
    /\ \E r \in sync[s].todo :
          IF rows[r] > 0
          THEN /\ SetSync(s, [sync[s] EXCEPT !.todo = @ \ {r}])
               /\ handled' = handled \cup {r}
          ELSE /\ SetSync(s, [sync[s] EXCEPT !.at = "inserting", !.one = {r},
                                             !.known = r[1] \in keys])
               /\ UNCHANGED handled
    /\ UNCHANGED <<origin, clock, article, cursor, rows, keys, lost>>

\* Mutant: no index on the revision.
OnlyItsKey(r, known) == ~known /\ r[1] \in keys

\* ... then inserts both.  uq_sops_key and uq_sop_versions_source refuse what another
\* transaction added in between, and either counts as a revision ingested before.
Conflict(r, known) == (~known /\ r[1] \in keys) \/ rows[r] > 0
Insert(s) ==
    /\ sync[s].at = "inserting"
    /\ \E r \in sync[s].one :
          /\ IF Conflict(r, sync[s].known) THEN UNCHANGED <<rows, keys>>
             ELSE /\ rows' = [rows EXCEPT ![r] = @ + 1]
                  /\ keys' = keys \cup {r[1]}
          /\ IF Conflict(r, sync[s].known) /\ rows[r] = 0
             THEN lost' = lost \cup {r} /\ UNCHANGED handled
             ELSE handled' = handled \cup {r} /\ UNCHANGED lost
          /\ SetSync(s, [sync[s] EXCEPT !.at = "drafting", !.todo = @ \ {r}, !.one = {}])
    /\ UNCHANGED <<origin, clock, article, cursor>>

\* The article cannot be read as an SOP: the error is recorded and the sync goes on.
Unreadable(s) ==
    /\ sync[s].at = "drafting"
    /\ \E r \in sync[s].todo : /\ SetSync(s, [sync[s] EXCEPT !.todo = @ \ {r}])
                               /\ handled' = handled \cup {r}
    /\ UNCHANGED <<origin, clock, article, cursor, rows, keys, lost>>

\* Mutant: the cursor is recorded as soon as the articles are listed.
AnyTime(s) == sync[s].at = "drafting"

AllDone(s) == sync[s].at = "drafting" /\ sync[s].todo = {}
Record(s) ==
    /\ AllDone(s)
    /\ cursor' = sync[s].newest
    /\ SetSync(s, Idle)
    /\ UNCHANGED <<origin, clock, article, rows, keys, handled, lost>>

-----------------------------------------------------------------------------
Next ==
    \/ Tick
    \/ \E a \in Article : Edit(a) \/ WriteByHand(a)
    \/ \E r \in Revision : DiscardDraft(r)
    \/ \E s \in Sync : Begin(s) \/ ReadPage(s) \/ ReadCommit(s) \/ Fail(s)
    \/ \E s \in Sync : Look(s) \/ Insert(s) \/ Unreadable(s) \/ Record(s)

Spec == Init /\ [][Next]_vars

-----------------------------------------------------------------------------
\* A revision is a draft at most once, however many syncs find it at the same moment.
OneDraftPerRevision == \A r \in Revision : rows[r] <= 1

\* Behind the cursor nothing is forgotten: with lists that fit a page, an article the next
\* sync will not ask for was made a draft or its failure recorded, whatever syncs ran at the
\* same time or died.  The exceptions are the ones above, and a revision whose SOP another
\* draft added at the same moment.
BehindTheCursor ==
    \A a \in Article :
        article[a].rev > 0 /\ article[a].time <= cursor /\ article[a].how = "edited" =>
            Current(a) \in handled \cup lost

\* "Articles added or changed after cursor, and the cursor to pass next time": with no sync
\* under way, what the next one will not ask for has been dealt with.
NothingMissed ==
    (\A s \in Sync : sync[s].at = "idle") =>
        \A a \in Article : article[a].rev > 0 /\ a \notin Changed(cursor) => Current(a) \in handled
=============================================================================
