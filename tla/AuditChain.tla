----------------------------- MODULE AuditChain -----------------------------
(***************************************************************************)
(* A tenant's audit chain (audit/log.py).  Transactions append events in   *)
(* the transaction of what they report, one appender at a time; rows may   *)
(* later be changed by something other than the program; verify recomputes *)
(* the chain and compares it with the checkpoints kept outside.            *)
(*                                                                         *)
(* A hash is the history it covers: no two histories have the same one.    *)
(***************************************************************************)
EXTENDS Naturals, Sequences, FiniteSets

CONSTANTS
    Tx,         \* transactions, each with up to two events
    NoTx,
    MaxDamage   \* bound: changes made by others

VARIABLES
    rows,         \* audit_events, committed
    tx,           \* the transactions: where they are, the head they read, their own rows
    lock,         \* who holds the chain's advisory lock
    committed,    \* every event in the order it was committed
    checkpoints,  \* signed heads, stored elsewhere
    damage,       \* how much of MaxDamage is used up
    rewritten     \* a tail was replaced, its hashes computed anew

vars == <<rows, tx, lock, committed, checkpoints, damage, rewritten>>

Genesis == <<>>
Event == Tx \X {1, 2} \cup {<<NoTx, 0>>}
Other == <<NoTx, 0>>
Link == Nat \X Event
Row == [seq: Nat \ {0}, event: Event, prev: Seq(Link), hash: Seq(Link)]
HeadType == [seq: Nat, hash: Seq(Link)]

TypeOK ==
    /\ rows \subseteq Row
    /\ tx \in [Tx -> [at: {"idle", "locked", "read", "appended", "failed", "ended"},
                      head: HeadType, mine: SUBSET Row]]
    /\ lock \in Tx \cup {NoTx}
    /\ committed \in Seq(Event)
    /\ checkpoints \subseteq HeadType
    /\ damage \in 0..MaxDamage
    /\ rewritten \in BOOLEAN

Start == [seq |-> 0, hash |-> Genesis]
Init ==
    /\ rows = {} /\ committed = <<>> /\ checkpoints = {}
    /\ tx = [t \in Tx |-> [at |-> "idle", head |-> Start, mine |-> {}]]
    /\ lock = NoTx /\ damage = 0 /\ rewritten = FALSE

\* event_hash covers the number, the event and the hash before it.
event_hash(seq, event, prev) == Append(prev, <<seq, event>>)
NewRow(head, event) == [seq |-> head.seq + 1, event |-> event, prev |-> head.hash,
                        hash |-> event_hash(head.seq + 1, event, head.hash)]

Last(set) == CHOOSE r \in set : \A q \in set : q.seq <= r.seq
HeadOf(set) == IF set = {} THEN Start ELSE [seq |-> Last(set).seq, hash |-> Last(set).hash]

-----------------------------------------------------------------------------
(* append, inside its caller's transaction.                                *)

\* Mutant: appenders do not wait for each other.
AnyoneMay(t) == TRUE

\* The lock is held until the transaction ends; its own second event finds it held.
LockFree(t) == lock \in {NoTx, t}
TakeLock(t) ==
    /\ tx[t].at \in {"idle", "appended"} /\ Cardinality(tx[t].mine) < 2
    /\ LockFree(t)
    /\ lock' = t
    /\ tx' = [tx EXCEPT ![t].at = "locked"]
    /\ UNCHANGED <<rows, committed, checkpoints, damage, rewritten>>

ReadHead(t) ==
    /\ tx[t].at = "locked"
    /\ tx' = [tx EXCEPT ![t].at = "read", ![t].head = HeadOf(rows \cup tx[t].mine)]
    /\ UNCHANGED <<rows, lock, committed, checkpoints, damage, rewritten>>

Free(t) == lock' = IF lock = t THEN NoTx ELSE lock

\* The number is the primary key: one that is committed already ends the transaction, one
\* that another transaction has just taken is waited for.
Insert(t) ==
    /\ tx[t].at = "read"
    /\ LET row == NewRow(tx[t].head, <<t, Cardinality(tx[t].mine) + 1>>)
       IN  /\ \A u \in Tx \ {t} : \A r \in tx[u].mine : r.seq # row.seq
           /\ IF \E r \in rows : r.seq = row.seq
              THEN tx' = [tx EXCEPT ![t] = [at |-> "failed", head |-> Start, mine |-> {}]] /\ Free(t)
              ELSE /\ tx' = [tx EXCEPT ![t].at = "appended", ![t].mine = @ \cup {row}]
                   /\ UNCHANGED lock
    /\ UNCHANGED <<rows, committed, checkpoints, damage, rewritten>>

Commit(t) ==
    /\ tx[t].at = "appended"
    /\ rows' = rows \cup tx[t].mine
    /\ committed' = committed \o [n \in 1..Cardinality(tx[t].mine) |-> <<t, n>>]
    /\ tx' = [tx EXCEPT ![t] = [at |-> "ended", head |-> Start, mine |-> {}]]
    /\ Free(t)
    /\ UNCHANGED <<checkpoints, damage, rewritten>>

\* The caller raises, or the connection is lost: its events go with what they report.
RollBack(t) ==
    /\ tx[t].at \in {"locked", "read", "appended"}
    /\ tx' = [tx EXCEPT ![t] = [at |-> "ended", head |-> Start, mine |-> {}]]
    /\ Free(t)
    /\ UNCHANGED <<rows, committed, checkpoints, damage, rewritten>>

-----------------------------------------------------------------------------
(* verify and checkpoint.                                                  *)

\* Mutant: each event is checked by itself.
NoLink(r, all) == TRUE

\* Each event carries the hash of the one with the number before it.
Follows(r, all) ==
    LET before == {q \in all : q.seq < r.seq}
    IN  r.seq = HeadOf(before).seq + 1 /\ r.prev = HeadOf(before).hash
Verifies(all) == \A r \in all : Follows(r, all) /\ r.hash = event_hash(r.seq, r.event, r.prev)
Matches(all, cp) == cp.seq = 0 \/ \E r \in all : r.seq = cp.seq /\ r.hash = cp.hash
VerifyOk == Verifies(rows) /\ \A cp \in checkpoints : Matches(rows, cp)

\* A checkpoint is refused when the chain does not verify, earlier ones not considered.
Checkpoint ==
    /\ Verifies(rows)
    /\ checkpoints' = checkpoints \cup {HeadOf(rows)}
    /\ UNCHANGED <<rows, tx, lock, committed, damage, rewritten>>

-----------------------------------------------------------------------------
(* What others may do to the rows: change, remove or renumber one, or      *)
(* replace the tail by one event with hashes that fit.                     *)

Damaged(new) ==
    /\ damage < MaxDamage /\ damage' = damage + 1
    /\ rows' = new
    /\ UNCHANGED <<tx, lock, committed, checkpoints>>

Change == \E r \in rows :
    Damaged((rows \ {r}) \cup {[r EXCEPT !.event = Other]}) /\ UNCHANGED rewritten
Remove == \E r \in rows : Damaged(rows \ {r}) /\ UNCHANGED rewritten
Renumber == \E r, q \in rows :
    /\ Damaged((rows \ {r, q}) \cup {[r EXCEPT !.seq = q.seq], [q EXCEPT !.seq = r.seq]})
    /\ UNCHANGED rewritten
Rewrite == \E r \in rows :
    LET kept == {q \in rows : q.seq < r.seq}
    IN  Damaged(kept \cup {NewRow(HeadOf(kept), Other)}) /\ rewritten' = TRUE

Next ==
    \/ \E t \in Tx : TakeLock(t) \/ ReadHead(t) \/ Insert(t) \/ Commit(t) \/ RollBack(t)
    \/ Checkpoint
    \/ Change \/ Remove \/ Renumber \/ Rewrite

Spec == Init /\ [][Next]_vars

-----------------------------------------------------------------------------
\* As long as only the program writes, the chain verifies and holds exactly what was
\* committed, in that order, and no appender fails because another one was faster.
ChainIsHistory ==
    damage = 0 =>
        /\ Verifies(rows)
        /\ {<<r.seq, r.event>> : r \in rows} = {<<n, committed[n]>> : n \in 1..Len(committed)}
        /\ \A t \in Tx : tx[t].at # "failed"

Positions(event) == {n \in 1..Len(committed) : committed[n] = event}
\* verify "detects a changed event, a removed event, a reordered or renumbered event and,
\* with a checkpoint, a chain cut short or replaced": of a chain that verifies, everything
\* up to each checkpoint is as it was then; and without a replaced tail every event is
\* genuine and in the order of the commits, whatever the program appended since.
DamageIsSeen ==
    VerifyOk =>
        /\ \A cp \in checkpoints : \A n \in 1..cp.seq :
              \E r \in rows : r.seq = n /\ cp.hash[n] = <<n, r.event>>
        /\ ~rewritten => \A r, q \in rows : \E i \in Positions(r.event), j \in Positions(q.event) :
              r.seq < q.seq => i < j
=============================================================================
