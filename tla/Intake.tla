-------------------------------- MODULE Intake --------------------------------
(***************************************************************************)
(* How tickets become runs: the poll loop (main.py), the list of new       *)
(* tickets it reads a page at a time (connectors/itsm/servicenow.py), the  *)
(* webhook (api/app.py), and the transaction both record a ticket in       *)
(* (ingest of service/runs.py).                                            *)
(*                                                                         *)
(* Tickets are numbers in the order of their creation, which is the order  *)
(* of the list.  While it is read tickets are opened, taken by the agent   *)
(* or by a person, and put back, so that an offset names another row.      *)
(* ServiceNow cuts a page before it leaves out what the agent may not see. *)
(***************************************************************************)
EXTENDS Naturals, Sequences, FiniteSets

CONSTANTS
    Ticket,      \* numbers
    Hidden,      \* those the integration user may not read
    PageSize,    \* SERVICENOW_PAGE_SIZE
    MaxPages,    \* SERVICENOW_MAX_PAGES
    Counted,     \* the instance sends X-Total-Count
    MaxMoves     \* bound: tickets taken and put back

VARIABLES
    ticket,      \* in ServiceNow: unopened, new or taken
    moves,       \* how much of MaxMoves is used up
    cycle,       \* the poller: what it does, and the page it reads next
    rows,        \* the tickets it has read and not yet recorded
    left,        \* how many tickets left the list while it was read
    steady,      \* those that were on it from the first page on, and are still
    writer,      \* the transactions of the poller and of a webhook: where they are, for whom
    recorded,    \* the incidents that are committed
    runs         \* how many runs each ticket has

vars == <<ticket, moves, cycle, rows, left, steady, writer, recorded, runs>>

Writer == {"poller", "webhook"}
Idle == [at |-> "idle", of |-> 0]
NoCycle == [at |-> "idle", page |-> 0]
New == {t \in Ticket : ticket[t] = "new"}

TypeOK ==
    /\ ticket \in [Ticket -> {"unopened", "new", "taken"}]
    /\ moves \in 0..MaxMoves
    /\ cycle \in [at: {"idle", "reading", "recording", "complete", "cut"}, page: 0..MaxPages]
    /\ rows \in Seq(Ticket)
    /\ left \in Nat
    /\ steady \subseteq Ticket
    /\ writer \in [Writer -> [at: {"idle", "given", "holds"}, of: Ticket \cup {0}]]
    /\ recorded \subseteq Ticket
    /\ runs \in [Ticket -> Nat]

Init ==
    /\ ticket = [t \in Ticket |-> "unopened"] /\ moves = 0
    /\ cycle = NoCycle /\ rows = <<>> /\ left = 0 /\ steady = {}
    /\ writer = [w \in Writer |-> Idle]
    /\ recorded = {} /\ runs = [t \in Ticket |-> 0]

-----------------------------------------------------------------------------
(* ServiceNow.                                                             *)

Open(t) ==
    /\ ticket[t] = "unopened" /\ \A u \in Ticket : u < t => ticket[u] # "unopened"
    /\ ticket' = [ticket EXCEPT ![t] = "new"]
    /\ UNCHANGED <<moves, cycle, rows, left, steady, writer, recorded, runs>>

\* A worker claims it for its run, or a person moves it on.
Take(t) ==
    /\ ticket[t] = "new" /\ moves < MaxMoves
    /\ ticket' = [ticket EXCEPT ![t] = "taken"]
    /\ moves' = moves + 1
    /\ left' = IF cycle.at = "reading" THEN left + 1 ELSE left
    /\ steady' = steady \ {t}
    /\ UNCHANGED <<cycle, rows, writer, recorded, runs>>

PutBack(t) ==
    /\ ticket[t] = "taken" /\ moves < MaxMoves
    /\ ticket' = [ticket EXCEPT ![t] = "new"]
    /\ moves' = moves + 1
    /\ UNCHANGED <<cycle, rows, left, steady, writer, recorded, runs>>

-----------------------------------------------------------------------------
(* The poller reads the list (get_new_incidents, _get_all).                *)

Begin ==
    /\ cycle.at \in {"idle", "complete", "cut"} /\ rows = <<>> /\ writer["poller"] = Idle
    /\ cycle' = [at |-> "reading", page |-> 0]
    /\ left' = 0
    /\ steady' = New \ Hidden
    /\ UNCHANGED <<ticket, moves, rows, writer, recorded, runs>>

\* The rows of a page, before and after access is controlled, and in the order of the list.
Rank(t) == Cardinality({u \in New : u < t})
Cut(page) == {t \in New : page * PageSize <= Rank(t) /\ Rank(t) < (page + 1) * PageSize}
Readable(batch) == batch \ Hidden
Ascending(batch) ==
    CHOOSE s \in [1..Cardinality(batch) -> batch] : \A i, j \in DOMAIN s : i < j => s[i] < s[j]

\* Mutant: a short page is the last one.
ShortPage(page, batch) == Cardinality(batch) < PageSize

\* The end is where the header says; without one a short page is the last.
Ends(page, batch) ==
    IF Counted THEN (page + 1) * PageSize >= Cardinality(New)
               ELSE Cardinality(batch) < PageSize

ReadPage ==
    /\ cycle.at = "reading"
    /\ LET batch == Readable(Cut(cycle.page))
           ended == Ends(cycle.page, batch)
           cut == ~ended /\ cycle.page + 1 = MaxPages IN
          /\ rows' = rows \o Ascending(batch)
          /\ cycle' = [at |-> IF cut THEN "cut" ELSE IF ended THEN "recording" ELSE "reading",
                       page |-> IF ended \/ cut THEN 0 ELSE cycle.page + 1]
          /\ steady' = IF cut THEN {} ELSE steady
    /\ UNCHANGED <<ticket, moves, left, writer, recorded, runs>>

\* What came is not a list: the reading ends there, and what was read is recorded.
NotAList ==
    /\ cycle.at = "reading"
    /\ cycle' = [at |-> "cut", page |-> 0] /\ steady' = {}
    /\ UNCHANGED <<ticket, moves, rows, left, writer, recorded, runs>>

\* A page cannot be read: the cycle is over.
Fail ==
    /\ cycle.at = "reading"
    /\ cycle' = NoCycle /\ rows' = <<>> /\ steady' = {}
    /\ UNCHANGED <<ticket, moves, left, writer, recorded, runs>>

-----------------------------------------------------------------------------
(* Recording (RunService.ingest), one transaction per ticket.              *)

RecordNext ==
    /\ cycle.at \in {"recording", "cut"} /\ rows # <<>> /\ writer["poller"] = Idle
    /\ writer' = [writer EXCEPT !["poller"] = [at |-> "given", of |-> Head(rows)]]
    /\ UNCHANGED <<ticket, moves, cycle, rows, left, steady, recorded, runs>>

\* Sent when a ticket is opened, and again by a sender that had no answer.
Deliver(t) ==
    /\ ticket[t] # "unopened" /\ writer["webhook"] = Idle
    /\ writer' = [writer EXCEPT !["webhook"] = [at |-> "given", of |-> t]]
    /\ UNCHANGED <<ticket, moves, cycle, rows, left, steady, recorded, runs>>

\* What is left when a transaction is over: the poller goes on to the next row.
Done(w) ==
    /\ writer' = [writer EXCEPT ![w] = Idle]
    /\ rows' = IF w = "poller" THEN Tail(rows) ELSE rows

\* Mutant: a ticket is looked for and not locked.
Always(w) == TRUE

\* The unique key: an insert waits while another transaction holds the same one.
Free(w) == \A v \in Writer \ {w} : writer[v].at = "holds" => writer[v].of # writer[w].of

\* ON CONFLICT DO NOTHING: the incident and its run, or nothing for a ticket that is known.
Insert(w) ==
    /\ writer[w].at = "given" /\ Free(w)
    /\ IF writer[w].of \in recorded
       THEN Done(w)
       ELSE writer' = [writer EXCEPT ![w].at = "holds"] /\ UNCHANGED rows
    /\ UNCHANGED <<ticket, moves, cycle, left, steady, recorded, runs>>

Commit(w) ==
    /\ writer[w].at = "holds"
    /\ recorded' = recorded \cup {writer[w].of}
    /\ runs' = [runs EXCEPT ![writer[w].of] = @ + 1]
    /\ Done(w)
    /\ UNCHANGED <<ticket, moves, cycle, left, steady>>

\* One ticket that cannot be recorded ends the cycle, and those behind it wait for the next.
RollBack(w) ==
    /\ writer[w].at # "idle"
    /\ writer' = [writer EXCEPT ![w] = Idle]
    /\ IF w = "poller"
       THEN cycle' = NoCycle /\ rows' = <<>> /\ steady' = {}
       ELSE UNCHANGED <<cycle, rows, steady>>
    /\ UNCHANGED <<ticket, moves, left, recorded, runs>>

Finish ==
    /\ cycle.at = "recording" /\ rows = <<>>
    /\ cycle' = [NoCycle EXCEPT !.at = "complete"]
    /\ UNCHANGED <<ticket, moves, rows, left, steady, writer, recorded, runs>>

Next ==
    \/ \E t \in Ticket : Open(t) \/ Take(t) \/ PutBack(t) \/ Deliver(t)
    \/ Begin \/ ReadPage \/ NotAList \/ Fail \/ RecordNext \/ Finish
    \/ \E w \in Writer : Insert(w) \/ Commit(w) \/ RollBack(w)

Spec == Init /\ [][Next]_vars

-----------------------------------------------------------------------------
\* A ticket has one run at most, however often and by whichever way it is delivered.
OneRunEach == \A t \in Ticket : runs[t] = (IF t \in recorded THEN 1 ELSE 0)

\* A cycle that read to the end and recorded what it read has passed over no more of the tickets
\* that were waiting all the while than left the list under it, hidden rows or not.
MissesFew == cycle.at = "complete" => Cardinality(steady \ recorded) <= left
=============================================================================
