------------------------------ MODULE EventStream ------------------------------
(***************************************************************************)
(* Live events on the dashboard: the events that runs write                *)
(* (write_event, DbEventBus of service/runs.py), the stream that reads     *)
(* them by ascending id (stream of api/app.py, events_after), and the page *)
(* that keeps itself connected (frontend hooks/useActivityStream.js).      *)
(*                                                                         *)
(* An event has its id before its transaction commits, so that ids become  *)
(* visible out of order.  A connection may die without either side being   *)
(* told.  The page stays open.                                             *)
(***************************************************************************)
EXTENDS Naturals, Sequences, FiniteSets, FiniteSetsExt

CONSTANTS
    MaxEvents,   \* bound
    Limit,       \* rows read at once
    Beat,        \* STREAM_HEARTBEAT_SECONDS
    Timeout,     \* HEARTBEAT_TIMEOUT_MS
    Watch,       \* how often the watchdog looks
    RetryMax     \* RETRY_MAX_MS

VARIABLES
    event,       \* by id: none, open (not committed), committed or aborted
    feed,        \* the server's side of a stream: whether it runs, last, quiet
    start,       \* the id it began after
    sent,        \* the ids it sent, in order
    late,        \* those that were committed after a higher one was sent
    wire,        \* whether what is sent arrives
    page,        \* `es`: none, connecting, open or closed, and isConnected
    beat,        \* how long ago the page heard from the server, or began to connect
    sources,     \* event sources that are not closed
    timers,      \* retries that are scheduled
    waited       \* how long ago one was

vars == <<event, feed, start, sent, late, wire, page, beat, sources, timers, waited>>

Id == 1..MaxEvents
Committed == {e \in Id : event[e] = "committed"}
Latest == Max(Committed \cup {0})
NoFeed == [on |-> FALSE, last |-> 0, quiet |-> 0]

TypeOK ==
    /\ event \in [Id -> {"none", "open", "committed", "aborted"}]
    /\ feed \in [on: BOOLEAN, last: 0..MaxEvents, quiet: 0..Beat]
    /\ start \in 0..MaxEvents
    /\ sent \in Seq(Id) /\ late \subseteq Id
    /\ wire \in {"whole", "cut"}
    /\ page \in [es: {"none", "connecting", "open", "closed"}, connected: BOOLEAN]
    /\ beat \in 0..(Timeout + Watch + 1)
    /\ sources \in Nat /\ timers \in Nat /\ waited \in 0..RetryMax

Init ==
    /\ event = [e \in Id |-> "none"]
    /\ feed = NoFeed /\ start = 0 /\ sent = <<>> /\ late = {}
    /\ wire = "whole"
    /\ page = [es |-> "connecting", connected |-> FALSE]
    /\ beat = 0 /\ sources = 1 /\ timers = 0 /\ waited = 0

server == <<feed, start, sent>>
client == <<page, beat, sources, timers, waited>>

-----------------------------------------------------------------------------
(* Events: a transaction draws an id, and commits or not.                  *)

Write(e) ==
    /\ event[e] = "none" /\ \A d \in Id : d < e => event[d] # "none"
    /\ event' = [event EXCEPT ![e] = "open"]
    /\ UNCHANGED <<server, late, wire, client>>

Settle(e) ==
    /\ event[e] = "open"
    /\ \E how \in {"committed", "aborted"} : event' = [event EXCEPT ![e] = how]
    /\ late' = IF feed.on /\ feed.last > e THEN late \cup {e} ELSE late
    /\ UNCHANGED <<server, wire, client>>

-----------------------------------------------------------------------------
(* The stream.                                                             *)

Above(after) == {e \in Committed : e > after}

\* Mutant: the newest rows are read.
Newest(after) ==
    {e \in Above(after) : Cardinality({d \in Above(after) : d > e}) < Limit}

\* events_after: the lowest ids above the last one.
Rows(after) ==
    {e \in Above(after) : Cardinality({d \in Above(after) : d < e}) < Limit}

\* ORDER BY id
Ascending(ids) ==
    CHOOSE s \in [1..Cardinality(ids) -> ids] : \A i, j \in DOMAIN s : i < j => s[i] < s[j]

\* The request arrives: it begins after the latest event, with a heartbeat.
Accept ==
    /\ page.es = "connecting" /\ wire = "whole"
    /\ feed' = [on |-> TRUE, last |-> Latest, quiet |-> 0]
    /\ start' = Latest /\ sent' = <<>> /\ late' = {}
    /\ page' = [es |-> "open", connected |-> TRUE]
    /\ beat' = 0
    /\ UNCHANGED <<event, wire, sources, timers, waited>>

\* One turn of the loop, once in a unit of time: rows, or a heartbeat when it was quiet.
Turn ==
    LET rows == Rows(feed.last)
        quiet == IF rows = {} THEN feed.quiet + 1 ELSE 0 IN
    /\ feed' = [feed EXCEPT !.last = IF rows = {} THEN @ ELSE Max(rows),
                            !.quiet = IF quiet >= Beat THEN 0 ELSE quiet]
    /\ sent' = sent \o Ascending(rows)
    /\ beat' = IF rows # {} \/ quiet >= Beat THEN 0 ELSE beat + 1
    /\ UNCHANGED start

-----------------------------------------------------------------------------
(* The page.                                                               *)

\* scheduleRetry
ScheduleRetry(pending) == timers' = pending + 1 /\ waited' = 0

\* The timer runs out: connect.
Retry ==
    /\ timers > 0
    /\ timers' = timers - 1 /\ sources' = sources + 1
    /\ page' = [page EXCEPT !.es = "connecting"]
    /\ beat' = 0
    /\ wire' = "whole"
    /\ UNCHANGED <<event, server, late, waited>>

\* onerror: the source is closed, and `es` goes on naming it.
OnError ==
    /\ page.es \in {"connecting", "open"}
    /\ page' = [es |-> "closed", connected |-> FALSE]
    /\ sources' = sources - 1
    /\ ScheduleRetry(timers)
    /\ feed' = NoFeed
    /\ UNCHANGED <<event, start, sent, late, wire, beat>>

\* Nothing arrives any more, and nobody is told.
CutWire ==
    /\ page.es \in {"connecting", "open"} /\ wire = "whole"
    /\ wire' = "cut" /\ feed' = NoFeed
    /\ UNCHANGED <<event, start, sent, late, client>>

\* Mutant: a retry that is scheduled is left alone.
Kept == timers

\* clearTimeout
Cleared == 0

\* The watchdog: nothing was heard for too long.
Stale == page.es # "none" /\ beat > Timeout
GiveUp ==
    /\ Stale
    /\ page' = [es |-> "none", connected |-> FALSE]
    /\ sources' = IF page.es = "closed" THEN sources ELSE sources - 1
    /\ ScheduleRetry(Cleared)
    /\ feed' = NoFeed
    /\ UNCHANGED <<event, start, sent, late, wire, beat>>

\* Timers are on time, and the watchdog looks every so often.
Tick ==
    /\ timers > 0 => waited < RetryMax
    /\ Stale => beat < Timeout + Watch
    /\ waited' = IF timers > 0 THEN waited + 1 ELSE waited
    /\ IF feed.on THEN Turn
       ELSE beat' = (IF page.es = "none" THEN beat ELSE beat + 1) /\ UNCHANGED server
    /\ UNCHANGED <<event, late, wire, page, sources, timers>>

Next ==
    \/ \E e \in Id : Write(e) \/ Settle(e)
    \/ Accept \/ Retry \/ OnError \/ CutWire \/ GiveUp \/ Tick

Spec == Init /\ [][Next]_vars

-----------------------------------------------------------------------------
\* Events are shown in the order of their ids and once, and one that was passed over had not
\* been committed when a later one was shown.
InOrder ==
    /\ \A i, j \in DOMAIN sent : i < j => sent[i] < sent[j]
    /\ feed.on => \A e \in Committed :
          start < e /\ e < feed.last => e \in late \/ \E i \in DOMAIN sent : sent[i] = e

\* A page that says it is connected has heard from the server within the time-out and one look
\* of the watchdog, and one that hears is not given up.
HeardLately ==
    /\ page.connected => beat <= Timeout + Watch
    /\ feed.on => beat < Timeout

\* The page is connected, connecting or about to, in one way and never in two.
AlwaysTrying == sources + timers = 1
=============================================================================
