------------------------------- MODULE Service -------------------------------
(***************************************************************************)
(* A process of the service, from its settings to its end (main.py;        *)
(* validate_security_config and the middleware of api; Database.create and *)
(* check_role_is_safe of db/engine.py; the demo-only switches of           *)
(* config/settings.py).                                                    *)
(*                                                                         *)
(* Some protections may be off in demo mode and some only with the         *)
(* listener on a loopback address; each is checked at another moment of    *)
(* start-up, and what an earlier check lets pass no later one looks at.    *)
(* Then the listener and the loops share connections that somebody has to  *)
(* close.                                                                  *)
(***************************************************************************)
EXTENDS Naturals, FiniteSets

CONSTANTS
    Given,       \* settings a process may be given
    Worker,      \* embedded workers (AGENT_MAX_CONCURRENT)
    PerMinute,   \* RATE_LIMIT_PER_MINUTE
    MaxSent,     \* bound: requests of a client in a minute
    Room,        \* clients the limiter remembers before it forgets some
    Client       \* addresses requests come from

VARIABLES
    at,          \* how far the process is
    settings,    \* what it was given, once it has read it
    stop,        \* `_stop`
    task,        \* the loops
    open,        \* what is connected
    misused,     \* somebody used what was closed
    windows,     \* the requests counted for each client in this minute, 0 for one not remembered
    sent         \* those it sent in this minute, and those of them that were let through

vars == <<at, settings, stop, task, open, misused, windows, sent>>

Loops == Worker \cup {"poller", "knowledge"}
Resources == {"itsm", "provider", "identity", "hub", "database"}
Stages == {"new", "read", "checked", "connected", "built", "serving", "draining", "closing",
           "ended", "refused"}

\* off: a protection, TLS verification among them, that is switched off.
\* mocks: RUNNER_MOCK_CONNECTORS.  live: SERVICENOW_LIVE_IN_DEMO.
Settings ==
    [demo: BOOLEAN, off: BOOLEAN, mocks: BOOLEAN, live: BOOLEAN, embedded: BOOLEAN,
     secret: {"none", "short", "long"}, sign_in: BOOLEAN, loopback: BOOLEAN,
     database: {"none", "sqlite", "postgres"}, role: {"application", "owner"},
     runner: {"embedded", "unsigned", "signed"}]
Unset == [demo |-> FALSE, off |-> FALSE, mocks |-> FALSE, live |-> FALSE, embedded |-> FALSE,
          secret |-> "none", sign_in |-> FALSE, loopback |-> FALSE, database |-> "none",
          role |-> "application", runner |-> "embedded"]

TypeOK ==
    /\ at \in Stages /\ settings \in Settings /\ stop \in BOOLEAN
    /\ task \in [Loops -> {"none", "resting", "busy", "over"}]
    /\ open \subseteq Resources /\ misused \in BOOLEAN
    /\ windows \in [Client -> 0..MaxSent]
    /\ sent \in [Client -> [all: 0..MaxSent, through: 0..MaxSent]]

NotSent == [all |-> 0, through |-> 0]
Init ==
    /\ at = "new" /\ settings = Unset /\ stop = FALSE
    /\ task = [l \in Loops |-> "none"]
    /\ open = {} /\ misused = FALSE
    /\ windows = [c \in Client |-> 0] /\ sent = [c \in Client |-> NotSent]

-----------------------------------------------------------------------------
(* Start-up.                                                               *)

Goes(passes, next) == at' = IF passes THEN next ELSE "refused"

\* Settings.from_env: demo_only_off, and _runner_settings.
Read ==
    /\ at = "new"
    /\ \E s \in Given :
          /\ settings' = s
          /\ Goes((s.off \/ s.mocks) => s.demo, "read")
    /\ UNCHANGED <<stop, task, open, misused, windows, sent>>

DemoOpen == settings.demo /\ ~settings.sign_in
WebhookOpen == settings.demo /\ settings.secret = "none"

\* Mutant: only the API counts as a way in.
WaysInForPeople == DemoOpen
WaysIn == DemoOpen \/ WebhookOpen

\* validate_security_config.
Check ==
    /\ at = "read"
    /\ Goes(/\ settings.secret # "short"
            /\ IF settings.demo THEN WaysIn => settings.loopback ELSE settings.secret # "none",
            "checked")
    /\ UNCHANGED <<settings, stop, task, open, misused, windows, sent>>

\* Database.create, then the role and the tenant; a demo makes itself a database.
Connect ==
    /\ at = "checked"
    /\ LET postgres == settings.database = "postgres" IN
       Goes(/\ settings.demo \/ postgres
            /\ postgres => settings.role = "application",
            "connected")
    /\ open' = IF at' = "connected" THEN {"database"} ELSE {}
    /\ UNCHANGED <<settings, stop, task, misused, windows, sent>>

Live == ~settings.demo \/ settings.live

\* The rest of setup: with a runner elsewhere calls are signed, or none are made.
Build ==
    /\ at = "connected"
    /\ Goes(settings.runner # "unsigned", "built")
    /\ open' = IF at' = "built"
               THEN {"database", "itsm", "hub", "provider"}
                    \cup (IF settings.sign_in THEN {"identity"} ELSE {})
               ELSE open
    /\ UNCHANGED <<settings, stop, task, misused, windows, sent>>

\* start: the loops, then the listener.
Serve ==
    /\ at = "built"
    /\ at' = "serving"
    /\ task' = [l \in Loops |->
                  IF \/ l \in Worker /\ settings.embedded
                     \/ l = "poller" /\ Live
                     \/ l = "knowledge" /\ ~settings.demo
                  THEN "resting" ELSE "none"]
    /\ UNCHANGED <<settings, stop, open, misused, windows, sent>>

-----------------------------------------------------------------------------
(* The loops: run_worker, _poll_loop, _knowledge_loop.                     *)

Needs(l) ==
    IF l \in Worker THEN {"database", "itsm", "hub", "provider"}
    ELSE IF l = "poller" THEN {"database", "itsm"} ELSE {"database", "itsm", "hub", "provider"}

\* A loop looks at `_stop` between two turns, and an error ends a turn and not the loop.
Begin(l) ==
    /\ task[l] = "resting" /\ ~stop
    /\ task' = [task EXCEPT ![l] = "busy"]
    /\ UNCHANGED <<at, settings, stop, open, misused, windows, sent>>
Work(l) ==
    /\ task[l] = "busy"
    /\ misused' = (misused \/ ~(Needs(l) \subseteq open))
    /\ task' = [task EXCEPT ![l] = "resting"]
    /\ UNCHANGED <<at, settings, stop, open, windows, sent>>
Leave(l) ==
    /\ task[l] = "resting" /\ stop
    /\ task' = [task EXCEPT ![l] = "over"]
    /\ UNCHANGED <<at, settings, stop, open, misused, windows, sent>>

-----------------------------------------------------------------------------
(* The end (the finally of start, close).                                  *)

\* SIGINT or SIGTERM: the listener returns, and everybody is told.
Signal ==
    /\ at = "serving"
    /\ at' = "draining" /\ stop' = TRUE
    /\ UNCHANGED <<settings, task, open, misused, windows, sent>>

\* Mutant: nobody is waited for.
Ignored == TRUE
Drained == \A l \in Loops : task[l] \in {"none", "over"}

Drain ==
    /\ at = "draining" /\ Drained
    /\ at' = "closing"
    /\ UNCHANGED <<settings, stop, task, open, misused, windows, sent>>

\* One after the other, the database last; what does not close ends it all.
Order == <<"itsm", "provider", "identity", "hub", "database">>
Close ==
    /\ at = "closing"
    /\ IF open = {}
       THEN at' = "ended" /\ UNCHANGED open
       ELSE LET next == CHOOSE i \in DOMAIN Order :
                           /\ Order[i] \in open
                           /\ \A j \in 1..(i - 1) : Order[j] \notin open
            IN \/ open' = open \ {Order[next]} /\ UNCHANGED at
               \/ at' = "ended" /\ UNCHANGED open
    /\ UNCHANGED <<settings, stop, task, misused, windows, sent>>

-----------------------------------------------------------------------------
(* RateLimitMiddleware.                                                    *)

\* Mutant: a full table is emptied.
Forgotten(counts) == [c \in Client |-> 0]

\* Only clients of earlier minutes are forgotten, and they start again in any case.
Remembered(counts) == counts

Request(c) ==
    /\ at = "serving" /\ sent[c].all < MaxSent
    /\ LET counts == [windows EXCEPT ![c] = @ + 1] IN
          /\ windows' = IF Cardinality({d \in Client : counts[d] > 0}) > Room
                        THEN Remembered(counts) ELSE counts
          /\ sent' = [sent EXCEPT ![c] =
                         [all |-> @.all + 1,
                          through |-> IF counts[c] <= PerMinute THEN @.through + 1 ELSE @.through]]
    /\ UNCHANGED <<at, settings, stop, task, open, misused>>

NextMinute ==
    /\ sent # [c \in Client |-> NotSent]
    /\ windows' = [c \in Client |-> 0] /\ sent' = [c \in Client |-> NotSent]
    /\ UNCHANGED <<at, settings, stop, task, open, misused>>

Next ==
    \/ Read \/ Check \/ Connect \/ Build \/ Serve
    \/ \E l \in Loops : Begin(l) \/ Work(l) \/ Leave(l)
    \/ Signal \/ Drain \/ Close
    \/ \E c \in Client : Request(c)
    \/ NextMinute

Spec == Init /\ [][Next]_vars

-----------------------------------------------------------------------------
\* Who is let in without a credential sits at the same machine and sees a demo, and outside a
\* demo nothing that protects is off.
ServesSafely ==
    at = "serving" =>
        /\ DemoOpen \/ WebhookOpen => settings.demo /\ settings.loopback
        /\ ~settings.demo =>
              /\ ~settings.off /\ ~settings.mocks
              /\ settings.secret = "long"
              /\ settings.database = "postgres" /\ settings.role = "application"
        /\ settings.database = "postgres" => settings.role = "application"

\* No loop uses what was closed, and a client is let through so often in a minute and no more.
UsesWhatIsOpen == ~misused
Limited == \A c \in Client : sent[c].through <= PerMinute
=============================================================================
