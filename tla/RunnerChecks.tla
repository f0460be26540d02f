---------------------------- MODULE RunnerChecks ----------------------------
(***************************************************************************)
(* What a runner checks before it makes a call it was handed               *)
(* (runner/agent.py, runner/ceiling.py, GrantCheck of                      *)
(* connectors/sdk/grant.py, _invoke_write of connectors/sdk/base.py).      *)
(*                                                                         *)
(* The calls of one poll run as tasks of one event loop.  A task is        *)
(* interrupted only where it awaits, and from the checks of a call to its  *)
(* grant that is where the connector of other settings is closed.  A call  *)
(* may be handed over again, to another process of the runner as well, and *)
(* what is handed over may be forged.                                      *)
(***************************************************************************)
EXTENDS Naturals, FiniteSets

CONSTANTS
    Call,        \* what the control plane signed, by call id
    Envelope,    \* what it says: kind, tier, target, settings, grant, expires
    Grant,       \* what the policy engine signed: for which call, expires
    MaxTier,     \* RUNNER_MAX_TIER
    Targets,     \* the runner's own list
    Inside,      \* settings whose credentials are where the runner may read them
    Local,       \* settings of a connection of the runner's own, or None
    Usable,      \* settings a connector can be built from
    Limit,       \* SEEN_LIMIT
    MaxTime,     \* bound
    MaxLives,    \* bound: processes
    None

VARIABLES
    clock,
    life,        \* how many processes of the runner there have been
    switch,      \* RUNNER_KILL_SWITCH_FILE is there
    seen,        \* `_seen`: the calls accepted, which are kept until they expire
    redeemed,    \* the grants accepted
    held,        \* the settings of the connector that is held
    task,        \* a call under way waits for the held connector to close
    made         \* calls made by this process: over which settings, by which grant, past a switch

vars == <<clock, life, switch, seen, redeemed, held, task, made>>

Settings == {Envelope[c].settings : c \in Call} \cup {Local, None}
Grants == DOMAIN Grant \cup {None}

TypeOK ==
    /\ clock \in 0..MaxTime /\ life \in 1..MaxLives
    /\ switch \in BOOLEAN
    /\ seen \subseteq Call /\ redeemed \subseteq DOMAIN Grant
    /\ held \in Settings
    /\ task \in [Call -> {"idle", "closing"}]
    /\ made \subseteq [call: Call, settings: Settings, grant: Grants, stopped: BOOLEAN, nth: 1..2]

Init ==
    /\ clock = 0 /\ life = 1 /\ switch = FALSE
    /\ seen = {} /\ redeemed = {} /\ held = None
    /\ task = [c \in Call |-> "idle"]
    /\ made = {}

Tick ==
    /\ clock < MaxTime
    /\ clock' = clock + 1
    /\ UNCHANGED <<life, switch, seen, redeemed, held, task, made>>

\* An operator creates the file, or removes it.
Throw ==
    /\ switch' = ~switch
    /\ UNCHANGED <<clock, life, seen, redeemed, held, task, made>>

-----------------------------------------------------------------------------
(* The ceiling (Ceiling.refuse).                                           *)

IsWrite(c) == Envelope[c].kind = "write"

\* Target lists: for a read the runner need not have one.
OnList(c) == IF Targets = None THEN ~IsWrite(c) ELSE Envelope[c].target \in Targets

\* _refuse_references: the runner's own connection is used whatever the call says.
MayRead(c) == Local # None \/ Envelope[c].settings \in Inside

\* A connection test reads credentials and has no tier and no target.
WithinCeiling(c) ==
    /\ Envelope[c].kind # "test" =>
          /\ Envelope[c].tier <= MaxTier
          /\ IsWrite(c) => ~switch
          /\ OnList(c)
    /\ MayRead(c)

-----------------------------------------------------------------------------
(* The grant (_Verifier.redeem, GrantCheck.redeem).                        *)

\* Mutant: the switch was read when the call came.
ReadBefore == TRUE
NotStopped == ~switch

Good(c) ==
    LET g == Envelope[c].grant IN
    /\ g # None
    /\ clock < Grant[g].expires
    /\ Grant[g].for = Envelope[c].of
    /\ g \notin redeemed

-----------------------------------------------------------------------------
(* A call (_make).                                                         *)

\* The settings a connector for the call is built from.
ToUse(c) == IF Local # None THEN Local ELSE Envelope[c].settings

\* Mutant: one connector of a kind serves every connection.
HeldAny(c) == held # None

\* The connector held is the one for these settings.
HeldFor(c) == held = ToUse(c)

\* Connector.invoke: a read at once; a write, once its grant is redeemed.
Nth(c) == IF \E m \in made : m.call = c THEN 2 ELSE 1
Made(c, grant) ==
    made' = made \cup {[call |-> c, settings |-> held', grant |-> grant, stopped |-> switch,
                        nth |-> Nth(c)]}
Invoke(c) ==
    IF IsWrite(c)
    THEN IF NotStopped /\ Good(c)
         THEN redeemed' = redeemed \cup {Envelope[c].grant} /\ Made(c, Envelope[c].grant)
         ELSE UNCHANGED <<redeemed, made>>
    ELSE Made(c, None) /\ UNCHANGED redeemed

\* A connector is built, or the call is refused and what was held stays noted.
Build(c) ==
    IF ToUse(c) \in Usable
    THEN held' = ToUse(c) /\ Invoke(c)
    ELSE UNCHANGED <<held, redeemed, made>>

\* Mutant: a full table is emptied.
Emptied == {}

\* What is left of the calls seen when there is no room: those that have not expired.
Kept == {c \in seen : Envelope[c].expires > clock}
Noted(c) == (IF Cardinality(seen) >= Limit THEN Kept ELSE seen) \cup {c}

\* _envelope_problem: signed, under its own id, not expired and not seen.
Receive(c, signed, under) ==
    /\ task[c] = "idle"
    /\ signed /\ under = c
    /\ clock < Envelope[c].expires
    /\ c \notin seen
    /\ seen' = Noted(c)
    /\ IF ~WithinCeiling(c)
       THEN UNCHANGED <<held, redeemed, made, task>>
       ELSE IF HeldFor(c)
            THEN UNCHANGED <<held, task>> /\ Invoke(c)
            ELSE IF held = None
                 THEN Build(c) /\ UNCHANGED task
                 ELSE task' = [task EXCEPT ![c] = "closing"] /\ UNCHANGED <<held, redeemed, made>>
    /\ UNCHANGED <<clock, life, switch>>

Closed(c) ==
    /\ task[c] = "closing"
    /\ Build(c)
    /\ task' = [task EXCEPT ![c] = "idle"]
    /\ UNCHANGED <<clock, life, switch, seen>>

\* The process is replaced: what it had accepted is forgotten.
Restart ==
    /\ life < MaxLives
    /\ life' = life + 1
    /\ seen' = {} /\ redeemed' = {} /\ held' = None
    /\ task' = [c \in Call |-> "idle"]
    /\ made' = {}
    /\ UNCHANGED <<clock, switch>>

Next ==
    \/ Tick \/ Throw \/ Restart
    \/ \E c, under \in Call, signed \in BOOLEAN : Receive(c, signed, under)
    \/ \E c \in Call : Closed(c)

Spec == Init /\ [][Next]_vars

-----------------------------------------------------------------------------
\* One process makes a call once and no two writes by one grant, over the settings of that call
\* or the runner's own, and no write past a switch that was thrown while it waited.
MadeOnce ==
    /\ \A m \in made : m.nth = 1
    /\ \A m, n \in made : m # n /\ m.grant # None => m.grant # n.grant
MadeAsSent ==
    \A m \in made : m.settings = ToUse(m.call) /\ (Local # None \/ m.settings \in Inside)
StopIsHeard == \A m \in made : IsWrite(m.call) => ~m.stopped
=============================================================================
