---------------------------- MODULE Connections ----------------------------
(***************************************************************************)
(* What a process holds of the connections a tenant has saved: the client  *)
(* for ServiceNow (connectors/itsm/handle.py) or the set of connectors of  *)
(* the hub (connectors/hub.py).  Every use looks at the database again, at *)
(* most once in Refresh, and what is held is exchanged when the saved      *)
(* connections have changed.  Between two awaits nothing else runs; at an  *)
(* await any other task may.  Times are ages.                              *)
(***************************************************************************)
EXTENDS Naturals

CONSTANTS
    Caller,     \* tasks that use what is held: the poller, workers, requests
    Content,    \* connections that may be saved
    Broken,     \* of them, those no client can be built from
    Refresh,    \* REFRESH_SECONDS
    Delay       \* the longest a reload takes

VARIABLES
    holder,     \* "handle" or "hub": the two do not share anything
    saved,      \* connections: what is saved and enabled
    checked,    \* how long ago what is held was looked up (_checked_at)
    noted,      \* the digest of what is held
    held,       \* the client, or the set of connectors
    call,       \* where each caller is
    age,        \* for the properties: how long ago each content was the saved one
    together    \* for the properties: reloads of the handle ran side by side

vars == <<holder, saved, checked, noted, held, call, age, together>>

Nothing == "nothing"        \* no connection is saved
NoClient == "no client"
Fallback == "environment"   \* the client from the environment
Unbuilt == "unbuilt"        \* the hub has no entry for the tenant

Saved == Content \cup {Nothing}
Idle == [at |-> "idle", since |-> 0, had |-> Unbuilt, found |-> Nothing, replaced |-> FALSE, got |-> NoClient]

TypeOK ==
    /\ saved \in Saved /\ checked \in 0..Refresh
    /\ noted \in Saved \cup {Unbuilt} /\ held \in Content \cup {Nothing, NoClient, Unbuilt}
    /\ \A c \in Caller : /\ call[c].at \in {"idle", "reading", "found", "closing", "given"}
                         /\ call[c].since \in 0..Delay
                         /\ call[c].got \in Content \cup {Nothing, NoClient, Fallback}
    /\ age \in [Saved -> 0..Refresh] /\ age[saved] = 0

Init ==
    /\ holder \in {"handle", "hub"}
    /\ saved = Nothing /\ checked = Refresh
    /\ noted = IF holder = "hub" THEN Unbuilt ELSE Nothing
    /\ held = IF holder = "hub" THEN Unbuilt ELSE NoClient
    /\ call = [c \in Caller |-> Idle]
    /\ age = [s \in Saved |-> IF s = Nothing THEN 0 ELSE Refresh]
    /\ together = FALSE

Older(n) == IF n < Refresh THEN n + 1 ELSE n
Reloading == {c \in Caller : call[c].at \in {"reading", "found", "closing"}}

Tick ==
    /\ \A c \in Reloading : call[c].since < Delay
    /\ call' = [c \in Caller |-> IF c \in Reloading THEN [call[c] EXCEPT !.since = @ + 1] ELSE call[c]]
    /\ checked' = Older(checked)
    /\ age' = [s \in Saved |-> IF s = saved THEN 0 ELSE Older(age[s])]
    /\ UNCHANGED <<holder, saved, noted, held, together>>

\* A connection is saved, changed, disabled or removed.
Save ==
    /\ saved' \in Saved \ {saved}
    /\ age' = [age EXCEPT ![saved'] = 0]
    /\ UNCHANGED <<holder, checked, noted, held, call, together>>

\* The process that saved it looks again on the next use; the others do not.
Forget ==
    /\ holder = "hub" /\ noted # Unbuilt
    /\ checked' = Refresh
    /\ UNCHANGED <<holder, saved, noted, held, call, age, together>>

-----------------------------------------------------------------------------
Give(c, value) == call' = [call EXCEPT ![c] = [Idle EXCEPT !.at = "given", !.got = value]]

\* current: a saved connection that is broken does not fall back.
Current(digest, client) == IF holder = "handle" /\ digest = Nothing THEN Fallback ELSE client
ClientOf(content) == IF content \in Broken THEN NoClient ELSE content

\* A test of the ServiceNow connection forces a reload.
Use(c, force) ==
    /\ call[c].at = "idle" /\ (force => holder = "handle")
    /\ IF ~force /\ checked < Refresh
       THEN Give(c, Current(noted, held)) /\ UNCHANGED together
       ELSE /\ call' = [call EXCEPT ![c] = [Idle EXCEPT !.at = "reading", !.had = noted]]
            /\ together' = (together \/ (holder = "handle" /\ Reloading # {}))
    /\ UNCHANGED <<holder, saved, checked, noted, held, age>>

Read(c) ==
    /\ call[c].at = "reading"
    /\ call' = [call EXCEPT ![c].at = "found", ![c].found = saved]
    /\ UNCHANGED <<holder, saved, checked, noted, held, age, together>>

\* Mutant: from the moment it is there.
FromItsAnswer(c) == 0

\* Whatever is found is as old as the question.
LookedUp(c) == call[c].since

\* The handle compares with what it notes now, and puts its client away before it closes it.
UnchangedClient(c) ==
    /\ call[c].found = noted
    /\ checked' = LookedUp(c)
    /\ Give(c, Current(noted, held))
    /\ UNCHANGED <<noted, held>>

ChangedClient(c) ==
    /\ call[c].found # noted
    /\ checked' = LookedUp(c) /\ noted' = call[c].found
    /\ IF held = NoClient
       THEN held' = (IF noted' = Nothing THEN NoClient ELSE ClientOf(noted')) /\ Give(c, Current(noted', held'))
       ELSE held' = NoClient /\ call' = [call EXCEPT ![c].at = "closing"]

BuildClient(c) ==
    /\ held' = IF call[c].found \in Broken \cup {Nothing} THEN held ELSE call[c].found
    /\ Give(c, Current(noted, held'))
    /\ UNCHANGED <<checked, noted>>

\* The hub compares with the entry it began with, which others may have replaced since, and
\* everyone goes on with that entry until the connectors in it are closed.
UnchangedSet(c) ==
    /\ call[c].found = call[c].had
    /\ checked' = IF call[c].replaced THEN checked ELSE LookedUp(c)
    /\ Give(c, call[c].had)
    /\ UNCHANGED <<noted, held>>

Install(c) ==
    /\ checked' = LookedUp(c) /\ noted' = call[c].found /\ held' = call[c].found
    /\ call' = [o \in Caller |->
                  IF o = c THEN [Idle EXCEPT !.at = "given", !.got = call[c].found]
                  ELSE [call[o] EXCEPT !.replaced = o \in Reloading]]

CloseSet(c) ==
    /\ call' = [call EXCEPT ![c].at = "closing"]
    /\ UNCHANGED <<checked, noted, held>>

ChangedSet(c) ==
    /\ call[c].found # call[c].had
    /\ IF call[c].had = Unbuilt THEN Install(c) ELSE CloseSet(c)

Compare(c) ==
    /\ call[c].at = "found"
    /\ IF holder = "handle" THEN UnchangedClient(c) \/ ChangedClient(c)
                            ELSE UnchangedSet(c) \/ ChangedSet(c)
    /\ UNCHANGED <<holder, saved, age, together>>

Exchange(c) ==
    /\ call[c].at = "closing"
    /\ IF holder = "handle" THEN BuildClient(c) ELSE Install(c)
    /\ UNCHANGED <<holder, saved, age, together>>

Take(c) ==
    /\ call[c].at = "given"
    /\ call' = [call EXCEPT ![c] = Idle]
    /\ UNCHANGED <<holder, saved, checked, noted, held, age, together>>

Next ==
    \/ Tick \/ Save \/ Forget
    \/ \E c \in Caller : (\E force \in BOOLEAN : Use(c, force)) \/ Read(c)
    \/ \E c \in Caller : Compare(c) \/ Exchange(c) \/ Take(c)

Spec == Init /\ [][Next]_vars

-----------------------------------------------------------------------------
\* The contents that an answer stands for.
Meant(value) ==
    CASE value = Fallback -> {Nothing}
      [] value = NoClient -> Broken
      [] OTHER -> {value}

\* "Re-read every few seconds, so that what was entered takes effect without a restart and a
\* removed connection stops being used": what a caller is given was saved within the last
\* Refresh, by the hub whatever runs at the same time, by the handle as long as no two of its
\* reloads do.  Only a caller that comes while the client is exchanged is told there is none.
InUseAsSaved ==
    [][\A c \in Caller :
        call[c].at # "given" /\ call'[c].at = "given" /\ ~together =>
            \/ \E s \in Meant(call'[c].got) : age[s] < Refresh
            \/ call'[c].got = NoClient /\ \E o \in Caller : call[o].at = "closing"]_vars
=============================================================================
