------------------------------ MODULE Sessions ------------------------------
(***************************************************************************)
(* Signing in and staying signed in: the login state between the redirect  *)
(* and the callback, the session, and the requests that use it             *)
(* (auth/store.py; the sign-in routes of api/app.py; authenticate of       *)
(* api/access.py).                                                         *)
(*                                                                         *)
(* A browser may send a callback twice, and several requests at once.  A   *)
(* request reads the session and writes its last use in one transaction,   *)
(* but the write carries the moment the request began and has no condition *)
(* of its own, so a slow one may put an older moment back.  The unit of    *)
(* time is half a minute.                                                  *)
(***************************************************************************)
EXTENDS Naturals, FiniteSets

CONSTANTS
    Callback,   \* callbacks that bring the same state
    Request,    \* requests under way at the same time
    StateLife,  \* LOGIN_STATE_MINUTES
    Idle,       \* SESSION_IDLE_MINUTES
    Granule,    \* last use is written when it is more than 60 seconds old
    Life,       \* SESSION_HOURS
    Delay,      \* bound: how long a transaction takes
    MaxTime     \* bound

VARIABLES
    clock,
    login,      \* the login state: its expiry, or 0
    mapped,     \* a role is mapped to a group of the person
    callback,   \* where each callback is
    session,    \* the session each callback made
    request,    \* the requests: moment they began, whether they will write
    used,       \* the last moment a session was really used
    verdict     \* the last answer about a session

vars == <<clock, login, mapped, callback, session, request, used, verdict>>

NoSession == [at |-> "none", seen |-> 0, expires |-> 0]
NoRequest == [at |-> "none", began |-> 0, write |-> FALSE]
NoVerdict == [answer |-> "none", unused |-> 0]

TypeOK ==
    /\ clock \in 1..MaxTime
    /\ login \in 0..(MaxTime + StateLife)
    /\ mapped \in BOOLEAN
    /\ callback \in [Callback -> {"none", "exchanging", "granted", "refused", "signed_in"}]
    /\ session \in [Callback -> [at: {"none", "open", "revoked"}, seen: 0..MaxTime,
                                 expires: 0..(MaxTime + Life)]]
    /\ request \in [Callback \X Request ->
                       [at: {"none", "read"}, began: 0..MaxTime, write: BOOLEAN]]
    /\ used \in [Callback -> 0..MaxTime]
    /\ verdict \in [answer: {"none", "served", "refused"}, unused: 0..MaxTime]

Init ==
    /\ clock = 1
    /\ login = 0 /\ mapped \in BOOLEAN
    /\ callback = [c \in Callback |-> "none"]
    /\ session = [c \in Callback |-> NoSession]
    /\ request = [q \in Callback \X Request |-> NoRequest]
    /\ used = [c \in Callback |-> 0]
    /\ verdict = NoVerdict

\* A transaction ends within Delay.
Tick ==
    /\ clock < MaxTime
    /\ \A q \in DOMAIN request : request[q].at = "read" => clock - request[q].began < Delay
    /\ clock' = clock + 1
    /\ UNCHANGED <<login, mapped, callback, session, request, used, verdict>>

Map ==
    /\ mapped' = ~mapped
    /\ UNCHANGED <<clock, login, callback, session, request, used, verdict>>

-----------------------------------------------------------------------------
(* Sign-in.                                                                *)

\* oidc_login, saml_login: the state is stored, for SAML with the id of its request.
StartLogin ==
    /\ login = 0 /\ \A c \in Callback : callback[c] = "none"
    /\ login' = clock + StateLife
    /\ UNCHANGED <<clock, mapped, callback, session, request, used, verdict>>

\* Mutant: the state is looked up and left for the purge.
LookedUp == login

\* consume_login_state deletes the row it returns.
Consumed == 0
Consume(c) ==
    /\ callback[c] = "none"
    /\ IF login > clock
       THEN login' = Consumed /\ callback' = [callback EXCEPT ![c] = "exchanging"]
       ELSE callback' = [callback EXCEPT ![c] = "refused"] /\ UNCHANGED login
    /\ UNCHANGED <<clock, mapped, session, request, used, verdict>>

\* The provider answers, and the roles of the groups are looked up; or it is a refusal.
Exchange(c) ==
    /\ callback[c] = "exchanging"
    /\ \E ok \in {mapped, FALSE} :
          callback' = [callback EXCEPT ![c] = IF ok THEN "granted" ELSE "refused"]
    /\ UNCHANGED <<clock, login, mapped, session, request, used, verdict>>

\* establish_session: the user and the session, with the roles found before.
SignIn(c) ==
    /\ callback[c] = "granted"
    /\ callback' = [callback EXCEPT ![c] = "signed_in"]
    /\ session' = [session EXCEPT ![c] = [at |-> "open", seen |-> clock, expires |-> clock + Life]]
    /\ used' = [used EXCEPT ![c] = clock]
    /\ UNCHANGED <<clock, login, mapped, request, verdict>>

-----------------------------------------------------------------------------
(* Requests with the session's cookie.                                     *)

Answer(c, a) == verdict' = [answer |-> a, unused |-> clock - used[c]]

\* Mutant: the last use is written when it is nearly too late.
LateWrite(c) == clock - session[c].seen > Idle - 1

\* load_session writes the last use only when the one in the row is a minute old.
Writes(c) == clock - session[c].seen > Granule
Load(c, r) ==
    /\ session[c].at = "open" /\ request[<<c, r>>].at = "none"
    /\ clock < session[c].expires
    /\ IF session[c].seen + Idle > clock
       THEN /\ request' = [request EXCEPT ![<<c, r>>] =
                              [at |-> "read", began |-> clock, write |-> Writes(c)]]
            /\ Answer(c, "served")
       ELSE Answer(c, "refused") /\ UNCHANGED request
    /\ UNCHANGED <<clock, login, mapped, callback, session, used>>

Latest(a, b) == IF a < b THEN b ELSE a
EndLoad(c, r) ==
    /\ request[<<c, r>>].at = "read"
    /\ session' = [session EXCEPT ![c].seen = IF request[<<c, r>>].write THEN request[<<c, r>>].began ELSE @]
    /\ used' = [used EXCEPT ![c] = Latest(@, request[<<c, r>>].began)]
    /\ request' = [request EXCEPT ![<<c, r>>] = NoRequest]
    /\ UNCHANGED <<clock, login, mapped, callback, verdict>>

\* A session past its end is refused, and a log-out ends it.
End(c) ==
    /\ session[c].at = "open"
    /\ session' = [session EXCEPT ![c].at = "revoked"]
    /\ UNCHANGED <<clock, login, mapped, callback, request, used, verdict>>

Next ==
    \/ Tick \/ Map \/ StartLogin
    \/ \E c \in Callback : Consume(c) \/ Exchange(c) \/ SignIn(c) \/ End(c)
    \/ \E c \in Callback, r \in Request : Load(c, r) \/ EndLoad(c, r)

Spec == Init /\ [][Next]_vars

-----------------------------------------------------------------------------
\* One sign-in at the provider makes one session at most, however often the callback comes.
OneSessionPerSignIn == Cardinality({c \in Callback : session[c].at # "none"}) <= 1

\* A session unused for the idle time is refused, and one that was used later than a minute
\* short of it is not, whatever requests overtook each other on the way.
IdleIsIdle ==
    /\ verdict.answer = "served" => verdict.unused < Idle
    /\ verdict.answer = "refused" => verdict.unused >= Idle - Granule
=============================================================================
