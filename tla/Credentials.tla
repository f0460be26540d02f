---------------------------- MODULE Credentials ----------------------------
(***************************************************************************)
(* A credential that is rotated while it is used: the cache of the         *)
(* resolver (connectors/sdk/secrets.py) and the two users of it that       *)
(* repeat a call once when it may have been refused for a credential read  *)
(* too early, an HttpClient (connectors/sdk/http.py, with BasicAuth or     *)
(* BearerAuth) and a connector that reads through an adapter built with    *)
(* the credential (connectors/sdk/base.py).  Calls share what their user   *)
(* remembers; between two awaits nothing else runs, and a thread reads.    *)
(*                                                                         *)
(* The backend and the target change together: what the backend holds is   *)
(* what the target accepts, and nothing else.                              *)
(***************************************************************************)
EXTENDS Naturals

CONSTANTS
    Call,           \* tasks that make calls
    Attempts,       \* times an HttpClient sends a read, the repetition for its credential included
    MaxRotations    \* bounds the credentials there are

VARIABLES
    user,       \* "client" or "connector": the two do not share anything
    valid,      \* the credential in the backend, numbered
    cache,      \* the resolver's: a credential, or None
    fresh,      \* the client's: the next read skips the cache (_fresh)
    seen,       \* the connector's: the credential read last (_seen)
    built,      \* the connector's: the credential its adapter is built with
    call,
    disturbed   \* for the properties: calls that met another, or a rotation

vars == <<user, valid, cache, fresh, seen, built, call, disturbed>>

None == MaxRotations + 1
Credential == 0..MaxRotations

Idle == [at |-> "idle", value |-> None, sends |-> 0, again |-> FALSE, before |-> None, blamed |-> FALSE]

TypeOK ==
    /\ valid \in Credential /\ fresh \in BOOLEAN
    /\ {cache, seen, built} \subseteq Credential \cup {None}
    /\ \A c \in Call :
          /\ call[c].at \in {"idle", "reading", "fetched", "checking", "checked", "closing",
                             "sent", "waiting", "refused"}
          /\ {call[c].value, call[c].before} \subseteq Credential \cup {None}
          /\ call[c].sends \in 0..(Attempts + 1)
          /\ call[c].at = "sent" => call[c].value # None

Init ==
    /\ user \in {"client", "connector"}
    /\ valid = 0 /\ cache = None /\ fresh = FALSE /\ seen = None /\ built = None
    /\ call = [c \in Call |-> Idle] /\ disturbed = {}

Running == {c \in Call : call[c].at # "idle"}
Done(c) == call' = [call EXCEPT ![c] = Idle]
Moves(c, at) == call' = [call EXCEPT ![c].at = at]

Rotate ==
    /\ valid < MaxRotations
    /\ valid' = valid + 1 /\ disturbed' = disturbed \cup Running
    /\ UNCHANGED <<user, cache, fresh, seen, built, call>>

\* The time of the cached credential is over (ttl).
Lapse ==
    /\ cache # None /\ cache' = None
    /\ UNCHANGED <<user, valid, fresh, seen, built, call, disturbed>>

-----------------------------------------------------------------------------
\* The adapter is the one that is built, and another when the credential is another; the old
\* one is closed first, which takes time.
Adapter(c, value, again) ==
    /\ seen' = value
    /\ built' = IF built = None THEN value ELSE built
    /\ call' = [call EXCEPT ![c].at = IF built' = value THEN "sent" ELSE "closing",
                            ![c].value = value, ![c].again = again]
    /\ UNCHANGED fresh

Headers(c, value) ==
    /\ fresh' = FALSE
    /\ call' = [call EXCEPT ![c].at = "sent", ![c].value = value, ![c].sends = @ + 1]
    /\ UNCHANGED <<seen, built>>

Proceed(c, value) == IF user = "client" THEN Headers(c, value) ELSE Adapter(c, value, call[c].again)

\* SecretResolver.get: from the cache at once, or a thread is asked.
Get(c) ==
    IF cache # None /\ ~fresh THEN Proceed(c, cache)
                              ELSE Moves(c, "reading") /\ UNCHANGED <<fresh, seen, built>>

Begin(c) ==
    /\ call[c].at = "idle"
    /\ Get(c)
    /\ disturbed' = IF Running = {} THEN disturbed \ {c} ELSE disturbed \cup Running \cup {c}
    /\ UNCHANGED <<user, valid, cache>>

\* The thread reads at some moment, and the task goes on at a later one.
Fetch(c) ==
    /\ call[c].at \in {"reading", "checking"}
    /\ call' = [call EXCEPT ![c].at = IF @ = "reading" THEN "fetched" ELSE "checked", ![c].value = valid]
    /\ UNCHANGED <<user, valid, cache, fresh, seen, built, disturbed>>

Store(c) ==
    /\ call[c].at = "fetched"
    /\ cache' = call[c].value
    /\ Proceed(c, call[c].value)
    /\ UNCHANGED <<user, valid, disturbed>>

\* The backend cannot be read (SecretError).
Unreadable(c) ==
    /\ call[c].at \in {"reading", "checking"}
    /\ Done(c)
    /\ UNCHANGED <<user, valid, cache, fresh, seen, built, disturbed>>

Build(c) ==
    /\ call[c].at = "closing"
    /\ built' = call[c].value
    /\ Moves(c, "sent")
    /\ UNCHANGED <<user, valid, cache, fresh, seen, disturbed>>

-----------------------------------------------------------------------------
Accept(c) ==
    /\ call[c].at = "sent" /\ call[c].value = valid
    /\ Done(c)
    /\ UNCHANGED <<user, valid, cache, fresh, seen, built, disturbed>>

\* Mutant: the cache answers once more.
AsBefore == fresh

\* rejected: the next read skips the cache.
Rejected == TRUE

\* A 401: the client repeats the call once with a credential that is read again.
Refuse(c) ==
    /\ user = "client" /\ call[c].at = "sent" /\ call[c].value # valid
    /\ IF call[c].again
       THEN Moves(c, "refused") /\ UNCHANGED fresh
       ELSE /\ fresh' = Rejected
            /\ call' = [call EXCEPT ![c].again = TRUE,
                            ![c].at = IF fresh' \/ cache = None THEN "reading" ELSE "sent"]
    /\ UNCHANGED <<user, valid, cache, seen, built, disturbed>>

\* A target that is busy: a read is sent again, after a while.
Busy(c) ==
    /\ user = "client" /\ call[c].at = "sent"
    /\ IF call[c].sends < Attempts THEN Moves(c, "waiting") ELSE Done(c)
    /\ UNCHANGED <<user, valid, cache, fresh, seen, built, disturbed>>

Resend(c) ==
    /\ call[c].at = "waiting"
    /\ Get(c)
    /\ UNCHANGED <<user, valid, cache, disturbed>>

End(c, blamed) == IF blamed THEN Moves(c, "refused") ELSE Done(c)

\* Any failure, also one that is not for the credential: the connector reads it again...
Fail(c) ==
    /\ user = "connector" /\ call[c].at = "sent"
    /\ LET blamed == call[c].value # valid IN
       IF call[c].again
       THEN End(c, blamed)
       ELSE call' = [call EXCEPT ![c].at = "checking", ![c].before = seen, ![c].blamed = blamed]
    /\ UNCHANGED <<user, valid, cache, fresh, seen, built, disturbed>>

\* ... and repeats the call once when it is another than the one seen last (_credentials_changed).
Unchanged(c) ==
    /\ call[c].at = "checked" /\ call[c].value = call[c].before
    /\ cache' = call[c].value /\ seen' = call[c].value
    /\ End(c, call[c].blamed)
    /\ UNCHANGED <<user, valid, fresh, built, disturbed>>

Changed(c) ==
    /\ call[c].at = "checked" /\ call[c].value # call[c].before
    /\ cache' = call[c].value
    /\ Adapter(c, call[c].value, TRUE)
    /\ UNCHANGED <<user, valid, disturbed>>

Return(c) ==
    /\ call[c].at = "refused"
    /\ Done(c)
    /\ UNCHANGED <<user, valid, cache, fresh, seen, built, disturbed>>

Next ==
    \/ Rotate \/ Lapse
    \/ \E c \in Call : Begin(c) \/ Fetch(c) \/ Store(c) \/ Unreadable(c) \/ Build(c)
    \/ \E c \in Call : Accept(c) \/ Refuse(c) \/ Busy(c) \/ Resend(c)
    \/ \E c \in Call : Fail(c) \/ Unchanged(c) \/ Changed(c) \/ Return(c)

Spec == Init /\ [][Next]_vars

-----------------------------------------------------------------------------
\* A rotation is met without a restart and without a failed call: whatever calls that ran side
\* by side have left in the caches, a call that runs by itself, with no rotation during it, does
\* not end refused for its credential (request, invoke).
RotationIsMet == \A c \in Call : call[c].at = "refused" => c \in disturbed
=============================================================================
