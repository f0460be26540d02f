---------------------------- MODULE GuardedCalls ----------------------------
(***************************************************************************)
(* The reads of a connection: each repeated a few times with waits between *)
(* (utils/retry.py, retry_with_backoff), all behind the one circuit        *)
(* breaker of the tenant's connection (CircuitBreaker, and _breaker and    *)
(* _call_adapter of engine/executor.py).  Requests are under way at the    *)
(* same time and are answered in any order, after any time.                *)
(***************************************************************************)
EXTENDS Naturals, FiniteSets

CONSTANTS
    Call,           \* runs that call through one connection at the same time
    Attempts,       \* retry_max_attempts
    Threshold,      \* failure_threshold
    Reset           \* reset_timeout_seconds

VARIABLES
    state,      \* _state
    failures,   \* _failure_count, as far as it is told apart
    since,      \* time since _last_failure_time, as far as it is told apart
    call,
    sent        \* for the properties: requests since the last success, by their age

vars == <<state, failures, since, call, sent>>

Idle == [at |-> "idle", attempt |-> 0]
Most == Threshold + 1

TypeOK ==
    /\ state \in {"closed", "open", "half_open"}
    /\ failures \in 0..Most /\ since \in 0..Reset
    /\ call \in [Call -> [at: {"idle", "sent", "waiting"}, attempt: 0..Attempts]]
    /\ sent \in [0..(Reset - 1) -> Nat]

None == [n \in 0..(Reset - 1) |-> 0]

Init ==
    /\ state = "closed" /\ failures = 0 /\ since = Reset
    /\ call = [c \in Call |-> Idle]
    /\ sent = None

Tick ==
    /\ since' = IF since < Reset THEN since + 1 ELSE since
    /\ sent' = [n \in 0..(Reset - 1) |-> IF n = 0 THEN 0 ELSE sent[n - 1]]
    /\ UNCHANGED <<state, failures, call>>

-----------------------------------------------------------------------------
\* The state as it is read: an open breaker is half open when its time is over.
Now == IF state = "open" /\ since >= Reset THEN "half_open" ELSE state

\* A half-open breaker lets every request through until one has failed.
Try(c, attempt) ==
    /\ state' = Now
    /\ IF Now = "open"
       THEN call' = [call EXCEPT ![c] = Idle] /\ UNCHANGED sent
       ELSE /\ call' = [call EXCEPT ![c] = [at |-> "sent", attempt |-> attempt]]
            /\ sent' = [sent EXCEPT ![0] = @ + 1]
    /\ UNCHANGED <<failures, since>>

Begin(c) == call[c].at = "idle" /\ Try(c, 1)
Retry(c) == call[c].at = "waiting" /\ Try(c, call[c].attempt + 1)

Succeed(c) ==
    /\ call[c].at = "sent"
    /\ state' = "closed" /\ failures' = 0
    /\ call' = [call EXCEPT ![c] = Idle]
    /\ sent' = None
    /\ UNCHANGED since

\* Mutant: one more failure than the threshold.
BeyondThreshold(n) == n > Threshold

Trips(n) == n >= Threshold

RecordFailure ==
    /\ failures' = IF failures < Most THEN failures + 1 ELSE failures
    /\ since' = 0
    /\ state' = IF Trips(failures') THEN "open" ELSE state

Fail(c) ==
    /\ call[c].at = "sent"
    /\ RecordFailure
    /\ call' = [call EXCEPT ![c] = IF @.attempt = Attempts THEN Idle ELSE [@ EXCEPT !.at = "waiting"]]
    /\ UNCHANGED sent

\* A failure that trying again cannot help (NotRetryable) counts like any other.
GiveUp(c) ==
    /\ call[c].at = "sent"
    /\ RecordFailure
    /\ call' = [call EXCEPT ![c] = Idle]
    /\ UNCHANGED sent

Next ==
    \/ Tick
    \/ \E c \in Call : Begin(c) \/ Retry(c) \/ Succeed(c) \/ Fail(c) \/ GiveUp(c)

Spec == Init /\ [][Next]_vars

-----------------------------------------------------------------------------
\* The requests sent within Reset, numbered by age.
Recent == UNION {{n} \X (1..sent[n]) : n \in 0..(Reset - 1)}

\* A target that is down is spared: from one success to the next, whatever is answered late and
\* however often calls are repeated, the requests sent within any Reset are those that open the
\* breaker and the ones of other calls that were under way already.
SparesTheTarget == Cardinality(Recent) <= Threshold + Cardinality(Call) - 1
=============================================================================
