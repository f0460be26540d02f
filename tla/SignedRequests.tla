--------------------------- MODULE SignedRequests ---------------------------
(***************************************************************************)
(* Signed deliveries, each to be taken once: the webhook of the ITSM and   *)
(* the requests of runners (verify_webhook and verify_runner of            *)
(* api/access.py, use_webhook_signature of auth/store.py).  The same       *)
(* delivery may come any number of times, to any API process.              *)
(*                                                                         *)
(* Time passes between the check of the timestamp and the use of the       *)
(* signature: the body is still being read.                                *)
(***************************************************************************)
EXTENDS Naturals

CONSTANTS
    Message,   \* signed deliveries
    Copy,      \* requests that carry one, by the sender or by a retrying proxy
    Skew,      \* WEBHOOK_MAX_SKEW_SECONDS, MAX_SKEW_SECONDS
    Ahead,     \* bound: how far the sender's clock is ahead
    Delay,     \* bound: time between the check and the use
    MaxTime    \* bound

VARIABLES now, stamp, copy, nonces, accepted
vars == <<now, stamp, copy, nonces, accepted>>

NotSent == MaxTime + Skew + 1
Waiting == [at: {"new", "checked", "ended"}, since: 0..MaxTime]

TypeOK ==
    /\ now \in 0..MaxTime
    /\ stamp \in [Message -> 0..NotSent]
    /\ copy \in [Message \X Copy -> Waiting]
    /\ nonces \in [Message -> 0..(MaxTime + 2 * Skew)]
    /\ accepted \in [Message -> Nat]

Init ==
    /\ now = 0
    /\ stamp = [m \in Message |-> NotSent]
    /\ copy = [r \in Message \X Copy |-> [at |-> "new", since |-> 0]]
    /\ nonces = [m \in Message |-> 0]      \* when it expires, 0 for no row
    /\ accepted = [m \in Message |-> 0]

Tick == now < MaxTime /\ now' = now + 1 /\ UNCHANGED <<stamp, copy, nonces, accepted>>

Send(m) ==
    /\ stamp[m] = NotSent
    /\ \E ahead \in 0..Ahead : stamp' = [stamp EXCEPT ![m] = now + ahead]
    /\ UNCHANGED <<now, copy, nonces, accepted>>

Apart(a, b) == IF a < b THEN b - a ELSE a - b

\* The timestamp is near enough and the signature is right; the others are refused.
Check(m, c) ==
    /\ copy[<<m, c>>].at = "new" /\ stamp[m] # NotSent
    /\ copy' = [copy EXCEPT ![<<m, c>>] =
                   [at |-> IF Apart(now, stamp[m]) <= Skew THEN "checked" ELSE "ended",
                    since |-> now]]
    /\ UNCHANGED <<now, stamp, nonces, accepted>>

\* Mutant: remembered for as long as it may be off.
OnceTheSkew == now + Skew

\* How long a signature is remembered.
Expires == now + 2 * Skew

\* What is past its time is deleted; then the signature is added unless it is there.
Use(m, c) ==
    /\ copy[<<m, c>>].at = "checked"
    /\ now - copy[<<m, c>>].since <= Delay
    /\ LET kept == [n \in Message |-> IF nonces[n] < now THEN 0 ELSE nonces[n]]
       IN  IF kept[m] = 0
           THEN /\ nonces' = [kept EXCEPT ![m] = Expires]
                /\ accepted' = [accepted EXCEPT ![m] = @ + 1]
           ELSE nonces' = kept /\ UNCHANGED accepted
    /\ copy' = [copy EXCEPT ![<<m, c>>].at = "ended"]
    /\ UNCHANGED <<now, stamp>>

Next == Tick \/ \E m \in Message : Send(m) \/ \E c \in Copy : Check(m, c) \/ Use(m, c)

Spec == Init /\ [][Next]_vars

\* A delivery is acted on once, also when copies of it come just before its timestamp gets
\* too old and the row that remembers it has been deleted for its age, as long as the
\* sender's lead and the time a request takes are together within the skew.
TakenOnce == \A m \in Message : accepted[m] <= 1
=============================================================================
