--------------------------- MODULE RunnerProtocol ---------------------------
(***************************************************************************)
(* One connector call made by a runner: the worker that queues it and      *)
(* waits (runner/dispatch.py), the rows in runner_calls (runner/store.py), *)
(* the two routes the API serves (api/app.py, verify_runner of             *)
(* api/access.py), and the runners that ask for calls, make them and       *)
(* return the results (runner/agent.py, connectors/sdk/base.py).           *)
(*                                                                         *)
(* One action is one transaction, one HTTP exchange or one call of a       *)
(* target, so workers, the API, runners, operators and the clock           *)
(* interleave between them, and each may die.  Clocks agree; the files of  *)
(* a runner (kill switch, ceiling) may change between any two readings.    *)
(***************************************************************************)
EXTENDS Naturals, FiniteSets

CONSTANTS
    Call,          \* calls, one id each
    Runner,        \* runners, one key each
    NoRunner,      \* a row no runner has taken
    Concurrency,   \* RUNNER_CONCURRENCY: how many calls are asked for at once
    Attempts,      \* RESULT_ATTEMPTS
    MaxFaults      \* bound: requests lost or failed, processes that die

ASSUME RunnerAssumption == NoRunner \notin Runner
ASSUME NumbersAssumption == Concurrency \in Nat /\ Attempts \in Nat \ {0} /\ MaxFaults \in Nat

VARIABLES
    row,        \* runner_calls
    enrolment,  \* runners: unknown, enrolled or revoked
    waiter,     \* the worker's side of a call: where it is, what it was told
    kind,       \* what the call is for
    late,       \* the calls whose deadline has passed
    switch,     \* a kill switch is on for the tenant
    request,    \* the request for calls the API is serving for a runner
    job,        \* the runner's side of a call
    made,       \* how often the target was changed by a call
    handed,     \* runner.write_handed_over events in the audit trail
    clear,      \* claimed calls since whose claim the switch has been seen off
    faults      \* how much of MaxFaults is used up

rows == <<row, enrolment>>
runnerVars == <<job, made>>
vars == <<row, enrolment, waiter, kind, late, switch, request, job, made, handed, clear, faults>>

\* A dry run and a connection test change nothing: they are reads here.
Kinds == {"write", "read"}
\* protocol.OUTCOMES; "refused" stands for UNKNOWN as well, both say nothing was called.
RunnerOutcomes == {"ok", "error", "refused", "not_authorized"}
Told == {"ok", "failed", "refused", "not_authorized", "withdrawn",
         "unavailable", "outcome_unknown", "gone"}

NoRow == [status |-> "absent", by |-> NoRunner, outcome |-> "none"]
CallRow == [status: {"absent", "queued", "claimed", "done", "cancelled"},
            by: Runner \cup {NoRunner}, outcome: RunnerOutcomes \cup {"none"}]
Request == [at: {"none", "open", "claimed", "handing"}, calls: SUBSET Call,
            out: SUBSET Call, stopped: BOOLEAN]
NoRequest == [at |-> "none", calls |-> {}, out |-> {}, stopped |-> FALSE]
NoJob == [at |-> "none", by |-> NoRunner, outcome |-> "none", attempt |-> 0, used |-> {}]
Job == [at: {"none", "received", "cleared", "returning", "closed"}, by: Runner \cup {NoRunner},
        outcome: RunnerOutcomes \cup {"none"}, attempt: 0..Attempts, used: SUBSET (1..Attempts)]

TypeOK ==
    /\ row \in [Call -> CallRow]
    /\ enrolment \in [Runner -> {"unknown", "enrolled", "revoked"}]
    /\ waiter \in [Call -> {"idle", "polling", "ended", "last_look"} \cup Told]
    /\ kind \in [Call -> Kinds]
    /\ late \subseteq Call
    /\ switch \in BOOLEAN
    /\ request \in [Runner -> Request]
    /\ job \in [Call -> Job]
    /\ made \in [Call -> Nat]
    /\ handed \subseteq Runner \X Call
    /\ clear \subseteq Call
    /\ faults \in 0..MaxFaults

Init ==
    /\ row = [c \in Call |-> NoRow]
    /\ enrolment = [r \in Runner |-> "unknown"]
    /\ waiter = [c \in Call |-> "idle"]
    /\ kind \in [Call -> Kinds]
    /\ late = {}
    /\ switch = FALSE
    /\ request = [r \in Runner |-> NoRequest]
    /\ job = [c \in Call |-> NoJob]
    /\ made = [c \in Call |-> 0]
    /\ handed = {} /\ clear = {} /\ faults = 0

Waiting(c) == waiter[c] \in {"polling", "ended", "last_look"}
Active(c) == job[c].at \in {"received", "cleared", "returning"}
SetWaiter(c, w) == waiter' = [waiter EXCEPT ![c] = w]
SetRow(c, status) == row' = [row EXCEPT ![c].status = status]
SetJob(c, at) == job' = [job EXCEPT ![c].at = at]
Fault == faults < MaxFaults /\ faults' = faults + 1

-----------------------------------------------------------------------------
(* Operators: enrolment and the tenant's kill switch.                      *)

\* One name and one key per row, revoked rows included: a key is enrolled once.
Enrol(r) ==
    /\ enrolment[r] = "unknown"
    /\ enrolment' = [enrolment EXCEPT ![r] = "enrolled"]
    /\ UNCHANGED <<row, waiter, kind, late, switch, request, job, made, handed, clear, faults>>

Revoke(r) ==
    /\ enrolment[r] = "enrolled"
    /\ enrolment' = [enrolment EXCEPT ![r] = "revoked"]
    /\ UNCHANGED <<row, waiter, kind, late, switch, request, job, made, handed, clear, faults>>

TurnSwitch ==
    /\ switch' = ~switch
    /\ clear' = IF switch THEN clear \cup {c \in Call : row[c].status = "claimed"} ELSE clear
    /\ UNCHANGED <<row, enrolment, waiter, kind, late, request, job, made, handed, faults>>

-----------------------------------------------------------------------------
(* The worker: RunnerDispatcher.call.                                      *)

\* enqueue clears out what was abandoned half an hour ago (longer than any wait or any
\* request lasts), then adds the call's row.
Stale == {d \in late : /\ ~Waiting(d) /\ row[d].status # "absent"
                       /\ \A r \in Runner : d \notin request[r].calls \cup request[r].out}
Enqueue(c) ==
    /\ waiter[c] = "idle"
    /\ \E old \in SUBSET Stale :
          row' = [d \in Call |-> IF d = c THEN [NoRow EXCEPT !.status = "queued"]
                                 ELSE IF d \in old THEN NoRow ELSE row[d]]
    /\ SetWaiter(c, "polling")
    /\ UNCHANGED <<enrolment, kind, late, switch, request, job, made, handed, clear, faults>>

\* Mutant: the outcome is handed to the caller as it came.
AsItCame(outcome) == outcome

\* What the caller makes of a runner's outcome: _raise_for, result_from_wire.
Meaning(outcome) == IF outcome = "error" THEN "failed" ELSE outcome

\* A look at the row finds the answer; the row is read and removed.
TakeAnswer(c) ==
    /\ waiter[c] \in {"polling", "last_look"}
    /\ row[c].status = "done"
    /\ row' = [row EXCEPT ![c] = NoRow]
    /\ SetWaiter(c, Meaning(row[c].outcome))
    /\ UNCHANGED <<enrolment, kind, late, switch, request, job, made, handed, clear, faults>>

TimeUp(c) ==
    /\ waiter[c] = "polling" /\ c \in late /\ row[c].status # "done"
    /\ SetWaiter(c, "ended")
    /\ UNCHANGED <<row, enrolment, kind, late, switch, request, job, made, handed, clear, faults>>

\* cancel: a row still queued is withdrawn (and removed); any other is left alone.
Cancelled(c) == [row EXCEPT ![c] = IF @.status = "queued" THEN [@ EXCEPT !.status = "cancelled"]
                                   ELSE @]
\* Mutant: a call that is no longer queued is waited for without end.
WithdrawQueued(c) ==
    /\ waiter[c] = "ended" /\ row[c].status = "queued"
    /\ row' = [row EXCEPT ![c] = NoRow]
    /\ SetWaiter(c, "withdrawn")
    /\ UNCHANGED <<enrolment, kind, late, switch, request, job, made, handed, clear, faults>>

Withdraw(c) ==
    /\ waiter[c] = "ended"
    /\ row' = IF row[c].status = "queued" THEN [row EXCEPT ![c] = NoRow] ELSE row
    /\ SetWaiter(c, IF row[c].status = "queued" THEN "withdrawn" ELSE "last_look")
    /\ UNCHANGED <<enrolment, kind, late, switch, request, job, made, handed, clear, faults>>

\* A runner holds the call and has not answered.
NoAnswer(c) == IF kind[c] = "write" THEN "outcome_unknown" ELSE "unavailable"
GiveUp(c) ==
    /\ waiter[c] = "last_look" /\ row[c].status # "done"
    /\ SetWaiter(c, NoAnswer(c))
    /\ UNCHANGED <<row, enrolment, kind, late, switch, request, job, made, handed, clear, faults>>

\* The worker is stopped while it waits: the call is cancelled on its way out.
StopWaiter(c) ==
    /\ waiter[c] = "polling" /\ Fault
    /\ row' = Cancelled(c)
    /\ SetWaiter(c, "gone")
    /\ UNCHANGED <<enrolment, kind, late, switch, request, job, made, handed, clear>>

\* The worker dies, or is stopped outside the loop: the row stays as it is.
KillWaiter(c) ==
    /\ Waiting(c) /\ Fault
    /\ SetWaiter(c, "gone")
    /\ UNCHANGED <<row, enrolment, kind, late, switch, request, job, made, handed, clear>>

PassDeadline(c) ==
    /\ waiter[c] # "idle" /\ c \notin late
    /\ late' = late \cup {c}
    /\ UNCHANGED <<row, enrolment, waiter, kind, switch, request, job, made, handed, clear, faults>>

-----------------------------------------------------------------------------
(* The API serves a runner's request for calls.                            *)

\* verify_runner: enrolled and not revoked at the start of the request.
Known(r) == enrolment[r] = "enrolled"

\* A runner asks again only when every call it was given has been dealt with.
AskForCalls(r) ==
    /\ request[r].at = "none" /\ Known(r)
    /\ \A c \in Call : job[c].by = r => ~Active(c)
    /\ request' = [request EXCEPT ![r] = [NoRequest EXCEPT !.at = "open"]]
    /\ UNCHANGED <<row, enrolment, waiter, kind, late, switch, job, made, handed, clear, faults>>

\* claim: calls that wait and are in time; rows another transaction locked are skipped.
\* Mutant: a call that another runner has claimed is given out again.
ClaimableTwice == {c \in Call : row[c].status \in {"queued", "claimed"} /\ c \notin late}
Claimable == {c \in Call : row[c].status = "queued" /\ c \notin late}
Claim(r) ==
    /\ request[r].at = "open"
    /\ \E taken \in SUBSET Claimable :
          /\ taken # {} /\ Cardinality(taken) <= Concurrency
          /\ row' = [c \in Call |-> IF c \in taken
                                    THEN [row[c] EXCEPT !.status = "claimed", !.by = r]
                                    ELSE row[c]]
          /\ request' = [request EXCEPT ![r].at = "claimed", ![r].calls = taken]
          /\ clear' = IF switch THEN clear \ taken ELSE clear \cup taken
    /\ UNCHANGED <<enrolment, waiter, kind, late, switch, job, made, handed, faults>>

\* The request was held open for its time and there was nothing to do.
EndPoll(r) ==
    /\ request[r].at = "open"
    /\ request' = [request EXCEPT ![r] = NoRequest]
    /\ UNCHANGED <<row, enrolment, waiter, kind, late, switch, job, made, handed, clear, faults>>

\* switches_on, after the claim and only when a write is among the calls.
\* Mutant: the switch is heeded only when every call is a write.
ReadSwitchesForAll(r) ==
    /\ request[r].at = "claimed"
    /\ request' = [request EXCEPT
          ![r].at = "handing",
          ![r].stopped = switch /\ \A c \in request[r].calls : kind[c] = "write"]
    /\ UNCHANGED <<row, enrolment, waiter, kind, late, switch, job, made, handed, clear, faults>>

ReadSwitches(r) ==
    /\ request[r].at = "claimed"
    /\ request' = [request EXCEPT
          ![r].at = "handing",
          ![r].stopped = switch /\ \E c \in request[r].calls : kind[c] = "write"]
    /\ UNCHANGED <<row, enrolment, waiter, kind, late, switch, job, made, handed, clear, faults>>

\* record_result: only a call that is held, by whom it is held (if that is asked), once.
Records(c, r) == row[c].status = "claimed" /\ r \in {NoRunner, row[c].by}
Recorded(c, outcome) == [row EXCEPT ![c].status = "done", ![c].outcome = outcome]

\* Mutant: nothing is recorded about who was given the write.
HandOverUnrecorded(r, c) ==
    /\ request[r].at = "handing" /\ c \in request[r].calls
    /\ LET stop == kind[c] = "write" /\ request[r].stopped IN
       /\ row' = IF stop /\ Records(c, NoRunner) THEN Recorded(c, "not_authorized") ELSE row
       /\ request' = [request EXCEPT ![r].calls = @ \ {c},
                                     ![r].out = IF stop THEN @ ELSE @ \cup {c}]
    /\ UNCHANGED <<enrolment, waiter, kind, late, switch, job, made, handed, clear, faults>>

\* A write is answered here while a switch is on; otherwise who was given it is recorded.
HandOver(r, c) ==
    /\ request[r].at = "handing" /\ c \in request[r].calls
    /\ LET stop == kind[c] = "write" /\ request[r].stopped IN
       /\ row' = IF stop /\ Records(c, NoRunner) THEN Recorded(c, "not_authorized") ELSE row
       /\ handed' = IF kind[c] = "write" /\ ~stop THEN handed \cup {<<r, c>>} ELSE handed
       /\ request' = [request EXCEPT ![r].calls = @ \ {c},
                                     ![r].out = IF stop THEN @ ELSE @ \cup {c}]
    /\ UNCHANGED <<enrolment, waiter, kind, late, switch, job, made, clear, faults>>

Respond(r) ==
    /\ request[r].at = "handing" /\ request[r].calls = {}
    /\ job' = [c \in Call |-> IF c \in request[r].out
                              THEN [NoJob EXCEPT !.at = "received", !.by = r] ELSE job[c]]
    /\ request' = [request EXCEPT ![r] = NoRequest]
    /\ UNCHANGED <<row, enrolment, waiter, kind, late, switch, made, handed, clear, faults>>

\* The API dies, its database fails, or the answer is lost: what was claimed stays claimed.
LoseRequest(r) ==
    /\ request[r].at # "none" /\ Fault
    /\ request' = [request EXCEPT ![r] = NoRequest]
    /\ UNCHANGED <<row, enrolment, waiter, kind, late, switch, job, made, handed, clear>>

-----------------------------------------------------------------------------
(* The runner makes a call and returns its result.                         *)

Return(c, outcome) == job' = [job EXCEPT ![c].at = "returning", ![c].outcome = outcome,
                                         ![c].attempt = 1]

\* Signature, shape, tenant, expiry, ceiling, allow lists, credentials: nothing is called.
RefuseCall(c) ==
    /\ job[c].at = "received"
    /\ \E outcome \in {"refused", "error"} : Return(c, outcome)
    /\ UNCHANGED <<row, enrolment, waiter, kind, late, switch, request, made, handed, clear, faults>>

Accept(c) ==
    /\ job[c].at = "received" /\ c \notin late
    /\ SetJob(c, "cleared")
    /\ UNCHANGED <<row, enrolment, waiter, kind, late, switch, request, made, handed, clear, faults>>

\* Connector.invoke: a read, a dry run or a test changes nothing.
Read(c) ==
    /\ job[c].at = "cleared" /\ kind[c] # "write"
    /\ \E outcome \in {"ok", "error"} : Return(c, outcome)
    /\ UNCHANGED <<row, enrolment, waiter, kind, late, switch, request, made, handed, clear, faults>>

\* The grant is redeemed immediately before the write: the runner's kill switch, no grant
\* key, a grant that has expired or was used.
NotRedeemed(c) ==
    /\ job[c].at = "cleared" /\ kind[c] = "write"
    /\ Return(c, "not_authorized")
    /\ UNCHANGED <<row, enrolment, waiter, kind, late, switch, request, made, handed, clear, faults>>

\* The write, once.  An error says nothing about whether the target was changed.
Write(c) ==
    /\ job[c].at = "cleared" /\ kind[c] = "write"
    /\ \E done \in BOOLEAN :
          /\ Return(c, IF done THEN "ok" ELSE "error")
          /\ \/ made' = [made EXCEPT ![c] = @ + 1]
             \/ ~done /\ UNCHANGED made
    /\ UNCHANGED <<row, enrolment, waiter, kind, late, switch, request, handed, clear, faults>>

\* Mutant: every attempt carries the signature of the first.
SameNonce(c) == 1
\* What a request was signed with beyond its content: a new nonce every time.
Nonce(c) == job[c].attempt
\* verify_runner: the signer is enrolled and this signature was not seen before.
Fresh(c) == Known(job[c].by) /\ Nonce(c) \notin job[c].used

\* The request reaches the API and is answered: any answer below 500 ends the matter.
PostResult(c) ==
    /\ job[c].at = "returning"
    /\ row' = IF Fresh(c) /\ Records(c, job[c].by) THEN Recorded(c, job[c].outcome) ELSE row
    /\ SetJob(c, "closed")
    /\ UNCHANGED <<enrolment, waiter, kind, late, switch, request, made, handed, clear, faults>>

Retry(c, used) ==
    job' = [job EXCEPT ![c].used = used,
                       ![c].at = IF job[c].attempt < Attempts THEN "returning" ELSE "closed",
                       ![c].attempt = IF @ < Attempts THEN @ + 1 ELSE @]

\* The request is lost, or the API fails after it has used the signature up, before or
\* after the result is recorded.
PostFails(c) ==
    /\ job[c].at = "returning" /\ Fault
    /\ \/ Retry(c, job[c].used) /\ UNCHANGED row
       \/ /\ Fresh(c)
          /\ Retry(c, job[c].used \cup {Nonce(c)})
          /\ row' = row \/ (Records(c, job[c].by) /\ row' = Recorded(c, job[c].outcome))
    /\ UNCHANGED <<enrolment, waiter, kind, late, switch, request, made, handed, clear>>

\* The runner process dies: the calls it was given are forgotten.
RunnerDies(r) ==
    /\ \E c \in Call : job[c].by = r /\ Active(c)
    /\ Fault
    /\ job' = [c \in Call |-> IF job[c].by = r /\ Active(c)
                              THEN [job[c] EXCEPT !.at = "closed", !.attempt = Attempts]
                              ELSE job[c]]
    /\ UNCHANGED <<row, enrolment, waiter, kind, late, switch, request, made, handed, clear>>

-----------------------------------------------------------------------------
CallStep(c) ==
    \/ TakeAnswer(c) \/ TimeUp(c) \/ Withdraw(c) \/ GiveUp(c)
    \/ Accept(c) \/ RefuseCall(c) \/ Read(c) \/ NotRedeemed(c) \/ Write(c) \/ PostResult(c)
RequestStep(r) == Claim(r) \/ EndPoll(r) \/ ReadSwitches(r) \/ Respond(r)
                  \/ \E c \in Call : HandOver(r, c)

Next ==
    \/ \E c \in Call : \/ CallStep(c) \/ Enqueue(c) \/ PassDeadline(c)
                       \/ StopWaiter(c) \/ KillWaiter(c) \/ PostFails(c)
    \/ \E r \in Runner : \/ RequestStep(r) \/ AskForCalls(r) \/ LoseRequest(r)
                         \/ RunnerDies(r) \/ Enrol(r) \/ Revoke(r)
    \/ TurnSwitch

\* The worker polls, looks and cancels, and time passes.  Nothing is asked of any runner.
Fairness == \A c \in Call : /\ WF_vars(PassDeadline(c))
                            /\ WF_vars(TakeAnswer(c) \/ TimeUp(c) \/ Withdraw(c) \/ GiveUp(c))

Spec == Init /\ [][Next]_vars
FairSpec == Spec /\ Fairness

-----------------------------------------------------------------------------
\* dispatch.py:92-157, of the calls that are writes: a write reaches the target at most once, and what its caller is
\* told stays true: refused, withdrawn and not authorised calls are never made, not even
\* later by a runner that still holds one; "ok" is never told of a write that was not made.
told == [c \in Call |-> IF kind[c] = "write" /\ waiter[c] \in Told THEN waiter[c] ELSE "nothing"]
Promise == INSTANCE RemoteCall
PromiseKept == Promise!Spec

\* dispatch.py:302-303: every write a runner changed a target with was recorded in the
\* audit trail, under the runner that made it, before it was given out.
WriteWasHandedOver ==
    \A c \in Call : made[c] > 0 => <<job[c].by, c>> \in handed

\* dispatch.py:282-289: a write that was queued before a kill switch was engaged is not
\* given out unless the switch was off at some moment after a runner claimed it.
SwitchRespected ==
    \A c \in Call : kind[c] = "write" /\ job[c].at # "none" => c \in clear

\* hand_out: both, for every write a runner is given.
WritesAreCleared == WriteWasHandedOver /\ SwitchRespected

\* agent.py:209-224: a runner that stops returning a result before its attempts are used
\* up leaves no call it holds unanswered, unless it has been revoked.
StopsOnlyWhenAnswered ==
    \A c \in Call :
        job[c].at = "closed" /\ job[c].attempt < Attempts /\ row[c].status = "claimed"
            => enrolment[job[c].by] = "revoked"

\* dispatch.py:126-157: a worker that queued a call is told something in the end, whatever
\* becomes of the runners, the API and the answers.
CallerIsTold == \A c \in Call : Waiting(c) ~> ~Waiting(c)
=============================================================================
