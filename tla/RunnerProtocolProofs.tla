------------------------ MODULE RunnerProtocolProofs ------------------------
(***************************************************************************)
(* The runner protocol for every number of calls, runners, attempts and    *)
(* faults: who holds a call, what its row and its runner say of it, and    *)
(* that what its caller is told of a write is true and stays true.         *)
(***************************************************************************)
EXTENDS RunnerProtocol, TLAPS

\* A runner's request holds the calls it claimed until they are given out.
Holds(r, c) == c \in request[r].calls \cup request[r].out

\* A request holds calls only from the claim to the response, each not given out yet or
\* given out, and its runner is known.
RequestRight(r) ==
    /\ request[r].at \in {"none", "open"} => request[r].calls = {} /\ request[r].out = {}
    /\ request[r].at = "claimed" => request[r].out = {}
    /\ request[r].at # "none" => enrolment[r] # "unknown"
    /\ request[r].calls \cap request[r].out = {}

\* A call that a request holds is claimed for its runner, and no runner has it yet.
HeldRight(r, c) ==
    Holds(r, c) => row[c].status = "claimed" /\ row[c].by = r /\ job[c].at = "none"

\* A runner has a call that was claimed for it, and a write only as hand_out allows.
JobRight(c) ==
    job[c].at # "none" =>
        /\ job[c].by \in Runner /\ enrolment[job[c].by] # "unknown"
        /\ row[c].status \in {"absent", "claimed", "done"}
        /\ row[c].status # "absent" => row[c].by = job[c].by
        /\ kind[c] = "write" => <<job[c].by, c>> \in handed /\ c \in clear

\* What a result says of the write it is about.
Says(outcome, c) ==
    /\ outcome = "ok" => kind[c] # "write" \/ made[c] = 1
    /\ outcome \in {"refused", "not_authorized"} => made[c] = 0

\* Nothing is made before the call was accepted, and what is returned is true.
MadeRight(c) ==
    /\ made[c] = 0 \/ (made[c] = 1 /\ kind[c] = "write")
    /\ job[c].at \in {"none", "received", "cleared"} =>
           made[c] = 0 /\ job[c].used = {} /\ job[c].outcome = "none"
    /\ job[c].at \in {"returning", "closed"} => Says(job[c].outcome, c)
    /\ job[c].at = "returning" => /\ job[c].outcome \in RunnerOutcomes
                                  /\ job[c].attempt > 0
                                  /\ \A n \in job[c].used : n < job[c].attempt

\* A row's result is true, and its call is not to be made any more.
RowRight(c) ==
    row[c].status = "done" =>
        /\ row[c].outcome \in RunnerOutcomes /\ Says(row[c].outcome, c)
        /\ job[c].at \notin {"received", "cleared"}

\* A call that was not queued is nowhere; one that was answered or withdrawn is not made.
WaiterRight(c) ==
    /\ waiter[c] = "idle" => row[c].status = "absent" /\ job[c].at = "none"
    /\ waiter[c] \in {"ok", "failed", "refused", "not_authorized", "withdrawn"} =>
           row[c].status = "absent" /\ job[c].at \notin {"received", "cleared"}
    /\ waiter[c] = "unavailable" => kind[c] # "write"

\* With the switch off, every claimed call has been claimed with the switch seen off.
ClearRight == ~switch => \A c \in Call : row[c].status = "claimed" => c \in clear

\* A write that is about to be given out, or was put into the response, may be.
GivingRight(r, c) ==
    kind[c] = "write" =>
        /\ c \in request[r].out => <<r, c>> \in handed /\ c \in clear
        /\ request[r].at = "handing" /\ ~request[r].stopped /\ c \in request[r].calls => c \in clear

\* A runner that gave up returning a result was revoked or had answered.
StoppedRight(c) ==
    job[c].at = "closed" /\ job[c].attempt < Attempts /\ row[c].status = "claimed"
        => enrolment[job[c].by] = "revoked"

CallRight(c) ==
    JobRight(c) /\ MadeRight(c) /\ RowRight(c) /\ WaiterRight(c) /\ StoppedRight(c)

RequestsRight ==
    /\ \A r \in Runner : RequestRight(r)
    /\ \A r \in Runner, c \in Call : HeldRight(r, c) /\ GivingRight(r, c)

IInv ==
    TypeOK /\ RequestsRight /\ (\A c \in Call : CallRight(c)) /\ ClearRight

-----------------------------------------------------------------------------
(* Typing, and each action as it is seen at one call or one runner.        *)

OutcomeOrNone == RunnerOutcomes \cup {"none"}
RowStatuses == {"absent", "queued", "claimed", "done", "cancelled"}
JobPlaces == {"none", "received", "cleared", "returning", "closed"}
WaiterPlaces == {"idle", "polling", "ended", "last_look"} \cup Told

RowsTyped == row \in [Call -> CallRow]
JobsTyped == job \in [Call -> Job]
RequestsTyped == request \in [Runner -> Request]
OthersTyped ==
    /\ enrolment \in [Runner -> {"unknown", "enrolled", "revoked"}]
    /\ waiter \in [Call -> WaiterPlaces]
    /\ kind \in [Call -> Kinds]
    /\ late \subseteq Call
    /\ switch \in BOOLEAN
    /\ made \in [Call -> Nat]
    /\ handed \subseteq Runner \X Call
    /\ clear \subseteq Call
    /\ faults \in 0..MaxFaults

LEMMA TypeOKParts == TypeOK <=> RowsTyped /\ JobsTyped /\ RequestsTyped /\ OthersTyped
  BY DEF TypeOK, RowsTyped, JobsTyped, RequestsTyped, OthersTyped, WaiterPlaces

LEMMA TypeOKNext ==
    ASSUME RowsTyped', JobsTyped', RequestsTyped', OthersTyped'
    PROVE  TypeOK'
  BY DEF TypeOK, RowsTyped, JobsTyped, RequestsTyped, OthersTyped, WaiterPlaces

LEMMA NoRowTyped == NoRow \in CallRow /\ NoRow.status = "absent"
  BY DEF NoRow, CallRow

LEMMA NoJobTyped == NoJob \in Job
<1>1. 0 \in 0..Attempts
  BY NumbersAssumption
<1> QED
  BY <1>1 DEF NoJob, Job

LEMMA NoRequestTyped == NoRequest \in Request
  BY DEF NoRequest, Request

LEMMA InitTyped == Init => TypeOK
<1> SUFFICES ASSUME Init PROVE TypeOK
  OBVIOUS
<1>1. RowsTyped /\ JobsTyped /\ RequestsTyped
  BY NoRowTyped, NoJobTyped, NoRequestTyped DEF Init, RowsTyped, JobsTyped, RequestsTyped
<1>2. 0 \in 0..MaxFaults
  BY NumbersAssumption
<1>3. OthersTyped
  BY <1>2 DEF Init, OthersTyped, WaiterPlaces
<1> QED
  BY <1>1, <1>3, TypeOKParts

\* The row of one call is changed, or none is.
OnlyRow(c) == \A d \in Call \ {c} : row'[d] = row[d]
OnlyJob(c) == \A d \in Call \ {c} : job'[d] = job[d]
OnlyRequest(r) == \A q \in Runner \ {r} : request'[q] = request[q]

LEMMA RecordedSets ==
    ASSUME RowsTyped, NEW c \in Call, NEW o \in OutcomeOrNone, row' = Recorded(c, o)
    PROVE  /\ RowsTyped' /\ OnlyRow(c)
           /\ row'[c].status = "done" /\ row'[c].outcome = o /\ row'[c].by = row[c].by
<1> DEFINE q == [row[c] EXCEPT !.status = "done", !.outcome = o]
<1>1. row' = [row EXCEPT ![c] = q]
  BY DEF Recorded
<1>2. q \in CallRow
  BY DEF RowsTyped, CallRow, OutcomeOrNone
<1>3. row[c] \in CallRow
  BY DEF RowsTyped
<1>4. q.status = "done" /\ q.outcome = o /\ q.by = row[c].by
  BY <1>3 DEF CallRow
<1> HIDE DEF q
<1> QED
  BY <1>1, <1>2, <1>4 DEF RowsTyped, OnlyRow

LEMMA ReturnSets ==
    ASSUME JobsTyped, NEW c \in Call, NEW o \in RunnerOutcomes, Return(c, o)
    PROVE  /\ JobsTyped' /\ OnlyJob(c)
           /\ job'[c].at = "returning" /\ job'[c].outcome = o /\ job'[c].attempt = 1
           /\ job'[c].by = job[c].by /\ job'[c].used = job[c].used
<1> DEFINE j == [job[c] EXCEPT !.at = "returning", !.outcome = o, !.attempt = 1]
<1>1. job' = [job EXCEPT ![c] = j]
  BY DEF Return
<1>2. job[c] \in Job
  BY DEF JobsTyped
<1>3. 1 \in 0..Attempts
  BY NumbersAssumption
<1>5. j \in Job
  BY <1>2, <1>3 DEF Job
<1>4. /\ j.at = "returning" /\ j.outcome = o /\ j.attempt = 1
      /\ j.by = job[c].by /\ j.used = job[c].used
  BY <1>2 DEF Job
<1> HIDE DEF j
<1> QED
  BY <1>1, <1>4, <1>5 DEF JobsTyped, OnlyJob

LEMMA SetJobSets ==
    ASSUME JobsTyped, NEW c \in Call, NEW at \in JobPlaces, SetJob(c, at)
    PROVE  /\ JobsTyped' /\ OnlyJob(c)
           /\ job'[c].at = at /\ job'[c].outcome = job[c].outcome
           /\ job'[c].attempt = job[c].attempt
           /\ job'[c].by = job[c].by /\ job'[c].used = job[c].used
<1> DEFINE j == [job[c] EXCEPT !.at = at]
<1>1. job' = [job EXCEPT ![c] = j]
  BY DEF SetJob
<1>2. job[c] \in Job
  BY DEF JobsTyped
<1>3. j \in Job
  BY <1>2 DEF Job, JobPlaces
<1>4. /\ j.at = at /\ j.outcome = job[c].outcome /\ j.attempt = job[c].attempt
      /\ j.by = job[c].by /\ j.used = job[c].used
  BY <1>2 DEF Job
<1> HIDE DEF j
<1> QED
  BY <1>1, <1>3, <1>4 DEF JobsTyped, OnlyJob

\* An attempt that failed is followed by the next one or is the last.
LEMMA RetrySets ==
    ASSUME JobsTyped, NEW c \in Call, NEW u \in SUBSET (1..Attempts), Retry(c, u)
    PROVE  /\ JobsTyped' /\ OnlyJob(c)
           /\ job'[c].outcome = job[c].outcome /\ job'[c].by = job[c].by /\ job'[c].used = u
           /\ \/ job'[c].at = "returning" /\ job'[c].attempt = job[c].attempt + 1
              \/ job'[c].at = "closed" /\ job'[c].attempt = Attempts
<1> DEFINE at == IF job[c].attempt < Attempts THEN "returning" ELSE "closed"
           n == IF job[c].attempt < Attempts THEN job[c].attempt + 1 ELSE job[c].attempt
           j == [job[c] EXCEPT !.used = u, !.at = at, !.attempt = n]
<1>1. job' = [job EXCEPT ![c] = j]
  BY DEF Retry
<1>2. job[c] \in Job
  BY DEF JobsTyped
<1>3. job[c].attempt \in 0..Attempts
  BY <1>2 DEF Job
<1>4. at \in JobPlaces /\ n \in 0..Attempts
  BY <1>3, NumbersAssumption DEF JobPlaces
<1>5. \/ at = "returning" /\ n = job[c].attempt + 1
      \/ at = "closed" /\ n = Attempts
  BY <1>3, NumbersAssumption
<1> HIDE DEF at, n
<1>6. j \in Job
  BY <1>2, <1>4 DEF Job, JobPlaces
<1>7. /\ j.at = at /\ j.attempt = n /\ j.used = u
      /\ j.outcome = job[c].outcome /\ j.by = job[c].by
  BY <1>2 DEF Job
<1> HIDE DEF j
<1> QED
  BY <1>1, <1>5, <1>6, <1>7 DEF JobsTyped, OnlyJob

LEMMA RowTyped ==
    ASSUME RowsTyped, NEW c \in Call
    PROVE  /\ row[c] \in CallRow /\ row[c].status \in RowStatuses
           /\ row[c].outcome \in OutcomeOrNone /\ row[c].by \in Runner \cup {NoRunner}
  BY DEF RowsTyped, CallRow, RowStatuses, OutcomeOrNone

LEMMA JobTyped ==
    ASSUME JobsTyped, NEW c \in Call
    PROVE  /\ job[c] \in Job /\ job[c].at \in JobPlaces /\ job[c].outcome \in OutcomeOrNone
           /\ job[c].by \in Runner \cup {NoRunner} /\ job[c].attempt \in 0..Attempts
           /\ job[c].used \subseteq 1..Attempts
  BY DEF JobsTyped, Job, JobPlaces, OutcomeOrNone

LEMMA RequestTyped ==
    ASSUME RequestsTyped, NEW r \in Runner
    PROVE  /\ request[r] \in Request /\ request[r].calls \subseteq Call
           /\ request[r].out \subseteq Call /\ request[r].stopped \in BOOLEAN
           /\ request[r].at \in {"none", "open", "claimed", "handing"}
  BY DEF RequestsTyped, Request

\* The worker's steps: what becomes of the row, and of what the worker was told.
LEMMA WaiterSteps ==
    ASSUME TypeOK, NEW c \in Call,
           TakeAnswer(c) \/ TimeUp(c) \/ Withdraw(c) \/ GiveUp(c) \/ StopWaiter(c) \/ KillWaiter(c)
    PROVE  /\ RowsTyped' /\ OnlyRow(c)
           /\ waiter' = [waiter EXCEPT ![c] = waiter'[c]]
           /\ \/ /\ row'[c] = row[c]
                 /\ waiter'[c] \in {"ended", "last_look", "gone", NoAnswer(c)}
              \/ /\ row[c].status = "done" /\ row'[c] = NoRow
                 /\ waiter'[c] = Meaning(row[c].outcome)
              \/ /\ row[c].status = "queued" /\ row'[c] = NoRow
                 /\ waiter'[c] = "withdrawn"
              \/ /\ row[c].status = "queued" /\ row'[c].status = "cancelled"
                 /\ waiter'[c] = "gone"
           /\ Waiting(c)
<1>a. RowsTyped /\ waiter \in [Call -> WaiterPlaces] /\ row[c] \in CallRow
  BY TypeOKParts, RowTyped DEF OthersTyped
<1>b. row \in [Call -> CallRow]
  BY <1>a DEF RowsTyped
<1>1. CASE TakeAnswer(c)
  BY <1>1, <1>a, <1>b, NoRowTyped DEF TakeAnswer, RowsTyped, OnlyRow, SetWaiter, Waiting
<1>2. CASE TimeUp(c)
  BY <1>2, <1>a, <1>b DEF TimeUp, RowsTyped, OnlyRow, SetWaiter, Waiting
<1>3. CASE Withdraw(c)
  BY <1>3, <1>a, <1>b, NoRowTyped DEF Withdraw, RowsTyped, OnlyRow, SetWaiter, Waiting
<1>4. CASE GiveUp(c)
  BY <1>4, <1>a, <1>b DEF GiveUp, RowsTyped, OnlyRow, SetWaiter, Waiting
<1>5. CASE KillWaiter(c)
  BY <1>5, <1>a, <1>b DEF KillWaiter, RowsTyped, OnlyRow, SetWaiter
<1>6. CASE StopWaiter(c)
  <2> DEFINE q == [row[c] EXCEPT !.status = "cancelled"]
  <2>1. q \in CallRow
    BY <1>a DEF CallRow
  <2>2. q.status = "cancelled"
    BY <1>a DEF CallRow
  <2>3. row' = [row EXCEPT ![c] = IF row[c].status = "queued" THEN q ELSE row[c]]
    BY <1>6 DEF StopWaiter, Cancelled
  <2>4. SetWaiter(c, "gone") /\ waiter[c] = "polling"
    BY <1>6 DEF StopWaiter
  <2> HIDE DEF q
  <2> QED
    BY <2>1, <2>2, <2>3, <2>4, <1>a, <1>b DEF RowsTyped, OnlyRow, SetWaiter, Waiting
<1> QED
  BY <1>1, <1>2, <1>3, <1>4, <1>5, <1>6

-----------------------------------------------------------------------------
(* What a step leaves alone keeps what the invariant says of it.           *)

\* Who was handed a write stays recorded, a runner known stays known, a revoked one revoked.
Grows ==
    /\ kind' = kind /\ handed \subseteq handed'
    /\ \A r \in Runner : /\ enrolment[r] # "unknown" => enrolment'[r] # "unknown"
                         /\ enrolment[r] = "revoked" => enrolment'[r] = "revoked"

Untouched(d) ==
    row'[d] = row[d] /\ job'[d] = job[d] /\ made'[d] = made[d] /\ waiter'[d] = waiter[d]

LEMMA CallFrame ==
    ASSUME NEW d \in Call, CallRight(d), Grows, Untouched(d), d \in clear => d \in clear'
    PROVE  CallRight(d)'
<1> USE DEF Untouched
<1>1. JobRight(d)'
  BY DEF CallRight, JobRight, Grows
<1>2. MadeRight(d)'
  BY DEF CallRight, MadeRight, Says, Grows
<1>3. RowRight(d)'
  BY DEF CallRight, RowRight, Says, Grows
<1>4. WaiterRight(d)'
  BY DEF CallRight, WaiterRight, Grows
<1>5. StoppedRight(d)'
  BY DEF CallRight, JobRight, StoppedRight, Grows
<1> QED
  BY <1>1, <1>2, <1>3, <1>4, <1>5 DEF CallRight

LEMMA RequestsFrame ==
    ASSUME RequestsRight, Grows, request' = request, clear \subseteq clear',
           \A r \in Runner, c \in Call : Holds(r, c) => row'[c] = row[c] /\ job'[c] = job[c]
    PROVE  RequestsRight'
<1>1. ASSUME NEW r \in Runner PROVE RequestRight(r)'
  BY DEF RequestsRight, RequestRight, Grows
<1>2. ASSUME NEW r \in Runner, NEW c \in Call PROVE HeldRight(r, c)' /\ GivingRight(r, c)'
  <2>1. HeldRight(r, c) /\ GivingRight(r, c)
    BY DEF RequestsRight
  <2>2. HeldRight(r, c)'
    BY <2>1 DEF HeldRight, Holds
  <2>3. GivingRight(r, c)'
    BY <2>1 DEF GivingRight, Grows
  <2> QED
    BY <2>2, <2>3
<1> QED
  BY <1>1, <1>2 DEF RequestsRight

LEMMA ClearFrame ==
    ASSUME ClearRight, switch' = switch, clear \subseteq clear',
           \A c \in Call : row'[c].status = "claimed" => row[c].status = "claimed"
    PROVE  ClearRight'
  BY DEF ClearRight

\* A step that touches no call and no request.
LEMMA QuietKeeps ==
    ASSUME IInv, TypeOK', Grows, request' = request, row' = row, job' = job, made' = made,
           waiter' = waiter, switch' = switch, clear' = clear
    PROVE  IInv'
<1>1. \A c \in Call : CallRight(c)'
  BY CallFrame DEF IInv, Untouched
<1>2. RequestsRight'
  BY RequestsFrame DEF IInv
<1>3. ClearRight'
  BY ClearFrame DEF IInv
<1> QED
  BY <1>1, <1>2, <1>3 DEF IInv

\* The calls other than c are untouched, and so are the requests, which do not hold c.
LEMMA OneCallKeeps ==
    ASSUME IInv, TypeOK', NEW c \in Call, CallRight(c)', Grows, clear' = clear,
           switch' = switch, request' = request, \A r \in Runner : ~Holds(r, c),
           \A d \in Call \ {c} : Untouched(d),
           row'[c].status = "claimed" => row[c].status = "claimed"
    PROVE  IInv'
<1>1. ASSUME NEW d \in Call PROVE CallRight(d)'
  BY CallFrame DEF IInv
<1>2. RequestsRight'
  BY RequestsFrame DEF IInv, Untouched
<1>3. ClearRight'
  BY ClearFrame DEF IInv, Untouched
<1> QED
  BY <1>1, <1>2, <1>3 DEF IInv

\* A step on requests alone.
LEMMA RequestStepKeeps ==
    ASSUME IInv, TypeOK', RequestsRight', Grows, row' = row, job' = job, made' = made,
           waiter' = waiter, switch' = switch, clear' = clear
    PROVE  IInv'
<1>1. \A c \in Call : CallRight(c)'
  BY CallFrame DEF IInv, Untouched
<1>2. ClearRight'
  BY ClearFrame DEF IInv
<1> QED
  BY <1>1, <1>2 DEF IInv

LEMMA IInvParts ==
    ASSUME IInv
    PROVE  /\ RowsTyped /\ JobsTyped /\ RequestsTyped /\ OthersTyped
           /\ \A r \in Runner : RequestRight(r)
           /\ \A r \in Runner, c \in Call : HeldRight(r, c) /\ GivingRight(r, c)
           /\ \A c \in Call : /\ JobRight(c) /\ MadeRight(c) /\ RowRight(c)
                              /\ WaiterRight(c) /\ StoppedRight(c)
           /\ ClearRight
  BY TypeOKParts DEF IInv, RequestsRight, CallRight

-----------------------------------------------------------------------------
(* Operators and the clock.                                                *)

LEMMA OperatorsKeep ==
    ASSUME IInv, (\E r \in Runner : Enrol(r) \/ Revoke(r)) \/ \E c \in Call : PassDeadline(c)
    PROVE  IInv'
<1>a. OthersTyped
  BY IInvParts
<1>1. OthersTyped'
  BY <1>a DEF Enrol, Revoke, PassDeadline, OthersTyped
<1>2. RowsTyped' /\ JobsTyped' /\ RequestsTyped'
  BY IInvParts DEF Enrol, Revoke, PassDeadline, RowsTyped, JobsTyped, RequestsTyped
<1>3. TypeOK'
  BY <1>1, <1>2, TypeOKNext
<1>4. Grows
  BY <1>a DEF Enrol, Revoke, PassDeadline, Grows, OthersTyped
<1> QED
  BY <1>3, <1>4, QuietKeeps DEF Enrol, Revoke, PassDeadline

LEMMA TurnSwitchKeeps == ASSUME IInv, TurnSwitch PROVE IInv'
<1> USE DEF TurnSwitch
<1>a. OthersTyped
  BY IInvParts
<1>1. OthersTyped'
  BY <1>a DEF OthersTyped
<1>2. RowsTyped' /\ JobsTyped' /\ RequestsTyped'
  BY IInvParts DEF RowsTyped, JobsTyped, RequestsTyped
<1>3. TypeOK'
  BY <1>1, <1>2, TypeOKNext
<1>4. Grows /\ clear \subseteq clear'
  BY DEF Grows
<1>5. \A c \in Call : CallRight(c)'
  BY <1>4, CallFrame DEF IInv, Untouched
<1>6. RequestsRight'
  BY <1>4, RequestsFrame DEF IInv
<1>7. ClearRight'
  BY <1>a DEF ClearRight, OthersTyped
<1> QED
  BY <1>3, <1>5, <1>6, <1>7 DEF IInv

-----------------------------------------------------------------------------
(* The worker's steps.                                                     *)

\* A call that is queued, or that no longer has a row, is in no request.
LEMMA HeldIsClaimed ==
    ASSUME IInv, NEW c \in Call, row[c].status # "claimed" \/ job[c].at # "none"
    PROVE  \A r \in Runner : ~Holds(r, c)
  BY IInvParts DEF HeldRight

LEMMA WaiterKeeps ==
    ASSUME IInv, NEW c \in Call,
           TakeAnswer(c) \/ TimeUp(c) \/ Withdraw(c) \/ GiveUp(c) \/ StopWaiter(c) \/ KillWaiter(c)
    PROVE  IInv'
<1>t. TypeOK
  BY DEF IInv
<1>f. /\ job' = job /\ made' = made /\ kind' = kind /\ enrolment' = enrolment
      /\ handed' = handed /\ clear' = clear /\ switch' = switch /\ request' = request
      /\ late' = late /\ faults' \in 0..MaxFaults
  <2>1. faults \in 0..MaxFaults
    BY <1>t DEF TypeOK
  <2> QED
    BY <2>1, NumbersAssumption DEF TakeAnswer, TimeUp, Withdraw, GiveUp, StopWaiter, KillWaiter, Fault
<1> DEFINE Step == TakeAnswer(c) \/ TimeUp(c) \/ Withdraw(c) \/ GiveUp(c) \/ StopWaiter(c) \/ KillWaiter(c)
<1>s. Step
  OBVIOUS
<1> HIDE DEF Step
<1>e. /\ RowsTyped' /\ OnlyRow(c) /\ waiter' = [waiter EXCEPT ![c] = waiter'[c]] /\ Waiting(c)
      /\ \/ /\ row'[c] = row[c] /\ waiter'[c] \in {"ended", "last_look", "gone", NoAnswer(c)}
         \/ /\ row[c].status = "done" /\ row'[c] = NoRow /\ waiter'[c] = Meaning(row[c].outcome)
         \/ /\ row[c].status = "queued" /\ row'[c] = NoRow /\ waiter'[c] = "withdrawn"
         \/ /\ row[c].status = "queued" /\ row'[c].status = "cancelled" /\ waiter'[c] = "gone"
  BY <1>s, <1>t, WaiterSteps DEF Step
<1>p. JobRight(c) /\ MadeRight(c) /\ RowRight(c) /\ WaiterRight(c) /\ StoppedRight(c)
  BY IInvParts
<1>w. waiter \in [Call -> WaiterPlaces]
  BY <1>t, TypeOKParts DEF OthersTyped
<1>1. waiter'[c] \in WaiterPlaces /\ waiter'[c] # "idle"
  <2>1. row[c].status = "done" => Meaning(row[c].outcome) \in {"ok", "failed", "refused", "not_authorized"}
    BY <1>p DEF RowRight, RunnerOutcomes, Meaning
  <2>2. NoAnswer(c) \in {"outcome_unknown", "unavailable"}
    BY DEF NoAnswer
  <2> QED
    BY <1>e, <2>1, <2>2 DEF WaiterPlaces, Told
<1>2. TypeOK'
  <2>1. waiter' \in [Call -> WaiterPlaces]
    BY <1>e, <1>w, <1>1
  <2>2. OthersTyped'
    BY <2>1, <1>f, <1>t, TypeOKParts DEF OthersTyped
  <2>3. JobsTyped' /\ RequestsTyped'
    BY <1>f, <1>t, TypeOKParts DEF JobsTyped, RequestsTyped
  <2> QED
    BY <1>e, <2>2, <2>3, TypeOKNext
<1>g. Grows
  BY <1>f DEF Grows
<1>o. \A d \in Call \ {c} : Untouched(d)
  BY <1>e, <1>f, <1>w DEF Untouched, OnlyRow
<1>3. CASE row'[c] = row[c]
  <2>1. waiter'[c] \in {"ended", "last_look", "gone", "outcome_unknown"} \/
        (waiter'[c] = "unavailable" /\ kind[c] # "write")
    <3>1. waiter'[c] \in {"ended", "last_look", "gone", NoAnswer(c)}
      BY <1>e, <1>3, NoRowTyped
    <3> QED
      BY <3>1 DEF NoAnswer
  <2>2. WaiterRight(c)'
    BY <2>1, <1>f, <1>1 DEF WaiterRight
  <2>3. JobRight(c)' /\ MadeRight(c)' /\ RowRight(c)' /\ StoppedRight(c)'
    BY <1>3, <1>f, <1>p DEF JobRight, MadeRight, RowRight, Says, StoppedRight
  <2>4. CallRight(c)'
    BY <2>2, <2>3 DEF CallRight
  <2>5. ASSUME NEW d \in Call PROVE CallRight(d)'
    BY <2>4, <1>f, <1>g, <1>o, CallFrame DEF IInv
  <2>6. row' = row
    BY <1>e, <1>3, <1>t, TypeOKParts DEF OnlyRow, RowsTyped
  <2>7. RequestsRight' /\ ClearRight'
    BY <2>6, <1>f, <1>g, RequestsFrame, ClearFrame DEF IInv
  <2> QED
    BY <1>2, <2>5, <2>7 DEF IInv
<1>4. CASE row'[c] # row[c]
  <2>1. /\ row[c].status \in {"done", "queued"}
        /\ row'[c].status \in {"absent", "cancelled"}
        /\ row'[c].status = "cancelled" => row[c].status = "queued" /\ waiter'[c] = "gone"
        /\ row[c].status = "queued" => waiter'[c] \in {"withdrawn", "gone"}
        /\ row[c].status = "done" => waiter'[c] # "unavailable"
    <3>1. row[c].status = "done" => Meaning(row[c].outcome) # "unavailable"
      BY <1>p DEF RowRight, RunnerOutcomes, Meaning
    <3> QED
      BY <1>e, <1>4, <3>1, NoRowTyped
  <2>2. \A r \in Runner : ~Holds(r, c)
    BY <2>1, HeldIsClaimed
  <2>3. job[c].at \notin {"received", "cleared"}
    BY <2>1, <1>p DEF RowRight, JobRight
  <2>4. row[c].status = "queued" => job[c].at = "none"
    BY <1>p DEF JobRight
  <2>5. JobRight(c)'
    BY <2>1, <2>4, <1>f, <1>p DEF JobRight
  <2>6. MadeRight(c)' /\ RowRight(c)' /\ StoppedRight(c)'
    BY <2>1, <1>f, <1>p DEF MadeRight, Says, RowRight, StoppedRight
  <2>7. WaiterRight(c)'
    BY <2>1, <2>3, <1>1, <1>f DEF WaiterRight
  <2>8. CallRight(c)'
    BY <2>5, <2>6, <2>7 DEF CallRight
  <2> QED
    BY <1>2, <1>f, <1>g, <1>o, <2>1, <2>2, <2>8, OneCallKeeps
<1> QED
  BY <1>3, <1>4

\* A call is queued for the first time; what was abandoned long ago is cleared out.
LEMMA EnqueueKeeps == ASSUME IInv, NEW c \in Call, Enqueue(c) PROVE IInv'
<1>t. RowsTyped /\ JobsTyped /\ RequestsTyped /\ OthersTyped
  BY IInvParts
<1>f. /\ job' = job /\ made' = made /\ kind' = kind /\ enrolment' = enrolment
      /\ handed' = handed /\ clear' = clear /\ switch' = switch /\ request' = request
      /\ late' = late /\ faults' = faults
  BY DEF Enqueue
<1> DEFINE q == [NoRow EXCEPT !.status = "queued"]
<1>q. q \in CallRow /\ q.status = "queued"
  BY NoRowTyped DEF CallRow
<1>1. PICK old \in SUBSET Stale :
          row' = [d \in Call |-> IF d = c THEN q ELSE IF d \in old THEN NoRow ELSE row[d]]
  BY DEF Enqueue
<1> HIDE DEF q
<1>2. waiter' = [waiter EXCEPT ![c] = "polling"] /\ waiter[c] = "idle"
  BY DEF Enqueue, SetWaiter
<1>3. TypeOK'
  <2>1. RowsTyped'
    BY <1>1, <1>q, <1>t, NoRowTyped DEF RowsTyped
  <2>2. OthersTyped'
    BY <1>2, <1>f, <1>t DEF OthersTyped, WaiterPlaces
  <2> QED
    BY <2>1, <2>2, <1>f, <1>t, TypeOKNext DEF JobsTyped, RequestsTyped
<1>4. \A r \in Runner, d \in Call : Holds(r, d) => d \notin old /\ d # c
  <2>1. row[c].status # "claimed"
    BY <1>2, IInvParts DEF WaiterRight
  <2> QED
    BY <2>1, HeldIsClaimed DEF Stale, Holds
<1>g. Grows
  BY <1>f DEF Grows
<1>5. RequestsRight'
  BY <1>1, <1>4, <1>f, <1>g, RequestsFrame DEF IInv
<1>6. ClearRight'
  BY <1>1, <1>q, <1>f, NoRowTyped, ClearFrame DEF IInv
<1>7. ASSUME NEW d \in Call PROVE CallRight(d)'
  <2>p. JobRight(d) /\ MadeRight(d) /\ RowRight(d) /\ WaiterRight(d) /\ StoppedRight(d)
    BY IInvParts
  <2>w. waiter'[d] = IF d = c THEN "polling" ELSE waiter[d]
    BY <1>2, <1>t DEF OthersTyped
  <2>1. CASE d = c
    <3>1. job[d].at = "none" /\ row'[d].status = "queued"
      BY <1>1, <1>2, <1>q, <2>1, <2>p DEF WaiterRight
    <3> QED
      BY <3>1, <2>1, <2>w, <2>p, <1>f
         DEF CallRight, JobRight, MadeRight, RowRight, WaiterRight, StoppedRight
  <2>2. CASE d # c /\ d \in old
    <3>1. row'[d].status = "absent" /\ waiter'[d] = waiter[d]
      BY <1>1, <2>2, <2>w, NoRowTyped
    <3>2. JobRight(d)' /\ MadeRight(d)' /\ RowRight(d)' /\ StoppedRight(d)'
      BY <3>1, <2>p, <1>f DEF JobRight, MadeRight, Says, RowRight, StoppedRight
    <3>3. WaiterRight(d)'
      BY <3>1, <2>p, <1>f DEF WaiterRight
    <3> QED
      BY <3>2, <3>3 DEF CallRight
  <2>3. CASE d # c /\ d \notin old
    BY <2>3, <2>w, <1>1, <1>f, <1>g, CallFrame DEF Untouched, IInv
  <2> QED
    BY <2>1, <2>2, <2>3
<1> QED
  BY <1>3, <1>5, <1>6, <1>7 DEF IInv

-----------------------------------------------------------------------------
(* The API serves a request for calls.                                     *)

\* One runner's request becomes q, and nothing else that is held changes.
LEMMA RequestSet ==
    ASSUME RequestsTyped, NEW r \in Runner, NEW q \in Request, request' = [request EXCEPT ![r] = q]
    PROVE  RequestsTyped' /\ request'[r] = q /\ OnlyRequest(r)
  BY DEF RequestsTyped, OnlyRequest

LEMMA OneRequestKeeps ==
    ASSUME IInv, OthersTyped', NEW r \in Runner, NEW q \in Request,
           request' = [request EXCEPT ![r] = q], RequestRight(r)',
           \A c \in Call : HeldRight(r, c)' /\ GivingRight(r, c)',
           row' = row, job' = job, made' = made, waiter' = waiter, switch' = switch,
           clear' = clear, kind' = kind, enrolment' = enrolment, handed' = handed
    PROVE  IInv'
<1>1. RequestsTyped' /\ OnlyRequest(r)
  BY RequestSet, IInvParts
<1>2. TypeOK'
  BY <1>1, IInvParts, TypeOKNext DEF RowsTyped, JobsTyped
<1>3. Grows
  BY DEF Grows
<1>4. RequestsRight'
  <2>a. ASSUME NEW p \in Runner PROVE RequestRight(p)'
    <3>1. CASE p = r
      BY <3>1
    <3>2. CASE p # r
      BY <3>2, <1>1, IInvParts DEF OnlyRequest, RequestRight
    <3> QED
      BY <3>1, <3>2
  <2> SUFFICES ASSUME NEW p \in Runner, NEW c \in Call
               PROVE  HeldRight(p, c)' /\ GivingRight(p, c)'
    BY <2>a DEF RequestsRight
  <2>1. CASE p = r
    BY <2>1
  <2>2. CASE p # r
    BY <2>2, <1>1, IInvParts DEF OnlyRequest, HeldRight, Holds, GivingRight
  <2> QED
    BY <2>1, <2>2
<1> QED
  BY <1>2, <1>3, <1>4, RequestStepKeeps

\* A request that is only opened holds nothing.
LEMMA RequestOpensKeeps ==
    ASSUME IInv, NEW r \in Runner, AskForCalls(r) \/ EndPoll(r) \/ LoseRequest(r)
    PROVE  IInv'
<1>a. OthersTyped
  BY IInvParts
<1>1. PICK at \in {"none", "open"} :
          /\ request' = [request EXCEPT ![r] = [NoRequest EXCEPT !.at = at]]
          /\ at = "open" => enrolment[r] # "unknown"
  <2>1. NoRequest = [NoRequest EXCEPT !.at = "none"]
    BY DEF NoRequest
  <2> QED
    BY <2>1 DEF AskForCalls, EndPoll, LoseRequest, Known
<1>2. /\ row' = row /\ job' = job /\ made' = made /\ waiter' = waiter /\ switch' = switch
      /\ clear' = clear /\ kind' = kind /\ enrolment' = enrolment /\ handed' = handed
      /\ late' = late /\ faults' \in 0..MaxFaults
  BY <1>a, NumbersAssumption DEF AskForCalls, EndPoll, LoseRequest, Fault, OthersTyped
<1> DEFINE q == [NoRequest EXCEPT !.at = at]
<1>3. q \in Request /\ q.at = at /\ q.calls = {} /\ q.out = {}
  BY DEF NoRequest, Request
<1> HIDE DEF q
<1>4. request' = [request EXCEPT ![r] = q]
  BY <1>1 DEF q
<1>5. request'[r] = q
  BY <1>3, <1>4, RequestSet, IInvParts
<1>6. RequestRight(r)' /\ \A c \in Call : HeldRight(r, c)' /\ GivingRight(r, c)'
  BY <1>1, <1>2, <1>3, <1>5 DEF RequestRight, HeldRight, Holds, GivingRight
<1>7. OthersTyped'
  BY <1>2, <1>a DEF OthersTyped
<1> QED
  BY <1>2, <1>3, <1>4, <1>6, <1>7, OneRequestKeeps

LEMMA ReadSwitchesKeeps == ASSUME IInv, NEW r \in Runner, ReadSwitches(r) PROVE IInv'
<1> USE DEF ReadSwitches
<1>a. OthersTyped
  BY IInvParts
<1> DEFINE stop == switch /\ \E c \in request[r].calls : kind[c] = "write"
           q == [request[r] EXCEPT !.at = "handing", !.stopped = stop]
<1>1. request[r] \in Request /\ request[r].calls \subseteq Call
  BY IInvParts, RequestTyped
<1>s. stop \in BOOLEAN
  BY <1>a DEF OthersTyped
<1>2. request' = [request EXCEPT ![r] = q]
  OBVIOUS
<1>3. stop <=> switch /\ \E c \in request[r].calls : kind[c] = "write"
  OBVIOUS
<1> HIDE DEF stop
<1>4. /\ q \in Request /\ q.at = "handing" /\ q.stopped = stop
      /\ q.calls = request[r].calls /\ q.out = request[r].out
  BY <1>1, <1>s DEF Request
<1> HIDE DEF q
<1>5. request'[r] = q
  BY <1>2, <1>4, RequestSet, IInvParts
<1>6. RequestRight(r)'
  BY <1>4, <1>5, IInvParts DEF RequestRight
<1>7. ASSUME NEW c \in Call PROVE HeldRight(r, c)' /\ GivingRight(r, c)'
  <2>1. HeldRight(r, c)'
    BY <1>4, <1>5, IInvParts DEF HeldRight, Holds
  <2>2. c \notin request[r].out
    BY IInvParts DEF RequestRight
  <2>3. c \in request[r].calls /\ ~switch => c \in clear
    BY IInvParts DEF HeldRight, Holds, ClearRight
  <2>4. GivingRight(r, c)'
    BY <1>3, <1>4, <1>5, <1>s, <2>2, <2>3 DEF GivingRight
  <2> QED
    BY <2>1, <2>4
<1>8. OthersTyped'
  BY <1>a DEF OthersTyped
<1> QED
  BY <1>2, <1>4, <1>6, <1>7, <1>8, OneRequestKeeps

LEMMA ClaimKeeps == ASSUME IInv, NEW r \in Runner, Claim(r) PROVE IInv'
<1>a. OthersTyped /\ RowsTyped /\ JobsTyped /\ RequestsTyped
  BY IInvParts
<1>1. PICK taken \in SUBSET Claimable :
          /\ row' = [c \in Call |-> IF c \in taken
                                    THEN [row[c] EXCEPT !.status = "claimed", !.by = r]
                                    ELSE row[c]]
          /\ request' = [request EXCEPT ![r].at = "claimed", ![r].calls = taken]
          /\ clear' = IF switch THEN clear \ taken ELSE clear \cup taken
  BY DEF Claim
<1>2. /\ job' = job /\ made' = made /\ waiter' = waiter /\ switch' = switch /\ kind' = kind
      /\ enrolment' = enrolment /\ handed' = handed /\ late' = late /\ faults' = faults
      /\ request[r].at = "open"
  BY DEF Claim
<1>3. \A c \in taken : c \in Call /\ row[c].status = "queued"
  BY DEF Claimable
<1>4. ASSUME NEW c \in Call
      PROVE  /\ row'[c] \in CallRow
             /\ c \in taken => row'[c].status = "claimed" /\ row'[c].by = r
             /\ c \notin taken => row'[c] = row[c]
  <2> DEFINE q == [row[c] EXCEPT !.status = "claimed", !.by = r]
  <2>1. row[c] \in CallRow
    BY <1>a, RowTyped
  <2>2. q \in CallRow /\ q.status = "claimed" /\ q.by = r
    BY <2>1 DEF CallRow
  <2>3. row'[c] = IF c \in taken THEN q ELSE row[c]
    BY <1>1
  <2> HIDE DEF q
  <2> QED
    BY <2>1, <2>2, <2>3
<1>5. RowsTyped'
  <2>1. row' = [c \in Call |-> row'[c]]
    BY <1>1
  <2> QED
    BY <1>4, <2>1 DEF RowsTyped
<1> DEFINE q == [request[r] EXCEPT !.at = "claimed", !.calls = taken]
<1>6. request[r] \in Request
  BY <1>a, RequestTyped
<1>7. q \in Request /\ q.at = "claimed" /\ q.calls = taken /\ q.out = request[r].out
  BY <1>6, <1>3 DEF Request
<1>8. request' = [request EXCEPT ![r] = q]
  BY <1>1
<1> HIDE DEF q
<1>9. RequestsTyped' /\ request'[r] = q /\ OnlyRequest(r)
  BY <1>7, <1>8, <1>a, RequestSet
<1>10. clear' \subseteq Call /\ \A c \in Call : c \notin taken => (c \in clear <=> c \in clear')
  BY <1>1, <1>3, <1>a DEF OthersTyped
<1>11. TypeOK'
  BY <1>2, <1>5, <1>9, <1>10, <1>a, TypeOKNext DEF OthersTyped, JobsTyped
<1>12. Grows
  BY <1>2 DEF Grows
<1>13. request[r].out = {} /\ enrolment[r] # "unknown"
  BY <1>2, IInvParts DEF RequestRight
<1>14. RequestsRight'
  <2>a. ASSUME NEW p \in Runner PROVE RequestRight(p)'
    <3>1. CASE p = r
      BY <3>1, <1>2, <1>7, <1>9, <1>13 DEF RequestRight
    <3>2. CASE p # r
      BY <3>2, <1>2, <1>9, IInvParts DEF OnlyRequest, RequestRight
    <3> QED
      BY <3>1, <3>2
  <2> SUFFICES ASSUME NEW p \in Runner, NEW c \in Call
               PROVE  HeldRight(p, c)' /\ GivingRight(p, c)'
    BY <2>a DEF RequestsRight
  <2>1. CASE p = r
    <3>1. GivingRight(r, c)'
      BY <1>2, <1>7, <1>9, <1>13 DEF GivingRight
    <3>2. c \in taken => job[c].at = "none"
      BY <1>3, IInvParts DEF JobRight
    <3>3. HeldRight(r, c)'
      BY <1>2, <1>4, <1>7, <1>9, <1>13, <3>2 DEF HeldRight, Holds
    <3> QED
      BY <2>1, <3>1, <3>3
  <2>2. CASE p # r
    <3>1. request'[p] = request[p]
      BY <1>9, <2>2 DEF OnlyRequest
    <3>2. Holds(p, c) => c \notin taken
      BY <1>3, IInvParts DEF HeldRight
    <3>3. HeldRight(p, c)'
      BY <1>2, <1>4, <3>1, <3>2, IInvParts DEF HeldRight, Holds
    <3>4. GivingRight(p, c)'
      BY <1>2, <1>10, <3>1, <3>2, IInvParts DEF GivingRight, Holds
    <3> QED
      BY <3>3, <3>4
  <2> QED
    BY <2>1, <2>2
<1>15. ASSUME NEW c \in Call PROVE CallRight(c)'
  <2>1. CASE c \in taken
    <3>1. row[c].status = "queued" /\ row'[c].status = "claimed"
      BY <1>3, <1>4, <2>1
    <3>2. job[c].at = "none"
      BY <3>1, IInvParts DEF JobRight
    <3>3. JobRight(c)' /\ RowRight(c)' /\ StoppedRight(c)'
      BY <1>2, <3>1, <3>2 DEF JobRight, RowRight, StoppedRight
    <3>4. MadeRight(c)'
      BY <1>2, IInvParts DEF MadeRight, Says
    <3>5. WaiterRight(c)'
      BY <1>2, <3>1, IInvParts DEF WaiterRight
    <3> QED
      BY <3>3, <3>4, <3>5 DEF CallRight
  <2>2. CASE c \notin taken
    BY <2>2, <1>2, <1>4, <1>10, <1>12, CallFrame DEF Untouched, IInv
  <2> QED
    BY <2>1, <2>2
<1>16. ClearRight'
  <2> SUFFICES ASSUME ~switch, NEW c \in Call, row'[c].status = "claimed" PROVE c \in clear'
    BY <1>2 DEF ClearRight
  <2>1. c \notin taken => c \in clear
    BY <1>4, IInvParts DEF ClearRight
  <2> QED
    BY <1>1, <2>1
<1> QED
  BY <1>11, <1>14, <1>15, <1>16 DEF IInv

LEMMA HandOverKeeps ==
    ASSUME IInv, NEW r \in Runner, NEW c \in Call, HandOver(r, c)
    PROVE  IInv'
<1>a. OthersTyped /\ RowsTyped /\ JobsTyped /\ RequestsTyped
  BY IInvParts
<1> DEFINE stop == kind[c] = "write" /\ request[r].stopped
<1>1. /\ job' = job /\ made' = made /\ waiter' = waiter /\ switch' = switch /\ kind' = kind
      /\ enrolment' = enrolment /\ late' = late /\ clear' = clear /\ faults' = faults
      /\ request[r].at = "handing" /\ c \in request[r].calls
  BY DEF HandOver
<1>2. row[c].status = "claimed" /\ row[c].by = r /\ job[c].at = "none"
  BY <1>1, IInvParts DEF HeldRight, Holds
<1>3. /\ stop => row' = Recorded(c, "not_authorized") /\ handed' = handed
      /\ ~stop => row' = row /\ handed' = IF kind[c] = "write" THEN handed \cup {<<r, c>>} ELSE handed
  BY <1>2 DEF HandOver, Records
<1> DEFINE q == [request[r] EXCEPT !.calls = @ \ {c}, !.out = IF stop THEN @ ELSE @ \cup {c}]
<1>4. request[r] \in Request
  BY <1>a, RequestTyped
<1>5. request' = [request EXCEPT ![r] = q]
  BY DEF HandOver
<1>6. /\ q.at = "handing" /\ q.calls = request[r].calls \ {c} /\ q.stopped = request[r].stopped
      /\ q.out = IF stop THEN request[r].out ELSE request[r].out \cup {c}
      /\ q \in Request
  BY <1>1, <1>4 DEF Request
<1>s. stop <=> kind[c] = "write" /\ request[r].stopped
  OBVIOUS
<1> HIDE DEF stop, q
<1>7. RequestsTyped' /\ request'[r] = q /\ OnlyRequest(r)
  BY <1>5, <1>6, <1>a, RequestSet
<1>8. /\ RowsTyped' /\ OnlyRow(c)
      /\ stop => row'[c].status = "done" /\ row'[c].outcome = "not_authorized"
      /\ ~stop => row' = row
  <2>1. CASE stop
    BY <2>1, <1>3, <1>a, RecordedSets DEF OutcomeOrNone, RunnerOutcomes
  <2>2. CASE ~stop
    BY <2>2, <1>3, <1>a DEF RowsTyped, OnlyRow
  <2> QED
    BY <2>1, <2>2
<1>9. handed \subseteq handed' /\ handed' \subseteq Runner \X Call
  BY <1>3, <1>a DEF OthersTyped
<1>10. TypeOK'
  BY <1>1, <1>7, <1>8, <1>9, <1>a, TypeOKNext DEF OthersTyped, JobsTyped
<1>11. Grows
  BY <1>1, <1>9 DEF Grows
<1>12. c \notin request[r].out
  BY <1>1, IInvParts DEF RequestRight
<1>13. RequestsRight'
  <2>a. ASSUME NEW p \in Runner PROVE RequestRight(p)'
    <3>1. CASE p = r
      BY <3>1, <1>1, <1>6, <1>7, <1>12, IInvParts DEF RequestRight
    <3>2. CASE p # r
      BY <3>2, <1>1, <1>7, IInvParts DEF OnlyRequest, RequestRight
    <3> QED
      BY <3>1, <3>2
  <2> SUFFICES ASSUME NEW p \in Runner, NEW d \in Call
               PROVE  HeldRight(p, d)' /\ GivingRight(p, d)'
    BY <2>a DEF RequestsRight
  <2>0. HeldRight(p, d) /\ GivingRight(p, d)
    BY IInvParts
  <2>1. CASE p # r
    <3>1. request'[p] = request[p]
      BY <1>7, <2>1 DEF OnlyRequest
    <3>2. Holds(p, d) => d # c
      BY <1>2, <2>0, <2>1 DEF HeldRight
    <3> QED
      BY <1>1, <1>8, <1>9, <2>0, <3>1, <3>2
         DEF HeldRight, GivingRight, Holds, OnlyRow
  <2>2. CASE p = r /\ d # c
    <3>1. row'[d] = row[d] /\ (d \in q.calls <=> d \in request[r].calls)
          /\ (d \in q.out <=> d \in request[r].out)
      BY <1>6, <1>8, <2>2 DEF OnlyRow
    <3> QED
      BY <1>1, <1>6, <1>7, <1>9, <2>0, <2>2, <3>1 DEF HeldRight, GivingRight, Holds
  <2>3. CASE p = r /\ d = c
    <3>3. HeldRight(p, d)'
      BY <1>1, <1>2, <1>6, <1>7, <1>8, <1>12, <2>3 DEF HeldRight, Holds
    <3>4. GivingRight(p, d)'
      BY <1>1, <1>3, <1>6, <1>7, <1>12, <1>s, <2>0, <2>3 DEF GivingRight
    <3> QED
      BY <3>3, <3>4
  <2> QED
    BY <2>1, <2>2, <2>3
<1>14. ASSUME NEW d \in Call PROVE CallRight(d)'
  <2>1. CASE d # c \/ ~stop
    BY <2>1, <1>1, <1>8, <1>11, CallFrame DEF Untouched, OnlyRow, IInv
  <2>2. CASE d = c /\ stop
    <3>1. JobRight(c) /\ MadeRight(c) /\ WaiterRight(c)
      BY IInvParts
    <3>2. made[c] = 0
      BY <1>2, <3>1 DEF MadeRight
    <3>3. JobRight(c)' /\ StoppedRight(c)' /\ MadeRight(c)'
      BY <1>1, <1>2, <3>1 DEF JobRight, StoppedRight, MadeRight
    <3>4. RowRight(c)'
      BY <1>1, <1>2, <1>8, <2>2, <3>2 DEF RowRight, Says, RunnerOutcomes
    <3>5. WaiterRight(c)'
      BY <1>1, <1>2, <3>1 DEF WaiterRight
    <3> QED
      BY <2>2, <3>3, <3>4, <3>5 DEF CallRight
  <2> QED
    BY <2>1, <2>2
<1>15. ClearRight'
  BY <1>1, <1>2, <1>8, ClearFrame DEF OnlyRow, IInv
<1> QED
  BY <1>10, <1>13, <1>14, <1>15 DEF IInv

LEMMA RespondKeeps == ASSUME IInv, NEW r \in Runner, Respond(r) PROVE IInv'
<1>a. OthersTyped /\ RowsTyped /\ JobsTyped /\ RequestsTyped
  BY IInvParts
<1>1. /\ row' = row /\ made' = made /\ waiter' = waiter /\ switch' = switch /\ kind' = kind
      /\ enrolment' = enrolment /\ late' = late /\ clear' = clear /\ faults' = faults
      /\ handed' = handed /\ request[r].at = "handing"
      /\ request' = [request EXCEPT ![r] = NoRequest]
  BY DEF Respond
<1> DEFINE j == [NoJob EXCEPT !.at = "received", !.by = r]
<1>2. /\ j \in Job /\ j.at = "received" /\ j.by = r /\ j.used = {} /\ j.outcome = "none"
  BY NoJobTyped DEF NoJob, Job
<1>3. job' = [c \in Call |-> IF c \in request[r].out THEN j ELSE job[c]]
  BY DEF Respond
<1> HIDE DEF j
<1>4. RequestsTyped' /\ request'[r] = NoRequest /\ OnlyRequest(r)
  BY <1>1, <1>a, NoRequestTyped, RequestSet
<1>5. TypeOK'
  BY <1>1, <1>2, <1>3, <1>4, <1>a, TypeOKNext DEF OthersTyped, RowsTyped, JobsTyped
<1>6. Grows
  BY <1>1 DEF Grows
<1>7. \A c \in request[r].out : /\ row[c].status = "claimed" /\ row[c].by = r
                                /\ job[c].at = "none"
  BY <1>a, RequestTyped, IInvParts DEF HeldRight, Holds
<1>8. RequestsRight'
  <2>a. ASSUME NEW p \in Runner PROVE RequestRight(p)'
    <3>1. CASE p = r
      BY <3>1, <1>4 DEF NoRequest, RequestRight
    <3>2. CASE p # r
      BY <3>2, <1>1, <1>4, IInvParts DEF OnlyRequest, RequestRight
    <3> QED
      BY <3>1, <3>2
  <2> SUFFICES ASSUME NEW p \in Runner, NEW c \in Call
               PROVE  HeldRight(p, c)' /\ GivingRight(p, c)'
    BY <2>a DEF RequestsRight
  <2>1. CASE p = r
    BY <1>4, <2>1 DEF NoRequest, HeldRight, Holds, GivingRight
  <2>2. CASE p # r
    <3>0. HeldRight(p, c) /\ GivingRight(p, c)
      BY IInvParts
    <3>1. request'[p] = request[p]
      BY <1>4, <2>2 DEF OnlyRequest
    <3>2. Holds(p, c) => job'[c] = job[c]
      BY <1>3, <1>7, <2>2, <3>0 DEF HeldRight
    <3> QED
      BY <1>1, <3>0, <3>1, <3>2 DEF HeldRight, Holds, GivingRight
  <2> QED
    BY <2>1, <2>2
<1>9. ASSUME NEW c \in Call PROVE CallRight(c)'
  <2>1. CASE c \in request[r].out
    <3>1. job'[c] = j /\ row[c].status = "claimed" /\ row[c].by = r /\ job[c].at = "none"
      BY <1>3, <1>7, <2>1
    <3>2. enrolment[r] # "unknown" /\ (kind[c] = "write" => <<r, c>> \in handed /\ c \in clear)
      BY <1>1, <2>1, IInvParts DEF RequestRight, GivingRight
    <3>3. JobRight(c)'
      BY <1>1, <1>2, <3>1, <3>2 DEF JobRight
    <3>4. MadeRight(c)'
      BY <1>1, <1>2, <3>1, IInvParts DEF MadeRight
    <3>5. RowRight(c)' /\ StoppedRight(c)'
      BY <1>1, <1>2, <3>1 DEF RowRight, StoppedRight
    <3>6. WaiterRight(c)'
      BY <1>1, <3>1, IInvParts DEF WaiterRight
    <3> QED
      BY <3>3, <3>4, <3>5, <3>6 DEF CallRight
  <2>2. CASE c \notin request[r].out
    BY <2>2, <1>1, <1>3, <1>6, CallFrame DEF Untouched, IInv
  <2> QED
    BY <2>1, <2>2
<1>10. ClearRight'
  BY <1>1, ClearFrame DEF IInv
<1> QED
  BY <1>5, <1>8, <1>9, <1>10 DEF IInv

-----------------------------------------------------------------------------
(* The runner makes a call and returns its result.                         *)

\* A step of the runner that has c: no request holds c, and no other call is touched.
LEMMA JobStepKeeps ==
    ASSUME IInv, NEW c \in Call, job[c].at # "none", CallRight(c)',
           RowsTyped', JobsTyped', OnlyRow(c), OnlyJob(c),
           \E n \in Nat : made' = [made EXCEPT ![c] = n],
           row'[c].status = "claimed" => row[c].status = "claimed",
           waiter' = waiter, switch' = switch, clear' = clear, kind' = kind, late' = late,
           enrolment' = enrolment, handed' = handed, request' = request, faults' \in 0..MaxFaults
    PROVE  IInv'
<1>a. OthersTyped /\ RequestsTyped
  BY IInvParts
<1>1. TypeOK'
  BY <1>a, TypeOKNext DEF OthersTyped, RequestsTyped
<1>2. \A d \in Call \ {c} : Untouched(d)
  BY <1>a DEF Untouched, OnlyRow, OnlyJob, OthersTyped
<1>3. Grows
  BY DEF Grows
<1>4. \A r \in Runner : ~Holds(r, c)
  BY HeldIsClaimed
<1> QED
  BY <1>1, <1>2, <1>3, <1>4, OneCallKeeps

\* A step that leaves the row alone, and only moves the runner's side of the call.
LEMMA MoveKeeps ==
    ASSUME IInv, NEW c \in Call, job[c].at # "none", JobsTyped', OnlyJob(c),
           job'[c].by = job[c].by, job'[c].at \in {"cleared", "returning"},
           job'[c].at = "cleared" => job[c].at = "received",
           MadeRight(c)', \E n \in Nat : made' = [made EXCEPT ![c] = n],
           job[c].at \in {"received", "cleared"},
           row' = row, waiter' = waiter, switch' = switch, clear' = clear, kind' = kind,
           late' = late, enrolment' = enrolment, handed' = handed, request' = request,
           faults' = faults
    PROVE  IInv'
<1>a. OthersTyped /\ RowsTyped
  BY IInvParts
<1>1. RowsTyped' /\ OnlyRow(c) /\ faults' \in 0..MaxFaults
  BY <1>a DEF RowsTyped, OnlyRow, OthersTyped
<1>2. JobRight(c)' /\ StoppedRight(c)'
  BY IInvParts DEF JobRight, StoppedRight
<1>3. RowRight(c)' /\ WaiterRight(c)'
  BY IInvParts DEF RowRight, WaiterRight
<1>4. CallRight(c)'
  BY <1>2, <1>3 DEF CallRight
<1> QED
  BY <1>1, <1>4, JobStepKeeps

LEMMA AcceptKeeps == ASSUME IInv, NEW c \in Call, Accept(c) PROVE IInv'
<1> USE DEF Accept
<1>1. JobsTyped' /\ OnlyJob(c) /\ job'[c].at = "cleared" /\ job'[c].by = job[c].by
      /\ job'[c].used = job[c].used /\ job'[c].outcome = job[c].outcome
  BY IInvParts, SetJobSets DEF JobPlaces
<1>2. made \in [Call -> Nat]
  BY IInvParts DEF OthersTyped
<1>3. MadeRight(c)'
  BY <1>1, IInvParts DEF MadeRight
<1>4. \E n \in Nat : made' = [made EXCEPT ![c] = n]
  BY <1>2
<1> QED
  BY <1>1, <1>3, <1>4, MoveKeeps

\* A result that is true of the write is there to be returned.
LEMMA ReturnKeeps ==
    ASSUME IInv, NEW c \in Call, NEW o \in RunnerOutcomes, Return(c, o),
           job[c].at \in {"received", "cleared"}, NEW n \in {0, 1}, made' = [made EXCEPT ![c] = n],
           n = 1 => kind[c] = "write",
           o = "ok" => kind[c] # "write" \/ n = 1, o \in {"refused", "not_authorized"} => n = 0,
           row' = row, waiter' = waiter, switch' = switch, clear' = clear, kind' = kind,
           late' = late, enrolment' = enrolment, handed' = handed, request' = request,
           faults' = faults
    PROVE  IInv'
<1>1. JobsTyped' /\ OnlyJob(c) /\ job'[c].at = "returning" /\ job'[c].outcome = o
      /\ job'[c].attempt = 1 /\ job'[c].by = job[c].by /\ job'[c].used = job[c].used
  BY IInvParts, ReturnSets
<1>2. made'[c] = n
  BY IInvParts DEF OthersTyped
<1>3. job[c].used = {}
  BY IInvParts DEF MadeRight
<1>4. MadeRight(c)'
  BY <1>1, <1>2, <1>3 DEF MadeRight, Says
<1>5. \E m \in Nat : made' = [made EXCEPT ![c] = m]
  OBVIOUS
<1> QED
  BY <1>1, <1>4, <1>5, MoveKeeps

LEMMA MakesKeep ==
    ASSUME IInv, NEW c \in Call, RefuseCall(c) \/ Read(c) \/ NotRedeemed(c) \/ Write(c)
    PROVE  IInv'
<1>1. made \in [Call -> Nat] /\ (job[c].at \in {"received", "cleared"} => made[c] = 0)
  BY IInvParts DEF OthersTyped, MadeRight
<1>2. made' = made /\ job[c].at \in {"received", "cleared"} => made' = [made EXCEPT ![c] = 0]
  BY <1>1
<1>3. CASE RefuseCall(c)
  BY <1>2, <1>3, ReturnKeeps DEF RefuseCall, RunnerOutcomes
<1>4. CASE Read(c)
  BY <1>2, <1>4, ReturnKeeps DEF Read, RunnerOutcomes
<1>5. CASE NotRedeemed(c)
  BY <1>2, <1>5, ReturnKeeps DEF NotRedeemed, RunnerOutcomes
<1>6. CASE Write(c)
  <2>1. PICK done \in BOOLEAN :
            /\ Return(c, IF done THEN "ok" ELSE "error")
            /\ \/ made' = [made EXCEPT ![c] = @ + 1]
               \/ ~done /\ UNCHANGED made
    BY <1>6 DEF Write
  <2>2. /\ job[c].at = "cleared" /\ kind[c] = "write" /\ row' = row /\ waiter' = waiter /\ switch' = switch
        /\ clear' = clear /\ kind' = kind /\ late' = late /\ enrolment' = enrolment
        /\ handed' = handed /\ request' = request /\ faults' = faults
    BY <1>6 DEF Write
  <2>3. CASE made' = [made EXCEPT ![c] = @ + 1]
    <3>1. made' = [made EXCEPT ![c] = 1]
      BY <1>1, <2>2, <2>3
    <3> DEFINE o == IF done THEN "ok" ELSE "error"
    <3>2. o \in RunnerOutcomes /\ o \notin {"refused", "not_authorized"} /\ Return(c, o)
      BY <2>1 DEF RunnerOutcomes
    <3> HIDE DEF o
    <3> QED
      BY <2>2, <3>1, <3>2, ReturnKeeps
  <2>4. CASE ~done /\ made' = made
    BY <1>2, <2>1, <2>2, <2>4, ReturnKeeps DEF RunnerOutcomes
  <2> QED
    BY <2>1, <2>3, <2>4
<1> QED
  BY <1>3, <1>4, <1>5, <1>6

\* The row is left alone, or the result that is being returned is recorded in it.
LEMMA ResultKeeps ==
    ASSUME IInv, NEW c \in Call, job[c].at = "returning", JobsTyped', OnlyJob(c),
           job'[c].at \in {"returning", "closed"}, job'[c].outcome = job[c].outcome,
           job'[c].by = job[c].by,
           job'[c].at = "returning" => job'[c].attempt > 0 /\ \A n \in job'[c].used : n < job'[c].attempt,
           row' = row \/ row' = Recorded(c, job[c].outcome),
           StoppedRight(c)',
           made' = made, waiter' = waiter, switch' = switch, clear' = clear, kind' = kind,
           late' = late, enrolment' = enrolment, handed' = handed, request' = request,
           faults' \in 0..MaxFaults, row' = row \/ Records(c, job[c].by)
    PROVE  IInv'
<1>a. OthersTyped /\ RowsTyped
  BY IInvParts
<1>p. JobRight(c) /\ MadeRight(c) /\ RowRight(c) /\ WaiterRight(c)
  BY IInvParts
<1>0. job[c].outcome \in RunnerOutcomes /\ Says(job[c].outcome, c)
  BY <1>p DEF MadeRight
<1>1. /\ RowsTyped' /\ OnlyRow(c) /\ row'[c].by = row[c].by
      /\ \/ row'[c] = row[c]
         \/ /\ row'[c].status = "done" /\ row'[c].outcome = job[c].outcome
            /\ row[c].status = "claimed"
  <2>1. CASE row' = row
    BY <2>1, <1>a DEF RowsTyped, OnlyRow
  <2>2. CASE row' = Recorded(c, job[c].outcome) /\ row' # row
    BY <2>2, <1>a, <1>0, RecordedSets DEF OutcomeOrNone, Records
  <2> QED
    BY <2>1, <2>2
<1>2. JobRight(c)'
  BY <1>1, <1>p DEF JobRight
<1>3. MadeRight(c)'
  BY <1>p, <1>0 DEF MadeRight, Says
<1>4. RowRight(c)'
  BY <1>1, <1>0, <1>p DEF RowRight, Says
<1>5. WaiterRight(c)'
  BY <1>1, <1>p DEF WaiterRight
<1>6. CallRight(c)'
  BY <1>2, <1>3, <1>4, <1>5 DEF CallRight
<1>7. \E n \in Nat : made' = [made EXCEPT ![c] = n]
  BY <1>a DEF OthersTyped
<1> QED
  BY <1>1, <1>6, <1>7, JobStepKeeps

LEMMA PostResultKeeps == ASSUME IInv, NEW c \in Call, PostResult(c) PROVE IInv'
<1>1. /\ job[c].at = "returning" /\ SetJob(c, "closed")
      /\ made' = made /\ waiter' = waiter /\ switch' = switch /\ clear' = clear /\ kind' = kind
      /\ late' = late /\ enrolment' = enrolment /\ handed' = handed /\ request' = request
      /\ faults' = faults
      /\ row' = IF Fresh(c) /\ Records(c, job[c].by) THEN Recorded(c, job[c].outcome) ELSE row
  BY DEF PostResult
<1>2. /\ JobsTyped' /\ OnlyJob(c) /\ job'[c].at = "closed" /\ job'[c].outcome = job[c].outcome
      /\ job'[c].by = job[c].by
  BY <1>1, IInvParts, SetJobSets DEF JobPlaces
<1>3. faults' \in 0..MaxFaults
  BY <1>1, IInvParts DEF OthersTyped
<1>4. JobRight(c) /\ MadeRight(c) /\ job[c].attempt \in 0..Attempts /\ row[c].by = row[c].by
  BY IInvParts, JobTyped
<1>5. job[c].by \in Runner /\ enrolment[job[c].by] \in {"enrolled", "revoked"}
  BY <1>1, <1>4, IInvParts DEF JobRight, OthersTyped
<1>6. row[c].status = "claimed" => Records(c, job[c].by)
  BY <1>1, <1>4 DEF JobRight, Records
<1>7. job[c].attempt \notin job[c].used
  BY <1>1, <1>4 DEF MadeRight
<1>8. StoppedRight(c)'
  <2> SUFFICES ASSUME row'[c].status = "claimed" PROVE enrolment[job[c].by] = "revoked"
    BY <1>1, <1>2 DEF StoppedRight
  <2>1. CASE Fresh(c) /\ Records(c, job[c].by)
    <3>1. row'[c].status = "done"
      BY <1>1, <2>1, <1>4, IInvParts, RecordedSets DEF MadeRight, OutcomeOrNone
    <3> QED
      BY <3>1
  <2>2. CASE ~Fresh(c)
    BY <2>2, <1>5, <1>7 DEF Fresh, Known, Nonce
  <2>3. CASE ~Records(c, job[c].by)
    BY <2>3, <1>1, <1>6
  <2> QED
    BY <2>1, <2>2, <2>3
<1> QED
  BY <1>1, <1>2, <1>3, <1>8, ResultKeeps

LEMMA PostFailsKeeps == ASSUME IInv, NEW c \in Call, PostFails(c) PROVE IInv'
<1>1. /\ job[c].at = "returning"
      /\ made' = made /\ waiter' = waiter /\ switch' = switch /\ clear' = clear /\ kind' = kind
      /\ late' = late /\ enrolment' = enrolment /\ handed' = handed /\ request' = request
      /\ row' = row \/ row' = Recorded(c, job[c].outcome)
      /\ row' = row \/ Records(c, job[c].by)
      /\ Retry(c, job[c].used) \/ Retry(c, job[c].used \cup {Nonce(c)})
  BY DEF PostFails
<1>2. faults' \in 0..MaxFaults
  BY IInvParts, NumbersAssumption DEF PostFails, Fault, OthersTyped
<1>3. /\ job[c].attempt > 0 /\ \A n \in job[c].used : n < job[c].attempt
      /\ job[c].attempt \in 0..Attempts /\ job[c].used \subseteq 1..Attempts
  BY <1>1, IInvParts, JobTyped DEF MadeRight
<1>4. job[c].attempt \in 1..Attempts
  BY <1>3, NumbersAssumption
<1>5. PICK u \in SUBSET (1..Attempts) :
          Retry(c, u) /\ \A n \in u : n \in Nat /\ n <= job[c].attempt
  <2>1. \A n \in job[c].used : n \in Nat /\ n <= job[c].attempt
    BY <1>3, NumbersAssumption
  <2>2. job[c].used \cup {job[c].attempt} \subseteq 1..Attempts
    BY <1>3, <1>4
  <2>3. \A n \in job[c].used \cup {job[c].attempt} : n \in Nat /\ n <= job[c].attempt
    BY <1>4, <2>1, NumbersAssumption
  <2> QED
    BY <1>1, <1>3, <2>1, <2>2, <2>3 DEF Nonce
<1>6. /\ JobsTyped' /\ OnlyJob(c)
      /\ job'[c].outcome = job[c].outcome /\ job'[c].by = job[c].by /\ job'[c].used = u
      /\ \/ job'[c].at = "returning" /\ job'[c].attempt = job[c].attempt + 1
         \/ job'[c].at = "closed" /\ job'[c].attempt = Attempts
  BY <1>5, IInvParts, RetrySets
<1>7. job'[c].at = "returning" => job'[c].attempt > 0 /\ \A n \in job'[c].used : n < job'[c].attempt
  BY <1>4, <1>5, <1>6, NumbersAssumption
<1>8. StoppedRight(c)'
  BY <1>6, NumbersAssumption DEF StoppedRight
<1> QED
  BY <1>1, <1>2, <1>6, <1>7, <1>8, ResultKeeps

LEMMA RunnerDiesKeeps == ASSUME IInv, NEW r \in Runner, RunnerDies(r) PROVE IInv'
<1>a. OthersTyped /\ RowsTyped /\ JobsTyped /\ RequestsTyped
  BY IInvParts
<1>1. /\ row' = row /\ made' = made /\ waiter' = waiter /\ switch' = switch /\ kind' = kind
      /\ enrolment' = enrolment /\ late' = late /\ clear' = clear /\ handed' = handed
      /\ request' = request
      /\ job' = [c \in Call |-> IF job[c].by = r /\ Active(c)
                                THEN [job[c] EXCEPT !.at = "closed", !.attempt = Attempts]
                                ELSE job[c]]
  BY DEF RunnerDies
<1>2. faults' \in 0..MaxFaults
  <2>1. faults \in 0..MaxFaults /\ Fault
    BY <1>a DEF RunnerDies, OthersTyped
  <2> QED
    BY <2>1, NumbersAssumption DEF Fault
<1>3. ASSUME NEW c \in Call
      PROVE  /\ job'[c] \in Job
             /\ \/ job'[c] = job[c]
                \/ /\ Active(c) /\ job'[c].at = "closed" /\ job'[c].attempt = Attempts
                   /\ job'[c].by = job[c].by /\ job'[c].outcome = job[c].outcome
  <2> DEFINE j == [job[c] EXCEPT !.at = "closed", !.attempt = Attempts]
  <2>1. job[c] \in Job /\ Attempts \in 0..Attempts
    BY <1>a, JobTyped, NumbersAssumption
  <2>2. /\ j \in Job /\ j.at = "closed" /\ j.attempt = Attempts
        /\ j.by = job[c].by /\ j.outcome = job[c].outcome
    BY <2>1 DEF Job
  <2>3. job'[c] = IF job[c].by = r /\ Active(c) THEN j ELSE job[c]
    BY <1>1
  <2> HIDE DEF j
  <2> QED
    BY <2>1, <2>2, <2>3
<1>4. JobsTyped'
  <2>1. job' = [c \in Call |-> job'[c]]
    BY <1>1
  <2> QED
    BY <1>3, <2>1 DEF JobsTyped
<1>5. TypeOK'
  BY <1>1, <1>2, <1>4, <1>a, TypeOKNext DEF OthersTyped, RowsTyped, RequestsTyped
<1>6. Grows
  BY <1>1 DEF Grows
<1>7. \A q \in Runner, c \in Call : Holds(q, c) => job'[c] = job[c]
  BY <1>3, IInvParts DEF HeldRight, Active
<1>8. RequestsRight'
  BY <1>1, <1>6, <1>7, RequestsFrame DEF IInv
<1>9. ASSUME NEW c \in Call PROVE CallRight(c)'
  <2>1. CASE job'[c] = job[c]
    BY <2>1, <1>1, <1>6, CallFrame DEF Untouched, IInv
  <2>2. CASE job'[c] # job[c]
    <3>1. /\ Active(c) /\ job'[c].at = "closed" /\ job'[c].attempt = Attempts
          /\ job'[c].by = job[c].by /\ job'[c].outcome = job[c].outcome
      BY <1>3, <2>2
    <3>2. JobRight(c)'
      <4>1. JobRight(c) /\ job[c].at # "none"
        BY <3>1, IInvParts DEF Active
      <4>2. row' = row /\ kind' = kind /\ enrolment' = enrolment /\ clear' = clear /\ handed' = handed
        BY <1>1
      <4> QED
        BY <3>1, <4>1, <4>2 DEF JobRight
    <3>3. MadeRight(c)'
      BY <1>1, <3>1, IInvParts DEF MadeRight, Says, Active
    <3>4. RowRight(c)' /\ WaiterRight(c)'
      BY <1>1, <3>1, IInvParts DEF RowRight, WaiterRight, Says, Active
    <3>5. StoppedRight(c)'
      BY <3>1, NumbersAssumption DEF StoppedRight
    <3> QED
      BY <3>2, <3>3, <3>4, <3>5 DEF CallRight
  <2> QED
    BY <2>1, <2>2
<1>10. ClearRight'
  BY <1>1, ClearFrame DEF IInv
<1> QED
  BY <1>5, <1>8, <1>9, <1>10 DEF IInv

-----------------------------------------------------------------------------
(* The invariant, and what follows from it.                                *)

LEMMA InitRight == Init => IInv
<1> SUFFICES ASSUME Init PROVE IInv
  OBVIOUS
<1>1. \A c \in Call : row[c] = NoRow /\ job[c] = NoJob /\ made[c] = 0 /\ waiter[c] = "idle"
  BY DEF Init
<1>2. \A r \in Runner : request[r] = NoRequest
  BY DEF Init
<1>3. ASSUME NEW c \in Call PROVE CallRight(c)
  BY <1>1 DEF CallRight, JobRight, MadeRight, RowRight, WaiterRight, StoppedRight, NoRow, NoJob
<1>4. RequestsRight
  BY <1>2 DEF RequestsRight, RequestRight, HeldRight, GivingRight, Holds, NoRequest
<1>5. ClearRight
  BY <1>1 DEF ClearRight, NoRow
<1> QED
  BY <1>3, <1>4, <1>5, InitTyped DEF IInv

LEMMA StutterKeeps == ASSUME IInv, UNCHANGED vars PROVE IInv'
<1>1. TypeOK'
  BY DEF vars, IInv, TypeOK
<1>2. Grows
  BY DEF vars, Grows
<1> QED
  BY <1>1, <1>2, QuietKeeps DEF vars

LEMMA NextKeeps == ASSUME IInv, Next PROVE IInv'
<1>1. ASSUME NEW c \in Call, CallStep(c) PROVE IInv'
  BY <1>1, WaiterKeeps, AcceptKeeps, MakesKeep, PostResultKeeps DEF CallStep
<1>2. ASSUME NEW c \in Call, \/ Enqueue(c) \/ PassDeadline(c) \/ StopWaiter(c)
                             \/ KillWaiter(c) \/ PostFails(c)
      PROVE IInv'
  BY <1>2, EnqueueKeeps, OperatorsKeep, WaiterKeeps, PostFailsKeeps
<1>3. ASSUME NEW r \in Runner, RequestStep(r) PROVE IInv'
  BY <1>3, ClaimKeeps, RequestOpensKeeps, ReadSwitchesKeeps, RespondKeeps, HandOverKeeps
     DEF RequestStep
<1>4. ASSUME NEW r \in Runner, \/ AskForCalls(r) \/ LoseRequest(r) \/ RunnerDies(r)
                               \/ Enrol(r) \/ Revoke(r)
      PROVE IInv'
  BY <1>4, RequestOpensKeeps, RunnerDiesKeeps, OperatorsKeep
<1> QED
  BY <1>1, <1>2, <1>3, <1>4, TurnSwitchKeeps DEF Next

\* dispatch.py:92-157, 259-303, store.py claim and record_result, agent.py:142-224: who holds
\* a call, what its row and its runner say of it, and what was made, agree in every state.
THEOREM Invariance == Spec => []IInv
<1>1. IInv /\ [Next]_vars => IInv'
  BY NextKeeps, StutterKeeps
<1> QED
  BY <1>1, InitRight, PTL DEF Spec

\* Rows, requests, jobs and the trail keep their shape, however long the protocol runs.
THEOREM TypeCorrect == Spec => []TypeOK
<1>1. IInv => TypeOK
  BY DEF IInv
<1> QED
  BY <1>1, Invariance, PTL

\* dispatch.py:282-303: a runner makes only writes that were recorded as handed to it, and
\* has only writes that were claimed while no kill switch was on, or one that was turned off.
THEOREM WritesCleared == Spec => []WritesAreCleared
<1>1. IInv => WritesAreCleared
  <2> SUFFICES ASSUME IInv, NEW c \in Call
               PROVE  /\ made[c] > 0 => <<job[c].by, c>> \in handed
                      /\ kind[c] = "write" /\ job[c].at # "none" => c \in clear
    BY DEF WritesAreCleared, WriteWasHandedOver, SwitchRespected
  <2>1. JobRight(c) /\ MadeRight(c)
    BY IInvParts
  <2>2. made[c] > 0 => job[c].at # "none" /\ kind[c] = "write"
    BY <2>1 DEF MadeRight
  <2> QED
    BY <2>1, <2>2 DEF JobRight
<1> QED
  BY <1>1, Invariance, PTL

\* agent.py:209-224: a result whose runner gave it up with attempts left is recorded, or the
\* runner has been revoked.
THEOREM StopsAnswered == Spec => []StopsOnlyWhenAnswered
<1>1. IInv => StopsOnlyWhenAnswered
  BY IInvParts DEF StopsOnlyWhenAnswered, StoppedRight
<1> QED
  BY <1>1, Invariance, PTL

-----------------------------------------------------------------------------
(* What the caller is told: each step makes or tells one thing, or neither. *)

\* What is told of one call follows what its worker holds.
LEMMA ToldIs ==
    /\ told = [c \in Call |-> told[c]]
    /\ \A c \in Call : told[c] = IF kind[c] = "write" /\ waiter[c] \in Told THEN waiter[c] ELSE "nothing"
  BY DEF told

LEMMA ToldStays ==
    ASSUME waiter' = waiter, kind' = kind
    PROVE  told' = told
  BY DEF told

\* A worker that is told nothing yet moves on, and is told something or nothing.
LEMMA ToldSteps ==
    ASSUME IInv, NEW c \in Call, kind' = kind, NEW w \in WaiterPlaces, waiter[c] \notin Told,
           waiter' = [waiter EXCEPT ![c] = w]
    PROVE  \/ told' = told
           \/ /\ kind[c] = "write" /\ w \in Told /\ told[c] = "nothing"
              /\ told' = [told EXCEPT ![c] = w]
<1>1. waiter \in [Call -> WaiterPlaces]
  BY IInvParts DEF OthersTyped
<1>2. \A d \in Call : d # c => told'[d] = told[d]
  BY <1>1 DEF told
<1>3. told[c] = "nothing" /\ told'[c] = IF kind[c] = "write" /\ w \in Told THEN w ELSE "nothing"
  BY <1>1 DEF told
<1>4. told = [d \in Call |-> told[d]] /\ told' = [d \in Call |-> told'[d]]
  BY DEF told
<1>5. CASE kind[c] = "write" /\ w \in Told
  <2>1. told'[c] = w
    BY <1>3, <1>5
  <2> HIDE DEF told
  <2>2. told' = [told EXCEPT ![c] = w]
    BY <1>2, <1>4, <2>1
  <2> QED
    BY <1>3, <1>5, <2>2
<1>6. CASE ~(kind[c] = "write" /\ w \in Told)
  <2>1. told'[c] = told[c]
    BY <1>3, <1>6
  <2>2. \A d \in Call : told'[d] = told[d]
    BY <1>2, <2>1
  <2>3. told' = told
    BY <1>4, <2>2
  <2> QED
    BY <2>3
<1> QED
  BY <1>5, <1>6

LEMMA WaiterImplements ==
    ASSUME IInv, NEW c \in Call,
           TakeAnswer(c) \/ TimeUp(c) \/ Withdraw(c) \/ GiveUp(c) \/ StopWaiter(c) \/ KillWaiter(c)
    PROVE  [Promise!Next]_(Promise!vars)
<1>1. made' = made /\ kind' = kind
  BY DEF TakeAnswer, TimeUp, Withdraw, GiveUp, StopWaiter, KillWaiter
<1>2. IInv'
  BY WaiterKeeps
<1>3. /\ waiter' = [waiter EXCEPT ![c] = waiter'[c]] /\ Waiting(c)
      /\ \/ waiter'[c] \in {"ended", "last_look", "gone", NoAnswer(c)}
         \/ row[c].status = "done" /\ waiter'[c] = Meaning(row[c].outcome)
         \/ row[c].status = "queued" /\ waiter'[c] = "withdrawn"
         \/ waiter'[c] = "gone"
  BY WaiterSteps DEF IInv
<1>4. waiter[c] \notin Told
  BY <1>3 DEF Waiting, Told
<1>5. waiter'[c] \in WaiterPlaces
  BY <1>2 DEF IInv, TypeOK, WaiterPlaces
<1>6. CASE told' = told
  BY <1>1, <1>6 DEF Promise!vars
<1>7. CASE /\ kind[c] = "write" /\ waiter'[c] \in Told /\ told[c] = "nothing"
           /\ told' = [told EXCEPT ![c] = waiter'[c]]
  <2> DEFINE t == waiter'[c]
  <2>p. JobRight(c) /\ MadeRight(c) /\ RowRight(c)
    BY IInvParts
  <2>1. CASE t \in {"ended", "last_look", "gone", NoAnswer(c)}
    <3>1. t \in {"gone", "outcome_unknown"}
      BY <1>7, <2>1 DEF NoAnswer, Told
    <3> QED
      BY <1>1, <1>7, <3>1 DEF Promise!Next, Promise!Tell, Promise!NotMade, Promise!Open
  <2>2. CASE row[c].status = "done" /\ t = Meaning(row[c].outcome)
    <3>1. row[c].outcome \in RunnerOutcomes /\ Says(row[c].outcome, c)
      BY <2>2, <2>p DEF RowRight
    <3>2. /\ t \in {"ok", "failed", "refused", "not_authorized"}
          /\ t = "ok" => made[c] = 1
          /\ t \in {"refused", "not_authorized"} => made[c] = 0
      BY <1>7, <2>2, <3>1 DEF Says, Meaning, RunnerOutcomes
    <3> QED
      BY <1>1, <1>7, <3>2 DEF Promise!Next, Promise!Tell, Promise!NotMade, Promise!Open
  <2>3. CASE row[c].status = "queued" /\ t = "withdrawn"
    <3>1. made[c] = 0
      BY <2>3, <2>p DEF JobRight, MadeRight
    <3> QED
      BY <1>1, <1>7, <2>3, <3>1 DEF Promise!Next, Promise!Tell, Promise!NotMade, Promise!Open
  <2>4. CASE t = "gone"
    BY <2>1, <2>4
  <2> QED
    BY <1>3, <2>1, <2>2, <2>3, <2>4
<1> QED
  BY <1>1, <1>3, <1>4, <1>5, <1>6, <1>7, ToldSteps

LEMMA WriteImplements ==
    ASSUME IInv, NEW c \in Call, Write(c)
    PROVE  [Promise!Next]_(Promise!vars)
<1>1. job[c].at = "cleared" /\ kind[c] = "write" /\ waiter' = waiter /\ kind' = kind
  BY DEF Write
<1>2. told' = told
  BY <1>1, ToldStays
<1>3. made[c] = 0
  BY <1>1, IInvParts DEF MadeRight
<1>4. made' = [made EXCEPT ![c] = 1] \/ made' = made
  BY <1>3 DEF Write
<1>5. told[c] \notin Promise!NotMade
  <2>1. WaiterRight(c)
    BY IInvParts
  <2> QED
    BY <1>1, <2>1, ToldIs DEF WaiterRight, Promise!NotMade, Told
<1>6. CASE made' = made
  BY <1>2, <1>6 DEF Promise!vars
<1>7. CASE made' = [made EXCEPT ![c] = 1]
  BY <1>2, <1>3, <1>5, <1>7 DEF Promise!Next, Promise!Make
<1> QED
  BY <1>4, <1>6, <1>7

\* The other steps neither reach a target nor end a wait.
LEMMA OthersStutter ==
    ASSUME made' = made, told' = told
    PROVE  [Promise!Next]_(Promise!vars)
  BY DEF Promise!vars

LEMMA EnqueueStutters == ASSUME IInv, NEW c \in Call, Enqueue(c) PROVE told' = told
<1>1. kind' = kind /\ waiter[c] \notin Told /\ waiter' = [waiter EXCEPT ![c] = "polling"]
  BY DEF Enqueue, SetWaiter, Told
<1>2. "polling" \in WaiterPlaces /\ "polling" \notin Told
  BY DEF WaiterPlaces, Told
<1> QED
  BY <1>1, <1>2, ToldSteps

LEMMA NextImplements == ASSUME IInv, Next PROVE [Promise!Next]_(Promise!vars)
<1>1. ASSUME NEW c \in Call, CallStep(c) PROVE [Promise!Next]_(Promise!vars)
  <2>1. CASE Accept(c) \/ RefuseCall(c) \/ Read(c) \/ NotRedeemed(c) \/ PostResult(c)
    BY <2>1, OthersStutter, ToldStays DEF Accept, RefuseCall, Read, NotRedeemed, PostResult
  <2> QED
    BY <1>1, <2>1, WaiterImplements, WriteImplements DEF CallStep
<1>2. ASSUME NEW c \in Call, PassDeadline(c) \/ PostFails(c) PROVE [Promise!Next]_(Promise!vars)
  BY <1>2, OthersStutter, ToldStays DEF PassDeadline, PostFails
<1>3. ASSUME NEW c \in Call, Enqueue(c) PROVE [Promise!Next]_(Promise!vars)
  <2>1. made' = made
    BY <1>3 DEF Enqueue
  <2> QED
    BY <1>3, <2>1, EnqueueStutters, OthersStutter
<1>4. ASSUME NEW r \in Runner, RequestStep(r) PROVE [Promise!Next]_(Promise!vars)
  BY <1>4, OthersStutter, ToldStays DEF RequestStep, Claim, EndPoll, ReadSwitches, Respond, HandOver
<1>5. ASSUME NEW r \in Runner, \/ AskForCalls(r) \/ LoseRequest(r) \/ RunnerDies(r)
                               \/ Enrol(r) \/ Revoke(r)
      PROVE [Promise!Next]_(Promise!vars)
  BY <1>5, OthersStutter, ToldStays DEF AskForCalls, LoseRequest, RunnerDies, Enrol, Revoke
<1>6. ASSUME TurnSwitch PROVE [Promise!Next]_(Promise!vars)
  BY <1>6, OthersStutter, ToldStays DEF TurnSwitch
<1>7. ASSUME NEW c \in Call, StopWaiter(c) \/ KillWaiter(c) PROVE [Promise!Next]_(Promise!vars)
  BY <1>7, WaiterImplements
<1> QED
  BY <1>1, <1>2, <1>3, <1>4, <1>5, <1>6, <1>7 DEF Next

\* dispatch.py:92-157, 282-303, agent.py:209-224: a write is made at most once, its caller is
\* told one thing, and that is true when it is told and true ever after.
THEOREM Refinement == Spec => PromiseKept
<1>1. Init => Promise!Init
  BY DEF Init, Promise!Init, told, Told
<1>2. IInv /\ [Next]_vars => [Promise!Next]_(Promise!vars)
  <2>1. ASSUME IInv, UNCHANGED vars PROVE [Promise!Next]_(Promise!vars)
    BY <2>1, OthersStutter, ToldStays DEF vars
  <2> QED
    BY <2>1, NextImplements
<1> QED
  BY <1>1, <1>2, Invariance, PTL DEF Spec, PromiseKept, Promise!Spec
=============================================================================
