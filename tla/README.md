# A TLA+ model of the L1 agent

The program (`src/l1_agent/`) takes a ServiceNow incident, matches it to a
published SOP, runs the SOP's steps and ends the run in one of four outcomes.
What makes it hard is not any one step. Workers die between two of them, a
lease lapses under a worker that is only slow, people approve, reject and throw
the kill switch at any moment, ServiceNow and the connectors lose answers, and
the program promises nevertheless that no run is lost, that no write is made
twice, and that no write is made that nobody allowed.

This directory models the parts that carry those promises, checks them with
TLC on small instances, and proves what matters most with TLAPS.

Paths below are relative to `src/l1_agent/`.

## The system

| Part | State it keeps | Operations | Talks to |
|---|---|---|---|
| Durable runs (`service/runs.py`, `engine/incident_processor.py`, `engine/journal.py`) | `jobs` (status, attempts, lease), `runs` (outcome, state), `run_steps` | ingest, claim, heartbeat, execute, park, conclude, give up, release | executor, ITSM, action store (`wake_run`) |
| SOP executor (`engine/executor.py`, `engine/state_machine.py`) | the walk: current step, run state, results so far; rebuilt from the journal | replay, call a step, follow a failure edge, verify, resolve | connectors, action pipeline, journal |
| Action pipeline (`actions/service.py`, `actions/store.py`, `actions/grants.py`) | one `actions` row per ACTION step: status, verdict, tier, change, approver, expiry | decide, open the change, ask, approve or reject, expire, authorise, redeem, write, verify, roll back, report | policy, ServiceNow changes, connectors, audit |
| Policy (`actions/policy.py`) | `policies`: autonomy, rules, kill switch; `platform_flags` | evaluate, effective tier, parse rules | called by the pipeline |
| ITSM connector (`connectors/itsm/servicenow.py`) | none of its own: the incident and the change records | claim (read, patch, read back), update, resolve, open a change once per correlation, read an approval | ServiceNow |
| Escalation (`escalation/escalator.py`, `notifications/`) | none | route a ticket to an L2 team, send mail | ITSM |
| Runner protocol (`runner/`) | `runner_calls` queue, enrolled keys; in the runner, the calls it has seen | enqueue, claim, record a result, cancel, hand out, poll, make, return | workers, runners outside |
| Connector SDK and hub (`connectors/sdk/`, `connectors/hub.py`, `utils/retry.py`) | grants used, cached secrets, circuit breakers | invoke, redeem a grant, retry reads | connectors |
| SOP lifecycle (`sop/`) | versions: draft, in review, approved, published, retired | create, edit, submit, approve, request changes, publish, retire | executor, matcher |
| SOP drafts (`sop/ingest.py`, `connectors/knowledge/`, `ai/advisor.py`) | a cursor per knowledge source; drafts by article and revision | sync, list, draft, edit, submit | SOP lifecycle, knowledge bases, model gateway |
| Matching and binding (`engine/sop_matcher.py`, `engine/parameters.py`) | the match and the values stored with the run | score, pick, bind, locate, resume | durable runs, model gateway |
| Intake (`main.py`, `api/app.py`, `service/runs.py`) | the unique key on open runs | poll a page, receive a webhook, ingest | ITSM, durable runs |
| Audit log and export (`audit/log.py`, `service/export.py`) | one hash chain per tenant; files and a manifest | append, checkpoint, verify, export | every store |
| Sign-in and authority (`auth/`, `api/access.py`) | sessions, login states, role mappings, API tokens, the break-glass account, signatures seen | sign in, load, authorise, revoke, consume once | API |
| Model gateway (`ai/`) | calls made, tokens used, the placeholders of a run | ask, refuse, record, redact, restore | providers |
| Event stream (`api/app.py`, `service/runs.py`, the dashboard's `useActivityStream`) | `events` by ascending id; the page's timers | write, stream, reconnect, give up | runs, browsers |
| Process (`main.py`, `config/settings.py`, `db/engine.py`) | listeners, loops, clients | check the settings, serve, limit the rate, drain, close | everything |
| Other HTTP handlers, dashboard, command line, adapters, deployment | none that the others do not keep | | |

Hard behaviours, by part. Durable runs: crashes between a call and its record,
two workers on one run, a decision that races the parking of its run. Action
pipeline: a write whose answer is lost, two attempts at one action, the switch
thrown between two reads of it, an approval that races its expiry. Runner: a
timeout that races a claim or a late answer. SOP lifecycle and audit: two
people, or two writers, at the same moment. Connections, credentials, policy and
authority: what was read is changed before it is acted on. Intake, knowledge and
the event stream: what is read a page or an id at a time moves while it is read. `PROJECT.json` lists each hazard at
its line with the properties that would catch it.

What makes each part correct. Durable runs: a run is concluded once, on what its
journal says, and is never dropped. Action pipeline: a write is made at most once,
only under a decision and, where one is required, an approval; the record is
true. Runner: a call is made at most once and answered to the one who waits.
SOP lifecycle: what runs was approved by somebody other than its author, as it
was approved. Audit: one chain, nothing rewritten. A model: advice, within a budget.
Sign-in: what was taken away runs out. Intake: one run of a ticket.

## The modules

| Module | What it is |
|---|---|
| `RunLedger` | What the durable runs promise: an outcome is given once, on results that are recorded once. |
| `RunQueue` | The queue, the journal, the ticket and the workers; implements `RunLedger`. |
| `MCRunQueue` | Symmetry for the runs of `RunQueue`. |
| `RunQueueProofs` | Typing, custody, the refinement, whatever stalls; and what holds while no live worker's lease lapses. |
| `WritePermit` | What the action pipeline promises of a write. |
| `ActionPipeline` | The pipeline from `ActionService.perform` to the step result; implements `WritePermit`. |
| `MCActionPipeline` | The instance: one call, two people, worker symmetry. |
| `ActionRun` | `ActionPipeline` with the job of its run, which `_park` sets waiting and a decision wakes. |
| `MCActionRun` | The instance, without symmetry. |
| `ActionPipelineProofs` | Typing. |
| `ActionPipelineWriteProofs` | Who may still send or undo a write; the refinement. |
| `ActionPipelineDecisionProofs` | What a decision permits, what stands, what is reported. |
| `RemoteCall` | What the runner protocol promises of a write. |
| `RunnerProtocol` | One call from the dispatch client to a runner and back; implements `RemoteCall`. |
| `MCRunnerProtocol` | The instance: a write and a read, two runners. |
| `RunnerProtocolProofs` | Typing, who may hold a call and make its write, the refinement. |
| `RunnerChecks` | What a runner checks of a call before it makes it. |
| `SopLifecycle` | The versions of an SOP and the people who write, approve and publish them. |
| `KnowledgeSync` | Articles become drafts, a cursor at a time. |
| `Drafts` | What a model's answer contributes to a draft. |
| `SopWalk` | The walk through an SOP, its failure edges, and its replay. |
| `Expressions` | The rules of DECISION steps and assertions. |
| `Choice` | How a run comes to its SOP and its values. |
| `GuardedCalls` | Retries behind a circuit breaker. |
| `WritePolicy` | The rules of a tenant between a decision and the write. |
| `Changes` | The approval of an action on its change record, and the record's closing. |
| `Connections` | The saved connection against what a process holds. |
| `Credentials` | A credential rotated under the calls that use it. |
| `ModelGateway` | Budgets for a language model. |
| `Redaction` | Placeholders out and back. |
| `Intake` | The list of new tickets, the webhook, one run of each. |
| `SignedRequests` | Signed deliveries, taken once. |
| `Sessions` | Login states and the idle time of a session. |
| `Access` | Roles, tokens, the break-glass account and the routes. |
| `AuditChain` | The hash chain, damage to it and its verification. |
| `TenantExport` | Tables and the log written out while the service goes on. |
| `EventStream` | Events in the order of their ids, and a page that stays connected. |
| `Service` | A process from its settings to its end. |
| `CoreComponents` | The constants, assumptions and instances of the components that are proved about. |
| `Components` | The instances of all components from `RunnerChecks` on, side by side, and what is promised of each. |
| `MCComponents` | The values of the constants of both for TLC, and the symmetry. |
| `CoreComponentsProofs` | The inductive invariants of the components of `CoreComponents`. |
| `ComponentsProofs` | What follows for `Components`. |
| `CompositionProofs` | The walk through an SOP and the rules of its steps; the types of every component. |

The queue and the pipeline meet at two places. `RunQueue` sees an action as its step
`ApprovalStep`, which may suspend the run until `Decide` or `Expire` wakes it.
`ActionPipeline` sees the queue as attempts: `Perform` begins one, `Crash` ends
one, and a second attempt beside the first stands for a lease that lapsed. `ActionRun`
adds the one thing of the queue that decides whether an action is ever taken up again,
the status of the job.
The other modules look inside what these two take as given: `Choice` and `SopWalk`
are the inside of `Load` to `RecordStep`, `RunnerProtocol` of a write that a runner
makes (the branch of `WriteAnswered` that comes back unanswered), `WritePolicy` of
the pipeline's verdict, `Changes` of its request for approval in ServiceNow,
`Intake` of a run's appearance in the queue, `RunnerChecks` of `Accept` and `Write`
of `RunnerProtocol`.

### RunQueue

One action is one database transaction or one call to ServiceNow, because that
is where other processes can come in between. A worker's record (`worker[w]`) is
what `RunService.execute` and `IncidentProcessor.run_once` hold in local variables;
`Crash` throws it away. Its `pc` names the place in that code.

- `Claim` is `RunService.claim`: the oldest job that is queued and due, or running
  with a lapsed lease. `Heartbeat` renews the lease of every job that carries the
  worker's name, but only while `run_once` runs: it is cancelled before `_park` and
  `_conclude`.
- `Load` .. `ResumeMatch` read the outcome, the count of attempts and the journal.
  Above `MaxAttempts` the run is given up.
- `ReadTicket`, `PatchTicket`, `ReadBack` are the three calls of the ServiceNow claim.
- `CallStep` is the journal's note that a step starts and the call itself;
  `RecordStep` is the transaction that makes its result permanent. The SOP is a list
  of steps; a step answers `ok`, `failed` or `error`, and `WalkEnds` turns that into
  the outcome. A step with a failure edge does not occur in the list.
- `ResolveTicket` and `HandOver` change the ticket before `Conclude` records it. A
  resolution that fails turns the outcome into `needs_human`; a hand-over that fails is
  swallowed, as in the code.
- An update of the ticket that fails may have been made all the same (`FailsToUpdate`):
  the caller cannot tell a refusal from a lost answer, and neither can `ResolveTicket`,
  which then hands over a ticket that is resolved.
- `Park` sets the run aside; `Decide` and `Expire` settle the request and wake a job
  that is `waiting`.
- `InfraError` and `OutsideEngine` are the exceptions that reach `work_once`, which
  calls `Release`. With `Outage`, ServiceNow may fail every call there is, and
  `MaxErrors` bounds only the errors of the database.

No write to `jobs` asks who holds the job. That is how the code is, and the
properties say what follows from it and what does not.

### ActionPipeline

`row[a]` is the `actions` row of step `a`; `told[a]` is what the journal records for
the step; `changes`, `sent` and `undone` count what reached ServiceNow and the
target. A worker's record is the local state of one attempt: where it is, and
the row's status as it last read it. `Find` to `Report` follow `perform`, `_continue`,
`_act`, `_verify_and_finish`, `_roll_back` and `_final`; a conditional update of
`store.transition` is `Moves`, and `_finish`, which reads the row again when somebody
else moved it, is `Finish`.

Abstractions. The policy's verdict is any that the kill switch and the tier permit
(`Permissible`); which rule gave it does not matter here. The two clocks of a row
are flags: `late` (the request expired) and `stale` (`valid_until` passed). The three
kill switches are one. Pre-checks, dry run and verification reads answer either
way. A grant is not a record of its own: it is minted for one attempt, for one
call, and redeemed by that attempt alone, so it is the attempt's being at
`redeeming`. A call that reached a runner and came back unanswered is the third
branch of `WriteAnswered`. The audit events and the notes on the ticket are left
out: nothing reads them back. The closing of the change record is in `Changes`;
here it is the database call after the row is final, which may fail and make the step
an error although the action is finished (`ClosesChange`).

An attempt that finds the request undecided suspends (`AskApproval`, `CheckExpiry`) and
comes to `parking`; `Park` ends it in another transaction, with whatever came between.
In this module `Perform` may begin the next attempt at any time, which is more than the
queue lets happen and therefore safe for the invariants.

### ActionRun

For liveness that would be too much: whether an action is taken up again depends on
the job. `job` is `open` while a worker may claim it. `Parks` sets it waiting, by its id
and without a look at the request; `Decides` wakes one that waits, in the transaction
of the decision. A job that is set waiting after its decision committed waits like any
other, but nothing is left to wake it: the model calls it `lost`, and this is finding 1.
`EndsElsewhere` is a run that is claimed and gets its outcome before it comes to the
step (its ticket was taken, its SOP version is gone, it was attempted too often).

### RunnerProtocol

A call is a row of `runner_calls` (`row`), the worker that waits for it (`waiter`), the
long poll of each runner (`request`) and the call inside a runner (`job`). `Enqueue`,
`TakeAnswer`, `TimeUp`, `Withdraw` and `GiveUp` are `DispatchClient.call`; `Claim`,
`ReadSwitches`, `HandOver`, `Respond` and `EndPoll` are one `POST` for calls, from the
conditional claim through `hand_out` to the response; `Accept` to `Write` are the
runner's `_handle` and `_make`; `PostResult` and `PostFails` are the return of the result
with its nonce and its attempts. Requests are lost, runners and workers die, runners
are enrolled and revoked, the switch is thrown between any two of these. Signatures
are sound: only what was signed is accepted.

### The components of `Components`

Each module's first comment names the code it is about and its unit of
atomicity; the comment at each definition names the lines. In short:

- `SopLifecycle`: one request of `sop/store.py` is one action, except `publish` and
  `retire`, which are statements under READ COMMITTED (`FindToRetire`, `Retire`, and the
  statements of a publication in `publishing`). `shown` is what an approver has on
  the screen; `run` is a run that started with a version and resumes with it.
- `KnowledgeSync`: `sync` is the local state of `sync_source`, `rows` the drafts made of a
  revision; syncs die, people edit articles and discard drafts. `Drafts` takes one
  article and any answer of a model through schema, conversion, validator, merge, an
  editor and submission.
- `SopWalk`: the SOP is any of the valid and invalid ones of two free steps; `TakeStep`
  chooses a result and follows its edges over `Table` (`engine/state_machine.py`),
  `Exhausted` is what follows the last step, `Interrupt` starts again from `recorded`.
  `Expressions` evaluates every expression of one connective in every context.
- `Choice`: `Match`, `RecordMatch`, `Resume`, the three ways to bind and `CarryOut`, with a
  model that may answer anything its schema lets through.
- `GuardedCalls`: attempts with their waits and the breaker of one connection.
- `WritePolicy`: rules are saved (`SetPolicy`), read for a decision, and acted on minutes
  later; `row` is what the `actions` row says of its ground.
- `Changes`: each request to ServiceNow is one action (`ReadMembers`, `ReadAsked`, asking one
  person at a time, `ReadRecord`, `ReadVotes`, the patches that close the change), and
  an attempt may die between two.
- `Connections`: the awaits of `_reload`, of the ITSM handle or of the hub (`holder`).
  `Credentials`: what a call, a cache and a built client remember of a credential.
- `ModelGateway`: check and record of a request; `Redaction`: the placeholders of a run.
- `Intake`: a poll cycle (`Begin`, `ReadPage`, `RecordNext`, `Finish`, `Fail`), the webhook,
  and tickets that move meanwhile. `SignedRequests`: check and use of a signature.
- `Sessions`: redirect, callbacks and the use of a session by slow requests. `Access`:
  roles mapped and unmapped, `LookUp` and `Establish` of a sign-in, every route as its
  method, permission and deed, and a request between its check and its deed.
- `AuditChain`: `append` in transactions, with the head locked; `Change`, `Remove`,
  `Renumber` and `Rewrite` are damage by something other than the program.
  `TenantExport`: one statement per table, one file after another, then the manifest.
- `EventStream`: ids given before commits, the server's turn, the page's two timers.
- `RunnerChecks`: the checks of `_handle` in their order, an await where the connector
  of other settings is closed, the switch file, restarts and calls handed over again.
- `Service`: `Read`, `Check`, `Connect`, `Build`, `Serve`, `Drain`, `Close`.

## What is checked

| Run | Shows |
|---|---|
| `runqueue_safety` | One run, two steps, two workers, two crashes, one stall, two failed calls. |
| `runqueue_live` | Two runs, one worker, one crash, a ServiceNow that may fail every call: every run is concluded or set aside, and an open request wakes it. |
| `lostwakeup`, `unrouted`, `latepark` | Three statements of the documentation that the code does not keep. |
| `pipeline_safety` | Two ACTION steps for the same call, two workers, two of a crash, a stalled attempt and a failed database call, the switch thrown once. |
| `pipeline_live` | `ActionRun`: all of these faults, one step, one person, no symmetry: every decision settles or is reported, unless its run is stranded. |
| `switch`, `unfinished` | Two more such statements. |
| `runner` | A write and a read with one runner, or the write with two; one lost request, failed answer or dead process: what is promised of a write is kept, and every caller is told something. |
| `components` | Twenty-two components, each on an instance of its own. |
| `missed` | One more statement the code does not keep, of knowledge syncs. |

Properties of the queue. `RunHeld`: a run without an outcome is with the queue.
`OneWorkerPerRun`, `RecordedNotRepeated`, `OutcomeFollowsJournal` and
`ResolvedTicketStays` hold while no live worker's lease lapses, and say so
(`faults.stalls = 0`); `RunHeld` and `ImplementsLedger` hold whatever stalls.
`SettlesOrParks` and `OpenRequestWakes` are the liveness side: a run is not retried
for ever while ServiceNow answers nothing, since each claim counts an attempt, and a
park is followed by a claim if its request was still open when the run was parked.

Properties of the pipeline. `AtMostOnce`, `RollbackFollowsWrite`, `SentWasPermitted`,
`NothingWasChanged`, `ReportIsTheRecord`, `FinalStands` and `ImplementsPermit` hold
with a second attempt beside a stalled one. Only `OneChangePerCall` needs attempts
to be one at a time: ServiceNow has no conditional insert, so two attempts that
look for a change at the same moment open two. `DecisionsSettle` (`ActionRun`) is the
liveness side: a decision comes to an end, or its step is reported as an error, unless
its run is `Stranded`. That excludes two things, and nothing else: the job that was set
waiting after its decision, which finding 1 shows the code does not take up again, and the
run that was concluded without the step.

Properties of the runner protocol. `PromiseKept` is the refinement of `RemoteCall`: a
write reaches the target at most once, and what its caller was told stays true,
also of a call that some runner still holds. `WritesAreCleared`: a write is recorded
before it is given out, and one queued before the switch was thrown is given out
only if the switch was off at a moment after it was claimed. `StopsOnlyWhenAnswered`: a
runner that stops returning a result leaves no answerable call open. `CallerIsTold`
is the liveness side.

Properties of the components. The cfg of `components` checks one invariant or action
property for each group; its parts are defined in the modules and stated there:

| Property | Parts |
|---|---|
| `LifecycleHolds` | `NewestInForce`: the one version in force is the one published last. `ApprovedAsRead`: an approved version is what its approver read, and the approver did not write it. |
| `EveryRevisionOnce` | `OneDraftPerRevision`, and `BehindTheCursor`: nothing behind the cursor is forgotten, whatever syncs overlap or die. |
| `RecordsHold` | `ChainIsHistory`, `DamageIsSeen`, and `IntactIsWhole`: an export found intact tells in its log of every row in it. |
| `IntakeHolds` | `TakenOnce`; `OneRunEach`; `MissesFew`: a cycle passes over no more tickets than left the list under it. |
| `AuthorityHolds` | `OneSessionPerSignIn`, `IdleIsIdle`, `AuthorityRunsOut`, `TokensOnlyRead`, `OnlyWhatThePageAsked`. |
| `WalkHolds` | `ResolvedMeansVerified`; `ValidIsEnough`: what the validator accepts needs none of the engine's last resorts; `ResumedOnItsRoute`; `RestsOnWhatIsThere`: no rule is answered from what is absent. |
| `AdviceHolds` | `RunsAsChosen`, `ComesBackAsItWas`, `WritesAreWrittenByPeople`: what a model says is advice. |
| `PolicyHolds` | `GroundIsFresh`: how old the rules may be that a write is made by. `RateHolds`: the writes of any window of minutes pass the limit by no more than were on their way together, decided or about to be, when one of them was counted. |
| `CallsHold` | `RotationIsMet`, `SparesTheTarget`. |
| `RunnerHolds` | `MadeOnce`, `MadeAsSent`, `StopIsHeard`. |
| `ChangesHold` | `AskedOnce`, `DecidedByOthers`, `ClosedAsItEnded`. |
| `ReadersHold` | `InOrder`, `HeardLately`, `AlwaysTrying`. |
| `ServiceHolds` | `ServesSafely`, `UsesWhatIsOpen`, `Limited`. |
| `BudgetsHold` | Budgets are passed by the requests under way at most, and once one was reached the model has no further part in the run. |
| `InUseAsSaved` | What a caller is given was saved within the last `Refresh`. |

Every property has a mutant in `PROJECT.json` that breaks it. The modules keep more of
them beside what they change, one for each part that another could hide; with
each put in its place TLC finds the group's property violated: `AnyoneMay` for
`LockFree` (`AuditChain`), `Present` for `DigestsAgree` (`TenantExport`), `OnceTheSkew` for
`Expires` (`SignedRequests`), `Always` for `Free` (`Intake`), `Renewed` for `Used` (`Access`),
`LateWrite` for `Writes` (`Sessions`), `KeepFlag` for `OtherFlag` and `DecidedAnew` for
`Replayed` (`SopWalk`), `Lenient` for `Operated` (`Expressions`), `AsksAnew` for `Remembered`
(`Choice`), `AsMerged` for `Merged` (`Drafts`), `Untouched` for `Opened` (`Redaction`), `Later`
for `Recent` (`WritePolicy`), `AsBefore` for `Rejected` (`Credentials`), `ReadBefore` for
`NotStopped` and `HeldAny` for `HeldFor` (`RunnerChecks`), `ApprovalFirst` for `Outcome` and
`Anybody` for `ShownToDiffer` (`Changes`), `Newest` for `Rows` (`EventStream`), `Ignored` for
`Drained` and `Forgotten` for `Remembered` (`Service`).

### Bounds

`MaxCrashes`, `MaxStalls`, `MaxErrors` and `MaxFlips` bound how often each fault
happens, not when. One of each is enough for a fault to fall at every step and
beside every other fault; the queue has two crashes and two failed calls because
giving up needs more than one attempt. Two workers are what any race here needs:
each conflict is between one attempt and what another left. Two steps with the
same call are the smallest instance in which the unique index matters, and only
the first declares a rollback so that both ends of `_roll_back` occur. `MaxAttempts`
is 2 in the safety run so that an attempt may fail and the run still go on. In
`runqueue_live` one worker serves both runs: two are on one run only after a lease lapsed
under a live worker, which `MaxStalls` = 0 leaves out, and the second run is there to be
kept waiting. It has 678 000 states and takes two minutes.
In `pipeline_safety` the constraint `FewFaults` lets two of a crash, a stall and a failed
database call happen in one behaviour, beside the switch. In `pipeline_live` one person
decides and the SOP's author is not on record, so that a T1 request may be decided and a
T2 one expires; who may decide is the business of the safety run.
Workers are symmetric in the safety runs; the liveness runs use no symmetry.
Deadlock is not checked: a system whose runs are all concluded and whose bounds
are used up has nothing left to do.

`runner`: two calls, of which the first is a write, and two runners that claim at the
same time, with one fault (`MaxFaults`) that may be a lost request, a failed answer, a
stopped or killed worker or a dead runner. The constraint `OnePair` gives a behaviour
either the second call or the second runner: what calls share is a runner's ledger
and its concurrency, and what runners share is a call. A result is returned at
most three times (four in the code).

`components` puts twenty-two instances in one run. They share no state but the
database, and in it no row, so they are not run side by side: a behaviour is of one
component, `part`, chosen at the start, and the states add up instead of multiplying.
`In(p, inv)` asks `inv` of the behaviours of `p`. The comments in `Components` and
`MCComponents` say what each instance has: as a rule two of whatever may come into conflict (syncs, people,
requests, attempts, transactions), and numbers just past the edge at which a check
changes its answer. `a1` and `a2`, `b1` and `b2` are interchangeable. The SOPs of `SopWalk`
are all those of two free steps, a RESOLVE and an ESCALATE, the expressions all those
of one connective. Times are short but of the same order as in the code (`Idle` above
`Granule`, `Timeout` above `Beat`, `Life` above `Delay`).

`WritePolicy` has three writes, days of three minutes and three minutes of time: with
two decided beside a third the limit of one is passed by two, so the bound of `RateHolds`
is met and not only kept. `Choice` has four ways an SOP fits a ticket, of which one
has nothing that could be compared.

What the instances assume of the world, beside sound signatures:

- `SignedRequests`: a sender's clock is ahead, and a request takes, no more than the
  skew together. Beyond that a signature may be used again after its row was deleted.
- `AuditChain`: a hash is the history it covers.
- `ModelGateway`: a request is answered within the size that was checked; costs are a
  second pair of budgets of the same form.
- `KnowledgeSync` (`BehindTheCursor`) and `Changes`: what is listed fits a page.
- `Intake` (`MissesFew`): ServiceNow sends the count of rows, on which the end of the list
  rests.
- `Credentials`: the backend and the target change together.
- `WritePolicy`: a decision is taken within the minute it is begun in.
- `Connections`: a reload takes less than the time between two.
- `Access`: a person has one request under way, and the lookup of a sign-in takes none
  of the clock's time (`Pause` is 0). `Changes`: one worker asks for an approval at a time.
- `Choice`: the match that was stored is still published or was retained.

### Fairness

A worker that can take a step takes one (`run_worker` loops until it is stopped,
and an infrastructure error does not end the loop). Time passes: a lease lapses once
nobody renews it, a released job becomes due, a request expires. The sweep comes
round, because `work_once` calls it before every claim. People, crashes, stalls and
failed calls have no fairness: nothing may depend on them. In `ActionRun` a worker goes
on with what it has begun, and a job that stays `open` is taken up, since `claim` takes
every job that is queued, or running on a lease that lapsed. Nothing is assumed of a job
that waits: `claim` does not look at it, and only a decision that finds it waiting, in the
product, in ServiceNow or by the sweep's expiry, makes it `open` again. People need not
decide; the sweep expires what they leave. In `runner` a waiting worker polls until its deadline,
and the deadline comes (`PassDeadline`, and `TakeAnswer`, `TimeUp`, `Withdraw`, `GiveUp`
together); nothing is asked of runners, so a caller is told something even when every
runner is gone. The components of `Components` are checked for safety alone.

## What is proved

The proofs hold for every number of runs, workers, steps and faults.

`RunQueueProofs` proves `TypeCorrect` first. `RunHeld` is not inductive: that a run's
job is `done` or `dead` says nothing about its outcome unless one also knows that
every worker about to finish a job has seen an outcome or is about to record one.
`HeldInv` adds this for the places a worker can be in. The proof splits each step
into its effect on the queue (nothing, one job, or the waking of a job) and shows
that each effect keeps `HeldInv`. The refinement (`Refinement`) maps a run's custody to
the queue until an outcome is recorded; `HeldInv` gives `CustodyRight`, which is what
the mapped step needs.

The rest of the module assumes nothing more, but its properties speak of behaviours
in which no live worker's lease lapses. `LeaseInv` says that a worker with a job
holds that job's running lease, which excludes a second worker (`Exclusion`).
`SettledInv` then says that what a worker read of the journal is what the journal
still holds and that a worker about to conclude holds the outcome the journal leads
to; `NoStepRepeated`, `OutcomesFollow` and `ResolvedStays` follow.

The pipeline's proofs rest on three invariants, and only the last needs attempts to be
one at a time. `AtMostOnce` is not inductive: it does not say who may
still send. `WriteInv` says it. `StartedInv` ties the row to the counts (what left
was started, and a row that was started never looks unstarted); `OnceInv` is the
unique index; `PlaceInv` says what an attempt at each place may count on (one at
`redeeming` has a write that never left, one at `redeem_undo` a rollback that never
left); `AloneInv` says that beside an attempt that may send a write no other may
send or undo it. The last is the heart: an attempt may come to a rollback only
from its own write or from a row that says `executed`, and the row of a sender says
`executing`, or `verified` or `failed` where another attempt closed it meanwhile, but
never `executed` or `rolling_back`. The proof sorts all steps by their `Effect`
(quiet, begins, sends, pursues, records, rolls back, undoes, closes) and shows once
for each that it keeps the four parts; the same effects are the actions of
`WritePermit` in `Refinement`.

`DecidedInv` adds what a row's status says of its decision (`Sound`) and what an
attempt has read (`Backed`). Every step is `Traced`: it moves at most one row, in
one of six ways, and brings at most one worker to a place with what the place
asks for. `FinalRowsStand`, `PermittedWhenSent` and `ToldTheRecord` follow. The two-person
rule needs `PeopleAssumption`: e-mail addresses belong to people, so a missing author
has none.

`OpenInv` is about behaviours in which no attempt is begun beside another: one attempt
at most is begun, and one about to open a change has found that its call has none.
`OpenedOnce` follows.

`RunnerProtocolProofs` proves the runner protocol for every number of calls and
runners. `WritesAreCleared` and the refinement are not inductive: a write may be made
twice unless a call has one holder. `IInv` says who that is. A claimed row names its
runner, only that runner's poll (`HeldRight`, `GivingRight`) or the job inside it
(`JobRight`) has the call, and a job past `received` is the only one there will be;
`MadeRight` ties what reached the target to the job's place, `RowRight` and
`WaiterRight` what was recorded and told to what was made, `StoppedRight` what a runner
that stopped returning leaves behind, and `ClearRight` the switch to the calls claimed
while it was off. `Grows` (what a step may only add to) carries most calls through
a step that is about another one. `TypeCorrect`, `WritesCleared`, `StopsAnswered` and
`Refinement` follow.

`CoreComponentsProofs`, `ComponentsProofs` and `CompositionProofs` give each of twenty-two
components an inductive invariant, and the last two carry it to the composition: only the
component chosen moves (`ChosenMoves`), so a component's invariant is one of the behaviours
of its part.

- `LifecycleInv`: what a publication holds locked is published and held by one
  transaction (`HoldsApart`); a number that was counted is the next one, or is already
  in the index, which will refuse it (`CountedNext`); an approver's screen shows what was
  submitted. Without the second, `NewestInForce` is not inductive: two publications
  that counted the same number differ only in which commits first.
- `BudgetInv`: what was spent and what is in flight fits the budget with all but one
  of the attempts over it (`Fits`), by counting the requests let through; so a budget is
  passed by the requests under way at most.
- `RunnerInv`: a call that was made is remembered or expired (`MadeIsSpent`), and one that
  waits for a connector to close was not made (`WaitingIsUnmade`).
- `ServiceInv`: a process past its checks passed them (`PassedChecks`), a loop runs only
  while it is served (`LoopsServed`), every request let through is in a window that
  counts it (`CountedAll`).
- `ChangeInv`: whom an attempt is about to ask has not been asked (`AskingAfresh`), what a
  poll collected was voted by others than the author (`PollIsGrounded`), a change is
  closed after its action ended (`EndedFirst`).
- `KnowledgeInv`: what was edited up to the time a sync began from is handled or lost to
  somebody who discarded it, and what a sync has listed it keeps until it has dealt with
  it (`SyncRight`). An edit made in the second of the cursor is the finding of
  `missed`; `BehindTheCursor` is about those made plainly, at a time no list has reached.
- `PolicyInv`: the rules in force, and those a decision is being taken by, let a write be
  made at this minute only if `opened` says so (`OpenedNow`); how long a row in each
  status lasts after that minute (`RowFresh`); and what was made in the last minutes
  together with what is coming (`Taken`: decided, or about to be with room left by the
  count) is within the limit and what was ever on its way together (`RatesKept`). The last
  is what makes the rate limit inductive: `RateHolds` alone says nothing of a decision not
  yet acted on, and a write that is made goes from what is coming to what was made.
  `RulingLets`
  ties the ruling, written as in the code, to the sets of minutes the RUNBOOK describes.
- `ConnectionInv`: what is noted was saved no longer ago than it was looked up
  (`HeldLately`), what a reload found was saved since it asked (`FoundLately`); a reload of
  the hub began with the entry that is there or knows that it was replaced
  (`HubRight`), and one of the handle leaves, by itself, the client for what it notes
  (`HandleRight`).
- `SessionInv`: a login's row is there until one callback has taken it (`TakenByOne`); a
  session's last use is behind the real one by no more than is not worth a write, and a
  request that will not write it was that close when it began (`NearlyWritten`). So idle
  time never ends a session that is in use, if a transaction ends within the granule.
- `AccessInv`: when each role was last mapped bounds the end of a session that has it
  (`MappedWhenMade`), and what a request under way was let through by (`LetThrough`,
  `Backed`).
- `StreamInv`: a stream that runs has come to a committed event, and has sent all up to
  there that were committed in time (`FeedRight`); the page heard from the server no
  longer ago than the server was last busy (`HeardSince`); and there is one source or one
  retry (`OneWay`). `RowsAreLowest` is the lemma about `events_after`: what a turn reads
  leaves nothing out below the highest of it.
- `CredentialInv`: what a call that runs by itself has read by the second time it is sent
  is what the backend holds, and what is left in the cache is that or nothing
  (`ReadAgain`). Nothing of the kind is so of calls that run side by side.
- `CallInv`: while the breaker is closed, a request since the last success has failed or
  is on its way; while it is open, none is as young as the last failure; half open, all
  are on their way (`Spared`). Time ages them one to one (`NoMoreWithTime`).
- `DeliveryInv`: what was accepted is remembered until no copy of it can be near enough
  (`Remembered`): the row lasts twice the skew, the sender's lead and the time a request
  takes are one skew at most.
- `IntakeInv`: the ticket a transaction has inserted has no run and no other has inserted
  it (`OneInserts`); of the tickets on the pages that were read, no more are neither read
  nor recorded than left the list (`FewPassed`), since when one leaves, one at most
  moves up over the edge of the page (`TicketLeaves`). This is where `Counted` is
  needed: without the header, a page with hidden rows ends the list too early.
- `ChoiceInv`: the SOP of the row fits, and what steps were carried out with is what the row
  gives to every later attempt (`Settled`): a model that has answered once is not asked
  again. `BestIsFirst` shows that one SOP is before all others, since comparing shares
  crosswise is a strict order (`SharesCompare`).
- `RedactionInv`: the placeholders of a kind are numbered up to how many there are and no
  two are the same (`Numbered`), which a text keeps since those before a new value are
  fewer than those before the next (`EarlierAreFewer`).
- `DraftsInv`: a model was asked only about an article without steps.
- `AuditInv`: who appends holds the lock, and nobody else has rows (`Placed`); they are above
  all others, and so was the head that was read (`Above`); a hash is of genuine events in
  the history's order (`GenuineOf`); and, until somebody touches the table, what is
  committed with the holder's rows is what the history with the holder's events tells
  (`ToldOf`). `Unbroken` says that in a chain that verifies, the hash of a row tells of
  every row up to it; `DamageIsSeen` rests on it, by the lowest row of which it does not.
- `DumpInv`: what an export has read was committed before, and once it has read the log, the
  log tells of all of it (`ReadSoFar`), since the log is the last table; a manifest is of
  one export, which is past the log (`OfOneExport`).
- `WalkInv`: the verification a run goes by passed in this attempt and only notes came
  after it (`VerifiedRight`); the walk is a path of a valid SOP and arrives at a step with
  a flag the validator has seen there (`PathRight`); what is recorded is one route from
  the first step, of which the attempt has come a part (`RouteRight`). The validator's
  propagation of steps and flags ends closed under the edges (`EnteredClosed`), from
  which the second is inductive, and a valid SOP has no cycle, so that the walk never
  comes to a step twice (`NeverExhausted`). `StepEnds` is the lemma about the transition
  table: where the events of a result lead, from either state a step is taken in.
- Expressions do not change, and what is proved of them is about their evaluation:
  it satisfies its own equations (`Values`), and, by the bounded depth of an expression, a
  value that is there stays when the context tells more (`NodesRight`).

`TypesKeep` puts the invariants together (`Kept`): every variable of every component is of
its type. Where the type bounds a counter, that takes what the counter counts: a version's
number is at most how many versions have one (`NumbersCount`), from which, with
`CountedNext`, one that was counted fits as well; a signature is remembered for twice the
skew (`NoncesEnd`); a page is read while one is left (`PagesLeft`); a request is sent once
more than it may be at most, for its credential, and with a credential that was read
(`SendsLeft`, of which the place a call is at decides the bound); a decision lasts no longer than
the rules it was taken by give, which are valid unless they say shadow (`PolicyBounds`);
and the bound on tokens is `BudgetInv` once more.

The queue's proofs assume `CountsAssumption`, `StepAssumption` and `WorkerAssumption`,
the pipeline's `CountsAssumption` and `PeopleAssumption`, the runner protocol's that a
result is returned at least once, and the components' what `CoreComponents` states:
sets that are finite where the code counts them, sentinels that are no values, sizes
that are numbers, a request that fits an empty budget, a list of articles that fits a
page, a reload that takes less than the time between two, a request that ends within the
granule in which sessions are written, a read that is sent once at least and a list of
which one page at least is read, mapped roles that exist, an emergency no longer
than a session, a stream that is heard within the time a page waits for it, a breaker
that one failure at least opens, a sender's lead and a slow request that are together
within the skew, an instance that says how many tickets there are, an SOP at least to choose
from, tables of an export that end with the log, an SOP of finitely many steps with a first one,
values of a context that are no errors and of which two are booleans, and policies that
differ in anything but their rate limit, which is one (a limit that is raised and lowered
between two writes is kept as each decision read it, and no one number is kept). Nothing
else.

Only model-checked is liveness, whose fairness is outside the prover's reach: `SettlesOrParks`
and `OpenRequestWakes` of the queue, `DecisionsSettle` of the pipeline and `CallerIsTold` of
the runner protocol. Every invariant and every action property that a run checks and finds to
hold is a theorem as well.

## Where the code does not do what is written

1. `DecisionWakesRun` (`lostwakeup`): a decision that commits between the engine's
   read of the pending request and `_park`'s commit finds no waiting job. `_park` then
   sets `waiting`, and nothing queues the job again (`service/runs.py:559`,
   `actions/store.py:732`).
2. `NeedsHumanIsRouted` (`unrouted`): a hand-over that ServiceNow refuses is logged and
   forgotten (`escalation/escalator.py:58`).
3. `ConcludedStateStands` (`latepark`): a worker that comes back from a stall sets the
   state of a concluded run to `awaiting_approval` (`service/runs.py:564`).
4. `SwitchMeansAborted` (`switch`): a kill switch met at the redemption of the grant is
   taken for a failed write; the action ends `rollback_failed` (or `failed`) although
   nothing was written (`actions/service.py:533`).
5. `ReportsFinished` (`unfinished`): `_final` is asked for the result of an action that
   another attempt is executing, and raises (`actions/service.py:775`).
6. `NothingMissed` (`missed`): the cursor of a ServiceNow knowledge base is the newest
   time a sync has read, in seconds, and the next sync asks for later ones: an article
   saved again within that second is never asked for
   (`connectors/knowledge/servicenow_kb.py:71`, against `connectors/knowledge/base.py:33`).

Seen while reading and kept in the models: the author's own *rejection* of a T2
action is refused by the database constraint `ck_actions_t2_two_people`, not by
`store.decide` (`MayDecide`); a write that was refused before it was sent is rolled
back like one that failed (`Redeem`, `RollBack`); a change that was opened although
the answer was an error stays open in ServiceNow after the decision became a denial
(`OpenChange`, `DenyUnbacked`). And in the other modules:

- Two reloads of the ITSM handle that overlap may leave the older client in use under
  the newer digest until the next change, which is why `InUseAsSaved` asks that no two
  overlap; while the old client is being closed `current()` answers that there is none.
- The hub's `forget` is lost on a read that is under way, and of two rebuilds that overlap
  one set of connectors is never closed. The same holds of a runner's `_connector`, which
  may also close a connector that another call of the same poll is about to use.
- What one call remembers of a credential (`_seen`, `_fresh`) another that runs beside it
  overwrites; `RotationIsMet` therefore speaks of a call that runs by itself.
- An old call that succeeds late closes a breaker that opened meanwhile; and a call whose
  retries were cut off by the breaker ends `ERROR`, which `engine/executor.py:558`
  describes as a call that could not be made at all, though it made some.
- One ticket whose ingest always fails ends each poll cycle before the later ones. A page
  that is no list ends the reading, and what was read is taken for the whole
  (`NotAList` of `Intake`); only the ticket-by-ticket properties hold of such a cycle.
- An article that could not be drafted, or met a conflict on another key, is behind the
  cursor, as `sop/ingest.py` means it: `BehindTheCursor` counts its revision as lost.
- Rows that leave the list between two pages hide as many others from that cycle.
- `in` and `not in` answer for operands of unlike types, where `engine/expressions.py`
  says a mismatch raises.
- ADR 0004 says in one place that a reopened incident is a new run and in another that
  the first stands; `OneRunEach` is about a ticket that is not concluded.
- An event whose transaction commits after one with a higher id was streamed is never
  streamed (`InOrder` allows for it).
- A changed role mapping does not end sessions; the roles last as long as they do.
- A runner that restarts forgets the calls and grants it has seen; `MadeOnce` is therefore
  about one of its lives, and what keeps a write from being made twice across lives is
  the single hand-out of `RunnerProtocol`.
- An export reads the tables in the order it names them, parents first: a child row may
  name a parent that is not in it. An exported log cut short together with its manifest
  entry is found intact.
- The dashboard's summary reads its records and its count of open runs in two
  transactions. A process that only works has no handler for signals, and does not
  wait for its other workers when it is cancelled.

## Not modelled

- Adapters and connectors for schedulers, monitors and queues: calls and parsing, seen
  here as answers that may fail or be lost.
- The command line, the demo data, most settings, packaging, charts, evaluation data
  and developer tools.
- What the dashboard draws; it holds no authority over a run.
- The sign-in protocols (libraries), the onboarding of a tenant, connector manifests,
  OAuth tokens, connection checks, the limit on the size of a body.
- What the text patterns of extraction and redaction recognise, the prompts and the
  providers; here any answer that passes the schema may come.
- Notes, e-mail and metrics: written, and read back by nothing.
- Of matching, the boost from resolutions that worked before; of runs, dry runs.
- Which of several refusals of the policy is named first.
- The comparison of SOP versions and the text of an article.

## The plan

Done: `RunQueue`, `ActionPipeline` and `RunnerProtocol` with their abstractions and proofs;
every component above that has state of its own, and the proofs named above.

Nothing the runs check is left to prove that the prover can reach. What the model does not
have is listed above.
