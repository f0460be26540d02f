--------------------------- MODULE CoreComponents ---------------------------
(***************************************************************************)
(* The components whose guarantees are proved for every value of their     *)
(* constants: the versions of an SOP, the articles they are drafted from,  *)
(* the budgets of the models, signing in and what it allows, the policy    *)
(* for writes, the connections a process holds and the calls over them,    *)
(* the checks of a runner, a process of the service, the changes in        *)
(* ServiceNow, the live events, signed deliveries and the intake of        *)
(* tickets.                                                                *)
(***************************************************************************)
EXTENDS Integers, Sequences, FiniteSets

CONSTANT none            \* nobody, nothing

\* SOP versions: rows, the one published at start-up, contents, people, two system actors.
CONSTANTS Version, seeded, Content, Editor, library, reviewer
ASSUME LifecycleAssumption ==
    /\ IsFiniteSet(Version) /\ seeded \in Version /\ none \notin Version
    /\ Content # {} /\ none \notin Content
    /\ library \notin Editor /\ reviewer \notin Editor \cup {library}
    /\ none \notin Editor \cup {library, reviewer}

\* Model budgets: runs, the scope of articles, workers at one run, sizes in tokens.
CONSTANTS Advised, drafting, Attempt, Needed, Input, Incident, Daily
ASSUME BudgetAssumption ==
    /\ IsFiniteSet(Advised) /\ drafting \notin Advised
    /\ IsFiniteSet(Attempt) /\ Attempt # {}
    /\ Input \in Nat /\ Needed \in Nat /\ Incident \in Nat /\ Daily \in Nat
    /\ Input <= Needed /\ Needed <= Incident /\ Needed <= Daily

\* Knowledge: articles whose list fits a page, syncs at the same time.
CONSTANTS Article, Sync, PageSize, MaxEdits, MaxSeconds
ASSUME KnowledgeAssumption ==
    /\ IsFiniteSet(Article) /\ Cardinality(Article) <= PageSize
    /\ PageSize \in Nat /\ MaxEdits \in Nat /\ MaxSeconds \in Nat \ {0}

\* Signing in: callbacks with one state, requests with a session at the same time.  A
\* transaction is over by the time its session's last use is written again.
CONSTANTS Callback, Tab, StateLife, IdleTime, Granule, SessionLife, Slow, MaxMinutes
ASSUME SessionAssumption ==
    /\ IsFiniteSet(Callback)
    /\ StateLife \in Nat /\ IdleTime \in Nat /\ Granule \in Nat /\ SessionLife \in Nat
    /\ Slow \in Nat /\ Slow <= Granule /\ MaxMinutes \in Nat \ {0}

\* Authority: roles that are mapped and unmapped, what tokens are asked for with, requests.
CONSTANTS Mapped, Tokened, Visit, Hours, Emergency, Days, Pause, Handling, MaxHours

\* The policy for writes: ACTION steps and what they ask for, policies that are submitted or
\* stored, the ceilings of the deployment and the longest times the policies give.
CONSTANTS Gated, Wanted, Offered, Standing, TierCeiling, LevelCeiling, MaxTtl, MaxWithin,
          Day, Week, Horizon

\* Connections: who uses them, what may be saved and what no client can be built from.
CONSTANTS Task, Connection, Broken, Refresh, Delay

\* A runner: calls and what is signed for them, its ceiling and its own connection.
CONSTANTS RunnerCall, Envelope, Grant, MaxTier, Targets, Inside, Local, Usable,
          SeenLimit, MaxTime, MaxLives
ASSUME RunnerAssumption ==
    /\ \A c \in RunnerCall :
          Envelope[c].expires \in Nat /\ Envelope[c].grant \in DOMAIN Grant \cup {none}
    /\ MaxTime \in Nat /\ MaxLives \in Nat \ {0}

\* A process: what it may be given, its workers, its limits and its clients.
CONSTANTS Given, Worker, PerMinute, MaxSent, Room, Client

\* Changes in ServiceNow: who may be in the approval group, the SOP's author among them.
CONSTANTS Approver, Author, MaxFaults, MaxChanges
ASSUME ChangeAssumption == Author \in Approver /\ MaxFaults \in Nat /\ MaxChanges \in Nat

\* Live events: how many there are, how many are read at once, and the times of a page; a
\* server is heard more often than a page gives up.
CONSTANTS MaxEvents, Limit, Beat, Timeout, Watch, RetryMax
ASSUME StreamAssumption ==
    /\ MaxEvents \in Nat /\ Limit \in Nat /\ Watch \in Nat \ {0} /\ RetryMax \in Nat
    /\ Beat \in Nat \ {0} /\ Timeout \in Nat /\ Beat <= Timeout

\* Calls over a connection: how often a request is sent, once at least, and how often
\* credentials change; a breaker that one failure at least opens, and for how long.
CONSTANTS Sends, MaxRotations, Tries, Threshold, Reset
ASSUME CallAssumption ==
    /\ IsFiniteSet(Task)
    /\ Sends \in Nat \ {0} /\ MaxRotations \in Nat
    /\ Tries \in Nat \ {0} /\ Threshold \in Nat \ {0} /\ Reset \in Nat

\* Signed deliveries: what is sent how often, how far a timestamp may be off and is, and how
\* long a request takes; a clock that is ahead and a request that is slow are within the skew.
CONSTANTS Message, Copy, Skew, Ahead, Upload, MaxNow
ASSUME DeliveryAssumption ==
    /\ Skew \in Nat \ {0} /\ Ahead \in Nat /\ Upload \in Nat /\ Ahead + Upload <= Skew
    /\ MaxNow \in Nat

\* Tickets by number, those the agent may not read, and the pages it reads of them, one at
\* least; the instance says how many there are.
CONSTANTS Ticket, Hidden, PerPage, MaxPages, Counted, MaxMoves
ASSUME IntakeAssumption ==
    /\ IsFiniteSet(Ticket) /\ Ticket \subseteq Nat /\ PerPage \in Nat \ {0}
    /\ MaxPages \in Nat \ {0}
    /\ Counted = TRUE /\ MaxMoves \in Nat

\* Choosing a procedure: those that are published and how a ticket may fit one, their parameters
\* with where a value comes from and what it may be, and the score that is enough.
CONSTANTS Procedure, Evidence, Parameter, Source, Value, Allowed, Confidence

\* Drafts: the steps of a model's answer.  Redaction: values that are recognised, and the texts.
CONSTANTS MaxSteps, Recognised, KindOf, MaxWords, MaxTexts
ASSUME AdviceAssumption ==
    /\ IsFiniteSet(Procedure) /\ Procedure # {} /\ Procedure \subseteq Nat \ {0}
    /\ \A e \in Evidence : e.keywords \in Nat /\ e.hits \in Nat /\ e.title \in Nat
    /\ MaxSteps \in Nat \ {0}
    /\ IsFiniteSet(Recognised) /\ MaxWords \in Nat /\ MaxTexts \in Nat

\* The audit chain: transactions, and what others may do to it.  Exports: the tables in the order
\* they are written, the log last.
CONSTANTS Transaction, MaxTampered, Written, Export, MaxCommits, MaxBroken
ASSUME RecordAssumption ==
    /\ none \notin Transaction /\ MaxTampered \in Nat
    /\ Written \in Seq(STRING) /\ Written # <<>> /\ Written[Len(Written)] = "audit_events"
    /\ MaxCommits \in Nat /\ MaxBroken \in Nat

VARIABLES ver, shown, agreed, wrote, publishing, retiring, run
VARIABLES origin, clock, article, cursor, sync, rows, keys, handled, lost
VARIABLES minute, login, mapped, callback, session, request, used, verdict
VARIABLES hour, roles, mappedAt, signing, person, token, visit, deed
VARIABLES time, rules, kill, reading, row, opened, beside
VARIABLES holder, saved, checked, noted, held, call, age, together
VARIABLES policy, asking, tokens, today, over
VARIABLES second, life, switch, received, redeemed, connector, closing, made
VARIABLES at, settings, stop, loops, connected, misused, windows, requests
VARIABLES group, invited, vote, hash, work, action, poll, ground, change, ledger, faults, edits
VARIABLES event, feed, start, streamed, late, wire, page, beat, sources, timers, waited
VARIABLES user, valid, cache, fresh, seen, built, using, disturbed
VARIABLES breaker, failures, since, trying, sent
VARIABLES now, stamp, copy, nonces, accepted
VARIABLES ticket, moves, cycle, listed, left, steady, writer, incidents, runs
VARIABLES acts, evidence, words, matched, stage, chosen, values, stored, ran
VARIABLES text, known, review, answer, draft
VARIABLES placeholder, texts
VARIABLES events, tx, lock, committed, checkpoints, damage, rewritten
VARIABLES history, files, manifest, export, tampered

L == INSTANCE SopLifecycle WITH
        Seeded <- seeded, Person <- Editor, Library <- library, Reviewer <- reviewer,
        NoOne <- none, NoContent <- none, NoVersion <- none

G == INSTANCE ModelGateway WITH Drafting <- drafting

K == INSTANCE KnowledgeSync WITH MaxTime <- MaxSeconds

Z == INSTANCE Sessions WITH
        clock <- minute, Request <- Tab, Idle <- IdleTime, Life <- SessionLife, Delay <- Slow,
        MaxTime <- MaxMinutes

H == INSTANCE Access WITH
        clock <- hour, mapping <- roles, held <- mappedAt, found <- signing, session <- person,
        request <- visit, Request <- Visit, Life <- Hours, Delay <- Handling, MaxTime <- MaxHours
ASSUME AccessAssumption ==
    /\ IsFiniteSet(Mapped) /\ Mapped \subseteq DOMAIN H!RolePermissions
    /\ Hours \in Nat \ {0} /\ Emergency \in Nat /\ Emergency <= Hours /\ Days \in Nat
    /\ Pause \in Nat /\ Handling \in Nat /\ MaxHours \in Nat \ {0}

P == INSTANCE WritePolicy WITH
        clock <- time, policy <- rules, Action <- Gated, Request <- Wanted,
        MaxTier <- TierCeiling, MaxLevel <- LevelCeiling
\* Which of the rules is changed is left open but for the rate limit, which is one limit.
ASSUME PolicyAssumption ==
    /\ IsFiniteSet(Gated) /\ Standing # {}
    /\ LevelCeiling \in Nat /\ MaxTtl \in Nat /\ MaxWithin \in Nat /\ Horizon \in Nat
    /\ Day \in Nat \ {0} /\ Week \in Nat \ {0}
    /\ \A p \in Offered \cup Standing :
          /\ p.level \in P!Shadow..P!Automatic /\ p.sop.level \in P!Shadow..P!Automatic
          /\ \A w \in p.freeze : w.start \in Nat /\ w.end \in Nat
          /\ \A h \in p.hours : h.start \in Nat /\ h.end \in Nat
          /\ p.rate.max \in Nat \ {0} /\ p.rate.minutes \in Nat
          /\ p.ttl \in Nat /\ p.within \in Nat
          /\ P!Valid(p) => p.ttl <= MaxTtl /\ p.within <= MaxWithin
          /\ \A q \in Offered \cup Standing : p.rate = q.rate

C == INSTANCE Connections WITH Caller <- Task, Content <- Connection
ASSUME ConnectionAssumption ==
    /\ Refresh \in Nat /\ Delay \in Nat /\ Delay < Refresh
    /\ Broken \subseteq Connection
    /\ Connection \cap {C!Nothing, C!NoClient, C!Fallback, C!Unbuilt} = {}

M == INSTANCE RunnerChecks WITH
        clock <- second, seen <- received, held <- connector, task <- closing,
        Call <- RunnerCall, Limit <- SeenLimit, None <- none

U == INSTANCE Service WITH task <- loops, open <- connected, sent <- requests
ASSUME ServiceAssumption == Given \subseteq U!Settings /\ PerMinute \in Nat /\ MaxSent \in Nat

N == INSTANCE Changes WITH asked <- invited, moves <- edits, Person <- Approver

V == INSTANCE EventStream WITH sent <- streamed

Y == INSTANCE Credentials WITH call <- using, Call <- Task, Attempts <- Sends

B == INSTANCE GuardedCalls WITH
        state <- breaker, call <- trying, Call <- Task, Attempts <- Tries

O == INSTANCE SignedRequests WITH Delay <- Upload, MaxTime <- MaxNow

I == INSTANCE Intake WITH rows <- listed, recorded <- incidents, PageSize <- PerPage

D == INSTANCE Choice WITH
        ticket <- words, sop <- chosen, Sop <- Procedure, Threshold <- Confidence, Nothing <- none

J == INSTANCE Drafts WITH article <- text, stage <- review, NoAnswer <- none

Q == INSTANCE Redaction WITH sent <- texts, Value <- Recognised, Words <- MaxWords

Log == INSTANCE AuditChain WITH
        rows <- events, Tx <- Transaction, NoTx <- none, MaxDamage <- MaxTampered

Dump == INSTANCE TenantExport WITH damage <- tampered, Order <- Written, MaxDamage <- MaxBroken

lifecycleVars == <<ver, shown, agreed, wrote, publishing, retiring, run>>
knowledgeVars == <<origin, clock, article, cursor, sync, rows, keys, handled, lost>>
sessionVars == <<minute, login, mapped, callback, session, request, used, verdict>>
accessVars == <<hour, roles, mappedAt, signing, person, token, visit, deed>>
policyVars == <<time, rules, kill, reading, row, opened, beside>>
connectionVars == <<holder, saved, checked, noted, held, call, age, together>>
gatewayVars == <<policy, asking, tokens, today, over>>
runnerVars == <<second, life, switch, received, redeemed, connector, closing, made>>
serviceVars == <<at, settings, stop, loops, connected, misused, windows, requests>>
changeVars == <<group, invited, vote, hash, work, action, poll, ground, change, ledger, faults, edits>>
streamVars == <<event, feed, start, streamed, late, wire, page, beat, sources, timers, waited>>
credentialVars == <<user, valid, cache, fresh, seen, built, using, disturbed>>
callVars == <<breaker, failures, since, trying, sent>>
deliveryVars == <<now, stamp, copy, nonces, accepted>>
intakeVars == <<ticket, moves, cycle, listed, left, steady, writer, incidents, runs>>
choiceVars == <<acts, evidence, words, matched, stage, chosen, values, stored, ran>>
draftVars == <<text, known, review, answer, draft>>
redactionVars == <<placeholder, texts>>
auditVars == <<events, tx, lock, committed, checkpoints, damage, rewritten>>
exportVars == <<history, files, manifest, export, tampered>>
=============================================================================
