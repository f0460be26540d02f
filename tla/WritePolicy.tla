---------------------------- MODULE WritePolicy ----------------------------
(***************************************************************************)
(* The policy of a tenant and what it comes to for a write                 *)
(* (actions/policy.py, and the decision, the approval and the              *)
(* authorisation of actions/store.py and actions/service.py): rules that   *)
(* administrators change while decisions are taken, wait for a person and  *)
(* are acted on minutes later.  The rules are read once, for the decision; *)
(* only the kill switch is read again when the write is made.              *)
(*                                                                         *)
(* Time is in minutes, with short days and weeks.  A decision is taken     *)
(* within the minute it is begun in.  Which of several refusals comes      *)
(* first decides only the reason that is given, and is left out.           *)
(***************************************************************************)
EXTENDS Integers, FiniteSets

CONSTANTS
    Action,     \* the ACTION steps that are decided
    Request,    \* of each: the tier, the targets, the SOP version, what the connector permits
    Offered,    \* policies an administrator submits; not all of them are valid
    Standing,   \* policies that may be stored already, perhaps by another release
    MaxTier, MaxLevel,  \* the ceilings of the deployment
    MaxTtl, MaxWithin,  \* the longest times those policies give an approver, and a decision
    Day, Week,  \* minutes in a day, days in a week
    Horizon     \* bounds the clock

VARIABLES
    clock,
    policy,     \* policies: autonomy and rules
    kill,       \* a kill switch is on
    reading,    \* what a worker has read for the decision it is taking
    row,        \* actions
    opened,     \* for the properties: when the rules last let the write be made, or be asked for
    beside      \* for the properties: the most that were on their way when another was counted

vars == <<clock, policy, kill, reading, row, opened, beside>>

Shadow == 0
Recommend == 1
Approval == 2
Automatic == 3

\* Rules(): what a tenant has that never set any.
NoRules == [level |-> Shadow, sop |-> [hash |-> 0, level |-> Shadow], raise |-> {}, automatic |-> {},
            freeze |-> {}, hours |-> {}, rate |-> [max |-> 0, minutes |-> 60], ttl |-> 60, within |-> 15]

\* parse_rules: rules with a problem are refused whole.
Valid(p) ==
    /\ \A w \in p.freeze : w.start < w.end
    /\ \A h \in p.hours : h.days # {} /\ h.start # h.end
    /\ p.rate.minutes >= 1 /\ p.ttl >= 1 /\ p.within >= 1

\* Stored rules that no longer parse are read as shadow and no rules.
AsRead(p) == IF Valid(p) THEN p ELSE NoRules

Undecided == [status |-> "none", asked |-> FALSE, until |-> 0, at |-> 0]
InForce == {"pending", "approved", "allowed"}
Final == {"denied", "shadowed", "recommended", "expired", "rejected", "invalid", "aborted"}

\* Longer ago than any decision may be acted on.
Never == 0 - (MaxTtl + MaxWithin)

TypeOK ==
    /\ clock \in 0..Horizon
    /\ policy \in Offered \cup Standing
    /\ kill \in BOOLEAN
    /\ \A a \in Action :
          /\ row[a].status \in {"none", "executing"} \cup InForce \cup Final
          /\ row[a].until \in 0..(Horizon + MaxTtl + MaxWithin)
          /\ reading[a].step \in {"idle", "read", "counted"}
          /\ \A how \in {"asked", "alone"} : opened[a][how] \in Never..clock

-----------------------------------------------------------------------------
(***************************************************************************)
(* The rules.                                                              *)
(***************************************************************************)
\* A rule raises the tier of a call that has any of its targets, and no rule lowers one.
Tier(q, p) == IF q.targets \cap p.raise # {} THEN 2 ELSE q.tier

\* An automatic rule is for a call all of whose targets it covers.
OnList(q, p) == q.targets # {} /\ q.targets \subseteq p.automatic

\* The level is for one exact version of the SOP; every other is in shadow.
SopLevel(q, p) == IF p.sop.hash = q.hash THEN p.sop.level ELSE Shadow

Lowest(S) == CHOOSE n \in S : \A k \in S : n <= k
Level(q, p) == Lowest({p.level, SopLevel(q, p), MaxLevel})

\* Hours.permits: the day is that of the moment, also in a window that crosses midnight.
Permits(h, t) ==
    LET minute == t % Day IN
    /\ (t \div Day) % Week \in h.days
    /\ IF h.start <= h.end THEN h.start <= minute /\ minute < h.end
                           ELSE minute >= h.start \/ minute < h.end

Frozen(p, t) == \E w \in p.freeze : w.start <= t /\ t < w.end

Refused(q, p, recent, t) ==
    \/ kill
    \/ Tier(q, p) > MaxTier
    \/ Frozen(p, t)
    \/ \E h \in p.hours : ~Permits(h, t)
    \/ ~q.permitted
    \/ p.rate.max > 0 /\ recent >= p.rate.max

\* evaluate, as the status its verdict gives the row (VERDICT_STATUS).
Ruling(q, p, recent, t) ==
    IF Refused(q, p, recent, t) THEN "denied"
    ELSE CASE Level(q, p) = Shadow -> "shadowed"
           [] Level(q, p) = Recommend -> "recommended"
           [] Level(q, p) = Automatic /\ Tier(q, p) = 1 /\ OnList(q, p) -> "allowed"
           [] OTHER -> "pending"

-----------------------------------------------------------------------------
(***************************************************************************)
(* For the properties: the minutes at which rules let a write be made,     *)
(* written as the sets of minutes the RUNBOOK describes.                   *)
(***************************************************************************)
OpenMinutes(h) ==
    {t \in 0..Horizon : (t \div Day) % Week \in h.days /\
        t % Day \in IF h.start < h.end THEN h.start..(h.end - 1)
                                       ELSE (0..(Day - 1)) \ (h.end..(h.start - 1))}

LetsAsk(q, p, t) ==
    /\ p.level >= Approval /\ p.sop.level >= Approval /\ p.sop.hash = q.hash
    /\ t \notin UNION {w.start..(w.end - 1) : w \in p.freeze}
    /\ \A h \in p.hours : t \in OpenMinutes(h)

LetsAlone(q, p, t) ==
    /\ LetsAsk(q, p, t)
    /\ p.level = Automatic /\ p.sop.level = Automatic
    /\ q.tier = 1 /\ q.targets \cap p.raise = {} /\ q.targets \ p.automatic = {}

Opened(p, t) ==
    [a \in Action |-> [asked |-> IF LetsAsk(Request[a], AsRead(p), t) THEN t ELSE opened[a].asked,
                       alone |-> IF LetsAlone(Request[a], AsRead(p), t) THEN t ELSE opened[a].alone]]

-----------------------------------------------------------------------------
Idle == [step |-> "idle", rules |-> NoRules, recent |-> 0]

Init ==
    /\ clock = 0
    /\ policy \in Standing
    /\ kill = FALSE
    /\ reading = [a \in Action |-> Idle]
    /\ row = [a \in Action |-> Undecided]
    /\ opened = [a \in Action |->
                    [asked |-> IF LetsAsk(Request[a], AsRead(policy), 0) THEN 0 ELSE Never,
                     alone |-> IF LetsAlone(Request[a], AsRead(policy), 0) THEN 0 ELSE Never]]
    /\ beside = 0

\* Invalid rules change nothing.
SetPolicy ==
    /\ \E p \in Offered : Valid(p) /\ policy' = p
    /\ opened' = Opened(policy', clock)
    /\ UNCHANGED <<clock, kill, reading, row, beside>>

SetKillSwitch ==
    /\ kill' = ~kill
    /\ UNCHANGED <<clock, policy, reading, row, opened, beside>>

Tick ==
    /\ clock < Horizon /\ \A a \in Action : reading[a].step = "idle"
    /\ clock' = clock + 1
    /\ opened' = Opened(policy, clock')
    /\ UNCHANGED <<policy, kill, reading, row, beside>>

-----------------------------------------------------------------------------
(***************************************************************************)
(* A decision: the rules are read, the executions of the last minutes are  *)
(* counted, the ruling is made and recorded, each in a transaction.        *)
(***************************************************************************)
ReadPolicy(a) ==
    /\ row[a].status = "none" /\ reading[a].step = "idle"
    /\ reading' = [reading EXCEPT ![a] = [step |-> "read", rules |-> AsRead(policy), recent |-> 0]]
    /\ UNCHANGED <<clock, policy, kill, row, opened, beside>>

\* Mutant: the window leaves out its first minute.
Later(minutes) == {b \in Action : row[b].status = "executing" /\ row[b].at > clock - minutes}

\* recent_executions
Recent(minutes) == {b \in Action : row[b].status = "executing" /\ row[b].at >= clock - minutes}

OnTheirWay == {b \in Action : reading[b].step = "counted" \/ row[b].status \in InForce}

CountRecent(a) ==
    /\ reading[a].step = "read"
    /\ reading' = [reading EXCEPT ![a].step = "counted",
                                  ![a].recent = Cardinality(Recent(reading[a].rules.rate.minutes))]
    /\ beside' = LET n == Cardinality(OnTheirWay) IN IF n > beside THEN n ELSE beside
    /\ UNCHANGED <<clock, policy, kill, row, opened>>

Decide(a) ==
    /\ reading[a].step = "counted"
    /\ LET p == reading[a].rules
           status == Ruling(Request[a], p, reading[a].recent, clock)
       IN row' = [row EXCEPT ![a] =
                    [status |-> status, asked |-> status = "pending",
                     until |-> CASE status = "pending" -> clock + p.ttl
                                 [] status = "allowed" -> clock + p.within
                                 [] OTHER -> 0,
                     at |-> 0]]
    /\ reading' = [reading EXCEPT ![a] = Idle]
    /\ UNCHANGED <<clock, policy, kill, opened, beside>>

\* The worker dies before the decision is recorded.
Crash(a) ==
    /\ reading[a].step # "idle"
    /\ reading' = [reading EXCEPT ![a] = Idle]
    /\ UNCHANGED <<clock, policy, kill, row, opened, beside>>

To(a, status) ==
    /\ row' = [row EXCEPT ![a] = [Undecided EXCEPT !.status = status]]
    /\ UNCHANGED <<clock, policy, kill, reading, opened, beside>>

\* Mutant: also at the minute it ends.
StillAsked(a) == clock <= row[a].until

\* A request before it expires, and a decision while it is valid.
InTime(a) == clock < row[a].until

\* decide: how long an approval may be acted on is what the rules say when it is given.
Approve(a) ==
    /\ row[a].status = "pending" /\ InTime(a)
    /\ row' = [row EXCEPT ![a].status = "approved", ![a].until = clock + AsRead(policy).within]
    /\ UNCHANGED <<clock, policy, kill, reading, opened, beside>>

Reject(a) == row[a].status = "pending" /\ InTime(a) /\ To(a, "rejected")
Expire(a) == row[a].status = "pending" /\ ~InTime(a) /\ To(a, "expired")

\* authorise_execution: the switch, the status and the time in one update.
Authorise(a) ==
    /\ row[a].status \in {"approved", "allowed"}
    /\ CASE kill -> To(a, "aborted")
         [] ~kill /\ ~InTime(a) -> To(a, "invalid")
         [] OTHER -> /\ row' = [row EXCEPT ![a].status = "executing", ![a].at = clock]
                     /\ UNCHANGED <<clock, policy, kill, reading, opened, beside>>

Next ==
    \/ SetPolicy \/ SetKillSwitch \/ Tick
    \/ \E a \in Action : ReadPolicy(a) \/ CountRecent(a) \/ Decide(a) \/ Crash(a)
    \/ \E a \in Action : Approve(a) \/ Reject(a) \/ Expire(a) \/ Authorise(a)

Spec == Init /\ [][Next]_vars

-----------------------------------------------------------------------------
\* A change freeze, the hours, the lists and the levels are enforced when a decision is taken
\* and not when it is acted on.  That is all a write can be late by: one made without asking
\* was let through by rules in force at some minute of the last MaxWithin, one that was approved
\* at some minute of the last MaxTtl and MaxWithin (evaluate, decide, authorise_execution).
GroundIsFresh ==
    \A a \in Action : row[a].status = "executing" =>
        IF row[a].asked THEN row[a].at - opened[a].asked <= MaxTtl - 1 + MaxWithin - 1
                        ELSE row[a].at - opened[a].alone <= MaxWithin - 1

\* The rate limit is counted when a decision is taken, and not when it is acted on.  Of the writes
\* made within its minutes there are no more than it allows and those that were on their way,
\* decided or about to be, when another was counted: decisions taken together, and approvals that
\* come together, pass it by no more than that (recent_executions, authorise_execution).
RateHolds ==
    \A p \in Offered, a \in Action :
        row[a].status = "executing" =>
            Cardinality({b \in Action : row[b].status = "executing"
                            /\ row[b].at \in (row[a].at - p.rate.minutes)..row[a].at})
            <= p.rate.max + beside
=============================================================================
