------------------------------- MODULE Changes -------------------------------
(***************************************************************************)
(* The approval of one action on its change record in ServiceNow, and the  *)
(* closing of that record (request_change_approval, change_approval and    *)
(* close_change of connectors/itsm/servicenow.py; _request_approval, sweep, *)
(* _collect and _close_change of actions/service.py).                      *)
(*                                                                         *)
(* ServiceNow is written one request at a time.  An attempt dies between   *)
(* two of them, or an answer is lost and nobody knows whether the request  *)
(* was carried out; another attempt follows.  Meanwhile people join and    *)
(* leave the group, decide, change their minds, and edit the record.  The  *)
(* lists here are shorter than a page.                                     *)
(***************************************************************************)
EXTENDS Naturals, FiniteSets

CONSTANTS
    Person,      \* who may be in the approval group
    Author,      \* the author of the SOP; the action's tier is T2
    MaxFaults,   \* bound: attempts that die, and answers that are lost
    MaxChanges   \* bound: what people do

VARIABLES
    group,       \* the active members
    asked,       \* how many approval rows each person has
    vote,        \* what each one says
    hash,        \* correlation_id is the hash of the action
    work,        \* the worker: what it does, whom it means to ask, who had a row already
    action,      \* the row of the action
    poll,        \* what a sweep has read and not yet applied
    ground,      \* what was true when it read it
    change,      \* the state of the change record
    ledger,      \* what the audit log says of its closing
    faults, moves

vars == <<group, asked, vote, hash, work, action, poll, ground, change, ledger, faults, moves>>

NotWorking == [at |-> "idle", wanted |-> {}, already |-> {}]
NotPolling == [state |-> "none", by |-> Author, same |-> TRUE]
NoGround == [approved |-> {}, rejected |-> {}, same |-> TRUE]

TypeOK ==
    /\ group \subseteq Person
    /\ asked \in [Person -> Nat]
    /\ vote \in [Person -> {"none", "requested", "approved", "rejected"}]
    /\ hash \in BOOLEAN
    /\ work \in [at: {"idle", "reading", "asking", "asked", "closing"}, wanted: SUBSET Person,
                 already: SUBSET Person]
    /\ action \in {"pending", "approved", "rejected", "expired", "invalid", "done", "failed"}
    /\ poll \in [state: {"none", "reading", "requested", "approved", "rejected"}, by: Person,
                 same: BOOLEAN]
    /\ ground \in [approved: SUBSET Person, rejected: SUBSET Person, same: BOOLEAN]
    /\ change \in {"open", "scheduled", "implemented", "reviewed", "successful", "unsuccessful"}
    /\ ledger \in {"nothing", "closed", "not closed"}
    /\ faults \in 0..MaxFaults /\ moves \in 0..MaxChanges

Init ==
    /\ group \in SUBSET Person
    /\ asked = [p \in Person |-> 0] /\ vote = [p \in Person |-> "none"] /\ hash = TRUE
    /\ work = NotWorking /\ action = "pending"
    /\ poll = NotPolling /\ ground = NoGround
    /\ change = "open" /\ ledger = "nothing"
    /\ faults = 0 /\ moves = 0

-----------------------------------------------------------------------------
(* People.                                                                 *)

Moved == moves < MaxChanges /\ moves' = moves + 1
JoinOrLeave(p) ==
    /\ Moved
    /\ group' = IF p \in group THEN group \ {p} ELSE group \cup {p}
    /\ UNCHANGED <<asked, vote, hash, work, action, poll, ground, change, ledger, faults>>
Vote(p) ==
    /\ asked[p] > 0 /\ Moved
    /\ \E v \in {"approved", "rejected"} : vote' = [vote EXCEPT ![p] = v]
    /\ UNCHANGED <<group, asked, hash, work, action, poll, ground, change, ledger, faults>>
Edit ==
    /\ Moved
    /\ hash' = ~hash
    /\ UNCHANGED <<group, asked, vote, work, action, poll, ground, change, ledger, faults>>

-----------------------------------------------------------------------------
(* Asking (_request_approval, request_change_approval).                    *)

Fault == faults < MaxFaults /\ faults' = faults + 1

\* The members; an empty group is an error, which leaves the other channels.
ReadMembers ==
    /\ work.at = "idle" /\ action = "pending"
    /\ work' = IF group = {} THEN [NotWorking EXCEPT !.at = "asked"]
               ELSE [at |-> "reading", wanted |-> group, already |-> {}]
    /\ UNCHANGED <<group, asked, vote, hash, action, poll, ground, change, ledger, faults, moves>>

\* Mutant: the rows that are there are not looked at.
Nobody == {}

\* Those who have a row.
Already == {p \in Person : asked[p] > 0}
ReadAsked ==
    /\ work.at = "reading"
    /\ work' = [work EXCEPT !.at = "asking", !.already = Already]
    /\ UNCHANGED <<group, asked, vote, hash, action, poll, ground, change, ledger, faults, moves>>

ToAsk == work.wanted \ work.already
Row(p) ==
    /\ asked' = [asked EXCEPT ![p] = @ + 1]
    /\ vote' = [vote EXCEPT ![p] = IF @ = "none" THEN "requested" ELSE @]
AskOne(p) ==
    /\ work.at = "asking" /\ p \in ToAsk
    /\ Row(p)
    /\ work' = [work EXCEPT !.wanted = @ \ {p}]
    /\ UNCHANGED <<group, hash, action, poll, ground, change, ledger, faults, moves>>

\* No answer, or a refusal: whether the row is there or not, nobody else is asked.
AskFails(p) ==
    /\ work.at = "asking" /\ p \in ToAsk /\ Fault
    /\ Row(p) \/ UNCHANGED <<asked, vote>>
    /\ work' = [NotWorking EXCEPT !.at = "asked"]
    /\ UNCHANGED <<group, hash, action, poll, ground, change, ledger, moves>>
AllAsked ==
    /\ work.at = "asking" /\ ToAsk = {}
    /\ work' = [NotWorking EXCEPT !.at = "asked"]
    /\ UNCHANGED <<group, asked, vote, hash, action, poll, ground, change, ledger, faults, moves>>

\* The worker dies, and another one takes the run up once its lease is over.
Die ==
    /\ work.at # "idle" /\ Fault
    /\ work' = NotWorking
    /\ UNCHANGED <<group, asked, vote, hash, action, poll, ground, change, ledger, moves>>

-----------------------------------------------------------------------------
(* The decision (sweep, _collect, change_approval).                        *)

ReadRecord ==
    /\ action = "pending" /\ poll.state = "none"
    /\ poll' = [NotPolling EXCEPT !.state = "reading", !.same = hash]
    /\ UNCHANGED <<group, asked, vote, hash, work, action, ground, change, ledger, faults, moves>>

Said(v) == {p \in Person : vote[p] = v}

\* Mutant: one approval is enough.
ApprovalFirst == IF Said("approved") # {} THEN "approved"
                 ELSE IF Said("rejected") # {} THEN "rejected" ELSE "requested"

\* One rejection rejects, and otherwise one approval approves.
Outcome == IF Said("rejected") # {} THEN "rejected"
           ELSE IF Said("approved") # {} THEN "approved" ELSE "requested"
ReadVotes ==
    /\ poll.state = "reading"
    /\ \E p \in Person :
          /\ Said(Outcome) # {} => p \in Said(Outcome)
          /\ poll' = [poll EXCEPT !.state = Outcome, !.by = p]
    /\ ground' = [approved |-> Said("approved"), rejected |-> Said("rejected"), same |-> poll.same]
    /\ UNCHANGED <<group, asked, vote, hash, work, action, change, ledger, faults, moves>>

\* Mutant: whoever approves a change approves the action.
Anybody(p) == TRUE
ShownToDiffer(p) == p # Author

\* What was read is applied to a request that is still waiting; decide locks it.
Apply ==
    /\ poll.state \in {"requested", "approved", "rejected"}
    /\ action' =
          IF action # "pending" \/ poll.state = "requested" THEN action
          ELSE IF ~poll.same THEN "invalid"
          ELSE IF poll.state = "approved" /\ ~ShownToDiffer(poll.by) THEN "invalid"
          ELSE poll.state
    /\ poll' = NotPolling
    /\ UNCHANGED <<group, asked, vote, hash, work, ground, change, ledger, faults, moves>>

Expire ==
    /\ action = "pending" /\ poll.state = "none"
    /\ action' = "expired"
    /\ UNCHANGED <<group, asked, vote, hash, work, poll, ground, change, ledger, faults, moves>>

-----------------------------------------------------------------------------
(* The end: the action is done or has failed, and its change is closed.    *)

CarryOut ==
    /\ action = "approved" /\ work.at \in {"idle", "asked"}
    /\ action' \in {"done", "failed"}
    /\ work' = [NotWorking EXCEPT !.at = "closing"]
    /\ UNCHANGED <<group, asked, vote, hash, poll, ground, change, ledger, faults, moves>>

\* close_change: Scheduled, Implement, Review, then Closed with the result.
After == [open |-> "scheduled", scheduled |-> "implemented", implemented |-> "reviewed",
          reviewed |-> IF action = "done" THEN "successful" ELSE "unsuccessful"]
Closed == change \in {"successful", "unsuccessful"}

Patch ==
    /\ work.at = "closing" /\ ~Closed
    /\ change' = After[change]
    /\ UNCHANGED <<group, asked, vote, hash, work, action, poll, ground, ledger, faults, moves>>

\* A refusal or a lost answer is noted and changes nothing else.
PatchFails ==
    /\ work.at = "closing" /\ ~Closed /\ Fault
    /\ change' \in {change, After[change]}
    /\ ledger' = "not closed"
    /\ work' = NotWorking
    /\ UNCHANGED <<group, asked, vote, hash, action, poll, ground, moves>>
NoteClosed ==
    /\ work.at = "closing" /\ Closed
    /\ ledger' = "closed"
    /\ work' = NotWorking
    /\ UNCHANGED <<group, asked, vote, hash, action, poll, ground, change, faults, moves>>

Next ==
    \/ Edit \/ ReadMembers \/ ReadAsked \/ AllAsked \/ Die
    \/ \E p \in Person : JoinOrLeave(p) \/ Vote(p) \/ AskOne(p) \/ AskFails(p)
    \/ ReadRecord \/ ReadVotes \/ Apply \/ Expire
    \/ CarryOut \/ Patch \/ PatchFails \/ NoteClosed

Spec == Init /\ [][Next]_vars

-----------------------------------------------------------------------------
\* However often asking is taken up again, a person is asked once.
AskedOnce == \A p \in Person : asked[p] <= 1

\* What was approved, somebody else than the author had approved and nobody had rejected when it
\* was read, on a record that carried the hash.
DecidedByOthers ==
    action \in {"approved", "done", "failed"} =>
        ground.same /\ ground.rejected = {} /\ ground.approved \ {Author} # {}

\* A change that is closed, or said to be, is closed as the action ended.
ClosedAsItEnded ==
    /\ change = "successful" => action = "done"
    /\ change = "unsuccessful" => action = "failed"
    /\ ledger = "closed" => Closed
=============================================================================
