----------------------------- MODULE TenantExport -----------------------------
(***************************************************************************)
(* A tenant's data written out in files, and checked from the files alone  *)
(* (export_tenant and verify_export of service/export.py).                 *)
(*                                                                         *)
(* The service goes on meanwhile: each table is read by a statement of its *)
(* own and shows what is committed by then, and whoever commits a change   *)
(* appends its event in the same transaction.  Files may be written by two *)
(* exports that found the directory empty, left half-written by one that   *)
(* died, and changed afterwards.  Events are numbers, and a row is known   *)
(* by the event of the transaction that made it; a digest is the content   *)
(* it was taken of.                                                        *)
(***************************************************************************)
EXTENDS Naturals, Sequences, FiniteSets

CONSTANTS
    Order,       \* the tables in the order they are written; "audit_events" is one
    Export,      \* exports into the same directory
    MaxCommits,  \* bound
    MaxDamage    \* bound

VARIABLES
    history,     \* for each event the table its transaction changed
    files,       \* the rows in each file
    manifest,    \* the digest of each file
    export,      \* how far each export is, and the digests it has
    damage

vars == <<history, files, manifest, export, damage>>

Tables == {Order[n] : n \in DOMAIN Order}
Event == 1..MaxCommits
NoFile == [there |-> FALSE, rows |-> {}]
NoExport == [at |-> 0, of |-> [t \in Tables |-> {}]]

TypeOK ==
    /\ history \in Seq(Tables) /\ Len(history) <= MaxCommits
    /\ files \in [Tables -> [there: BOOLEAN, rows: SUBSET Event]]
    /\ manifest \in [there: BOOLEAN, of: [Tables -> SUBSET Event]]
    /\ export \in [Export -> [at: 0..(Len(Order) + 3), of: [Tables -> SUBSET Event]]]
    /\ damage \in 0..MaxDamage

Init ==
    /\ history = <<>>
    /\ files = [t \in Tables |-> NoFile]
    /\ manifest = [there |-> FALSE, of |-> [t \in Tables |-> {}]]
    /\ export = [e \in Export |-> NoExport]
    /\ damage = 0

-----------------------------------------------------------------------------
\* A transaction of the service; sign-ins and the like have an event and no row.
Commit(t) ==
    /\ Len(history) < MaxCommits
    /\ history' = Append(history, t)
    /\ UNCHANGED <<files, manifest, export, damage>>

Rows(t) == IF t = "audit_events" THEN DOMAIN history ELSE {n \in DOMAIN history : history[n] = t}

\* An export begins only in an empty directory.
Begin(e) ==
    /\ export[e].at = 0
    /\ ~manifest.there /\ \A t \in Tables : ~files[t].there
    /\ export' = [export EXCEPT ![e].at = 1]
    /\ UNCHANGED <<history, files, manifest, damage>>

\* Mutant: the log first.
LogFirst == <<"audit_events">> \o SelectSeq(Order, LAMBDA t : t # "audit_events")

\* The log is the last of TABLES.
Tabled == Order

WriteTable(e) ==
    /\ export[e].at \in 1..Len(Order)
    /\ LET t == Tabled[export[e].at] IN
          /\ files' = [files EXCEPT ![t] = [there |-> TRUE, rows |-> Rows(t)]]
          /\ export' = [export EXCEPT ![e] = [at |-> @.at + 1, of |-> [@.of EXCEPT ![t] = Rows(t)]]]
    /\ UNCHANGED <<history, manifest, damage>>
WriteManifest(e) ==
    /\ export[e].at = Len(Order) + 1
    /\ manifest' = [there |-> TRUE, of |-> export[e].of]
    /\ export' = [export EXCEPT ![e].at = @ + 1]
    /\ UNCHANGED <<history, files, damage>>

\* tenant.exported: not in the files that it tells of.
Record(e) ==
    /\ export[e].at = Len(Order) + 2
    /\ Len(history) < MaxCommits
    /\ history' = Append(history, "audit_events")
    /\ export' = [export EXCEPT ![e].at = @ + 1]
    /\ UNCHANGED <<files, manifest, damage>>

\* A file is lost, or loses a row or has one too many.
Damage(t) ==
    /\ damage < MaxDamage /\ manifest.there /\ files[t].there
    /\ \/ files' = [files EXCEPT ![t] = NoFile]
       \/ \E n \in files[t].rows : files' = [files EXCEPT ![t].rows = @ \ {n}]
       \/ \E n \in Event \ files[t].rows : files' = [files EXCEPT ![t].rows = @ \cup {n}]
    /\ damage' = damage + 1
    /\ UNCHANGED <<history, manifest, export>>

Next ==
    \/ \E t \in Tables : Commit(t) \/ Damage(t)
    \/ \E e \in Export : Begin(e) \/ WriteTable(e) \/ WriteManifest(e) \/ Record(e)

Spec == Init /\ [][Next]_vars

-----------------------------------------------------------------------------
(* verify_export.                                                          *)

\* Mutant: a file that is there is taken for whole.
Present == \A t \in Tables : files[t].there
DigestsAgree == \A t \in Tables : files[t].there /\ files[t].rows = manifest.of[t]

\* From the first event on, each follows the one before it.
ChainHolds == files["audit_events"].rows = 1..Cardinality(files["audit_events"].rows)
Intact == manifest.there /\ DigestsAgree /\ ChainHolds

\* What is found intact is what one export read, and the log in it tells of every row in it:
\* of what the tables held when the first was read, all of it.
IntactIsWhole ==
    Intact =>
        /\ \E e \in Export : \A t \in Tables : files[t].rows = export[e].of[t]
        /\ \A t \in Tables : files[t].rows \subseteq files["audit_events"].rows
=============================================================================
