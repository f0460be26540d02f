-------------------------- MODULE ComponentsProofs --------------------------
(***************************************************************************)
(* What Components.tla promises of the components of CoreComponents.tla,   *)
(* for every value of their constants.  The inductive invariants are those *)
(* of CoreComponentsProofs.tla and, here, those of the tickets that become *)
(* runs, of the advice of a model, and of the records.                     *)
(***************************************************************************)
EXTENDS Components, CoreComponentsProofs

-----------------------------------------------------------------------------
(* Tickets that become runs.                                               *)

LEMMA IntakeCounts == \A S : I!Cardinality(S) = Cardinality(S)
BY DEF I!Cardinality, Cardinality, I!IsFiniteSet, IsFiniteSet

\* The rows of a page, in their order: each of them, and nothing else.
LEMMA PageInOrder ==
    ASSUME NEW S \in SUBSET Ticket
    PROVE  I!Ascending(S) \in Seq(S) /\ \A t \in S : \E i \in 1..Len(I!Ascending(S)) : I!Ascending(S)[i] = t
<1> DEFINE n == Cardinality(S)
           s == I!Ascending(S)
<1>1. S \in SUBSET Nat /\ IsFiniteSet(S) /\ n \in Nat
  BY IntakeAssumption, FS_Subset, FS_CardinalityType
<1>2. PICK v \in Seq(S) : Len(v) = n /\ \A i, j \in 1..Len(v) : i < j => v[i] < v[j]
  BY <1>1, AscendingOrders
<1>3. v \in [1..n -> S] /\ DOMAIN v = 1..n
  BY <1>1, <1>2, LenProperties, ElementOfSeq
<1>4. \E u \in [1..n -> S] : \A i, j \in DOMAIN u : i < j => u[i] < u[j]
  BY <1>2, <1>3
<1>5. s \in [1..n -> S] /\ \A i, j \in DOMAIN s : i < j => s[i] < s[j]
  BY <1>4, IntakeCounts DEF I!Ascending, n
<1> HIDE DEF s
<1>6. s \in Seq(S) /\ Len(s) = n /\ DOMAIN s = 1..n
  BY <1>1, <1>5
<1>7. s \in Injection(1..n, S)
  <2>1. ASSUME NEW i \in 1..n, NEW j \in 1..n, s[i] = s[j] PROVE i = j
    <3>1. i \in Nat /\ j \in Nat /\ s[i] \in S /\ s[j] \in S
      BY <1>1, <1>5
    <3>2. s[i] \in Nat /\ s[j] \in Nat
      BY <1>1, <3>1
    <3>3. ~(i < j) /\ ~(j < i)
      BY <1>5, <1>6, <2>1, <3>2
    <3> QED
      BY <3>1, <3>3
  <2> QED
    BY <1>5, <2>1, Fun_IsInj
<1>8. IsFiniteSet(1..n) /\ Cardinality(1..n) = n
  BY <1>1, FS_Interval
<1>9. s \in Surjection(1..n, S)
  BY <1>1, <1>7, <1>8, FS_Injection DEF n
<1>10. \A x \in S : \E i \in 1..n : s[i] = x
  BY <1>9 DEF Surjection
<1> QED
  BY <1>6, <1>10 DEF s

\* What was read and not yet recorded.
Read == {listed[i] : i \in DOMAIN listed}
TicketsNew == {t \in Ticket : ticket[t] = "new"}
Before(t) == {u \in TicketsNew : u < t}

\* Those of the tickets that were waiting all the while that are neither read nor recorded; and
\* those of them that are on pages that were read.
Waiting == steady \ (incidents \cup Read)
Passed == {t \in Waiting : Cardinality(Before(t)) < cycle.page * PerPage}

IWriter == [at: {"idle", "given", "holds"}, of: Ticket \cup {0}]
IntakeTypes ==
    /\ ticket \in [Ticket -> {"unopened", "new", "taken"}]
    /\ cycle \in [at: {"idle", "reading", "recording", "complete", "cut"}, page: Nat]
    /\ listed \in Seq(Ticket)
    /\ left \in Nat
    /\ writer \in [I!Writer -> IWriter]
    /\ incidents \subseteq Ticket
    /\ runs \in [Ticket -> Nat]

\* A transaction that has inserted a ticket is the only one, and the ticket has no run yet; the
\* poller is at the first of its rows.
OneInserts ==
    /\ \A w \in I!Writer :
          /\ writer[w].at # "idle" => writer[w].of \in Ticket
          /\ writer[w].at = "holds" => writer[w].of \notin incidents
    /\ \A v, w \in I!Writer :
          v # w /\ writer[v].at = "holds" /\ writer[w].at = "holds" => writer[v].of # writer[w].of
    /\ writer["poller"].at # "idle" =>
          /\ cycle.at \in {"recording", "cut"} /\ listed # <<>>
          /\ writer["poller"].of = Head(listed)

\* While the list is read, no more were passed over than left it; and so it is when it is read.
FewPassed ==
    /\ steady \subseteq TicketsNew /\ steady \cap Hidden = {}
    /\ cycle.at = "reading" => Cardinality(Passed) <= left
    /\ cycle.at \in {"recording", "complete"} => Cardinality(Waiting) <= left
    /\ cycle.at = "complete" => listed = <<>>

IntakeInv == IntakeTypes /\ OneInserts /\ I!OneRunEach /\ FewPassed

LEMMA TicketsCount ==
    ASSUME NEW S \in SUBSET Ticket
    PROVE  IsFiniteSet(S) /\ Cardinality(S) \in Nat
BY IntakeAssumption, FS_Subset, FS_CardinalityType

LEMMA FewerTickets ==
    ASSUME NEW S \in SUBSET Ticket, NEW R \in SUBSET S
    PROVE  Cardinality(R) \in Nat /\ Cardinality(R) <= Cardinality(S)
BY TicketsCount, FS_Subset, FS_CardinalityType

LEMMA IntakeInit == I!Init => IntakeInv
<1> SUFFICES ASSUME I!Init PROVE IntakeInv
  OBVIOUS
<1>1. /\ ticket = [t \in Ticket |-> "unopened"] /\ cycle = [at |-> "idle", page |-> 0]
      /\ listed = <<>> /\ left = 0 /\ steady = {} /\ incidents = {}
      /\ writer = [w \in I!Writer |-> [at |-> "idle", of |-> 0]] /\ runs = [t \in Ticket |-> 0]
  BY DEF I!Init, I!NoCycle, I!Idle
<1>2. IntakeTypes
  BY <1>1 DEF IntakeTypes, IWriter
<1>3. "poller" \in I!Writer
  BY DEF I!Writer
<1>4. OneInserts
  BY <1>1, <1>3 DEF OneInserts
<1>5. I!OneRunEach
  BY <1>1 DEF I!OneRunEach
<1>6. FewPassed
  BY <1>1 DEF FewPassed
<1> QED
  BY <1>2, <1>4, <1>5, <1>6 DEF IntakeInv

-----------------------------------------------------------------------------

\* Tickets of which there are no more before, and that are no more.
LEMMA NoMorePassed ==
    ASSUME IntakeInv, IntakeTypes', Waiting' \subseteq Waiting, cycle' = cycle,
           \A t \in Waiting' : Cardinality(Before(t)) <= Cardinality(Before(t)')
    PROVE  Passed' \subseteq Passed
<1>1. /\ Waiting \subseteq Ticket /\ \A t \in Waiting' : t \in Ticket
  BY DEF IntakeInv, FewPassed, Waiting, TicketsNew
<1>2. cycle.page * PerPage \in Nat
  BY IntakeAssumption DEF IntakeInv, IntakeTypes
<1>3. ASSUME NEW t \in Passed' PROVE t \in Passed
  <2>1. t \in Waiting' /\ Cardinality(Before(t)') < cycle.page * PerPage
    BY <1>3 DEF Passed
  <2>2. Before(t) \in SUBSET Ticket /\ Before(t)' \in SUBSET Ticket
    BY DEF Before, TicketsNew
  <2>3. Cardinality(Before(t)) \in Nat /\ Cardinality(Before(t)') \in Nat
    BY <2>2, TicketsCount
  <2>4. Cardinality(Before(t)) < cycle.page * PerPage
    BY <1>2, <2>1, <2>3
  <2> QED
    BY <2>1, <2>4 DEF Passed
<1> QED
  BY <1>3

\* Tickets that come: those that wait are no nearer to the front.
LEMMA TicketsCome ==
    ASSUME IntakeInv, NEW t \in Ticket, I!Open(t) \/ I!PutBack(t)
    PROVE  IntakeInv'
<1>1. IntakeTypes /\ OneInserts /\ I!OneRunEach /\ FewPassed
  BY DEF IntakeInv
<1>2. /\ ticket' = [ticket EXCEPT ![t] = "new"]
      /\ UNCHANGED <<cycle, listed, left, steady, writer, incidents, runs>>
  BY DEF I!Open, I!PutBack
<1>3. IntakeTypes' /\ TicketsNew \subseteq TicketsNew'
  BY <1>1, <1>2 DEF IntakeTypes, TicketsNew
<1>4. OneInserts' /\ I!OneRunEach'
  BY <1>1, <1>2 DEF OneInserts, I!OneRunEach
<1>5. Waiting' = Waiting
  BY <1>2 DEF Waiting, Read
<1>6. ASSUME NEW u \in Waiting' PROVE Cardinality(Before(u)) <= Cardinality(Before(u)')
  <2>1. Before(u)' \in SUBSET Ticket /\ Before(u) \in SUBSET (Before(u)')
    BY <1>3 DEF Before, TicketsNew
  <2> QED
    BY <2>1, FewerTickets
<1>7. Passed' \subseteq Passed
  BY <1>2, <1>3, <1>5, <1>6, NoMorePassed
<1>8. Passed \in SUBSET Ticket
  BY <1>1 DEF Passed, Waiting, FewPassed, TicketsNew
<1>9. Cardinality(Passed') \in Nat /\ Cardinality(Passed') <= Cardinality(Passed)
      /\ Cardinality(Passed) \in Nat
  BY <1>7, <1>8, FewerTickets, TicketsCount
<1>10. FewPassed'
  BY <1>1, <1>2, <1>3, <1>5, <1>9 DEF FewPassed, IntakeTypes
<1> QED
  BY <1>3, <1>4, <1>10 DEF IntakeInv

\* A ticket that leaves: those behind it move up by one, and at most one of them passes the
\* edge of the page.
LEMMA TicketLeaves ==
    ASSUME IntakeInv, NEW t \in Ticket, I!Take(t)
    PROVE  IntakeInv'
<1>1. IntakeTypes /\ OneInserts /\ I!OneRunEach /\ FewPassed
  BY DEF IntakeInv
<1>2. /\ ticket' = [ticket EXCEPT ![t] = "taken"] /\ ticket[t] = "new"
      /\ left' = IF cycle.at = "reading" THEN left + 1 ELSE left
      /\ steady' = steady \ {t}
      /\ UNCHANGED <<cycle, listed, writer, incidents, runs>>
  BY DEF I!Take
<1>3. IntakeTypes' /\ TicketsNew' = TicketsNew \ {t} /\ t \in TicketsNew
  BY <1>1, <1>2 DEF IntakeTypes, TicketsNew
<1>4. OneInserts' /\ I!OneRunEach'
  BY <1>1, <1>2 DEF OneInserts, I!OneRunEach
<1>5. Waiting' = Waiting \ {t} /\ Waiting \in SUBSET Ticket /\ Waiting \subseteq TicketsNew
  BY <1>1, <1>2 DEF Waiting, Read, FewPassed, TicketsNew
<1>6. PICK p : p = cycle.page * PerPage
  OBVIOUS
<1>7. p \in Nat
  BY <1>1, <1>6, IntakeAssumption DEF IntakeTypes
<1>8. \A u \in Ticket : /\ IsFiniteSet(Before(u)) /\ Cardinality(Before(u)) \in Nat
                        /\ Before(u) \in SUBSET Ticket
  <2>1. \A u \in Ticket : Before(u) \in SUBSET Ticket
    BY DEF Before, TicketsNew
  <2> QED
    BY <2>1, TicketsCount
<1>9. ASSUME NEW u \in Ticket
      PROVE  /\ Cardinality(Before(u)') \in Nat
             /\ Cardinality(Before(u)') = IF t < u THEN Cardinality(Before(u)) - 1
                                                   ELSE Cardinality(Before(u))
  <2>1. Before(u)' = Before(u) \ {t} /\ (t \in Before(u) <=> t < u)
    BY <1>3 DEF Before
  <2>2. Cardinality(Before(u) \ {t}) = IF t \in Before(u) THEN Cardinality(Before(u)) - 1
                                                          ELSE Cardinality(Before(u))
    BY <1>8, FS_RemoveElement
  <2>3. Before(u) \ {t} \in SUBSET Ticket
    BY <1>8
  <2>4. Cardinality(Before(u) \ {t}) \in Nat
    BY <2>3, TicketsCount
  <2> QED
    BY <2>1, <2>2, <2>4
<1>10. ASSUME NEW u \in TicketsNew, NEW v \in TicketsNew, u < v
       PROVE  Cardinality(Before(u)) < Cardinality(Before(v))
  <2>1. u \in Ticket /\ v \in Ticket /\ u \in Nat /\ v \in Nat
    BY IntakeAssumption DEF TicketsNew
  <2>2. \A w \in Before(u) : w < v
    <3> SUFFICES ASSUME NEW w \in Before(u) PROVE w < v
      OBVIOUS
    <3>1. w \in Nat /\ w < u
      BY IntakeAssumption DEF Before, TicketsNew
    <3> QED
      BY <1>10, <2>1, <3>1
  <2>3. Before(u) \cup {u} \in SUBSET Before(v) /\ u \notin Before(u)
    <3>1. ~(u < u)
      BY <2>1
    <3>2. \A w \in Before(u) : w \in TicketsNew
      BY DEF Before
    <3> QED
      BY <1>10, <2>2, <3>1, <3>2 DEF Before
  <2>4. Cardinality(Before(u) \cup {u}) = Cardinality(Before(u)) + 1
    BY <1>8, <2>1, <2>3, FS_AddElement
  <2>5. Cardinality(Before(u) \cup {u}) <= Cardinality(Before(v))
    BY <1>8, <2>1, <2>3, FS_Subset
  <2> QED
    BY <1>8, <2>1, <2>4, <2>5
<1> DEFINE Edge == {u \in Waiting : Cardinality(Before(u)) = p}
<1>11. ASSUME NEW u \in Passed' PROVE u \in Passed \cup Edge
  <2>1. u \in Waiting' /\ Cardinality(Before(u)') < p
    BY <1>2, <1>6, <1>11 DEF Passed
  <2>2. u \in Waiting /\ u \in Ticket
    BY <1>5, <2>1
  <2>3. Cardinality(Before(u)) < p \/ Cardinality(Before(u)) = p
    BY <1>7, <1>8, <1>9, <2>1, <2>2
  <2> QED
    BY <1>6, <2>2, <2>3 DEF Passed
<1>12. ASSUME NEW u \in Edge, NEW v \in Edge PROVE u = v
  <2>1. /\ u \in TicketsNew /\ v \in TicketsNew /\ u \in Nat /\ v \in Nat
        /\ Cardinality(Before(u)) = p /\ Cardinality(Before(v)) = p
    BY <1>5, IntakeAssumption DEF TicketsNew
  <2>2. ~(u < v) /\ ~(v < u)
    BY <1>7, <1>10, <2>1
  <2> QED
    BY <2>1, <2>2
<1>13. \E u : Edge \subseteq {u}
  BY <1>12
<1>14. PICK u : Edge \subseteq {u}
  BY <1>13
<1> HIDE DEF Edge
<1>15. Passed \in SUBSET Ticket /\ IsFiniteSet(Passed) /\ Cardinality(Passed) \in Nat
  <2>1. Passed \in SUBSET Ticket
    BY <1>5 DEF Passed
  <2> QED
    BY <2>1, TicketsCount
<1>16. /\ IsFiniteSet(Passed \cup {u}) /\ Cardinality(Passed \cup {u}) <= Cardinality(Passed) + 1
       /\ Passed' \in SUBSET (Passed \cup {u})
  <2>1. Passed' \in SUBSET (Passed \cup {u})
    BY <1>11, <1>14
  <2>2. /\ IsFiniteSet(Passed \cup {u})
        /\ Cardinality(Passed \cup {u}) = IF u \in Passed THEN Cardinality(Passed)
                                                         ELSE Cardinality(Passed) + 1
    BY <1>15, FS_AddElement
  <2> QED
    BY <1>15, <2>1, <2>2
<1>17. /\ IsFiniteSet(Passed') /\ Cardinality(Passed') <= Cardinality(Passed \cup {u})
  BY <1>16, FS_Subset
<1>18. Cardinality(Passed') \in Nat /\ Cardinality(Passed \cup {u}) \in Nat
  BY <1>16, <1>17, FS_CardinalityType
<1>19. Cardinality(Passed') <= Cardinality(Passed) + 1
  BY <1>15, <1>16, <1>17, <1>18
<1>20. /\ Cardinality(Waiting') \in Nat /\ Cardinality(Waiting) \in Nat
       /\ Cardinality(Waiting') <= Cardinality(Waiting)
  <2>1. Waiting' \in SUBSET Waiting
    BY <1>5
  <2> QED
    BY <1>5, <2>1, FewerTickets, TicketsCount
<1>21. FewPassed'
  BY <1>1, <1>2, <1>3, <1>15, <1>18, <1>19, <1>20 DEF FewPassed, IntakeTypes
<1> QED
  BY <1>3, <1>4, <1>21 DEF IntakeInv

\* A page is read: what is on it waits no longer unread.
LEMMA PageIsRead ==
    ASSUME IntakeInv, I!ReadPage
    PROVE  IntakeInv'
<1>1. IntakeTypes /\ OneInserts /\ I!OneRunEach /\ FewPassed
  BY DEF IntakeInv
<1>2. PICK batch : batch = I!Readable(I!Cut(cycle.page))
  OBVIOUS
<1>3. PICK ended \in BOOLEAN : ended = ((cycle.page + 1) * PerPage >= Cardinality(TicketsNew))
  <2> DEFINE theEnd == (cycle.page + 1) * PerPage >= Cardinality(TicketsNew)
  <2>1. theEnd \in BOOLEAN
    OBVIOUS
  <2> HIDE DEF theEnd
  <2>2. \E e \in BOOLEAN : e = theEnd
    BY <2>1, Zenon
  <2> QED
    BY <2>2, Zenon DEF theEnd
<1>4. ended = I!Ends(cycle.page, batch)
  BY <1>3, IntakeCounts, IntakeAssumption DEF I!Ends, I!New, TicketsNew
<1>5. PICK next : next = [at |-> IF ~ended /\ cycle.page + 1 = MaxPages THEN "cut"
                                 ELSE IF ended THEN "recording" ELSE "reading",
                          page |-> IF ended \/ (~ended /\ cycle.page + 1 = MaxPages)
                                   THEN 0 ELSE cycle.page + 1]
  OBVIOUS
<1>6. /\ cycle.at = "reading" /\ listed' = listed \o I!Ascending(batch) /\ cycle' = next
      /\ steady' = IF ~ended /\ cycle.page + 1 = MaxPages THEN {} ELSE steady
      /\ UNCHANGED <<ticket, left, writer, incidents, runs>>
  BY <1>2, <1>4, <1>5 DEF I!ReadPage
<1>7. cycle.page \in Nat
  BY <1>1 DEF IntakeTypes
<1>8. /\ next.at \in {"cut", "recording", "reading"} /\ next.page \in Nat
      /\ next \in [at: {"idle", "reading", "recording", "complete", "cut"}, page: Nat]
      /\ next.at = "recording" => ended = TRUE
      /\ next.at = "reading" => next.page = cycle.page + 1 /\ ended = FALSE
      /\ next.at = "recording" \/ next.at = "reading" => steady' = steady
      /\ steady' \subseteq steady
  BY <1>5, <1>6, <1>7
<1>9. batch \in SUBSET Ticket
  BY <1>2 DEF I!Readable, I!Cut, I!New
<1>10. /\ I!Ascending(batch) \in Seq(Ticket)
       /\ \A t \in batch : \E i \in 1..Len(I!Ascending(batch)) : I!Ascending(batch)[i] = t
  <2>1. I!Ascending(batch) \in Seq(batch)
    BY <1>9, PageInOrder
  <2>2. I!Ascending(batch) \in Seq(Ticket)
    BY <1>9, <2>1
  <2> QED
    BY <1>9, <2>2, PageInOrder
<1>11. PICK s \in Seq(Ticket) : s = I!Ascending(batch) /\ \A t \in batch : \E i \in 1..Len(s) : s[i] = t
  BY <1>10
<1>12. /\ listed' \in Seq(Ticket) /\ Len(listed') = Len(listed) + Len(s)
       /\ \A i \in 1..Len(listed) : listed'[i] = listed[i]
       /\ \A i \in 1..Len(s) : listed'[Len(listed) + i] = s[i]
       /\ Len(listed) \in Nat /\ Len(s) \in Nat
  BY <1>1, <1>6, <1>11 DEF IntakeTypes
<1>13. /\ DOMAIN listed = 1..Len(listed) /\ DOMAIN listed' = 1..(Len(listed) + Len(s))
  BY <1>1, <1>12, LenProperties DEF IntakeTypes
<1>14. Read \subseteq Read' /\ batch \subseteq Read'
  <2>1. ASSUME NEW t \in Read PROVE t \in Read'
    <3>1. PICK i \in 1..Len(listed) : listed[i] = t
      BY <1>13, <2>1 DEF Read
    <3>2. i \in 1..(Len(listed) + Len(s)) /\ listed'[i] = t
      BY <1>12, <3>1
    <3> QED
      BY <1>13, <3>2 DEF Read
  <2>2. ASSUME NEW t \in batch PROVE t \in Read'
    <3>1. PICK i \in 1..Len(s) : s[i] = t
      BY <1>11, <2>2
    <3>2. Len(listed) + i \in 1..(Len(listed) + Len(s)) /\ listed'[Len(listed) + i] = t
      BY <1>12, <3>1
    <3> QED
      BY <1>13, <3>2 DEF Read
  <2> QED
    BY <2>1, <2>2
<1>15. IntakeTypes'
  BY <1>1, <1>6, <1>8, <1>12 DEF IntakeTypes
<1>16. OneInserts' /\ I!OneRunEach'
  BY <1>1, <1>6 DEF OneInserts, I!OneRunEach
<1>17. TicketsNew' = TicketsNew /\ \A t : Before(t)' = Before(t)
  BY <1>6 DEF TicketsNew, Before
<1>18. Waiting' \subseteq Waiting /\ Waiting \subseteq TicketsNew /\ Waiting \cap Hidden = {}
       /\ Waiting \in SUBSET Ticket
  BY <1>1, <1>6, <1>8, <1>14 DEF Waiting, FewPassed, TicketsNew
<1>19. PICK p, q : p = cycle.page * PerPage /\ q = (cycle.page + 1) * PerPage
  OBVIOUS
<1>20. p \in Nat /\ q \in Nat
  BY <1>7, <1>19, IntakeAssumption
<1>21. ASSUME NEW t \in Waiting', Cardinality(Before(t)) < q PROVE t \in Passed
  <2>1. t \in TicketsNew /\ t \notin Hidden /\ t \in Ticket /\ t \in Waiting
    BY <1>18, <1>21
  <2>2. Before(t) \in SUBSET Ticket
    BY DEF Before, TicketsNew
  <2>3. Cardinality(Before(t)) \in Nat
    BY <2>2, TicketsCount
  <2>4. I!Rank(t) = Cardinality(Before(t))
    BY IntakeCounts DEF I!Rank, I!New, Before, TicketsNew
  <2>5. t \notin batch
    BY <1>14, <1>21 DEF Waiting
  <2>6. ~(p <= Cardinality(Before(t)))
    <3>1. t \in I!New
      BY <2>1 DEF I!New, TicketsNew
    <3>2. t \notin I!Cut(cycle.page)
      BY <1>2, <2>1, <2>5 DEF I!Readable
    <3>3. ~(cycle.page * PerPage <= Cardinality(Before(t))
            /\ Cardinality(Before(t)) < (cycle.page + 1) * PerPage)
      BY <2>4, <3>1, <3>2 DEF I!Cut
    <3> QED
      BY <1>19, <1>21, <3>3
  <2>7. Cardinality(Before(t)) < p
    BY <1>20, <2>3, <2>6
  <2> QED
    BY <1>19, <2>1, <2>7 DEF Passed
<1>22. Passed \in SUBSET Ticket /\ Cardinality(Passed) <= left /\ Cardinality(Passed) \in Nat
  <2>1. Passed \in SUBSET Ticket
    BY <1>18 DEF Passed
  <2> QED
    BY <1>1, <1>6, <2>1, TicketsCount DEF FewPassed
<1>23. CASE next.at = "reading"
  <2>1. Passed' \in SUBSET Passed
    <3>1. ASSUME NEW t \in Passed' PROVE t \in Passed
      <4>1. t \in Waiting' /\ Cardinality(Before(t)) < q
        BY <1>6, <1>8, <1>17, <1>19, <1>23, <3>1 DEF Passed
      <4> QED
        BY <1>21, <4>1
    <3> QED
      BY <3>1
  <2>2. Cardinality(Passed') \in Nat /\ Cardinality(Passed') <= Cardinality(Passed)
    BY <1>22, <2>1, FewerTickets
  <2>3. left \in Nat
    BY <1>1 DEF IntakeTypes
  <2>4. FewPassed'
    BY <1>1, <1>6, <1>8, <1>17, <1>22, <1>23, <2>2, <2>3 DEF FewPassed
  <2> QED
    BY <1>15, <1>16, <2>4 DEF IntakeInv
<1>24. CASE next.at = "recording"
  <2>1. ASSUME NEW t \in Waiting' PROVE t \in Passed
    <3>1. t \in TicketsNew /\ t \in Ticket /\ t \in Nat
      BY <1>18, <2>1, IntakeAssumption
    <3>2. Before(t) \in SUBSET (TicketsNew \ {t}) /\ TicketsNew \in SUBSET Ticket
      BY <3>1 DEF Before, TicketsNew
    <3>3. /\ IsFiniteSet(TicketsNew) /\ Cardinality(TicketsNew) \in Nat
          /\ IsFiniteSet(TicketsNew \ {t})
          /\ Cardinality(TicketsNew \ {t}) = Cardinality(TicketsNew) - 1
      BY <3>1, <3>2, TicketsCount, FS_RemoveElement
    <3>4. Cardinality(Before(t)) \in Nat /\ Cardinality(Before(t)) <= Cardinality(TicketsNew \ {t})
      <4>1. Before(t) \in SUBSET Ticket
        BY <3>2
      <4> QED
        BY <3>2, <3>3, <4>1, FS_Subset, TicketsCount
    <3>5. Cardinality(TicketsNew) <= q
      BY <1>3, <1>8, <1>19, <1>20, <1>24, <3>3
    <3>6. Cardinality(Before(t)) < q
      BY <1>20, <3>3, <3>4, <3>5
    <3> QED
      BY <1>21, <2>1, <3>6
  <2>2. Waiting' \in SUBSET Passed
    BY <2>1
  <2>3. Cardinality(Waiting') \in Nat /\ Cardinality(Waiting') <= Cardinality(Passed)
    BY <1>22, <2>2, FewerTickets
  <2>4. left \in Nat
    BY <1>1 DEF IntakeTypes
  <2>5. FewPassed'
    BY <1>1, <1>6, <1>8, <1>17, <1>22, <1>24, <2>3, <2>4 DEF FewPassed
  <2> QED
    BY <1>15, <1>16, <2>5 DEF IntakeInv
<1>25. CASE next.at = "cut"
  <2>1. FewPassed'
    BY <1>1, <1>6, <1>8, <1>17, <1>25 DEF FewPassed
  <2> QED
    BY <1>15, <1>16, <2>1 DEF IntakeInv
<1> QED
  BY <1>8, <1>23, <1>24, <1>25

\* The reading begins, fails or is over; deliveries and rows are given to transactions.
LEMMA CyclesTurn ==
    ASSUME IntakeInv,
           \/ I!Begin \/ I!NotAList \/ I!Fail \/ I!RecordNext \/ I!Finish
           \/ \E t \in Ticket : I!Deliver(t)
           \/ \E w \in I!Writer : I!RollBack(w)
    PROVE  IntakeInv'
<1>1. IntakeTypes /\ OneInserts /\ I!OneRunEach /\ FewPassed
  BY DEF IntakeInv
<1>2. "poller" \in I!Writer /\ "webhook" \in I!Writer /\ \A w \in I!Writer : w \in {"poller", "webhook"}
  BY DEF I!Writer
<1>3. CASE I!Begin
  <2>1. /\ cycle' = [at |-> "reading", page |-> 0] /\ left' = 0 /\ listed = <<>>
        /\ steady' = TicketsNew \ Hidden /\ writer["poller"] = I!Idle
        /\ UNCHANGED <<ticket, listed, writer, incidents, runs>>
    BY <1>3 DEF I!Begin, I!New, TicketsNew
  <2>2. IntakeTypes'
    BY <1>1, <2>1 DEF IntakeTypes
  <2>3. OneInserts' /\ I!OneRunEach'
    BY <1>1, <2>1 DEF OneInserts, I!OneRunEach, I!Idle
  <2>4. Passed' = {}
    <3> SUFFICES ASSUME NEW t \in Passed' PROVE FALSE
      OBVIOUS
    <3>1. t \in Waiting' /\ Cardinality(Before(t)') < 0 * PerPage
      BY <2>1 DEF Passed
    <3>2. Before(t)' \in SUBSET Ticket
      BY DEF Before, TicketsNew
    <3>3. Cardinality(Before(t)') \in Nat
      BY <3>2, TicketsCount
    <3> QED
      BY <3>1, <3>3, IntakeAssumption
  <2>5. Cardinality(Passed') = 0
    BY <2>4, FS_EmptySet
  <2>6. TicketsNew' = TicketsNew
    BY <2>1 DEF TicketsNew
  <2>7. FewPassed'
    BY <2>1, <2>5, <2>6 DEF FewPassed
  <2> QED
    BY <2>2, <2>3, <2>7 DEF IntakeInv
<1>4. CASE I!Fail \/ I!RollBack("poller")
  <2>1. /\ cycle' = [at |-> "idle", page |-> 0] /\ listed' = <<>> /\ steady' = {}
        /\ UNCHANGED <<ticket, left, incidents, runs>>
        /\ \/ writer' = writer /\ cycle.at = "reading"
           \/ writer' = [writer EXCEPT !["poller"] = I!Idle]
    BY <1>4 DEF I!Fail, I!RollBack, I!NoCycle
  <2>2. I!Idle \in IWriter /\ I!Idle.at = "idle"
    BY DEF I!Idle, IWriter
  <2>3. /\ writer' \in [I!Writer -> IWriter] /\ writer'["poller"].at = "idle"
        /\ \A w \in I!Writer : w # "poller" => writer'[w] = writer[w]
    <3>1. CASE writer' = writer /\ cycle.at = "reading"
      BY <1>1, <1>2, <3>1 DEF IntakeTypes, OneInserts
    <3>2. CASE writer' = [writer EXCEPT !["poller"] = I!Idle]
      BY <1>1, <1>2, <2>2, <3>2 DEF IntakeTypes
    <3> QED
      BY <2>1, <3>1, <3>2
  <2>4. IntakeTypes'
    BY <1>1, <2>1, <2>3 DEF IntakeTypes
  <2>5. OneInserts' /\ I!OneRunEach'
    BY <1>1, <1>2, <2>1, <2>3 DEF OneInserts, I!OneRunEach
  <2>6. FewPassed'
    BY <2>1 DEF FewPassed
  <2> QED
    BY <2>4, <2>5, <2>6 DEF IntakeInv
<1>5. ASSUME UNCHANGED <<ticket, cycle, listed, left, steady, incidents, runs>>,
             NEW w \in I!Writer, NEW r \in IWriter, writer' = [writer EXCEPT ![w] = r],
             r.at # "holds", r.at # "idle" => r.of \in Ticket,
             r.at # "idle" /\ w = "poller" =>
                cycle.at \in {"recording", "cut"} /\ listed # <<>> /\ r.of = Head(listed)
      PROVE  IntakeInv'
  <2>1. /\ writer' \in [I!Writer -> IWriter] /\ writer'[w] = r
        /\ \A v \in I!Writer : v # w => writer'[v] = writer[v]
    BY <1>1, <1>5 DEF IntakeTypes
  <2>2. IntakeTypes'
    BY <1>1, <1>5, <2>1 DEF IntakeTypes
  <2>3. \A v \in I!Writer :
           /\ writer'[v].at # "idle" => writer'[v].of \in Ticket
           /\ writer'[v].at = "holds" => writer'[v].of \notin incidents
    BY <1>1, <1>5, <2>1 DEF OneInserts
  <2>4. \A u, v \in I!Writer :
           u # v /\ writer'[u].at = "holds" /\ writer'[v].at = "holds" => writer'[u].of # writer'[v].of
    BY <1>1, <1>5, <2>1 DEF OneInserts
  <2>5. writer'["poller"].at # "idle" =>
           /\ cycle.at \in {"recording", "cut"} /\ listed # <<>>
           /\ writer'["poller"].of = Head(listed)
    BY <1>1, <1>2, <1>5, <2>1 DEF OneInserts
  <2>6. OneInserts'
    BY <1>5, <2>3, <2>4, <2>5 DEF OneInserts
  <2>7. I!OneRunEach'
    BY <1>1, <1>5 DEF I!OneRunEach
  <2>8. Waiting' = Waiting /\ Passed' = Passed /\ TicketsNew' = TicketsNew
    BY <1>5 DEF Waiting, Passed, Read, TicketsNew, Before
  <2>9. FewPassed'
    BY <1>1, <1>5, <2>8 DEF FewPassed
  <2> QED
    BY <2>2, <2>6, <2>7, <2>9 DEF IntakeInv
<1>6. CASE I!RollBack("webhook")
  <2>1. I!Idle \in IWriter /\ I!Idle.at = "idle"
    BY DEF I!Idle, IWriter
  <2>2. /\ UNCHANGED <<ticket, cycle, listed, left, steady, incidents, runs>>
        /\ writer' = [writer EXCEPT !["webhook"] = I!Idle]
    BY <1>6 DEF I!RollBack
  <2> QED
    BY <1>2, <1>5, <2>1, <2>2
<1>7. CASE I!RecordNext
  <2>1. PICK r : r = [at |-> "given", of |-> Head(listed)]
    OBVIOUS
  <2>2. /\ UNCHANGED <<ticket, cycle, listed, left, steady, incidents, runs>>
        /\ writer' = [writer EXCEPT !["poller"] = r]
        /\ cycle.at \in {"recording", "cut"} /\ listed # <<>>
    BY <1>7, <2>1 DEF I!RecordNext
  <2>3. Head(listed) \in Ticket
    BY <1>1, <2>2 DEF IntakeTypes
  <2>4. r \in IWriter /\ r.at = "given" /\ r.of = Head(listed)
    BY <2>1, <2>3 DEF IWriter
  <2> QED
    BY <1>2, <1>5, <2>2, <2>3, <2>4
<1>8. ASSUME NEW t \in Ticket, I!Deliver(t) PROVE IntakeInv'
  <2>1. PICK r : r = [at |-> "given", of |-> t]
    OBVIOUS
  <2>2. /\ UNCHANGED <<ticket, cycle, listed, left, steady, incidents, runs>>
        /\ writer' = [writer EXCEPT !["webhook"] = r]
    BY <1>8, <2>1 DEF I!Deliver
  <2>3. r \in IWriter /\ r.at = "given" /\ r.of = t
    BY <2>1 DEF IWriter
  <2> QED
    BY <1>2, <1>5, <2>2, <2>3
<1>9. CASE I!Finish
  <2>1. /\ cycle.at = "recording" /\ listed = <<>> /\ cycle' = [at |-> "complete", page |-> 0]
        /\ UNCHANGED <<ticket, listed, left, steady, writer, incidents, runs>>
    BY <1>9 DEF I!Finish, I!NoCycle
  <2>2. IntakeTypes'
    BY <1>1, <2>1 DEF IntakeTypes
  <2>3. OneInserts' /\ I!OneRunEach'
    BY <1>1, <2>1 DEF OneInserts, I!OneRunEach
  <2>4. Waiting' = Waiting /\ TicketsNew' = TicketsNew
    BY <2>1 DEF Waiting, Read, TicketsNew
  <2>5. FewPassed'
    BY <1>1, <2>1, <2>4 DEF FewPassed
  <2> QED
    BY <2>2, <2>3, <2>5 DEF IntakeInv
<1>10. CASE I!NotAList
  <2>1. /\ cycle.at = "reading" /\ cycle' = [at |-> "cut", page |-> 0] /\ steady' = {}
        /\ UNCHANGED <<ticket, listed, left, writer, incidents, runs>>
    BY <1>10 DEF I!NotAList
  <2>2. IntakeTypes'
    BY <1>1, <2>1 DEF IntakeTypes
  <2>3. OneInserts' /\ I!OneRunEach'
    BY <1>1, <1>2, <2>1 DEF OneInserts, I!OneRunEach
  <2>4. FewPassed'
    BY <2>1 DEF FewPassed
  <2> QED
    BY <2>2, <2>3, <2>4 DEF IntakeInv
<1> QED
  BY <1>2, <1>3, <1>4, <1>6, <1>7, <1>8, <1>9, <1>10

\* A transaction finds the ticket there, inserts it or commits.
LEMMA TicketsAreRecorded ==
    ASSUME IntakeInv, NEW w \in I!Writer, I!Insert(w) \/ I!Commit(w)
    PROVE  IntakeInv'
<1>1. IntakeTypes /\ OneInserts /\ I!OneRunEach /\ FewPassed
  BY DEF IntakeInv
<1>2. /\ "poller" \in I!Writer /\ writer[w] \in IWriter /\ writer[w].at # "idle"
      /\ writer[w].of \in Ticket
  BY <1>1 DEF I!Writer, I!Insert, I!Commit, IntakeTypes, OneInserts
<1>3. PICK t \in Ticket : t = writer[w].of
  BY <1>2
<1>4. I!Idle \in IWriter /\ I!Idle.at = "idle"
  BY DEF I!Idle, IWriter
<1>5. CASE I!Insert(w) /\ t \notin incidents
  <2>1. PICK r : r = [writer[w] EXCEPT !.at = "holds"]
    OBVIOUS
  <2>2. /\ writer' = [writer EXCEPT ![w] = r] /\ writer[w].at = "given"
        /\ \A v \in I!Writer \ {w} : writer[v].at = "holds" => writer[v].of # t
        /\ UNCHANGED <<ticket, cycle, listed, left, steady, incidents, runs>>
    BY <1>1, <1>3, <1>5, <2>1 DEF I!Insert, I!Free, IntakeTypes
  <2>3. r \in IWriter /\ r.at = "holds" /\ r.of = t
    BY <1>2, <1>3, <2>1 DEF IWriter
  <2>4. /\ writer' \in [I!Writer -> IWriter] /\ writer'[w] = r
        /\ \A v \in I!Writer : v # w => writer'[v] = writer[v]
    BY <1>1, <2>2, <2>3 DEF IntakeTypes
  <2>5. IntakeTypes'
    BY <1>1, <2>2, <2>4 DEF IntakeTypes
  <2>6. \A v \in I!Writer :
           /\ writer'[v].at # "idle" => writer'[v].of \in Ticket
           /\ writer'[v].at = "holds" => writer'[v].of \notin incidents
    BY <1>1, <1>5, <2>3, <2>4 DEF OneInserts
  <2>7. \A u, v \in I!Writer :
           u # v /\ writer'[u].at = "holds" /\ writer'[v].at = "holds" => writer'[u].of # writer'[v].of
    BY <1>1, <2>2, <2>3, <2>4 DEF OneInserts
  <2>8. writer'["poller"].at # "idle" =>
           /\ cycle.at \in {"recording", "cut"} /\ listed # <<>>
           /\ writer'["poller"].of = Head(listed)
    BY <1>1, <1>2, <1>3, <2>3, <2>4 DEF OneInserts
  <2>9. OneInserts' /\ I!OneRunEach'
    BY <1>1, <2>2, <2>6, <2>7, <2>8 DEF OneInserts, I!OneRunEach
  <2>10. Waiting' = Waiting /\ Passed' = Passed /\ TicketsNew' = TicketsNew
    BY <2>2 DEF Waiting, Passed, Read, TicketsNew, Before
  <2>11. FewPassed'
    BY <1>1, <2>2, <2>10 DEF FewPassed
  <2> QED
    BY <2>5, <2>9, <2>11 DEF IntakeInv
<1>6. CASE I!Commit(w) \/ (I!Insert(w) /\ t \in incidents)
  <2>1. /\ writer' = [writer EXCEPT ![w] = I!Idle]
        /\ listed' = IF w = "poller" THEN Tail(listed) ELSE listed
        /\ incidents' = incidents \cup {t}
        /\ UNCHANGED <<ticket, cycle, left, steady>>
    BY <1>3, <1>6 DEF I!Insert, I!Commit, I!Done
  <2>2. /\ writer' \in [I!Writer -> IWriter] /\ writer'[w].at = "idle"
        /\ \A v \in I!Writer : v # w => writer'[v] = writer[v]
    BY <1>1, <1>4, <2>1 DEF IntakeTypes
  <2>3. runs' \in [Ticket -> Nat] /\ I!OneRunEach'
    <3>1. CASE I!Insert(w) /\ t \in incidents
      <4>1. runs' = runs /\ incidents' = incidents
        BY <2>1, <3>1 DEF I!Insert
      <4> QED
        BY <1>1, <4>1 DEF I!OneRunEach, IntakeTypes
    <3>2. CASE I!Commit(w)
      <4>1. runs' = [runs EXCEPT ![t] = @ + 1] /\ t \notin incidents
        BY <1>1, <1>3, <3>2 DEF I!Commit, OneInserts
      <4>2. runs[t] = 0
        BY <1>1, <4>1 DEF I!OneRunEach
      <4>3. runs' = [runs EXCEPT ![t] = 1]
        BY <1>1, <4>1, <4>2 DEF IntakeTypes
      <4>4. runs' \in [Ticket -> Nat] /\ \A u \in Ticket : runs'[u] = IF u = t THEN 1 ELSE runs[u]
        BY <1>1, <4>3 DEF IntakeTypes
      <4> QED
        BY <1>1, <2>1, <4>4 DEF I!OneRunEach
    <3> QED
      BY <1>6, <3>1, <3>2
  <2>4. w = "poller" =>
           /\ listed # <<>> /\ Head(listed) = t /\ cycle.at \in {"recording", "cut"}
    BY <1>1, <1>2, <1>3 DEF OneInserts
  <2>5. listed' \in Seq(Ticket)
    BY <1>1, <2>1, <2>4 DEF IntakeTypes
  <2>6. IntakeTypes'
    BY <1>1, <1>3, <2>1, <2>2, <2>3, <2>5 DEF IntakeTypes
  <2>7. \A v \in I!Writer : v # w /\ writer[v].at = "holds" => writer[v].of # t
    <3>1. CASE I!Commit(w)
      BY <1>1, <1>3, <3>1 DEF I!Commit, OneInserts
    <3>2. CASE t \in incidents
      BY <1>1, <3>2 DEF OneInserts
    <3> QED
      BY <1>6, <3>1, <3>2
  <2>8. \A v \in I!Writer :
           /\ writer'[v].at # "idle" => writer'[v].of \in Ticket
           /\ writer'[v].at = "holds" => writer'[v].of \notin incidents'
    BY <1>1, <2>1, <2>2, <2>7 DEF OneInserts
  <2>9. \A u, v \in I!Writer :
           u # v /\ writer'[u].at = "holds" /\ writer'[v].at = "holds" => writer'[u].of # writer'[v].of
    BY <1>1, <2>2 DEF OneInserts
  <2>10. writer'["poller"].at # "idle" =>
           /\ cycle'.at \in {"recording", "cut"} /\ listed' # <<>>
           /\ writer'["poller"].of = Head(listed')
    BY <1>1, <1>2, <2>1, <2>2 DEF OneInserts
  <2>11. OneInserts'
    BY <2>8, <2>9, <2>10 DEF OneInserts
  <2>12. Read \subseteq Read' \cup {t}
    <3>1. CASE w # "poller"
      BY <2>1, <3>1 DEF Read
    <3>2. CASE w = "poller"
      <4>1. listed \in Seq(Ticket) /\ listed # <<>> /\ listed' = Tail(listed)
        BY <1>1, <2>1, <2>4, <3>2 DEF IntakeTypes
      <4>2. /\ Len(listed) \in Nat /\ DOMAIN listed = 1..Len(listed)
            /\ DOMAIN listed' = 1..(Len(listed) - 1)
            /\ \A i \in 1..(Len(listed) - 1) : listed'[i] = listed[i + 1]
            /\ listed[1] = t
        BY <2>4, <3>2, <4>1
      <4>3. ASSUME NEW i \in 1..Len(listed) PROVE listed[i] = t \/ listed[i] \in Read'
        <5>1. CASE i = 1
          BY <4>2, <5>1
        <5>2. CASE i # 1
          <6>1. i - 1 \in 1..(Len(listed) - 1) /\ (i - 1) + 1 = i
            BY <4>2, <5>2
          <6>2. listed'[i - 1] = listed[i]
            BY <4>2, <6>1
          <6> QED
            BY <4>2, <6>1, <6>2 DEF Read
        <5> QED
          BY <5>1, <5>2
      <4> QED
        BY <4>2, <4>3 DEF Read
    <3> QED
      BY <3>1, <3>2
  <2>13. w = "poller" => Read' \subseteq Read
    <3> SUFFICES ASSUME w = "poller", NEW x \in Read' PROVE x \in Read
      OBVIOUS
    <3>1. listed \in Seq(Ticket) /\ listed # <<>> /\ listed' = Tail(listed)
      BY <1>1, <2>1, <2>4 DEF IntakeTypes
    <3>2. /\ Len(listed) \in Nat /\ DOMAIN listed = 1..Len(listed)
          /\ DOMAIN listed' = 1..(Len(listed) - 1)
          /\ \A i \in 1..(Len(listed) - 1) : listed'[i] = listed[i + 1]
      BY <3>1
    <3>3. PICK i \in 1..(Len(listed) - 1) : x = listed'[i]
      BY <3>2 DEF Read
    <3>4. i + 1 \in 1..Len(listed) /\ x = listed[i + 1]
      BY <3>2, <3>3
    <3> QED
      BY <3>2, <3>4 DEF Read
  <2>14. Waiting' \in SUBSET Waiting
    BY <2>1, <2>12 DEF Waiting
  <2>15. /\ TicketsNew' = TicketsNew /\ \A u : Before(u)' = Before(u)
    BY <2>1 DEF TicketsNew, Before
  <2>16. Passed' \in SUBSET Passed
    BY <2>1, <2>14, <2>15 DEF Passed
  <2>17. Waiting \in SUBSET Ticket /\ Passed \in SUBSET Ticket
    BY <1>1 DEF Waiting, Passed, FewPassed, TicketsNew
  <2>18. /\ Cardinality(Waiting') \in Nat /\ Cardinality(Waiting') <= Cardinality(Waiting)
         /\ Cardinality(Passed') \in Nat /\ Cardinality(Passed') <= Cardinality(Passed)
         /\ Cardinality(Waiting) \in Nat /\ Cardinality(Passed) \in Nat
    BY <2>14, <2>16, <2>17, FewerTickets, TicketsCount
  <2>19. cycle.at = "complete" => listed' = <<>>
    BY <1>1, <2>1, <2>4 DEF FewPassed
  <2>20. FewPassed'
    BY <1>1, <2>1, <2>15, <2>18, <2>19 DEF FewPassed, IntakeTypes
  <2> QED
    BY <2>3, <2>6, <2>11, <2>20 DEF IntakeInv
<1> QED
  BY <1>5, <1>6

LEMMA IntakeStep == ASSUME IntakeInv, I!Next PROVE IntakeInv'
BY TicketsCome, TicketLeaves, PageIsRead, CyclesTurn, TicketsAreRecorded DEF I!Next

LEMMA IntakeStays == ASSUME IntakeInv, UNCHANGED intakeVars PROVE IntakeInv'
<1>1. UNCHANGED <<ticket, moves, cycle, listed, left, steady, writer, incidents, runs>>
  BY DEF intakeVars
<1>2. Waiting' = Waiting /\ Passed' = Passed /\ TicketsNew' = TicketsNew
  BY <1>1 DEF Waiting, Passed, Read, TicketsNew, Before
<1> QED
  BY <1>1, <1>2 DEF IntakeInv, IntakeTypes, OneInserts, I!OneRunEach, FewPassed

LEMMA IntakeIsRight == ASSUME IntakeInv PROVE I!OneRunEach /\ I!MissesFew
<1>1. I!OneRunEach /\ FewPassed
  BY DEF IntakeInv
<1>2. ASSUME cycle.at = "complete" PROVE Cardinality(steady \ incidents) <= left
  <2>1. Read = {}
    BY <1>1, <1>2 DEF FewPassed, Read
  <2>2. Waiting = steady \ incidents
    BY <2>1 DEF Waiting
  <2> QED
    BY <1>1, <1>2, <2>2 DEF FewPassed
<1> QED
  BY <1>1, <1>2, IntakeCounts DEF I!MissesFew

-----------------------------------------------------------------------------
(* The advice of a model.                                                  *)

\* What a model answered is there only for an article without steps, and a draft is there once
\* it was stored.
DraftsInv ==
    /\ J!TypeOK
    /\ answer # none => text.steps = <<>> /\ \E b \in J!Answers : answer = J!Converted(b)
    /\ draft.origin = "none" => review \in {"read", "asked"}
    /\ J!WritesAreWrittenByPeople

\* What an article holds, and what a model says once it is converted, is a content.
LEMMA ArticleIsContent == J!Articles \subseteq J!Contents
<1> SUFFICES ASSUME NEW a \in J!Articles PROVE a \in J!Contents
  OBVIOUS
<1> DEFINE Lists == UNION {[1..n -> J!AnyStep] : n \in 0..MaxSteps}
<1>1. /\ a \in [steps: {<<>>, J!Reading, J!Acting}, template: BOOLEAN]
  BY DEF J!Articles
<1>2. <<>> \in [1..0 -> J!AnyStep]
  OBVIOUS
<1>3. /\ [kind |-> "CHECK", names |-> "read"] \in J!AnyStep
      /\ [kind |-> "ACTION", names |-> "write"] \in J!AnyStep
  BY DEF J!AnyStep, J!Step
<1>4. J!Reading \in [1..1 -> J!AnyStep] /\ J!Acting \in [1..1 -> J!AnyStep]
  BY <1>3 DEF J!Reading, J!Acting
<1>5. 0 \in 0..MaxSteps /\ 1 \in 0..MaxSteps
  BY AdviceAssumption
<1>6. <<>> \in Lists /\ J!Reading \in Lists /\ J!Acting \in Lists
  BY <1>2, <1>4, <1>5
<1> HIDE DEF Lists
<1>7. a \in [steps: Lists, template: BOOLEAN]
  BY <1>1, <1>6
<1> QED
  BY <1>7 DEF J!Contents, Lists

LEMMA AnswerIsSteps ==
    ASSUME NEW b \in J!Answers
    PROVE  /\ J!Converted(b) \in Seq(J!AnyStep)
           /\ \A c : c \in [steps: {J!Converted(b)}, template: BOOLEAN] => c \in J!Contents
<1>1. PICK n \in 0..MaxSteps : b \in [1..n -> J!AnyStep]
  BY DEF J!Answers
<1>2. \A m \in 1..n : b[m].kind \in {"CHECK", "VERIFY", "NOTE", "ACTION"}
                      /\ b[m] \in [kind: {"CHECK", "VERIFY", "NOTE", "ACTION"}, names: {"read", "write", "none"}]
  BY <1>1 DEF J!AnyStep, J!Step
<1>3. \A m \in 1..n : [b[m] EXCEPT !.names = "none"] \in J!AnyStep /\ b[m] \in J!AnyStep
  BY <1>2 DEF J!AnyStep, J!Step
<1>4. J!Converted(b) \in [1..n -> J!AnyStep]
  BY <1>1, <1>3 DEF J!Converted
<1>5. J!Converted(b) \in Seq(J!AnyStep)
  BY <1>4, AdviceAssumption
<1> DEFINE Lists == UNION {[1..m -> J!AnyStep] : m \in 0..MaxSteps}
<1>6. J!Converted(b) \in Lists
  BY <1>4
<1> HIDE DEF Lists
<1>7. \A c : c \in [steps: {J!Converted(b)}, template: BOOLEAN] => c \in [steps: Lists, template: BOOLEAN]
  BY <1>6
<1> QED
  BY <1>5, <1>7 DEF J!Contents, Lists

LEMMA DraftsInit == ASSUME J!Init PROVE DraftsInv
<1>1. /\ text \in J!Articles /\ known \in BOOLEAN /\ review = "read" /\ answer = none
      /\ draft = [origin |-> "none", edited |-> FALSE, content |-> [steps |-> <<>>, template |-> FALSE]]
  BY DEF J!Init, J!NoDraft
<1>2. [steps |-> <<>>, template |-> FALSE] \in J!Articles
  BY DEF J!Articles
<1>3. draft \in [origin: {"none", "ingested", "model_drafted"}, edited: BOOLEAN, content: J!Contents]
  BY <1>1, <1>2, ArticleIsContent
<1> QED
  BY <1>1, <1>3 DEF DraftsInv, J!TypeOK, J!WritesAreWrittenByPeople

LEMMA DraftsStays == ASSUME DraftsInv, UNCHANGED draftVars PROVE DraftsInv'
BY DEF DraftsInv, draftVars, J!TypeOK, J!WritesAreWrittenByPeople, J!ReadsOnly, J!Acts, J!Valid,
   J!StepHolds

\* A model is asked about an article that has no steps.
LEMMA DraftsAsked == ASSUME DraftsInv, J!Ask PROVE DraftsInv'
<1>1. UNCHANGED <<text, known, draft>> /\ review' = "asked" /\ review = "read"
  BY DEF J!Ask
<1>2. answer' = none \/ (text.steps = <<>> /\ \E b \in J!Answers : answer' = J!Converted(b))
  BY DEF J!Ask
<1>3. answer' \in Seq(J!AnyStep) \cup {none} /\ (answer' # none => text.steps = <<>> /\ \E b \in J!Answers : answer' = J!Converted(b))
  BY <1>2, AnswerIsSteps
<1> QED
  BY <1>1, <1>3 DEF DraftsInv, J!TypeOK, J!WritesAreWrittenByPeople, J!ReadsOnly, J!Acts, J!Valid,
     J!StepHolds

LEMMA DraftsStored == ASSUME DraftsInv, J!Store PROVE DraftsInv'
<1>1. UNCHANGED <<text, known, answer>> /\ review' = "stored"
  BY DEF J!Store
<1>2. text \in J!Articles /\ text \in J!Contents
  BY ArticleIsContent DEF DraftsInv, J!TypeOK
<1>3. CASE draft' = [J!NoDraft EXCEPT !.origin = "ingested", !.content = text]
  <2>1. draft' = [origin |-> "ingested", edited |-> FALSE, content |-> text]
    BY <1>3 DEF J!NoDraft
  <2>2. draft' \in [origin: {"none", "ingested", "model_drafted"}, edited: BOOLEAN, content: J!Contents]
    BY <1>2, <2>1
  <2> QED
    BY <1>1, <2>1, <2>2 DEF DraftsInv, J!TypeOK, J!WritesAreWrittenByPeople
<1>4. ASSUME NEW c \in J!Accepted, draft' = [J!NoDraft EXCEPT !.origin = "model_drafted", !.content = c]
      PROVE  DraftsInv'
  <2>1. draft' = [origin |-> "model_drafted", edited |-> FALSE, content |-> c]
    BY <1>4 DEF J!NoDraft
  <2>2. answer # none /\ J!ReadsOnly(c) /\ J!Valid(c)
        /\ c = [text EXCEPT !.steps = answer, !.template = FALSE]
    BY <1>4 DEF J!Accepted, J!Merged
  <2>3. c = [steps |-> answer, template |-> FALSE]
    BY <1>2, <2>2 DEF J!Articles
  <2>4. c \in J!Contents
    BY <2>2, <2>3, AnswerIsSteps DEF DraftsInv
  <2>5. draft' \in [origin: {"none", "ingested", "model_drafted"}, edited: BOOLEAN, content: J!Contents]
    BY <2>1, <2>4
  <2>6. J!WritesAreWrittenByPeople'
    BY <1>1, <2>1, <2>2, <2>3 DEF DraftsInv, J!WritesAreWrittenByPeople, J!ReadsOnly, J!Acts, J!Valid,
       J!StepHolds
  <2> QED
    BY <1>1, <2>1, <2>5, <2>6 DEF DraftsInv, J!TypeOK
<1> QED
  BY <1>3, <1>4 DEF J!Store

\* What a person has edited is no longer the model's.
LEMMA DraftsEdited == ASSUME DraftsInv, J!Edit PROVE DraftsInv'
<1>1. UNCHANGED <<text, known, review, answer>> /\ review = "stored"
  BY DEF J!Edit
<1>2. PICK c \in J!Articles : draft' = [draft EXCEPT !.content = c, !.edited = TRUE]
  BY DEF J!Edit
<1>3. draft' \in [origin: {"none", "ingested", "model_drafted"}, edited: BOOLEAN, content: J!Contents]
      /\ draft'.edited = TRUE /\ draft'.origin = draft.origin
  BY <1>2, ArticleIsContent DEF DraftsInv, J!TypeOK
<1> QED
  BY <1>1, <1>3 DEF DraftsInv, J!TypeOK, J!WritesAreWrittenByPeople

LEMMA DraftsSubmitted == ASSUME DraftsInv, J!Submit PROVE DraftsInv'
BY DEF J!Submit, DraftsInv, J!TypeOK, J!WritesAreWrittenByPeople, J!ReadsOnly, J!Acts, J!Valid,
   J!StepHolds

LEMMA DraftsStep == ASSUME DraftsInv, J!Next PROVE DraftsInv'
BY DraftsAsked, DraftsStored, DraftsEdited, DraftsSubmitted DEF J!Next

\* Of a finite set some element has none before it, by a relation that is a strict order on it.
LEMMA Foremost ==
    ASSUME NEW S, IsFiniteSet(S), S # {}, NEW R,
           \A u \in S : <<u, u>> \notin R,
           \A u, v, w \in S : <<u, v>> \in R /\ <<v, w>> \in R => <<u, w>> \in R
    PROVE  \E m \in S : \A w \in S : <<w, m>> \notin R
<1> DEFINE Preceding(v) == {w \in S : <<w, v>> \in R}
           Sets == {Preceding(v) : v \in S}
<1>1. IsWellFoundedOn(StrictSubsetOrdering(S), FiniteSubsetsOf(S)) /\ FiniteSubsetsOf(S) = SUBSET S
  BY FS_StrictSubsetOrderingWellFounded, FS_FiniteSubsetsOfFinite
<1>2. Sets \subseteq SUBSET S
  OBVIOUS
<1>3. Sets # {}
  <2>1. PICK v \in S : TRUE
    OBVIOUS
  <2>2. Preceding(v) \in Sets
    OBVIOUS
  <2> QED
    BY <2>2
<1> HIDE DEF Sets
<1>4. PICK x \in Sets : \A y \in Sets : ~(<<y, x>> \in StrictSubsetOrdering(S))
  BY <1>1, <1>2, <1>3, WFMin
<1>5. PICK m \in S : x = Preceding(m)
  BY DEF Sets
<1>6. ASSUME NEW w \in S, <<w, m>> \in R PROVE FALSE
  <2>1. w \in Preceding(m) /\ w \notin Preceding(w) /\ Preceding(w) \subseteq Preceding(m)
    BY <1>6
  <2>2. Preceding(w) \in Sets /\ Preceding(w) \in SUBSET S /\ Preceding(m) \in SUBSET S
    BY DEF Sets
  <2>3. <<Preceding(w), Preceding(m)>> \in StrictSubsetOrdering(S)
    BY <2>1, <2>2 DEF StrictSubsetOrdering
  <2> QED
    BY <1>4, <1>5, <2>2, <2>3
<1> QED
  BY <1>6

\* What products of naturals have to do with one another.
LEMMA TimesPositive ==
    ASSUME NEW x \in Nat, NEW y \in Nat, NEW w \in Nat \ {0}
    PROVE  /\ x < y <=> x * w < y * w
           /\ x = y <=> x * w = y * w
OBVIOUS

\* A share of one total that is no less than another's, and one of that no less than a third's.
LEMMA SharesCompare ==
    ASSUME NEW p \in Nat, NEW q \in Nat, NEW r \in Nat,
           NEW u \in Nat \ {0}, NEW v \in Nat \ {0}, NEW w \in Nat \ {0},
           q * u <= p * v, r * v <= q * w
    PROVE  /\ r * u <= p * w
           /\ r * u = p * w => q * u = p * v /\ r * v = q * w
<1>1. /\ (q * u) * w <= (p * v) * w /\ ((q * u) * w = (p * v) * w => q * u = p * v)
  BY TimesPositive
<1>2. /\ (r * v) * u <= (q * w) * u /\ ((r * v) * u = (q * w) * u => r * v = q * w)
  BY TimesPositive
<1>3. (q * u) * w = (q * w) * u /\ (r * v) * u = (r * u) * v /\ (p * v) * w = (p * w) * v
  OBVIOUS
<1>4. (r * u) * v <= (p * w) * v
  BY <1>1, <1>2, <1>3
<1>5. r * u <= p * w
  BY <1>4, TimesPositive
<1>6. ASSUME r * u = p * w PROVE q * u = p * v /\ r * v = q * w
  <2>1. (r * v) * u = (p * v) * w
    BY <1>3, <1>6
  <2> QED
    BY <1>1, <1>2, <1>3, <2>1
<1> QED
  BY <1>5, <1>6

\* Every score is a share of what could be compared, or of one where nothing could.
LEMMA ScoreIsShare ==
    ASSUME evidence \in [Procedure -> Evidence], NEW s \in Procedure
    PROVE  D!Points(s) \in Nat /\ D!Weight(s) \in Nat \ {0}
<1> DEFINE e == evidence[s]
<1>1. e.keywords \in Nat /\ e.hits \in Nat /\ e.title \in Nat
  BY AdviceAssumption
<1>2. D!HitsNeeded(e) \in Nat \ {0}
  BY <1>1 DEF D!HitsNeeded, D!Least, D!HitsForFullScore
<1>3. (12 * e.hits + e.title) \div D!HitsNeeded(e) \in Nat
  BY <1>1, <1>2
<1>4. D!KeywordShare(e) \in Nat
  BY <1>3 DEF D!KeywordShare, D!Least, D!Full
<1>5. \A signal : D!Share(e, signal) \in Nat
  BY <1>4 DEF D!Share, D!Full
<1>6. /\ D!Weights["keyword"] = 50 /\ D!Weights["ci"] = 20
      /\ D!Weights["category"] = 15 /\ D!Weights["group"] = 15
  BY DEF D!Weights
<1>7. /\ D!Weighed(s, "keyword") \in Nat /\ D!Weighed(s, "ci") \in Nat
      /\ D!Weighed(s, "category") \in Nat /\ D!Weighed(s, "group") \in Nat
  BY <1>6 DEF D!Weighed, D!Compared
<1>8. /\ D!Scored(s, "keyword") \in Nat /\ D!Scored(s, "ci") \in Nat
      /\ D!Scored(s, "category") \in Nat /\ D!Scored(s, "group") \in Nat
  BY <1>5, <1>7 DEF D!Scored
<1>9. D!AllWeighed(s) \in Nat
  BY <1>7 DEF D!AllWeighed
<1>10. D!Weight(s) \in Nat \ {0}
  BY <1>9 DEF D!Weight
<1> QED
  BY <1>8, <1>10 DEF D!Points

\* One of the SOPs is before all the others.
LEMMA BestIsFirst ==
    ASSUME evidence \in [Procedure -> Evidence]
    PROVE  D!BestByRules \in Procedure
<1> DEFINE R == {q \in Procedure \X Procedure : D!Before(q[1], q[2])}
<1>1. \A s \in Procedure : D!Points(s) \in Nat /\ D!Weight(s) \in Nat \ {0} /\ s \in Nat
  BY ScoreIsShare, AdviceAssumption
<1>2. \A s, t \in Procedure : <<s, t>> \in R <=> D!Before(s, t)
  OBVIOUS
<1>3. \A s \in Procedure : <<s, s>> \notin R
  BY <1>1, <1>2 DEF D!Before
<1>4. ASSUME NEW s \in Procedure, NEW t \in Procedure, NEW u \in Procedure,
             <<s, t>> \in R, <<t, u>> \in R
      PROVE  <<s, u>> \in R
  <2>1. PICK p \in Nat, q \in Nat, r \in Nat :
           p = D!Points(s) /\ q = D!Points(t) /\ r = D!Points(u)
    BY <1>1
  <2>2. PICK a \in Nat \ {0}, b \in Nat \ {0}, c \in Nat \ {0} :
           a = D!Weight(s) /\ b = D!Weight(t) /\ c = D!Weight(u)
    BY <1>1
  <2>3. /\ p * b > q * a \/ (p * b = q * a /\ s < t)
        /\ q * c > r * b \/ (q * c = r * b /\ t < u)
    BY <1>2, <1>4, <2>1, <2>2 DEF D!Before
  <2>4. q * a <= p * b /\ r * b <= q * c
    BY <2>3
  <2>5. r * a <= p * c /\ (r * a = p * c => q * a = p * b /\ r * b = q * c)
    BY <2>4, SharesCompare
  <2>6. p * c > r * a \/ (p * c = r * a /\ s < u)
    BY <1>1, <2>3, <2>5
  <2> QED
    BY <1>2, <2>1, <2>2, <2>6 DEF D!Before
<1> HIDE DEF R
<1>5. PICK m \in Procedure : \A w \in Procedure : <<w, m>> \notin R
  <2>1. PICK pairs : pairs = R
    OBVIOUS
  <2>2. /\ \A s \in Procedure : <<s, s>> \notin pairs
        /\ \A s, t, u \in Procedure : <<s, t>> \in pairs /\ <<t, u>> \in pairs => <<s, u>> \in pairs
    BY <1>3, <1>4, <2>1
  <2>3. \E m \in Procedure : \A w \in Procedure : <<w, m>> \notin pairs
    BY <2>2, Foremost, AdviceAssumption, ZenonT(30)
  <2> QED
    BY <2>1, <2>3
<1>6. \A t \in Procedure \ {m} : D!Before(m, t)
  <2> SUFFICES ASSUME NEW t \in Procedure \ {m} PROVE D!Before(m, t)
    OBVIOUS
  <2>1. ~D!Before(t, m)
    BY <1>2, <1>5
  <2>2. PICK x \in Nat, y \in Nat : x = D!Points(m) * D!Weight(t) /\ y = D!Points(t) * D!Weight(m)
    BY <1>1
  <2>3. ~(y > x \/ (y = x /\ t < m))
    BY <2>1, <2>2 DEF D!Before
  <2>4. x > y \/ (x = y /\ m < t)
    BY <1>1, <2>3
  <2> QED
    BY <2>2, <2>4 DEF D!Before
<1> QED
  BY <1>6 DEF D!BestByRules

\* An SOP that steps may be carried out by: its score is enough, and if it makes a change it is
\* the best by the rules.
Fitting(s) == D!Clears(s) /\ (s \in acts => s = D!BestByRules)

\* The values are all the author's, or what a model located is accepted.
Settled ==
    D!Failures = {} \/ /\ stored.sop \notin acts /\ D!Askable = D!Failures
                       /\ \A p \in D!Failures : D!Accepted(p, stored.located[p])

ChoiceInv ==
    /\ D!TypeOK
    /\ stage = "chosen" => stored.sop = 0 /\ chosen # 0 /\ Fitting(chosen)
    /\ stored.sop # 0 => Fitting(stored.sop)
    /\ stage \in {"binding", "located", "bound"} => stored.sop # 0 /\ chosen = stored.sop
    /\ stage = "located" =>
          /\ ran = {} /\ chosen \notin acts /\ D!Askable = D!Failures
          /\ \A p \in D!Failures : D!Accepted(p, values[p])
          /\ \A p \in Parameter \ D!Failures : values[p] = D!Raw(p)
    /\ stage = "bound" => values = D!With(stored.located) /\ Settled
    /\ ran # {} => stored.sop # 0 /\ Settled /\ ran \subseteq {<<stored.sop, D!With(stored.located)>>}

\* What a run finds in its ticket stays what it is.
LEMMA TicketStays ==
    ASSUME UNCHANGED <<acts, evidence, words, matched>>
    PROVE  /\ \A s : (D!Clears(s))' = D!Clears(s)
           /\ D!BestByRules' = D!BestByRules
           /\ \A p : (D!Raw(p))' = D!Raw(p)
           /\ D!Failures' = D!Failures /\ D!Askable' = D!Askable
           /\ \A p, v : (D!Accepted(p, v))' = D!Accepted(p, v)
           /\ \A located : (D!With(located))' = D!With(located)
<1>1. \A s : (D!Points(s))' = D!Points(s) /\ (D!Weight(s))' = D!Weight(s)
  <2> SUFFICES ASSUME NEW s PROVE (D!Points(s))' = D!Points(s) /\ (D!Weight(s))' = D!Weight(s)
    OBVIOUS
  <2>1. PICK e : e = evidence[s] /\ e = evidence'[s]
    OBVIOUS
  <2>2. \A signal : (D!Weighed(s, signal))' = D!Weighed(s, signal)
    BY <2>1 DEF D!Weighed, D!Compared
  <2>3. \A signal : (D!Scored(s, signal))' = D!Scored(s, signal)
    BY <2>1, <2>2 DEF D!Scored
  <2> QED
    BY <2>2, <2>3 DEF D!Points, D!Weight, D!AllWeighed
<1>2. \A s : (D!Clears(s))' = D!Clears(s)
  BY <1>1, Zenon DEF D!Clears
<1>3. D!BestByRules' = D!BestByRules
  BY <1>1, Zenon DEF D!BestByRules, D!Before
<1>4. \A p : (D!Raw(p))' = D!Raw(p)
  BY DEF D!Raw
<1>5. D!Failures' = D!Failures /\ D!Askable' = D!Askable
  BY <1>4 DEF D!Failures, D!Askable, D!NotFound, D!Valid, D!MayBeAdvised
<1>6. \A p, v : (D!Accepted(p, v))' = D!Accepted(p, v)
  BY DEF D!Accepted, D!Valid, D!MayBeAdvised
<1>7. \A located : (D!With(located))' = D!With(located)
  BY <1>4, <1>5 DEF D!With
<1> QED
  BY <1>2, <1>3, <1>4, <1>5, <1>6, <1>7

\* The values that are bound are of the author or of a model.
LEMMA BoundTypes ==
    ASSUME D!TypeOK
    PROVE  /\ none \in D!Bound /\ D!None \in [Parameter -> D!Bound]
           /\ \A p \in Parameter : D!Raw(p) \in D!Bound
           /\ D!Failures \subseteq Parameter
           /\ \A f \in [Parameter -> D!Bound] : D!With(f) \in [Parameter -> D!Bound]
<1>1. none \in D!Bound /\ Value \subseteq D!Bound /\ \A p \in Parameter : Source[p].value \in D!Bound
  BY DEF D!Bound
<1>2. \A p \in Parameter : D!Raw(p) \in D!Bound
  BY <1>1 DEF D!TypeOK, D!Raw
<1> QED
  BY <1>1, <1>2 DEF D!None, D!With, D!Failures

LEMMA ChoiceStays == ASSUME ChoiceInv, UNCHANGED choiceVars PROVE ChoiceInv'
<1>1. /\ UNCHANGED <<acts, evidence, words, matched>>
      /\ stage' = stage /\ chosen' = chosen /\ values' = values /\ stored' = stored /\ ran' = ran
  BY DEF choiceVars
<1>2. D!TypeOK'
  BY <1>1 DEF ChoiceInv, D!TypeOK
<1> QED
  BY <1>1, <1>2, TicketStays DEF ChoiceInv, Fitting, Settled

LEMMA ChoiceInit == ASSUME D!Init PROVE ChoiceInv
<1>1. D!None \in [Parameter -> D!Bound]
  BY DEF D!None, D!Bound
<1>2. /\ acts \subseteq Procedure /\ evidence \in [Procedure -> Evidence] /\ words \subseteq Value
      /\ stage = "start" /\ chosen = 0 /\ values = D!None /\ ran = {}
      /\ stored = [sop |-> 0, located |-> D!None]
  BY DEF D!Init
<1>3. matched \in [Parameter -> Value \cup {none}]
  BY <1>2 DEF D!Init
<1> QED
  BY <1>1, <1>2, <1>3 DEF ChoiceInv, D!TypeOK

\* Whatever a model picks, what is taken fits, and it is one of the SOPs.
LEMMA ChoiceMatch == ASSUME ChoiceInv, D!Match PROVE ChoiceInv'
<1>1. /\ stage = "start" /\ stored.sop = 0
      /\ UNCHANGED <<acts, evidence, words, matched>>
      /\ values' = values /\ stored' = stored /\ ran' = ran
  BY DEF D!Match
<1>2. PICK picked \in Procedure \cup {0} :
         chosen' = IF D!TakesPick(picked) THEN picked ELSE D!BestByRules
  BY DEF D!Match, D!Picks
<1>3. D!BestByRules \in Procedure
  BY BestIsFirst DEF ChoiceInv, D!TypeOK
<1>4. chosen' \in Procedure /\ chosen' # 0 /\ (chosen' \in acts => chosen' = D!BestByRules)
  BY <1>2, <1>3, AdviceAssumption DEF D!TakesPick
<1>5. PICK s \in Procedure : s = chosen'
  BY <1>4
<1>6. stage' = IF D!Clears(s) THEN "chosen" ELSE "unmatched"
  BY <1>5 DEF D!Match
<1>7. stage' = "chosen" => Fitting(s)'
  BY <1>1, <1>4, <1>5, <1>6, TicketStays DEF Fitting
<1>8. D!TypeOK'
  BY <1>1, <1>4, <1>6 DEF ChoiceInv, D!TypeOK
<1> QED
  BY <1>1, <1>4, <1>5, <1>6, <1>7, <1>8, TicketStays DEF ChoiceInv, Fitting, Settled

\* The row gets the SOP, or gives it back to a later attempt.
LEMMA ChoiceRecorded == ASSUME ChoiceInv, D!RecordMatch PROVE ChoiceInv'
<1>1. /\ stage = "chosen" /\ stage' = "binding"
      /\ UNCHANGED <<acts, evidence, words, matched>>
      /\ chosen' = chosen /\ values' = values /\ ran' = ran
  BY DEF D!RecordMatch
<1>2. PICK r : r = stored' /\ r = [stored EXCEPT !.sop = chosen]
  BY DEF D!RecordMatch
<1>3. stored \in [sop: Procedure \cup {0}, located: [Parameter -> D!Bound]] /\ chosen \in Procedure \cup {0}
  BY DEF ChoiceInv, D!TypeOK
<1>4. r.sop = chosen /\ r.located = stored.located
      /\ r \in [sop: Procedure \cup {0}, located: [Parameter -> D!Bound]]
  BY <1>2, <1>3
<1>5. D!TypeOK'
  BY <1>1, <1>2, <1>4 DEF ChoiceInv, D!TypeOK
<1>6. ran = {} /\ Fitting(chosen) /\ chosen # 0
  BY <1>1 DEF ChoiceInv
<1> QED
  BY <1>1, <1>2, <1>4, <1>5, <1>6, TicketStays DEF ChoiceInv, Fitting, Settled

LEMMA ChoiceResume == ASSUME ChoiceInv, D!Resume PROVE ChoiceInv'
<1>1. /\ stored.sop # 0
      /\ UNCHANGED <<acts, evidence, words, matched>>
      /\ values' = values /\ stored' = stored /\ ran' = ran
      /\ \/ chosen' = stored.sop /\ stage' = "binding"
         \/ stage' = "failed" /\ chosen' = chosen
  BY DEF D!Resume
<1>2. stored.sop \in Procedure \cup {0}
  BY DEF ChoiceInv, D!TypeOK
<1>3. D!TypeOK'
  BY <1>1, <1>2 DEF ChoiceInv, D!TypeOK
<1> QED
  BY <1>1, <1>3, TicketStays DEF ChoiceInv, Fitting, Settled

\* Steps that change only how far the attempt is and the values it has.
LEMMA ChoiceBound ==
    ASSUME ChoiceInv, stage = "binding", UNCHANGED <<acts, evidence, words, matched>>,
           chosen' = chosen, stored' = stored, ran' = ran, values' \in [Parameter -> D!Bound],
           stage' \in {"bound", "failed"},
           stage' = "bound" => values' = D!With(stored.located) /\ Settled
    PROVE  ChoiceInv'
<1>1. D!TypeOK'
  BY DEF ChoiceInv, D!TypeOK
<1> QED
  BY <1>1, TicketStays DEF ChoiceInv, Fitting, Settled

LEMMA ChoiceBinds ==
    ASSUME ChoiceInv, D!BindWithoutAdvice \/ D!BindAsBefore \/ D!CannotBind
    PROVE  ChoiceInv'
<1>1. /\ stage = "binding" /\ UNCHANGED <<acts, evidence, words, matched>>
      /\ chosen' = chosen /\ stored' = stored /\ ran' = ran
  BY DEF D!BindWithoutAdvice, D!BindAsBefore, D!CannotBind
<1>2. D!TypeOK /\ stored.located \in [Parameter -> D!Bound] /\ values \in [Parameter -> D!Bound]
      /\ chosen = stored.sop
  BY <1>1 DEF ChoiceInv, D!TypeOK
<1>3. CASE D!BindWithoutAdvice
  <2>1. D!Failures = {} /\ values' = D!With(D!None) /\ stage' = "bound"
    BY <1>3 DEF D!BindWithoutAdvice
  <2>2. D!With(D!None) = D!With(stored.located)
    BY <2>1 DEF D!With
  <2> QED
    BY <1>1, <1>2, <2>1, <2>2, BoundTypes, ChoiceBound DEF Settled
<1>4. CASE D!BindAsBefore
  <2>1. /\ D!MayAsk /\ values' = D!With(stored.located)
        /\ stage' = IF \A p \in D!Failures : D!Accepted(p, stored.located[p]) THEN "bound" ELSE "failed"
    BY <1>4 DEF D!BindAsBefore
  <2>2. stage' = "bound" => Settled
    BY <1>2, <2>1 DEF Settled, D!MayAsk
  <2> QED
    BY <1>1, <1>2, <2>1, <2>2, BoundTypes, ChoiceBound
<1>5. CASE D!CannotBind
  <2>1. stage' = "failed" /\ values' = values
    BY <1>5 DEF D!CannotBind
  <2> QED
    BY <1>1, <1>2, <2>1, ChoiceBound
<1> QED
  BY <1>3, <1>4, <1>5

\* What is accepted is a word of the ticket, and is there.
LEMMA AcceptedIsThere ==
    ASSUME NEW p, NEW v, D!Accepted(p, v)
    PROVE  v # none /\ v \in words /\ v \in Allowed[p]
BY DEF D!Accepted, D!Valid

\* A model is asked only while no steps were carried out with an answer of its.
LEMMA ChoiceLocate == ASSUME ChoiceInv, D!Locate PROVE ChoiceInv'
<1>1. /\ stage = "binding" /\ D!Failures # {} /\ D!MayAsk /\ ~D!Remembered
      /\ UNCHANGED <<acts, evidence, words, matched>>
      /\ chosen' = chosen /\ stored' = stored /\ ran' = ran
  BY DEF D!Locate
<1>2. PICK located \in [Parameter -> Value \cup {none}] :
         /\ values' = D!With(located)
         /\ stage' = IF \A p \in D!Failures : D!Accepted(p, located[p]) THEN "located" ELSE "failed"
  BY DEF D!Locate
<1>3. D!TypeOK /\ located \in [Parameter -> D!Bound] /\ chosen = stored.sop
  BY <1>1, <1>2 DEF ChoiceInv, D!TypeOK, D!Bound
<1>4. values' \in [Parameter -> D!Bound] /\ D!Failures \subseteq Parameter
  BY <1>2, <1>3, BoundTypes
<1>5. D!TypeOK'
  BY <1>1, <1>2, <1>3, <1>4 DEF D!TypeOK
<1>6. ~Settled
  <2>1. ASSUME Settled PROVE FALSE
    <3>1. D!Askable = D!Failures /\ \A p \in D!Failures : D!Accepted(p, stored.located[p])
      BY <1>1, <2>1 DEF Settled
    <3>2. \A p \in D!Askable : stored.located[p] # none
      BY <3>1, AcceptedIsThere
    <3> QED
      BY <1>1, <3>2 DEF D!Remembered
  <2> QED
    BY <2>1
<1>7. ran = {}
  BY <1>6 DEF ChoiceInv
<1>8. /\ \A p \in D!Failures : values'[p] = located[p]
      /\ \A p \in Parameter \ D!Failures : values'[p] = D!Raw(p)
  BY <1>2, <1>4 DEF D!With
<1>9. stage' = "located" => \A p \in D!Failures : D!Accepted(p, values'[p])
  BY <1>2, <1>8
<1>10. chosen \notin acts /\ D!Askable = D!Failures
  BY <1>1 DEF D!MayAsk
<1>11. stage' = "located" =>
          /\ \A p \in D!Failures' : (D!Accepted(p, values[p]))'
          /\ \A p \in Parameter \ D!Failures' : values'[p] = (D!Raw(p))'
  BY <1>1, <1>8, <1>9, TicketStays DEF D!Accepted, D!Valid, D!MayBeAdvised
<1> QED
  BY <1>1, <1>2, <1>5, <1>7, <1>10, <1>11, TicketStays DEF ChoiceInv, Fitting, Settled

LEMMA ChoiceAdvised == ASSUME ChoiceInv, D!RecordAdvised PROVE ChoiceInv'
<1>1. /\ stage = "located" /\ stage' = "bound"
      /\ UNCHANGED <<acts, evidence, words, matched>>
      /\ chosen' = chosen /\ values' = values /\ ran' = ran
  BY DEF D!RecordAdvised
<1>2. PICK r : r = stored' /\ r = [stored EXCEPT !.located =
                  [p \in Parameter |-> IF p \in D!Failures THEN values[p] ELSE none]]
  BY DEF D!RecordAdvised
<1>3. /\ stored \in [sop: Procedure \cup {0}, located: [Parameter -> D!Bound]]
      /\ values \in [Parameter -> D!Bound] /\ D!Failures \subseteq Parameter /\ none \in D!Bound
  BY BoundTypes DEF ChoiceInv, D!TypeOK
<1>4. /\ r.sop = stored.sop
      /\ r.located = [p \in Parameter |-> IF p \in D!Failures THEN values[p] ELSE none]
      /\ r \in [sop: Procedure \cup {0}, located: [Parameter -> D!Bound]]
  BY <1>2, <1>3
<1>5. D!TypeOK'
  BY <1>1, <1>2, <1>4 DEF ChoiceInv, D!TypeOK
<1>6. /\ ran = {} /\ chosen \notin acts /\ D!Askable = D!Failures /\ chosen = stored.sop
      /\ stored.sop # 0 /\ Fitting(stored.sop)
      /\ \A p \in D!Failures : D!Accepted(p, values[p])
      /\ \A p \in Parameter \ D!Failures : values[p] = D!Raw(p)
  BY <1>1 DEF ChoiceInv
<1>7. \A p \in D!Failures : D!Accepted(p, r.located[p])
  BY <1>3, <1>4, <1>6
<1>8. values = D!With(r.located)
  BY <1>3, <1>4, <1>6 DEF D!With
<1>9. Settled'
  BY <1>1, <1>2, <1>4, <1>6, <1>7, TicketStays DEF Settled
<1>10. values' = (D!With(stored.located))'
  BY <1>1, <1>2, <1>8, TicketStays DEF D!With
<1> QED
  BY <1>1, <1>2, <1>4, <1>5, <1>6, <1>9, <1>10, TicketStays DEF ChoiceInv, Fitting

LEMMA ChoiceCarriedOut == ASSUME ChoiceInv, D!CarryOut PROVE ChoiceInv'
<1>1. /\ stage = "bound" /\ stage' = stage
      /\ UNCHANGED <<acts, evidence, words, matched>>
      /\ chosen' = chosen /\ values' = values /\ stored' = stored
      /\ ran' = ran \cup {<<chosen, values>>}
  BY DEF D!CarryOut
<1>2. /\ chosen = stored.sop /\ stored.sop # 0 /\ Settled /\ values = D!With(stored.located)
      /\ D!TypeOK
  BY <1>1 DEF ChoiceInv
<1>3. stored.sop \in Procedure
  BY <1>2 DEF D!TypeOK
<1>4. ran' \subseteq (Procedure \X [Parameter -> D!Bound])
  BY <1>1, <1>2, <1>3 DEF D!TypeOK
<1>5. D!TypeOK'
  BY <1>1, <1>2, <1>4 DEF D!TypeOK
<1>6. ran' \subseteq {<<stored.sop, D!With(stored.located)>>}
  BY <1>1, <1>2 DEF ChoiceInv
<1>7. (D!With(stored.located))' = D!With(stored.located)
  BY <1>1, TicketStays DEF D!With
<1> QED
  BY <1>1, <1>2, <1>5, <1>6, <1>7, TicketStays DEF ChoiceInv, Fitting, Settled

LEMMA ChoiceInterrupt == ASSUME ChoiceInv, D!Interrupt PROVE ChoiceInv'
<1>1. /\ stage' = "start" /\ chosen' = 0 /\ values' = D!None
      /\ UNCHANGED <<acts, evidence, words, matched>>
      /\ stored' = stored /\ ran' = ran
  BY DEF D!Interrupt
<1>2. D!TypeOK'
  BY <1>1, BoundTypes DEF ChoiceInv, D!TypeOK
<1> QED
  BY <1>1, <1>2, TicketStays DEF ChoiceInv, Fitting, Settled

LEMMA ChoiceStep == ASSUME ChoiceInv, D!Next PROVE ChoiceInv'
BY ChoiceMatch, ChoiceRecorded, ChoiceResume, ChoiceBinds, ChoiceLocate, ChoiceAdvised,
   ChoiceCarriedOut, ChoiceInterrupt DEF D!Next

LEMMA ChoiceCounts == \A S : D!Cardinality(S) = Cardinality(S)
BY DEF D!Cardinality, Cardinality, D!IsFiniteSet, IsFiniteSet

LEMMA ChoiceHolds == ASSUME ChoiceInv PROVE D!RunsAsChosen
<1>1. Cardinality(ran) <= 1
  <2>1. PICK r : ran \subseteq {r}
    BY DEF ChoiceInv
  <2>2. Cardinality({}) = 0 /\ Cardinality({r}) = 1
    BY FS_EmptySet, FS_Singleton
  <2>3. CASE ran = {}
    BY <2>2, <2>3
  <2>4. CASE ran = {r}
    BY <2>2, <2>4
  <2> QED
    BY <2>1, <2>3, <2>4
<1>2. ASSUME NEW r \in ran
      PROVE  /\ D!Clears(r[1])
             /\ r[1] \in acts => r[1] = D!BestByRules /\ \A p \in Parameter : r[2][p] = D!Raw(p)
             /\ \A p \in Parameter : r[2][p] \in Allowed[p] /\ r[2][p] \in words \cup {D!Raw(p)}
  <2>1. r[1] = stored.sop /\ r[2] = D!With(stored.located) /\ Settled /\ Fitting(stored.sop)
    BY DEF ChoiceInv
  <2>2. \A p \in Parameter \ D!Failures : r[2][p] = D!Raw(p) /\ r[2][p] \in Allowed[p]
    BY <2>1 DEF D!With, D!Failures, D!Valid
  <2>3. \A p \in D!Failures : D!Accepted(p, r[2][p]) /\ stored.sop \notin acts
    BY <2>1 DEF Settled, D!With, D!Failures
  <2>4. \A p \in D!Failures : r[2][p] \in Allowed[p] /\ r[2][p] \in words
    BY <2>3, AcceptedIsThere
  <2>5. r[1] \in acts => D!Failures = {}
    BY <2>1 DEF Settled
  <2> QED
    BY <2>1, <2>2, <2>4, <2>5 DEF Fitting
<1> QED
  BY <1>1, <1>2, ChoiceCounts DEF D!RunsAsChosen

\* Every value that was recognised has a placeholder of its kind, no two have the same, and the
\* numbers of a kind are no more than its values; what was sent has them in place of values.
OfKind(of, k) == {v \in DOMAIN of : KindOf[v] = k}
Numbered(of) ==
    /\ DOMAIN of \subseteq Recognised
    /\ \A v \in DOMAIN of : \E n \in Nat \ {0} :
          /\ of[v] = Q!AsOurs(KindOf[v], n)
          /\ n <= Cardinality(OfKind(of, KindOf[v]))
    /\ \A u, v \in DOMAIN of : of[u] = of[v] => u = v
Shown == {Q!AsOurs(KindOf[v], n) : v \in Recognised, n \in Nat} \cup {Q!Opened(word) : word \in Q!Word}
ShownAs(of, was, word) ==
    IF was.is = "value" THEN was.value \in DOMAIN of /\ word = of[was.value]
    ELSE word = Q!Escaped(was.kind, was.number)
RedactionInv ==
    /\ Numbered(placeholder)
    /\ texts \in Seq([was: Q!Texts, shown: UNION {[1..k -> Shown] : k \in 1..MaxWords}])
    /\ Len(texts) <= MaxTexts
    /\ \A i \in DOMAIN texts : \A n \in DOMAIN texts[i].was :
          ShownAs(placeholder, texts[i].was[n], texts[i].shown[n])

LEMMA RedactionCounts == \A S : Q!Cardinality(S) = Cardinality(S)
BY DEF Q!Cardinality, Cardinality, Q!IsFiniteSet, IsFiniteSet

\* A value of a text has a place where it comes first, and no other has it.
LEMMA FirstPlace ==
    ASSUME NEW s \in Q!Texts, NEW v \in Q!Found(s)
    PROVE  /\ Q!FirstAt(s, v) \in Nat /\ Q!FirstAt(s, v) \in DOMAIN s
           /\ s[Q!FirstAt(s, v)] = Q!AsValue(v)
<1>1. PICK k \in 1..MaxWords : s \in [1..k -> Q!Word]
  BY DEF Q!Texts
<1> DEFINE At == {n \in 1..k : s[n] = Q!AsValue(v)}
<1>2. At # {} /\ DOMAIN s = 1..k
  BY <1>1 DEF Q!Found
<1>3. IsFiniteSet(At)
  BY FS_Interval, FS_Subset, AdviceAssumption
<1>4. [n \in At |-> k - n] \in [At -> Nat]
  BY AdviceAssumption
<1>5. PICK m \in At : \A w \in At : [n \in At |-> k - n][w] <= [n \in At |-> k - n][m]
  BY <1>2, <1>3, <1>4, Greatest
<1>6. \A w \in At : m <= w
  <2> SUFFICES ASSUME NEW w \in At PROVE m <= w
    OBVIOUS
  <2>1. k - w <= k - m
    BY <1>5
  <2> QED
    BY <2>1, AdviceAssumption
<1>7. m \in DOMAIN s /\ s[m] = Q!AsValue(v) /\ \A n \in DOMAIN s : n < m => s[n] # Q!AsValue(v)
  BY <1>2, <1>6
<1> QED
  BY <1>2, <1>7 DEF Q!FirstAt

\* The values that come before one in a text, and those seen already, are fewer than all of its
\* kind; of two in a text, those before the first are fewer than those before the second.
LEMMA EarlierAreFewer ==
    ASSUME NEW of, DOMAIN of \subseteq Recognised, NEW s \in Q!Texts,
           NEW v \in Q!Found(s) \ DOMAIN of
    PROVE  /\ Q!Found(s) \subseteq Recognised
           /\ IsFiniteSet(Q!Earlier(of, s, v)) /\ Cardinality(Q!Earlier(of, s, v)) \in Nat
           /\ Cardinality(Q!Earlier(of, s, v)) + 1
                 <= Cardinality(OfKind(Q!Learnt(of, s), KindOf[v]))
           /\ Cardinality(OfKind(of, KindOf[v])) <= Cardinality(Q!Earlier(of, s, v))
           /\ \A u \in Q!Found(s) \ DOMAIN of :
                 KindOf[u] = KindOf[v] /\ Q!FirstAt(s, u) < Q!FirstAt(s, v) =>
                    Cardinality(Q!Earlier(of, s, u)) + 1 <= Cardinality(Q!Earlier(of, s, v))
<1> DEFINE Sooner(u) == Q!Earlier(of, s, u)
<1>1. Q!Found(s) \subseteq Recognised /\ DOMAIN of \cup Q!Found(s) \subseteq Recognised
  BY DEF Q!Found
<1>2. \A u : Sooner(u) \in SUBSET Recognised
  BY <1>1 DEF Q!Earlier
<1>3. \A u : IsFiniteSet(Sooner(u)) /\ Cardinality(Sooner(u)) \in Nat
  BY <1>2, FS_Subset, FS_CardinalityType, AdviceAssumption
<1>4. \A u \in Q!Found(s) \ DOMAIN of : u \notin Sooner(u)
  BY FirstPlace DEF Q!Earlier
<1>5. \A u \in Q!Found(s) \ DOMAIN of : Cardinality(Sooner(u) \cup {u}) = Cardinality(Sooner(u)) + 1
  BY <1>3, <1>4, FS_AddElement
<1>6. DOMAIN Q!Learnt(of, s) = DOMAIN of \cup Q!Found(s)
  BY DEF Q!Learnt
<1>7. /\ Sooner(v) \cup {v} \subseteq OfKind(Q!Learnt(of, s), KindOf[v])
      /\ OfKind(Q!Learnt(of, s), KindOf[v]) \subseteq Recognised
  BY <1>1, <1>6 DEF OfKind, Q!Earlier
<1>8. IsFiniteSet(OfKind(Q!Learnt(of, s), KindOf[v]))
  BY <1>7, FS_Subset, AdviceAssumption
<1>9. Cardinality(Sooner(v) \cup {v}) <= Cardinality(OfKind(Q!Learnt(of, s), KindOf[v]))
  BY <1>7, <1>8, FS_Subset
<1>10. OfKind(of, KindOf[v]) \subseteq Sooner(v)
  BY DEF OfKind, Q!Earlier
<1>11. Cardinality(OfKind(of, KindOf[v])) <= Cardinality(Sooner(v))
  BY <1>3, <1>10, FS_Subset
<1>12. ASSUME NEW u \in Q!Found(s) \ DOMAIN of, KindOf[u] = KindOf[v],
              Q!FirstAt(s, u) < Q!FirstAt(s, v)
       PROVE  Cardinality(Sooner(u)) + 1 <= Cardinality(Sooner(v))
  <2>1. \A w \in Sooner(u) : w \in Sooner(v)
    <3> SUFFICES ASSUME NEW w \in Sooner(u) PROVE w \in Sooner(v)
      OBVIOUS
    <3>1. w \in DOMAIN of \cup Q!Found(s) /\ KindOf[w] = KindOf[v]
          /\ (w \in DOMAIN of \/ Q!FirstAt(s, w) < Q!FirstAt(s, u))
      BY <1>12 DEF Q!Earlier
    <3>2. w \in Q!Found(s) => Q!FirstAt(s, w) \in Nat
      BY FirstPlace
    <3>3. Q!FirstAt(s, u) \in Nat /\ Q!FirstAt(s, v) \in Nat
      BY FirstPlace
    <3>4. w \in DOMAIN of \/ Q!FirstAt(s, w) < Q!FirstAt(s, v)
      BY <1>12, <3>1, <3>2, <3>3
    <3> QED
      BY <3>1, <3>4 DEF Q!Earlier
  <2>2. u \in Sooner(v)
    BY <1>12 DEF Q!Earlier
  <2>3. Sooner(u) \cup {u} \subseteq Sooner(v)
    BY <2>1, <2>2
  <2> HIDE DEF Sooner
  <2>4. Cardinality(Sooner(u) \cup {u}) <= Cardinality(Sooner(v))
    BY <1>3, <2>3, FS_Subset
  <2> QED
    BY <1>5, <2>4
<1> QED
  BY <1>1, <1>3, <1>5, <1>9, <1>11, <1>12

\* What a redactor knows after a text is numbered as it was before, and it knows its values.
LEMMA LearntIsNumbered ==
    ASSUME NEW of, Numbered(of), NEW s \in Q!Texts
    PROVE  /\ Numbered(Q!Learnt(of, s))
           /\ Q!Found(s) \subseteq DOMAIN Q!Learnt(of, s)
           /\ \A v \in DOMAIN of : v \in DOMAIN Q!Learnt(of, s) /\ Q!Learnt(of, s)[v] = of[v]
<1> DEFINE new == Q!Learnt(of, s)
           Fresh == Q!Found(s) \ DOMAIN of
           Count(v) == Cardinality(Q!Earlier(of, s, v))
<1>1. DOMAIN new = DOMAIN of \cup Q!Found(s)
  BY DEF Q!Learnt
<1>2. \A v \in DOMAIN of : v \in DOMAIN new /\ new[v] = of[v]
  BY <1>1 DEF Q!Learnt
<1>3. \A v \in Fresh : new[v] = Q!AsOurs(KindOf[v], 1 + Count(v))
  BY RedactionCounts DEF Q!Learnt
<1>4. DOMAIN of \subseteq Recognised
  BY DEF Numbered
<1>5. DOMAIN new \subseteq Recognised
  BY <1>1, <1>4 DEF Q!Found
<1>6. \A v \in Fresh : /\ Count(v) \in Nat
                       /\ Count(v) + 1 <= Cardinality(OfKind(new, KindOf[v]))
                       /\ Cardinality(OfKind(of, KindOf[v])) <= Count(v)
                       /\ \A u \in Fresh :
                             KindOf[u] = KindOf[v] /\ Q!FirstAt(s, u) < Q!FirstAt(s, v) =>
                                Count(u) + 1 <= Count(v)
  BY <1>4, EarlierAreFewer
<1>7. \A k : /\ OfKind(of, k) \subseteq OfKind(new, k) /\ OfKind(new, k) \subseteq Recognised
  BY <1>1, <1>5 DEF OfKind
<1> HIDE DEF new, Fresh, Count
<1>8. \A k : /\ Cardinality(OfKind(of, k)) \in Nat /\ Cardinality(OfKind(new, k)) \in Nat
             /\ Cardinality(OfKind(of, k)) <= Cardinality(OfKind(new, k))
  <2> SUFFICES ASSUME NEW k
               PROVE  /\ Cardinality(OfKind(of, k)) \in Nat /\ Cardinality(OfKind(new, k)) \in Nat
                      /\ Cardinality(OfKind(of, k)) <= Cardinality(OfKind(new, k))
    OBVIOUS
  <2>1. OfKind(new, k) \in SUBSET Recognised /\ OfKind(of, k) \in SUBSET OfKind(new, k)
    BY <1>7
  <2>2. IsFiniteSet(OfKind(new, k))
    BY <2>1, FS_Subset, AdviceAssumption
  <2>3. IsFiniteSet(OfKind(of, k)) /\ Cardinality(OfKind(of, k)) <= Cardinality(OfKind(new, k))
    BY <2>1, <2>2, FS_Subset
  <2> QED
    BY <2>2, <2>3, FS_CardinalityType
<1>9. \A v \in DOMAIN new : \E n \in Nat \ {0} :
         new[v] = Q!AsOurs(KindOf[v], n) /\ n <= Cardinality(OfKind(new, KindOf[v]))
  <2> SUFFICES ASSUME NEW v \in DOMAIN new
               PROVE  \E n \in Nat \ {0} : /\ new[v] = Q!AsOurs(KindOf[v], n)
                                           /\ n <= Cardinality(OfKind(new, KindOf[v]))
    OBVIOUS
  <2>1. CASE v \in DOMAIN of
    <3>1. PICK n \in Nat \ {0} : of[v] = Q!AsOurs(KindOf[v], n) /\ n <= Cardinality(OfKind(of, KindOf[v]))
      BY <2>1 DEF Numbered
    <3> QED
      BY <1>2, <1>8, <2>1, <3>1
  <2>2. CASE v \in Fresh
    <3>1. 1 + Count(v) \in Nat \ {0} /\ 1 + Count(v) <= Cardinality(OfKind(new, KindOf[v]))
      BY <1>6, <1>8, <2>2
    <3> QED
      BY <1>3, <2>2, <3>1
  <2> QED
    BY <1>1, <2>1, <2>2 DEF Fresh
\* A kind and a number make one placeholder.
<1>10. \A j, k, m, n : Q!AsOurs(j, m) = Q!AsOurs(k, n) => j = k /\ m = n
  <2> SUFFICES ASSUME NEW j, NEW k, NEW m, NEW n, Q!AsOurs(j, m) = Q!AsOurs(k, n) PROVE j = k /\ m = n
    OBVIOUS
  <2>1. Q!AsOurs(j, m).kind = j /\ Q!AsOurs(j, m).number = m
        /\ Q!AsOurs(k, n).kind = k /\ Q!AsOurs(k, n).number = n
    BY DEF Q!AsOurs
  <2> QED
    BY <2>1
<1>11. ASSUME NEW u \in DOMAIN of, NEW v \in Fresh, new[u] = new[v] PROVE FALSE
  <2>1. PICK n \in Nat \ {0} : of[u] = Q!AsOurs(KindOf[u], n) /\ n <= Cardinality(OfKind(of, KindOf[u]))
    BY DEF Numbered
  <2>2. KindOf[u] = KindOf[v] /\ n = 1 + Count(v)
    BY <1>2, <1>3, <1>10, <1>11, <2>1
  <2>3. n <= Count(v)
    BY <1>6, <1>8, <2>1, <2>2
  <2> QED
    BY <1>6, <2>2, <2>3
<1>12. ASSUME NEW u \in Fresh, NEW v \in Fresh, new[u] = new[v] PROVE u = v
  <2>1. KindOf[u] = KindOf[v] /\ 1 + Count(u) = 1 + Count(v) /\ Count(u) \in Nat /\ Count(v) \in Nat
    BY <1>3, <1>6, <1>10, <1>12
  <2>2. /\ Q!FirstAt(s, u) \in Nat /\ Q!FirstAt(s, v) \in Nat
        /\ s[Q!FirstAt(s, u)] = Q!AsValue(u) /\ s[Q!FirstAt(s, v)] = Q!AsValue(v)
    BY FirstPlace DEF Fresh
  <2>3. ~(Q!FirstAt(s, u) < Q!FirstAt(s, v)) /\ ~(Q!FirstAt(s, v) < Q!FirstAt(s, u))
    BY <1>6, <2>1
  <2>4. Q!AsValue(u) = Q!AsValue(v)
    BY <2>2, <2>3
  <2>5. Q!AsValue(u).value = u /\ Q!AsValue(v).value = v
    BY DEF Q!AsValue
  <2> QED
    BY <2>4, <2>5
<1>13. \A u, v \in DOMAIN new : new[u] = new[v] => u = v
  <2> SUFFICES ASSUME NEW u \in DOMAIN new, NEW v \in DOMAIN new, new[u] = new[v] PROVE u = v
    OBVIOUS
  <2>1. (u \in DOMAIN of \/ u \in Fresh) /\ (v \in DOMAIN of \/ v \in Fresh)
    BY <1>1 DEF Fresh
  <2>2. CASE u \in DOMAIN of /\ v \in DOMAIN of
    BY <1>2, <2>2 DEF Numbered
  <2> QED
    BY <1>11, <1>12, <2>1, <2>2
<1>14. Numbered(new)
  BY <1>5, <1>9, <1>13 DEF Numbered
<1> QED
  BY <1>1, <1>2, <1>14 DEF new

\* A word is a value or looks like a placeholder.
LEMMA WordIs ==
    ASSUME NEW word \in Q!Word
    PROVE  \/ word.is = "value" /\ word.value \in Recognised /\ word = Q!AsValue(word.value)
           \/ word.is = "placeholder"
<1>1. CASE word \in {Q!AsValue(v) : v \in Recognised}
  <2>1. PICK v \in Recognised : word = Q!AsValue(v)
    BY <1>1
  <2>2. word.is = "value" /\ word.value = v
    BY <2>1 DEF Q!AsValue
  <2> QED
    BY <2>1, <2>2
<1>2. CASE word \in {Q!AsOurs(k, n) : k \in Q!Kinds, n \in 1..Q!Cardinality(Recognised)}
  <2>1. word.is = "placeholder"
    BY <1>2 DEF Q!AsOurs
  <2> QED
    BY <2>1
<1> QED
  BY <1>1, <1>2 DEF Q!Word

LEMMA RedactionInit == ASSUME Q!Init PROVE RedactionInv
<1>1. placeholder = <<>> /\ texts = <<>>
  BY DEF Q!Init
<1>2. DOMAIN placeholder = {} /\ DOMAIN texts = {} /\ Len(texts) = 0
  BY <1>1
<1>3. Numbered(placeholder)
  BY <1>2 DEF Numbered
<1> QED
  BY <1>1, <1>2, <1>3, AdviceAssumption DEF RedactionInv

LEMMA RedactionStays == ASSUME RedactionInv, UNCHANGED redactionVars PROVE RedactionInv'
BY DEF RedactionInv, redactionVars, Numbered, ShownAs, OfKind

\* Each word of a text is shown as what is known after the text.
LEMMA RedactedIsShown ==
    ASSUME NEW of, Numbered(of), NEW s \in Q!Texts, Q!Found(s) \subseteq DOMAIN of
    PROVE  /\ Q!Redacted(of, s) \in UNION {[1..k -> Shown] : k \in 1..MaxWords}
           /\ \A n \in DOMAIN s : ShownAs(of, s[n], Q!Redacted(of, s)[n])
<1>1. PICK k \in 1..MaxWords : s \in [1..k -> Q!Word]
  BY DEF Q!Texts
<1>2. ASSUME NEW n \in 1..k
      PROVE  Q!Redacted(of, s)[n] \in Shown /\ ShownAs(of, s[n], Q!Redacted(of, s)[n])
  <2>1. s[n] \in Q!Word /\ DOMAIN s = 1..k
    BY <1>1
  <2>2. CASE s[n].is = "value" /\ s[n].value \in Recognised /\ s[n] = Q!AsValue(s[n].value)
    <3>1. PICK v \in Recognised : v = s[n].value /\ s[n] = Q!AsValue(v)
      BY <2>2
    <3>2. v \in Q!Found(s)
      BY <2>1, <3>1 DEF Q!Found
    <3>3. v \in DOMAIN of
      BY <3>2
    <3>4. of[v] \in Shown
      BY <3>1, <3>3 DEF Numbered, Shown
    <3>5. Q!Redacted(of, s)[n] = of[v]
      BY <2>1, <2>2, <3>1 DEF Q!Redacted
    <3> QED
      BY <2>2, <3>1, <3>3, <3>4, <3>5 DEF ShownAs
  <2>3. CASE s[n].is = "placeholder"
    <3>1. Q!Redacted(of, s)[n] = Q!Opened(s[n])
      BY <2>1, <2>3 DEF Q!Redacted
    <3>2. Q!Opened(s[n]) = Q!Escaped(s[n].kind, s[n].number)
      BY <2>3 DEF Q!Opened
    <3> QED
      BY <2>1, <2>3, <3>1, <3>2 DEF ShownAs, Shown
  <2> QED
    BY <2>1, <2>2, <2>3, WordIs
<1>3. Q!Redacted(of, s) \in [1..k -> Shown]
  BY <1>1, <1>2 DEF Q!Redacted
<1> QED
  BY <1>1, <1>2, <1>3

LEMMA RedactionStep == ASSUME RedactionInv, Q!Next PROVE RedactionInv'
<1>1. PICK s \in Q!Texts : Q!Send(s)
  BY DEF Q!Next
<1>2. PICK of : of = placeholder
  OBVIOUS
<1>3. PICK new : new = Q!Learnt(of, s)
  OBVIOUS
<1>4. PICK r : r = [was |-> s, shown |-> Q!Redacted(new, s)]
  OBVIOUS
<1>5. /\ Len(texts) < MaxTexts /\ placeholder' = new
      /\ texts' = Append(texts, r)
  BY <1>1, <1>2, <1>3, <1>4 DEF Q!Send
<1>6. Numbered(of)
  BY <1>2 DEF RedactionInv
<1>7. /\ Numbered(new) /\ Q!Found(s) \subseteq DOMAIN new
      /\ \A v \in DOMAIN of : v \in DOMAIN new /\ new[v] = of[v]
  BY <1>3, <1>6, LearntIsNumbered
<1>8. /\ Q!Redacted(new, s) \in UNION {[1..k -> Shown] : k \in 1..MaxWords}
      /\ \A n \in DOMAIN s : ShownAs(new, s[n], Q!Redacted(new, s)[n])
  BY <1>7, RedactedIsShown
<1> DEFINE Sent == [was: Q!Texts, shown: UNION {[1..k -> Shown] : k \in 1..MaxWords}]
<1>9. r \in Sent /\ r.was = s /\ r.shown = Q!Redacted(new, s)
  BY <1>4, <1>8
<1>10. texts \in Seq(Sent)
  BY DEF RedactionInv
<1> HIDE DEF Sent
<1>11. /\ texts' \in Seq(Sent) /\ Len(texts') = Len(texts) + 1 /\ Len(texts) \in Nat
       /\ DOMAIN texts' = DOMAIN texts \cup {Len(texts) + 1}
       /\ \A i \in DOMAIN texts : texts'[i] = texts[i]
       /\ texts'[Len(texts) + 1] = r
  BY <1>5, <1>9, <1>10
<1>12. Len(texts') <= MaxTexts
  BY <1>5, <1>11, AdviceAssumption
<1>13. ASSUME NEW i \in DOMAIN texts', NEW n \in DOMAIN texts'[i].was
       PROVE  ShownAs(placeholder', texts'[i].was[n], texts'[i].shown[n])
  <2>1. CASE i \in DOMAIN texts
    <3>1. ShownAs(of, texts[i].was[n], texts[i].shown[n])
      BY <1>2, <1>11, <1>13, <2>1 DEF RedactionInv
    <3> QED
      BY <1>5, <1>7, <1>11, <2>1, <3>1 DEF ShownAs
  <2>2. CASE i = Len(texts) + 1
    BY <1>5, <1>8, <1>9, <1>11, <1>13, <2>2
  <2> QED
    BY <1>11, <2>1, <2>2
<1>14. Numbered(placeholder)'
  BY <1>5, <1>7 DEF Numbered, OfKind
<1> QED
  BY <1>11, <1>12, <1>13, <1>14 DEF RedactionInv, Sent, ShownAs

LEMMA RedactionHolds == ASSUME RedactionInv PROVE Q!TypeOK /\ Q!ComesBackAsItWas
<1>1. ASSUME NEW i \in DOMAIN texts, NEW n \in DOMAIN texts[i].was
      PROVE  LET was == texts[i].was[n]
                 back == Q!Restored(texts[i].shown[n])
             IN  IF was.is = "value"
                 THEN IF KindOf[was.value] \in Q!Personal THEN back = was ELSE back.is = "placeholder"
                 ELSE back = Q!Escaped(was.kind, was.number)
  <2>1. PICK was, word : was = texts[i].was[n] /\ word = texts[i].shown[n]
    OBVIOUS
  <2>2. ShownAs(placeholder, was, word)
    BY <2>1 DEF RedactionInv
  <2>3. was \in Q!Word
    <3> DEFINE Sent == [was: Q!Texts, shown: UNION {[1..k -> Shown] : k \in 1..MaxWords}]
    <3>1. texts \in Seq(Sent)
      BY DEF RedactionInv
    <3> HIDE DEF Sent
    <3>2. texts[i] \in Sent
      BY <3>1
    <3>3. texts[i].was \in Q!Texts
      BY <3>2 DEF Sent
    <3> QED
      BY <2>1, <3>3 DEF Q!Texts
  <2>4. CASE was.is = "value"
    <3>1. PICK v \in Recognised : was = Q!AsValue(v) /\ v = was.value
      BY <2>3, <2>4, WordIs
    <3>2. v \in DOMAIN placeholder /\ word = placeholder[v]
      BY <2>2, <2>4, <3>1 DEF ShownAs
    <3>3. PICK m \in Nat \ {0} : word = Q!AsOurs(KindOf[v], m)
      BY <3>2 DEF RedactionInv, Numbered
    <3>4. word.is = "placeholder" /\ word.kind = KindOf[v]
      BY <3>3 DEF Q!AsOurs
    <3>5. {u \in DOMAIN placeholder : placeholder[u] = word} = {v}
      BY <3>2 DEF RedactionInv, Numbered
    <3>6. Q!Restored(word) = IF KindOf[v] \in Q!Personal THEN was ELSE word
      BY <3>1, <3>4, <3>5 DEF Q!Restored
    <3> QED
      BY <2>1, <2>4, <3>1, <3>4, <3>6
  <2>5. CASE was.is # "value"
    <3>1. word = Q!Escaped(was.kind, was.number)
      BY <2>2, <2>5 DEF ShownAs
    <3>2. word.is # "placeholder"
      BY <3>1 DEF Q!Escaped
    <3>3. Q!Restored(word) = word
      BY <3>2 DEF Q!Restored
    <3> QED
      BY <2>1, <2>5, <3>1, <3>3
  <2> QED
    BY <2>4, <2>5
<1>2. Q!ComesBackAsItWas
  BY <1>1 DEF Q!ComesBackAsItWas
<1>3. ASSUME NEW v \in DOMAIN placeholder
      PROVE  placeholder[v] \in {Q!AsOurs(KindOf[v], m) : m \in 1..Q!Cardinality(Recognised)}
  <2>1. PICK m \in Nat \ {0} : /\ placeholder[v] = Q!AsOurs(KindOf[v], m)
                               /\ m <= Cardinality(OfKind(placeholder, KindOf[v]))
    BY DEF RedactionInv, Numbered
  <2>2. OfKind(placeholder, KindOf[v]) \in SUBSET Recognised
    BY DEF RedactionInv, Numbered, OfKind
  <2>3. PICK S \in SUBSET Recognised : S = OfKind(placeholder, KindOf[v])
    BY <2>2
  <2>4. IsFiniteSet(S) /\ Cardinality(S) <= Cardinality(Recognised)
    BY FS_Subset, AdviceAssumption
  <2>5. Cardinality(S) \in Nat /\ Cardinality(Recognised) \in Nat
    BY <2>4, FS_CardinalityType, AdviceAssumption
  <2>6. m \in 1..Q!Cardinality(Recognised)
    BY <2>1, <2>3, <2>4, <2>5, RedactionCounts
  <2> QED
    BY <2>1, <2>6
<1>4. Q!TypeOK
  BY <1>3 DEF Q!TypeOK, RedactionInv, Numbered
<1> QED
  BY <1>2, <1>4

-----------------------------------------------------------------------------
(* The audit chain.                                                        *)

\* Rows told by a history: each has its place in it, and as its hash what came before.
HashOf(c, n) == [i \in 1..n |-> <<i, c[i]>>]
RowOf(c, n) == [seq |-> n, event |-> c[n], prev |-> HashOf(c, n - 1), hash |-> HashOf(c, n)]
Told(c) == {RowOf(c, n) : n \in 1..Len(c)}
ToldHead(c) == [seq |-> Len(c), hash |-> HashOf(c, Len(c))]

\* A hash is genuine when it covers events of a history in the history's order, some of them perhaps
\* missing.
Follow(f, h, c) ==
    /\ f \in [DOMAIN h -> DOMAIN c]
    /\ \A i, j \in DOMAIN h : i < j => f[i] < f[j]
    /\ \A i \in DOMAIN h : c[f[i]] = h[i][2]
Genuine(h, c) == \E f : Follow(f, h, c)

\* The history as a transaction will leave it: what is committed, and its own events.
Own(t, m) == [n \in 1..m |-> <<t, n>>]
Whole(t, u, c) == c \o Own(t, Log!Cardinality(u.mine))

\* Of a transaction t that is at u: whoever appends has the lock, and so nobody else has rows; its
\* rows follow all others, and it has read of them all; and each is what the history tells.
Holding == {"locked", "read", "appended"}
Placed(t, u, l) ==
    /\ u.at \in Holding <=> l = t
    /\ l # t => u.mine = {}
    /\ u.at # "failed"
    /\ IsFiniteSet(u.mine)
    /\ Log!Cardinality(u.mine) <= 2
    /\ u.at # "appended" => Log!Cardinality(u.mine) <= 1
Above(u, S) ==
    /\ \A r, q \in u.mine : r.seq = q.seq => r = q
    /\ \A m \in u.mine, r \in S : r.seq < m.seq
    /\ u.at = "read" => \A r \in S \cup u.mine : r.seq <= u.head.seq
GenuineOf(t, u, c) ==
    /\ \A r \in u.mine : Genuine(r.hash, Whole(t, u, c))
    /\ u.at = "read" => Genuine(u.head.hash, Whole(t, u, c))
ToldOf(t, u, c, S) ==
    /\ u.at \in Holding => S \cup u.mine = Told(Whole(t, u, c))
    /\ u.at = "read" => u.head = ToldHead(Whole(t, u, c))
Sound(t, u, l) ==
    /\ Placed(t, u, l)
    /\ Above(u, events)
    /\ ~rewritten => GenuineOf(t, u, committed)
    /\ damage = 0 => ToldOf(t, u, committed, events)

AuditInv ==
    /\ Log!TypeOK
    /\ IsFiniteSet(events)
    /\ \A r, q \in events : r.seq = q.seq => r = q
    /\ ~rewritten => \A r \in events : Genuine(r.hash, committed)
    /\ damage = 0 => events = Told(committed)
    /\ \A t \in Transaction : Sound(t, tx[t], lock)

LEMMA AuditCounts == \A S : Log!Cardinality(S) = Cardinality(S)
BY DEF Log!Cardinality, Cardinality, Log!IsFiniteSet, IsFiniteSet

\* The head of a chain is its row with the greatest number.
LEMMA HeadIsGreatest ==
    ASSUME NEW S \in SUBSET Log!Row, IsFiniteSet(S)
    PROVE  /\ S = {} => Log!HeadOf(S) = [seq |-> 0, hash |-> <<>>]
           /\ S # {} => \E r \in S : /\ Log!HeadOf(S) = [seq |-> r.seq, hash |-> r.hash]
                                     /\ \A q \in S : q.seq <= r.seq
           /\ Log!HeadOf(S) \in Log!HeadType
           /\ \A q \in S : q.seq <= Log!HeadOf(S).seq
<1>1. CASE S = {}
  BY <1>1 DEF Log!HeadOf, Log!Start, Log!Genesis, Log!HeadType
<1>2. CASE S # {}
  <2>1. [r \in S |-> r.seq] \in [S -> Nat]
    BY DEF Log!Row
  <2>2. \E m \in S : \A w \in S : [r \in S |-> r.seq][w] <= [r \in S |-> r.seq][m]
    BY <1>2, <2>1, Greatest
  <2>3. \E m \in S : \A w \in S : w.seq <= m.seq
    BY <2>2
  <2>4. Log!Last(S) \in S /\ \A w \in S : w.seq <= Log!Last(S).seq
    BY <2>3 DEF Log!Last
  <2>5. Log!HeadOf(S) = [seq |-> Log!Last(S).seq, hash |-> Log!Last(S).hash]
    BY <1>2 DEF Log!HeadOf
  <2>6. Log!Last(S).seq \in Nat /\ Log!Last(S).hash \in Seq(Log!Link)
    BY <2>4 DEF Log!Row
  <2> QED
    BY <1>2, <2>4, <2>5, <2>6 DEF Log!HeadType
<1> QED
  BY <1>1, <1>2

\* In a chain that verifies the hash of a row tells of every row up to it.
Chained(S, r) ==
    /\ Len(r.hash) = r.seq
    /\ \A n \in 1..r.seq : \E q \in S : q.seq = n /\ r.hash[n] = <<n, q.event>>

LEMMA OneFurther ==
    ASSUME NEW S \in SUBSET Log!Row, IsFiniteSet(S), Log!Verifies(S), NEW r \in S,
           \A q \in S : q.seq < r.seq => Chained(S, q)
    PROVE  Chained(S, r)
<1> DEFINE Prior == {q \in S : q.seq < r.seq}
<1>1. /\ r.seq = Log!HeadOf(Prior).seq + 1 /\ r.prev = Log!HeadOf(Prior).hash
      /\ r.hash = Append(r.prev, <<r.seq, r.event>>)
  BY DEF Log!Verifies, Log!Follows, Log!event_hash
<1>2. Prior \in SUBSET Log!Row /\ IsFiniteSet(Prior)
  <2>1. Prior \subseteq S
    OBVIOUS
  <2> QED
    BY <2>1, FS_Subset
<1>3. r.seq \in Nat /\ r.prev \in Seq(Log!Link)
  BY DEF Log!Row
<1>4. PICK x : x = <<r.seq, r.event>>
  OBVIOUS
<1>5. r.hash = Append(r.prev, x)
  BY <1>1, <1>4
<1>6. CASE Prior = {}
  <2>1. Log!HeadOf(Prior) = [seq |-> 0, hash |-> <<>>]
    BY <1>2, <1>6, HeadIsGreatest
  <2>2. Log!HeadOf(Prior).seq = 0 /\ Log!HeadOf(Prior).hash = <<>>
    BY <2>1
  <2>3. r.seq = 1 /\ r.prev = <<>>
    <3>1. r.prev = <<>>
      BY <1>1, <2>2, Zenon
    <3>2. r.seq = 0 + 1
      BY <1>1, <2>2, Zenon
    <3> QED
      BY <3>1, <3>2
  <2>4. r.hash = <<x>>
    BY <1>5, <2>3
  <2>5. Len(r.hash) = 1 /\ r.hash[1] = <<1, r.event>>
    BY <1>4, <2>3, <2>4
  <2> QED
    BY <2>3, <2>5 DEF Chained
<1>7. CASE Prior # {}
  <2>1. PICK b \in Prior : Log!HeadOf(Prior) = [seq |-> b.seq, hash |-> b.hash]
    BY <1>2, <1>7, HeadIsGreatest
  <2>2. Chained(S, b) /\ b.seq \in Nat /\ b.hash \in Seq(Log!Link)
    BY DEF Log!Row
  <2>3. Log!HeadOf(Prior).seq = b.seq /\ Log!HeadOf(Prior).hash = b.hash
    BY <2>1, SMTT(30)
  <2>4. r.seq = b.seq + 1 /\ r.prev = b.hash
    BY <1>1, <2>3
  <2>5. r.hash = Append(b.hash, x)
    BY <1>5, <2>4
  <2>6. Len(b.hash) = b.seq
    BY <2>2 DEF Chained
  <2>7. /\ Len(r.hash) = b.seq + 1 /\ r.hash[b.seq + 1] = x
        /\ \A n \in 1..b.seq : r.hash[n] = b.hash[n]
    BY <2>2, <2>5, <2>6
  <2>8. \A n \in 1..b.seq : \E q \in S : q.seq = n /\ b.hash[n] = <<n, q.event>>
    BY <2>2 DEF Chained
  <2>9. ASSUME NEW n \in 1..r.seq PROVE \E q \in S : q.seq = n /\ r.hash[n] = <<n, q.event>>
    <3>1. CASE n \in 1..b.seq
      BY <2>7, <2>8, <3>1
    <3>2. CASE n = r.seq
      BY <1>4, <2>4, <2>7, <3>2
    <3> QED
      BY <2>2, <2>4, <3>1, <3>2
  <2> QED
    BY <2>4, <2>7, <2>9 DEF Chained
<1> QED
  BY <1>6, <1>7

LEMMA Unbroken ==
    ASSUME NEW S \in SUBSET Log!Row, IsFiniteSet(S), Log!Verifies(S)
    PROVE  \A r \in S : Chained(S, r)
<1> SUFFICES ASSUME \E r \in S : ~Chained(S, r) PROVE FALSE
  OBVIOUS
<1> DEFINE Bad == {r \in S : ~Chained(S, r)}
           R == {w \in S \X S : w[1].seq < w[2].seq}
<1>1. IsFiniteSet(Bad) /\ Bad # {}
  <2>1. Bad \subseteq S
    OBVIOUS
  <2> QED
    BY <2>1, FS_Subset
<1>2. \A u, v \in S : <<u, v>> \in R <=> u.seq < v.seq
  OBVIOUS
<1>3. \A u \in S : u.seq \in Nat
  BY DEF Log!Row
<1>4. /\ \A u \in Bad : <<u, u>> \notin R
      /\ \A u, v, w \in Bad : <<u, v>> \in R /\ <<v, w>> \in R => <<u, w>> \in R
  <2> HIDE DEF R
  <2> QED
    BY <1>2, <1>3
<1>5. PICK b \in Bad : \A w \in Bad : <<w, b>> \notin R
  <2> HIDE DEF R, Bad
  <2> QED
    BY <1>1, <1>4, Foremost
<1>6. \A q \in S : q.seq < b.seq => Chained(S, q)
  BY <1>2, <1>5
<1> QED
  BY <1>6, OneFurther

\* What verifies is at every checkpoint what it was then.
LEMMA CheckpointsHold ==
    ASSUME AuditInv, Log!VerifyOk, NEW p \in checkpoints, NEW n \in 1..p.seq
    PROVE  \E r \in events : r.seq = n /\ p.hash[n] = <<n, r.event>>
<1>1. events \in SUBSET Log!Row /\ p.seq \in Nat
  BY DEF AuditInv, Log!TypeOK, Log!HeadType
<1>2. PICK r \in events : r.seq = p.seq /\ r.hash = p.hash
  BY <1>1 DEF Log!VerifyOk, Log!Matches
<1>3. Chained(events, r)
  BY <1>1, Unbroken DEF AuditInv, Log!VerifyOk
<1> QED
  BY <1>2, <1>3 DEF Chained

\* Of two rows that verify the one with the smaller number is of the earlier event.
LEMMA RowsInOrder ==
    ASSUME AuditInv, Log!VerifyOk, ~rewritten, NEW r \in events, NEW q \in events
    PROVE  \E i \in Log!Positions(r.event), j \in Log!Positions(q.event) : r.seq < q.seq => i < j
<1>1. events \in SUBSET Log!Row /\ committed \in Seq(Log!Event)
  BY DEF AuditInv, Log!TypeOK
<1>2. Chained(events, r) /\ Chained(events, q)
  BY <1>1, Unbroken DEF AuditInv, Log!VerifyOk
<1>3. /\ r.seq \in Nat \ {0} /\ q.seq \in Nat \ {0}
      /\ r.hash \in Seq(Log!Link) /\ q.hash \in Seq(Log!Link)
  BY <1>1 DEF Log!Row
<1>4. /\ DOMAIN r.hash = 1..r.seq /\ DOMAIN q.hash = 1..q.seq
      /\ DOMAIN committed = 1..Len(committed)
  BY <1>1, <1>2, <1>3 DEF Chained
<1>5. r.hash[r.seq][2] = r.event /\ q.hash[q.seq][2] = q.event
  <2>1. ASSUME NEW s \in events, Chained(events, s), s.seq \in Nat \ {0} PROVE s.hash[s.seq][2] = s.event
    <3>1. PICK p \in events : p.seq = s.seq /\ s.hash[s.seq] = <<s.seq, p.event>>
      BY <2>1 DEF Chained
    <3>2. p = s
      BY <3>1 DEF AuditInv
    <3> QED
      BY <3>1, <3>2
  <2> QED
    BY <1>2, <1>3, <2>1
<1>6. PICK f : Follow(f, r.hash, committed)
  BY DEF AuditInv, Genuine
<1>7. PICK g : Follow(g, q.hash, committed)
  BY DEF AuditInv, Genuine
<1>8. f[r.seq] \in Log!Positions(r.event) /\ g[q.seq] \in Log!Positions(q.event)
  BY <1>3, <1>4, <1>5, <1>6, <1>7 DEF Follow, Log!Positions
<1>9. CASE r.seq < q.seq
  <2>1. r.seq \in DOMAIN q.hash
    BY <1>3, <1>4, <1>9
  <2>2. PICK p \in events : p.seq = r.seq /\ q.hash[r.seq] = <<r.seq, p.event>>
    BY <1>2, <1>3, <1>4, <2>1 DEF Chained
  <2>3. p = r
    BY <2>2 DEF AuditInv
  <2>4. q.hash[r.seq][2] = r.event
    BY <2>2, <2>3
  <2>5. g[r.seq] \in Log!Positions(r.event) /\ g[r.seq] < g[q.seq]
    BY <1>3, <1>4, <1>7, <1>9, <2>1, <2>4 DEF Follow, Log!Positions
  <2> QED
    BY <1>8, <2>5
<1> QED
  BY <1>8, <1>9

\* What a history tells.
LEMMA HashIs ==
    ASSUME NEW c \in Seq(Log!Event), NEW n \in 0..Len(c)
    PROVE  /\ HashOf(c, n) \in Seq(Log!Link) /\ Len(HashOf(c, n)) = n
           /\ \A i \in 1..n : HashOf(c, n)[i] = <<i, c[i]>>
<1>1. \A i \in 1..n : c[i] \in Log!Event /\ i \in Nat
  OBVIOUS
<1>2. \A i \in 1..n : <<i, c[i]>> \in Log!Link
  BY <1>1 DEF Log!Link
<1>3. HashOf(c, n) \in [1..n -> Log!Link]
  BY <1>2 DEF HashOf
<1>4. n \in Nat
  OBVIOUS
<1>5. HashOf(c, n) \in Seq(Log!Link) /\ Len(HashOf(c, n)) = n
  BY <1>3, <1>4
<1> QED
  BY <1>5 DEF HashOf

LEMMA HashGrows ==
    ASSUME NEW c \in Seq(Log!Event), NEW n \in 1..Len(c)
    PROVE  HashOf(c, n) = Append(HashOf(c, n - 1), <<n, c[n]>>)
<1>1. n - 1 \in 0..Len(c) /\ n \in 0..Len(c) /\ n \in Nat
  OBVIOUS
<1>2. PICK h : h = HashOf(c, n - 1)
  OBVIOUS
<1>3. h \in Seq(Log!Link) /\ Len(h) = n - 1 /\ \A i \in 1..(n - 1) : h[i] = <<i, c[i]>>
  BY <1>1, <1>2, HashIs
<1>4. PICK g : g = HashOf(c, n)
  OBVIOUS
<1>5. g \in Seq(Log!Link) /\ Len(g) = n /\ \A i \in 1..n : g[i] = <<i, c[i]>>
  BY <1>1, <1>4, HashIs
<1>6. PICK x : x = <<n, c[n]>>
  OBVIOUS
<1>7. x \in Log!Link
  <2>1. c[n] \in Log!Event /\ n \in Nat
    OBVIOUS
  <2> QED
    BY <1>6, <2>1 DEF Log!Link
<1>8. Append(h, x) \in Seq(Log!Link) /\ Len(Append(h, x)) = n
  BY <1>1, <1>3, <1>7
<1>9. \A i \in 1..n : g[i] = Append(h, x)[i]
  <2> SUFFICES ASSUME NEW i \in 1..n PROVE g[i] = Append(h, x)[i]
    OBVIOUS
  <2>1. CASE i = n
    BY <1>1, <1>3, <1>5, <1>6, <1>7, <2>1
  <2>2. CASE i \in 1..(n - 1)
    <3>1. Append(h, x)[i] = h[i]
      BY <1>1, <1>3, <1>7, <2>2
    <3> QED
      BY <1>3, <1>5, <2>2, <3>1
  <2>3. i = n \/ i \in 1..(n - 1)
    BY <1>1
  <2> QED
    BY <2>1, <2>2, <2>3
<1>10. g = Append(h, x)
  BY <1>5, <1>8, <1>9, SeqEqual
<1> QED
  BY <1>2, <1>4, <1>6, <1>10

LEMMA RowIs ==
    ASSUME NEW c \in Seq(Log!Event), NEW n \in 1..Len(c)
    PROVE  /\ RowOf(c, n) \in Log!Row /\ RowOf(c, n).seq = n /\ RowOf(c, n).event = c[n]
           /\ RowOf(c, n).prev = HashOf(c, n - 1) /\ RowOf(c, n).hash = HashOf(c, n)
<1>1. n - 1 \in 0..Len(c) /\ n \in 0..Len(c) /\ n \in Nat \ {0} /\ c[n] \in Log!Event
  OBVIOUS
<1>2. HashOf(c, n) \in Seq(Log!Link) /\ HashOf(c, n - 1) \in Seq(Log!Link)
  BY <1>1, HashIs
<1>3. RowOf(c, n) \in Log!Row
  BY <1>1, <1>2 DEF RowOf, Log!Row
<1> QED
  BY <1>3 DEF RowOf

LEMMA ToldIs ==
    ASSUME NEW c \in Seq(Log!Event)
    PROVE  /\ Told(c) \in SUBSET Log!Row /\ IsFiniteSet(Told(c))
           /\ \A r \in Told(c) : r.seq \in 1..Len(c) /\ r = RowOf(c, r.seq)
<1>1. Told(c) \in SUBSET Log!Row
  BY RowIs DEF Told
<1>2. Len(c) \in Nat
  OBVIOUS
<1>3. IsFiniteSet(1..Len(c))
  BY <1>2, FS_Interval
<1>4. IsFiniteSet(Told(c))
  <2>1. PICK g : g = [n \in 1..Len(c) |-> RowOf(c, n)]
    OBVIOUS
  <2>2. g \in Surjection(1..Len(c), Told(c))
    BY <2>1 DEF Told, Surjection
  <2> QED
    BY <1>3, <2>2, FS_Surjection
<1>5. \A r \in Told(c) : r.seq \in 1..Len(c) /\ r = RowOf(c, r.seq)
  BY RowIs DEF Told
<1> QED
  BY <1>1, <1>4, <1>5

LEMMA ToldHeadIs ==
    ASSUME NEW c \in Seq(Log!Event), NEW n \in 0..Len(c)
    PROVE  Log!HeadOf({r \in Told(c) : r.seq <= n}) = [seq |-> n, hash |-> HashOf(c, n)]
<1> DEFINE Early == {r \in Told(c) : r.seq <= n}
<1>1. Early \in SUBSET Log!Row /\ IsFiniteSet(Early)
  <2>1. Early \subseteq Told(c)
    OBVIOUS
  <2> QED
    BY <2>1, ToldIs, FS_Subset
<1>2. CASE n = 0
  <2>1. Early = {}
    BY <1>2, ToldIs
  <2>2. HashOf(c, 0) = <<>>
    <3>1. 0 \in 0..Len(c)
      OBVIOUS
    <3> QED
      BY <3>1, HashIs
  <2> QED
    BY <1>1, <1>2, <2>1, <2>2, HeadIsGreatest
<1>3. CASE n \in 1..Len(c)
  <2>1. RowOf(c, n) \in Early
    BY <1>3, RowIs DEF Told
  <2>2. PICK r \in Early : /\ Log!HeadOf(Early) = [seq |-> r.seq, hash |-> r.hash]
                           /\ \A q \in Early : q.seq <= r.seq
    BY <1>1, <2>1, HeadIsGreatest
  <2>3. n <= r.seq /\ r.seq <= n /\ r.seq \in Nat
    BY <1>3, <2>1, <2>2, RowIs, ToldIs
  <2>4. r.seq = n
    BY <2>3
  <2>5. r = RowOf(c, n)
    BY <2>4, ToldIs
  <2> QED
    BY <1>3, <2>2, <2>4, <2>5, RowIs
<1> QED
  BY <1>2, <1>3

LEMMA ToldEnds ==
    ASSUME NEW c \in Seq(Log!Event)
    PROVE  Log!HeadOf(Told(c)) = ToldHead(c)
<1>1. Len(c) \in 0..Len(c)
  OBVIOUS
<1>2. Told(c) = {r \in Told(c) : r.seq <= Len(c)}
  BY ToldIs
<1> QED
  BY <1>1, <1>2, ToldHeadIs DEF ToldHead

LEMMA ToldVerifies == ASSUME NEW c \in Seq(Log!Event) PROVE Log!Verifies(Told(c))
<1> SUFFICES ASSUME NEW r \in Told(c)
             PROVE  Log!Follows(r, Told(c)) /\ r.hash = Append(r.prev, <<r.seq, r.event>>)
  BY DEF Log!Verifies, Log!event_hash
<1>1. PICK n \in 1..Len(c) : r = RowOf(c, n)
  BY DEF Told
<1>2. /\ r.seq = n /\ r.event = c[n] /\ r.prev = HashOf(c, n - 1) /\ r.hash = HashOf(c, n)
      /\ n - 1 \in 0..Len(c) /\ n \in Nat
  BY <1>1, RowIs
<1>3. {q \in Told(c) : q.seq < r.seq} = {q \in Told(c) : q.seq <= n - 1}
  BY <1>2, ToldIs
<1>4. Log!HeadOf({q \in Told(c) : q.seq < r.seq}) = [seq |-> n - 1, hash |-> HashOf(c, n - 1)]
  BY <1>2, <1>3, ToldHeadIs
<1>5. r.seq = (n - 1) + 1
  BY <1>2
<1>6. Log!Follows(r, Told(c))
  BY <1>2, <1>4, <1>5 DEF Log!Follows
<1>7. r.hash = Append(r.prev, <<r.seq, r.event>>)
  BY <1>2, HashGrows
<1> QED
  BY <1>6, <1>7

LEMMA ToldTells ==
    ASSUME NEW c \in Seq(Log!Event)
    PROVE  {<<r.seq, r.event>> : r \in Told(c)} = {<<n, c[n]>> : n \in 1..Len(c)}
<1>1. ASSUME NEW r \in Told(c) PROVE \E n \in 1..Len(c) : <<r.seq, r.event>> = <<n, c[n]>>
  BY RowIs DEF Told
<1>2. ASSUME NEW n \in 1..Len(c) PROVE \E r \in Told(c) : <<n, c[n]>> = <<r.seq, r.event>>
  <2>1. RowOf(c, n) \in Told(c) /\ RowOf(c, n).seq = n /\ RowOf(c, n).event = c[n]
    BY RowIs DEF Told
  <2> QED
    BY <2>1
<1>3. PICK A : A = {<<r.seq, r.event>> : r \in Told(c)}
  OBVIOUS
<1>4. PICK W : W = {<<n, c[n]>> : n \in 1..Len(c)}
  OBVIOUS
<1>5. A \subseteq W
  <2> SUFFICES ASSUME NEW x \in A PROVE x \in W
    OBVIOUS
  <2>1. PICK r \in Told(c) : x = <<r.seq, r.event>>
    BY <1>3
  <2>2. PICK n \in 1..Len(c) : x = <<n, c[n]>>
    BY <1>1, <2>1
  <2> QED
    BY <1>4, <2>2
<1>6. W \subseteq A
  <2> SUFFICES ASSUME NEW x \in W PROVE x \in A
    OBVIOUS
  <2>1. PICK n \in 1..Len(c) : x = <<n, c[n]>>
    BY <1>4
  <2>2. PICK r \in Told(c) : x = <<r.seq, r.event>>
    BY <1>2, <2>1
  <2> QED
    BY <1>3, <2>2
<1> QED
  BY <1>3, <1>4, <1>5, <1>6

\* One event more: one row more, that follows the head.
LEMMA ToldGrows ==
    ASSUME NEW c \in Seq(Log!Event), NEW x \in Log!Event
    PROVE  /\ Told(Append(c, x)) = Told(c) \cup {Log!NewRow(ToldHead(c), x)}
           /\ Log!NewRow(ToldHead(c), x) = RowOf(Append(c, x), Len(c) + 1)
<1>1. PICK d : d = Append(c, x)
  OBVIOUS
<1>2. /\ d \in Seq(Log!Event) /\ Len(d) = Len(c) + 1 /\ d[Len(c) + 1] = x /\ Len(c) \in Nat
      /\ \A i \in 1..Len(c) : d[i] = c[i]
  BY <1>1
<1>3. \A n \in 0..Len(c) : HashOf(d, n) = HashOf(c, n)
  BY <1>2 DEF HashOf
<1>4. \A n \in 1..Len(c) : RowOf(d, n) = RowOf(c, n)
  <2> SUFFICES ASSUME NEW n \in 1..Len(c) PROVE RowOf(d, n) = RowOf(c, n)
    OBVIOUS
  <2>1. n \in 0..Len(c) /\ n - 1 \in 0..Len(c)
    OBVIOUS
  <2> QED
    BY <1>2, <1>3, <2>1 DEF RowOf
<1>5. RowOf(d, Len(c) + 1) = Log!NewRow(ToldHead(c), x)
  <2>1. Len(c) + 1 \in 1..Len(d) /\ (Len(c) + 1) - 1 = Len(c) /\ Len(c) \in 0..Len(c)
    BY <1>2
  <2>2. HashOf(d, Len(c) + 1) = Append(HashOf(c, Len(c)), <<Len(c) + 1, x>>)
    BY <1>2, <1>3, <2>1, HashGrows
  <2>3. /\ ToldHead(c).seq = Len(c) /\ ToldHead(c).hash = HashOf(c, Len(c))
    BY DEF ToldHead
  <2>4. HashOf(d, (Len(c) + 1) - 1) = HashOf(c, Len(c))
    BY <1>3, <2>1
  <2> QED
    BY <1>2, <2>2, <2>3, <2>4 DEF RowOf, Log!NewRow, Log!event_hash
<1>6. 1..Len(d) = 1..Len(c) \cup {Len(c) + 1}
  BY <1>2
<1>7. Told(d) = Told(c) \cup {RowOf(d, Len(c) + 1)}
  BY <1>4, <1>6 DEF Told
<1> QED
  BY <1>1, <1>5, <1>7

LEMMA GenuineStarts == ASSUME NEW c \in Seq(Log!Event) PROVE Genuine(<<>>, c)
<1>1. PICK f : f = [i \in {} |-> i]
  OBVIOUS
<1>2. DOMAIN <<>> = {}
  OBVIOUS
<1>3. f \in [DOMAIN <<>> -> DOMAIN c]
  BY <1>1, <1>2
<1> QED
  BY <1>2, <1>3 DEF Genuine, Follow

LEMMA GenuineStays ==
    ASSUME NEW h, NEW c \in Seq(Log!Event), NEW d \in Seq(Log!Event), Genuine(h, c)
    PROVE  Genuine(h, c \o d)
<1>1. PICK f : Follow(f, h, c)
  BY DEF Genuine
<1>2. /\ c \o d \in Seq(Log!Event) /\ DOMAIN c = 1..Len(c) /\ Len(c) \in Nat /\ Len(d) \in Nat
      /\ DOMAIN (c \o d) = 1..(Len(c) + Len(d))
  BY LenProperties, ConcatProperties
<1>3. \A i \in DOMAIN c : i \in DOMAIN (c \o d) /\ (c \o d)[i] = c[i]
  BY <1>2, ConcatProperties
<1>4. Follow(f, h, c \o d)
  BY <1>1, <1>3 DEF Follow
<1> QED
  BY <1>4 DEF Genuine

LEMMA GenuineGrows ==
    ASSUME NEW h \in Seq(Log!Link), NEW c \in Seq(Log!Event), NEW x \in Log!Event, NEW n \in Nat,
           Genuine(h, c)
    PROVE  Genuine(Append(h, <<n, x>>), Append(c, x))
<1>1. PICK f : Follow(f, h, c)
  BY DEF Genuine
<1>2. PICK y : y = <<n, x>>
  OBVIOUS
<1>3. y \in Log!Link /\ y[2] = x
  BY <1>2 DEF Log!Link
<1>4. PICK g : g = Append(h, y)
  OBVIOUS
<1>5. PICK d : d = Append(c, x)
  OBVIOUS
<1>6. PICK k \in Nat : k = Len(h)
  BY LenProperties
<1>7. PICK l \in Nat : l = Len(c)
  BY LenProperties
<1>8. /\ DOMAIN h = 1..k /\ DOMAIN c = 1..l /\ DOMAIN g = 1..(k + 1) /\ DOMAIN d = 1..(l + 1)
      /\ g[k + 1] = y /\ d[l + 1] = x
      /\ \A i \in 1..k : g[i] = h[i]
      /\ \A i \in 1..l : d[i] = c[i]
  BY <1>3, <1>4, <1>5, <1>6, <1>7, AppendProperties, LenProperties
<1>9. PICK e : e = [i \in 1..(k + 1) |-> IF i = k + 1 THEN l + 1 ELSE f[i]]
  OBVIOUS
<1>10. \A i \in 1..k : f[i] \in 1..l
  BY <1>1, <1>8 DEF Follow
<1>11. /\ \A i \in 1..k : e[i] = f[i] /\ e[i] \in 1..l
       /\ e[k + 1] = l + 1
       /\ \A i \in 1..(k + 1) : i \in 1..k \/ i = k + 1
  BY <1>9, <1>10
<1>12. e \in [DOMAIN g -> DOMAIN d]
  <2>1. \A i \in 1..(k + 1) : e[i] \in 1..(l + 1)
    BY <1>11
  <2> QED
    BY <1>8, <1>9, <2>1
<1>13. \A i, j \in DOMAIN g : i < j => e[i] < e[j]
  <2> SUFFICES ASSUME NEW i \in 1..(k + 1), NEW j \in 1..(k + 1), i < j PROVE e[i] < e[j]
    BY <1>8
  <2>1. i \in 1..k
    OBVIOUS
  <2>2. CASE j = k + 1
    BY <1>11, <2>1, <2>2
  <2>3. CASE j \in 1..k
    BY <1>1, <1>8, <1>11, <2>1, <2>3 DEF Follow
  <2> QED
    BY <1>11, <2>2, <2>3
<1>14. \A i \in DOMAIN g : d[e[i]] = g[i][2]
  <2> SUFFICES ASSUME NEW i \in 1..(k + 1) PROVE d[e[i]] = g[i][2]
    BY <1>8
  <2>1. CASE i = k + 1
    BY <1>3, <1>8, <1>11, <2>1
  <2>2. CASE i \in 1..k
    BY <1>1, <1>8, <1>11, <2>2 DEF Follow
  <2> QED
    BY <1>11, <2>1, <2>2
<1>15. Genuine(g, d)
  BY <1>12, <1>13, <1>14 DEF Genuine, Follow
<1> QED
  BY <1>2, <1>4, <1>5, <1>15

\* The history a transaction will leave.
TxRow == [at: {"idle", "locked", "read", "appended", "failed", "ended"},
          head: Log!HeadType, mine: SUBSET Log!Row]

LEMMA OwnIs ==
    ASSUME NEW t \in Transaction, NEW m \in Nat, m <= 2
    PROVE  Own(t, m) \in Seq(Log!Event) /\ Len(Own(t, m)) = m
<1>1. \A n \in 1..m : n \in {1, 2}
  OBVIOUS
<1>2. \A n \in 1..m : <<t, n>> \in Log!Event
  BY <1>1 DEF Log!Event
<1>3. Own(t, m) \in [1..m -> Log!Event]
  BY <1>2 DEF Own
<1> QED
  BY <1>3

LEMMA OwnGrows ==
    ASSUME NEW t \in Transaction, NEW m \in Nat, m <= 1, NEW c \in Seq(Log!Event)
    PROVE  c \o Own(t, m + 1) = Append(c \o Own(t, m), <<t, m + 1>>)
<1>1. PICK x : x = <<t, m + 1>>
  OBVIOUS
<1>2. x \in Log!Event
  BY <1>1 DEF Log!Event
<1>3. PICK o : o = Own(t, m)
  OBVIOUS
<1>4. PICK p : p = Own(t, m + 1)
  OBVIOUS
<1>5. /\ o \in Seq(Log!Event) /\ Len(o) = m /\ p \in Seq(Log!Event) /\ Len(p) = m + 1
  BY <1>3, <1>4, OwnIs
<1>6. Append(o, x) \in Seq(Log!Event) /\ Len(Append(o, x)) = m + 1
  BY <1>2, <1>5
<1>7. \A n \in 1..(m + 1) : p[n] = Append(o, x)[n]
  <2> SUFFICES ASSUME NEW n \in 1..(m + 1) PROVE p[n] = Append(o, x)[n]
    OBVIOUS
  <2>1. p[n] = <<t, n>>
    BY <1>4 DEF Own
  <2>2. CASE n = m + 1
    BY <1>1, <1>2, <1>5, <2>1, <2>2
  <2>3. CASE n \in 1..m
    <3>1. o[n] = <<t, n>>
      BY <1>3, <2>3 DEF Own
    <3>2. Append(o, x)[n] = o[n]
      BY <1>2, <1>5, <2>3
    <3> QED
      BY <2>1, <3>1, <3>2
  <2>4. n = m + 1 \/ n \in 1..m
    OBVIOUS
  <2> QED
    BY <2>2, <2>3, <2>4
<1>8. p = Append(o, x)
  BY <1>5, <1>6, <1>7, SeqEqual
<1>9. c \o Append(o, x) = Append(c \o o, x)
  BY <1>2, <1>5
<1> QED
  BY <1>1, <1>3, <1>4, <1>8, <1>9

LEMMA WholeIs ==
    ASSUME NEW t \in Transaction, NEW u \in TxRow, IsFiniteSet(u.mine), Log!Cardinality(u.mine) <= 2,
           NEW c \in Seq(Log!Event)
    PROVE  /\ Whole(t, u, c) \in Seq(Log!Event)
           /\ u.mine = {} => Whole(t, u, c) = c
           /\ Log!Cardinality(u.mine) \in Nat
<1>1. Log!Cardinality(u.mine) \in Nat
  BY AuditCounts, FS_CardinalityType
<1>2. Own(t, Log!Cardinality(u.mine)) \in Seq(Log!Event)
  BY <1>1, OwnIs
<1>3. ASSUME u.mine = {} PROVE Whole(t, u, c) = c
  <2>1. Log!Cardinality(u.mine) = 0
    BY <1>3, AuditCounts, FS_EmptySet
  <2>2. Own(t, 0) = <<>>
    BY OwnIs
  <2> QED
    BY <2>1, <2>2 DEF Whole
<1> QED
  BY <1>1, <1>2, <1>3 DEF Whole

LEMMA AuditTypes ==
    ASSUME AuditInv
    PROVE  /\ tx \in [Transaction -> TxRow]
           /\ events \in SUBSET Log!Row /\ IsFiniteSet(events)
           /\ committed \in Seq(Log!Event)
           /\ checkpoints \subseteq Log!HeadType
           /\ lock \in Transaction \cup {none}
           /\ damage \in 0..MaxTampered /\ rewritten \in BOOLEAN
BY DEF AuditInv, Log!TypeOK, TxRow

LEMMA TypesAudit ==
    ASSUME tx \in [Transaction -> TxRow], events \in SUBSET Log!Row, committed \in Seq(Log!Event),
           checkpoints \subseteq Log!HeadType, lock \in Transaction \cup {none},
           damage \in 0..MaxTampered, rewritten \in BOOLEAN
    PROVE  Log!TypeOK
BY DEF Log!TypeOK, TxRow

\* A transaction that has not begun or has ended says nothing.
LEMMA RestsSound ==
    ASSUME NEW t \in Transaction, NEW u, u.at \in {"idle", "ended"}, u.mine = {}, NEW l, l # t
    PROVE  Sound(t, u, l)
<1>1. u.at \notin Holding /\ u.at # "read" /\ u.at # "failed"
  BY DEF Holding
<1>2. IsFiniteSet(u.mine) /\ Log!Cardinality(u.mine) = 0
  BY AuditCounts, FS_EmptySet
<1>3. Placed(t, u, l)
  BY <1>1, <1>2 DEF Placed
<1> QED
  BY <1>1, <1>3 DEF Sound, Above, GenuineOf, ToldOf

LEMMA AuditInit == ASSUME Log!Init PROVE AuditInv
<1>1. /\ events = {} /\ committed = <<>> /\ checkpoints = {} /\ lock = none
      /\ damage = 0 /\ rewritten = FALSE
      /\ tx = [t \in Transaction |-> [at |-> "idle", head |-> [seq |-> 0, hash |-> <<>>], mine |-> {}]]
  BY DEF Log!Init, Log!Start, Log!Genesis
<1>2. tx \in [Transaction -> TxRow]
  <2>1. [seq |-> 0, hash |-> <<>>] \in Log!HeadType
    BY DEF Log!HeadType
  <2>2. [at |-> "idle", head |-> [seq |-> 0, hash |-> <<>>], mine |-> {}] \in TxRow
    BY <2>1 DEF TxRow
  <2> QED
    BY <1>1, <2>2
<1>3. Log!TypeOK
  <2>1. committed \in Seq(Log!Event) /\ events \in SUBSET Log!Row /\ checkpoints \subseteq Log!HeadType
    BY <1>1
  <2>2. damage \in 0..MaxTampered /\ rewritten \in BOOLEAN /\ lock \in Transaction \cup {none}
    <3>1. damage \in 0..MaxTampered
      BY <1>1, RecordAssumption
    <3>2. rewritten \in BOOLEAN
      BY <1>1, Zenon
    <3>3. lock \in Transaction \cup {none}
      BY <1>1
    <3> QED
      BY <3>1, <3>2, <3>3
  <2> QED
    BY <1>2, <2>1, <2>2, TypesAudit
<1>4. IsFiniteSet(events)
  BY <1>1, FS_EmptySet
<1>5. events = Told(committed)
  BY <1>1 DEF Told
<1>6. \A t \in Transaction : Sound(t, tx[t], lock)
  BY <1>1, RestsSound, RecordAssumption
<1> QED
  BY <1>1, <1>3, <1>4, <1>5, <1>6 DEF AuditInv

LEMMA AuditStays == ASSUME AuditInv, UNCHANGED auditVars PROVE AuditInv'
BY DEF AuditInv, auditVars, Log!TypeOK, Sound

\* One transaction moves on, and the others do not have the lock.
LEMMA AuditMoves ==
    ASSUME AuditInv, NEW t \in Transaction, NEW u \in TxRow, NEW l \in {none, t},
           lock \in {none, t}, lock' = l, tx' = [tx EXCEPT ![t] = u], Sound(t, u, l),
           UNCHANGED <<events, committed, checkpoints, damage, rewritten>>
    PROVE  AuditInv'
<1>1. /\ tx \in [Transaction -> TxRow] /\ tx' \in [Transaction -> TxRow]
      /\ \A d \in Transaction : tx'[d] = IF d = t THEN u ELSE tx[d]
  BY AuditTypes
<1>2. \A d \in Transaction : Sound(d, tx'[d], l)
  <2> SUFFICES ASSUME NEW d \in Transaction PROVE Sound(d, tx'[d], l)
    OBVIOUS
  <2>1. CASE d = t
    BY <1>1, <2>1
  <2>2. CASE d # t
    <3>1. tx'[d] = tx[d] /\ Sound(d, tx[d], lock)
      BY <1>1, <2>2 DEF AuditInv
    <3>2. lock # d /\ l # d
      BY <2>2, RecordAssumption
    <3>3. Placed(d, tx[d], lock) => Placed(d, tx[d], l)
      BY <3>2 DEF Placed
    <3> QED
      BY <3>1, <3>3 DEF Sound
  <2> QED
    BY <2>1, <2>2
<1>3. (\A d \in Transaction : Sound(d, tx[d], lock))'
  BY <1>2 DEF Sound
<1>4. lock' \in Transaction \cup {none}
  OBVIOUS
<1>5. Log!TypeOK'
  BY <1>1, <1>4 DEF AuditInv, Log!TypeOK, TxRow
<1> QED
  BY <1>3, <1>5 DEF AuditInv

LEMMA AuditTakesLock ==
    ASSUME AuditInv, NEW t \in Transaction, Log!TakeLock(t)
    PROVE  AuditInv'
<1>1. /\ tx[t].at \in {"idle", "appended"} /\ Log!Cardinality(tx[t].mine) < 2
      /\ lock \in {none, t} /\ lock' = t
      /\ tx' = [tx EXCEPT ![t].at = "locked"]
      /\ UNCHANGED <<events, committed, checkpoints, damage, rewritten>>
  BY DEF Log!TakeLock, Log!LockFree
<1>2. tx[t] \in TxRow /\ Sound(t, tx[t], lock)
  BY AuditTypes DEF AuditInv
<1>3. PICK u : u = [tx[t] EXCEPT !.at = "locked"]
  OBVIOUS
<1>4. u \in TxRow /\ u.at = "locked" /\ u.mine = tx[t].mine
  BY <1>2, <1>3 DEF TxRow
<1>5. tx' = [tx EXCEPT ![t] = u]
  BY <1>1, <1>3
<1>6. /\ IsFiniteSet(u.mine) /\ Log!Cardinality(u.mine) \in Nat /\ Log!Cardinality(u.mine) < 2
      /\ committed \in Seq(Log!Event)
  BY <1>1, <1>2, <1>4, AuditTypes, AuditCounts, FS_CardinalityType DEF Sound, Placed
<1>7. Placed(t, u, t)
  <2>1. "locked" \in Holding /\ u.at # "failed" /\ u.at # "appended"
    BY <1>4 DEF Holding
  <2>2. Log!Cardinality(u.mine) <= 2 /\ Log!Cardinality(u.mine) <= 1
    BY <1>6
  <2> QED
    BY <1>4, <1>6, <2>1, <2>2 DEF Placed
<1>8. Above(u, events)
  BY <1>2, <1>4 DEF Sound, Above
<1>9. Whole(t, u, committed) = Whole(t, tx[t], committed)
  BY <1>4 DEF Whole
<1>10. ~rewritten => GenuineOf(t, u, committed)
  BY <1>2, <1>4, <1>9 DEF Sound, GenuineOf
<1>11. damage = 0 => ToldOf(t, u, committed, events)
  <2> SUFFICES ASSUME damage = 0 PROVE events \cup u.mine = Told(Whole(t, u, committed))
    BY <1>4 DEF ToldOf
  <2>1. CASE tx[t].at = "appended"
    BY <1>2, <1>4, <1>9, <2>1 DEF Sound, ToldOf, Holding
  <2>2. CASE tx[t].at = "idle"
    <3>1. lock # t
      BY <1>2, <2>2 DEF Sound, Placed, Holding
    <3>2. u.mine = {}
      BY <1>2, <1>4, <3>1 DEF Sound, Placed
    <3>3. Whole(t, u, committed) = committed
      <4>1. Log!Cardinality(u.mine) <= 2
        BY <1>6
      <4> QED
        BY <1>4, <1>6, <3>2, <4>1, WholeIs
    <3> QED
      BY <3>2, <3>3 DEF AuditInv
  <2> QED
    BY <1>1, <2>1, <2>2
<1>12. Sound(t, u, t)
  BY <1>7, <1>8, <1>10, <1>11 DEF Sound
<1> QED
  BY <1>1, <1>4, <1>5, <1>12, AuditMoves

\* The head is read of all that is committed and of the transaction's own rows.
LEMMA AuditReadsHead ==
    ASSUME AuditInv, NEW t \in Transaction, Log!ReadHead(t)
    PROVE  AuditInv'
<1> DEFINE S == events \cup tx[t].mine
<1>1. /\ tx[t].at = "locked"
      /\ tx' = [tx EXCEPT ![t].at = "read", ![t].head = Log!HeadOf(S)]
      /\ UNCHANGED <<events, lock, committed, checkpoints, damage, rewritten>>
  BY DEF Log!ReadHead
<1>2. tx[t] \in TxRow /\ Sound(t, tx[t], lock)
  BY AuditTypes DEF AuditInv
<1>3. PICK h : h = Log!HeadOf(S)
  OBVIOUS
<1>4. S \in SUBSET Log!Row /\ IsFiniteSet(S)
  <2>1. IsFiniteSet(tx[t].mine) /\ tx[t].mine \in SUBSET Log!Row
    BY <1>2 DEF Sound, Placed, TxRow
  <2>2. IsFiniteSet(events) /\ events \in SUBSET Log!Row
    BY AuditTypes
  <2> QED
    BY <2>1, <2>2, FS_Union
<1>5. h \in Log!HeadType /\ \A r \in S : r.seq <= h.seq
  <2> HIDE DEF S
  <2> QED
    BY <1>3, <1>4, HeadIsGreatest
<1>6. PICK u : u = [tx[t] EXCEPT !.at = "read", !.head = h]
  OBVIOUS
<1>7. u \in TxRow /\ u.at = "read" /\ u.mine = tx[t].mine /\ u.head = h
  BY <1>2, <1>5, <1>6 DEF TxRow
<1>8. tx' = [tx EXCEPT ![t] = u]
  BY <1>1, <1>3, <1>6
<1>9. lock = t
  BY <1>1, <1>2 DEF Sound, Placed, Holding
<1>10. Placed(t, u, lock)
  BY <1>1, <1>2, <1>7 DEF Sound, Placed, Holding
<1>11. Above(u, events)
  BY <1>2, <1>5, <1>7 DEF Sound, Above
<1>12. PICK c : c = Whole(t, tx[t], committed)
  OBVIOUS
<1>13. /\ Whole(t, u, committed) = c /\ c \in Seq(Log!Event)
       /\ Own(t, Log!Cardinality(tx[t].mine)) \in Seq(Log!Event)
       /\ c = committed \o Own(t, Log!Cardinality(tx[t].mine))
       /\ committed \in Seq(Log!Event)
  <2>1. IsFiniteSet(tx[t].mine) /\ Log!Cardinality(tx[t].mine) <= 2 /\ committed \in Seq(Log!Event)
    BY <1>2, AuditTypes DEF Sound, Placed
  <2>2. c \in Seq(Log!Event) /\ Log!Cardinality(tx[t].mine) \in Nat
    BY <1>2, <1>12, <2>1, WholeIs
  <2>3. Own(t, Log!Cardinality(tx[t].mine)) \in Seq(Log!Event)
    BY <2>1, <2>2, OwnIs
  <2> QED
    BY <1>7, <1>12, <2>1, <2>2, <2>3 DEF Whole
<1>14. ~rewritten => GenuineOf(t, u, committed)
  <2> SUFFICES ASSUME ~rewritten PROVE GenuineOf(t, u, committed)
    OBVIOUS
  <2>1. \A r \in tx[t].mine : Genuine(r.hash, c)
    BY <1>2, <1>12 DEF Sound, GenuineOf
  <2>2. \A r \in events : Genuine(r.hash, c)
    BY <1>13, GenuineStays DEF AuditInv
  <2>3. Genuine(h.hash, c)
    <3>1. CASE S = {}
      <4>1. h = [seq |-> 0, hash |-> <<>>]
        BY <1>3, <1>4, <3>1, HeadIsGreatest
      <4>2. h.hash = <<>>
        BY <4>1
      <4> QED
        BY <1>13, <4>2, GenuineStarts
    <3>2. CASE S # {}
      <4>1. PICK r \in S : h = [seq |-> r.seq, hash |-> r.hash]
        <5> HIDE DEF S
        <5> QED
          BY <1>3, <1>4, <3>2, HeadIsGreatest
      <4>2. h.hash = r.hash
        BY <4>1
      <4> QED
        BY <2>1, <2>2, <4>2
    <3> QED
      BY <3>1, <3>2
  <2> QED
    BY <1>7, <1>13, <2>1, <2>3 DEF GenuineOf
<1>15. damage = 0 => ToldOf(t, u, committed, events)
  <2> SUFFICES ASSUME damage = 0 PROVE ToldOf(t, u, committed, events)
    OBVIOUS
  <2>1. S = Told(c)
    BY <1>1, <1>2, <1>12 DEF Sound, ToldOf, Holding
  <2>2. h = ToldHead(c)
    BY <1>3, <1>13, <2>1, ToldEnds
  <2> QED
    BY <1>7, <1>13, <2>1, <2>2 DEF ToldOf
<1>16. Sound(t, u, lock)
  BY <1>10, <1>11, <1>14, <1>15 DEF Sound
<1> QED
  BY <1>1, <1>7, <1>8, <1>9, <1>16, AuditMoves

\* The number of a new row is above all others: no appender finds it taken.
LEMMA AuditInserts ==
    ASSUME AuditInv, NEW t \in Transaction, Log!Insert(t)
    PROVE  AuditInv'
<1>1. tx[t] \in TxRow /\ Sound(t, tx[t], lock) /\ tx[t].at = "read"
  BY AuditTypes DEF AuditInv, Log!Insert
<1>2. PICK m : m = Log!Cardinality(tx[t].mine)
  OBVIOUS
<1>3. PICK x : x = <<t, m + 1>>
  OBVIOUS
<1>4. PICK h : h = tx[t].head
  OBVIOUS
<1>5. PICK r : r = Log!NewRow(h, x)
  OBVIOUS
<1>6. PICK c : c = Whole(t, tx[t], committed)
  OBVIOUS
<1>7. /\ IsFiniteSet(tx[t].mine) /\ m \in Nat /\ m <= 1 /\ committed \in Seq(Log!Event)
      /\ c \in Seq(Log!Event) /\ c = committed \o Own(t, m) /\ lock = t
  <2>1. IsFiniteSet(tx[t].mine) /\ m <= 2 /\ m <= 1 /\ committed \in Seq(Log!Event) /\ lock = t
    BY <1>1, <1>2, AuditTypes DEF Sound, Placed, Holding
  <2>2. Log!Cardinality(tx[t].mine) <= 2
    BY <1>2, <2>1
  <2>3. c \in Seq(Log!Event) /\ m \in Nat
    BY <1>1, <1>2, <1>6, <2>1, <2>2, WholeIs
  <2> QED
    BY <1>2, <1>6, <2>1, <2>3 DEF Whole
<1>8. x \in Log!Event
  BY <1>3, <1>7 DEF Log!Event
<1>9. /\ h.seq \in Nat /\ h.hash \in Seq(Log!Link)
      /\ r.seq = h.seq + 1 /\ r.hash = Append(h.hash, <<h.seq + 1, x>>)
      /\ r \in Log!Row
  <2>1. h.seq \in Nat /\ h.hash \in Seq(Log!Link)
    BY <1>1, <1>4 DEF TxRow, Log!HeadType
  <2>2. PICK y : y = <<h.seq + 1, x>>
    OBVIOUS
  <2>3. y \in Log!Link
    BY <1>8, <2>1, <2>2 DEF Log!Link
  <2>4. PICK g : g = Append(h.hash, y)
    OBVIOUS
  <2>5. g \in Seq(Log!Link)
    BY <2>1, <2>3, <2>4
  <2>6. r = [seq |-> h.seq + 1, event |-> x, prev |-> h.hash, hash |-> g]
    BY <1>5, <2>2, <2>4 DEF Log!NewRow, Log!event_hash
  <2>7. h.seq + 1 \in Nat \ {0}
    BY <2>1
  <2>8. r \in Log!Row
    BY <1>8, <2>1, <2>5, <2>6, <2>7 DEF Log!Row
  <2> QED
    BY <2>1, <2>2, <2>4, <2>6, <2>8
<1>10. \A q \in events \cup tx[t].mine : q.seq < r.seq /\ q.seq \in Nat
  <2> SUFFICES ASSUME NEW q \in events \cup tx[t].mine PROVE q.seq < r.seq /\ q.seq \in Nat
    OBVIOUS
  <2>1. q \in Log!Row
    BY <1>1, AuditTypes DEF TxRow
  <2>2. q.seq <= h.seq
    BY <1>1, <1>4 DEF Sound, Above
  <2> QED
    BY <1>9, <2>1, <2>2 DEF Log!Row
<1>11. PICK u : u = [tx[t] EXCEPT !.at = "appended", !.mine = @ \cup {r}]
  OBVIOUS
<1>12. /\ tx' = [tx EXCEPT ![t] = u] /\ lock' = lock
       /\ UNCHANGED <<events, committed, checkpoints, damage, rewritten>>
  <2>1. ~\E q \in events : q.seq = r.seq
    BY <1>9, <1>10
  <2>2. tx' = [tx EXCEPT ![t].at = "appended", ![t].mine = @ \cup {r}]
    BY <1>2, <1>3, <1>4, <1>5, <2>1 DEF Log!Insert
  <2>3. UNCHANGED <<lock, events, committed, checkpoints, damage, rewritten>>
    BY <1>2, <1>3, <1>4, <1>5, <2>1 DEF Log!Insert
  <2> QED
    BY <1>11, <2>2, <2>3
<1>13. u \in TxRow /\ u.at = "appended" /\ u.mine = tx[t].mine \cup {r}
  BY <1>1, <1>9, <1>11 DEF TxRow
<1>14. IsFiniteSet(u.mine) /\ Log!Cardinality(u.mine) = m + 1
  <2>1. r \notin tx[t].mine
    BY <1>9, <1>10
  <2>2. Cardinality(tx[t].mine) = m
    BY <1>2, AuditCounts
  <2>3. IsFiniteSet(u.mine) /\ Cardinality(u.mine) = m + 1
    <3>1. IsFiniteSet(tx[t].mine)
      BY <1>7
    <3>2. /\ IsFiniteSet(tx[t].mine \cup {r})
          /\ Cardinality(tx[t].mine \cup {r}) = Cardinality(tx[t].mine) + 1
      BY <2>1, <3>1, FS_AddElement
    <3> QED
      BY <1>13, <2>2, <3>2
  <2> QED
    BY <2>3, AuditCounts
<1>15. Whole(t, u, committed) = Append(c, x)
  BY <1>3, <1>7, <1>14, OwnGrows DEF Whole
<1>16. Placed(t, u, lock)
  <2>1. m + 1 <= 2
    BY <1>7
  <2> QED
    BY <1>7, <1>13, <1>14, <2>1 DEF Placed, Holding
<1>17. Above(u, events)
  <2>1. /\ \A p, q \in tx[t].mine : p.seq = q.seq => p = q
        /\ \A p \in tx[t].mine, q \in events : q.seq < p.seq
    BY <1>1 DEF Sound, Above
  <2>2. ASSUME NEW p \in u.mine, NEW q \in u.mine, p.seq = q.seq PROVE p = q
    BY <1>9, <1>10, <1>13, <2>1, <2>2
  <2>3. ASSUME NEW p \in u.mine, NEW q \in events PROVE q.seq < p.seq
    BY <1>10, <1>13, <2>1
  <2> QED
    BY <1>13, <2>2, <2>3 DEF Above
<1>18. ~rewritten => GenuineOf(t, u, committed)
  <2> SUFFICES ASSUME ~rewritten PROVE GenuineOf(t, u, committed)
    OBVIOUS
  <2>1. /\ \A q \in tx[t].mine : Genuine(q.hash, c)
        /\ Genuine(h.hash, c)
    BY <1>1, <1>4, <1>6 DEF Sound, GenuineOf
  <2>2. Append(c, x) = c \o <<x>> /\ <<x>> \in Seq(Log!Event)
    BY <1>7, <1>8
  <2>3. \A q \in tx[t].mine : Genuine(q.hash, Append(c, x))
    BY <1>7, <2>1, <2>2, GenuineStays
  <2>4. Genuine(r.hash, Append(c, x))
    <3>1. h.seq + 1 \in Nat
      BY <1>9
    <3> QED
      BY <1>7, <1>8, <1>9, <2>1, <3>1, GenuineGrows
  <2> QED
    BY <1>13, <1>15, <2>3, <2>4 DEF GenuineOf
<1>19. damage = 0 => ToldOf(t, u, committed, events)
  <2> SUFFICES ASSUME damage = 0 PROVE events \cup u.mine = Told(Append(c, x))
    BY <1>13, <1>15 DEF ToldOf
  <2>1. events \cup tx[t].mine = Told(c) /\ h = ToldHead(c)
    BY <1>1, <1>4, <1>6 DEF Sound, ToldOf, Holding
  <2>2. Told(Append(c, x)) = Told(c) \cup {r}
    BY <1>5, <1>7, <1>8, <2>1, ToldGrows
  <2> QED
    BY <1>13, <2>1, <2>2
<1>20. Sound(t, u, lock)
  BY <1>16, <1>17, <1>18, <1>19 DEF Sound
<1> QED
  BY <1>7, <1>12, <1>13, <1>20, AuditMoves

EndedTx == [at |-> "ended", head |-> [seq |-> 0, hash |-> <<>>], mine |-> {}]

LEMMA EndedIs ==
    /\ EndedTx \in TxRow /\ EndedTx.at = "ended" /\ EndedTx.mine = {}
    /\ EndedTx = [at |-> "ended", head |-> Log!Start, mine |-> {}]
<1>1. [seq |-> 0, hash |-> <<>>] \in Log!HeadType
  BY DEF Log!HeadType
<1> QED
  BY <1>1 DEF EndedTx, TxRow, Log!Start, Log!Genesis

LEMMA AuditRollsBack ==
    ASSUME AuditInv, NEW t \in Transaction, Log!RollBack(t)
    PROVE  AuditInv'
<1>1. /\ tx[t].at \in Holding
      /\ tx' = [tx EXCEPT ![t] = EndedTx]
      /\ lock' = IF lock = t THEN none ELSE lock
      /\ UNCHANGED <<events, committed, checkpoints, damage, rewritten>>
  BY EndedIs DEF Log!RollBack, Log!Free, Holding
<1>2. lock = t /\ lock' = none /\ t # none
  BY <1>1, RecordAssumption DEF AuditInv, Sound, Placed
<1>3. Sound(t, EndedTx, none)
  BY <1>2, EndedIs, RestsSound
<1> QED
  BY <1>1, <1>2, <1>3, EndedIs, AuditMoves

LEMMA AuditCommits ==
    ASSUME AuditInv, NEW t \in Transaction, Log!Commit(t)
    PROVE  AuditInv'
<1>1. /\ tx[t].at = "appended" /\ events' = events \cup tx[t].mine
      /\ tx' = [tx EXCEPT ![t] = EndedTx]
      /\ lock' = IF lock = t THEN none ELSE lock
      /\ UNCHANGED <<checkpoints, damage, rewritten>>
      /\ committed' = Whole(t, tx[t], committed)
  BY EndedIs DEF Log!Commit, Log!Free, Whole, Own
<1>2. /\ tx[t] \in TxRow /\ Sound(t, tx[t], lock) /\ tx[t].at \in Holding
      /\ events \in SUBSET Log!Row /\ IsFiniteSet(events) /\ committed \in Seq(Log!Event)
      /\ tx \in [Transaction -> TxRow]
  BY <1>1, AuditTypes DEF AuditInv, Holding
<1>3. lock = t /\ lock' = none /\ t # none
  BY <1>1, <1>2, RecordAssumption DEF Sound, Placed
<1>4. /\ IsFiniteSet(tx[t].mine) /\ Log!Cardinality(tx[t].mine) <= 2
  BY <1>2 DEF Sound, Placed
<1>5. /\ committed' \in Seq(Log!Event) /\ Own(t, Log!Cardinality(tx[t].mine)) \in Seq(Log!Event)
  <2>1. Log!Cardinality(tx[t].mine) \in Nat
    BY <1>2, <1>4, WholeIs
  <2>2. Own(t, Log!Cardinality(tx[t].mine)) \in Seq(Log!Event)
    BY <1>4, <2>1, OwnIs
  <2> QED
    BY <1>1, <1>2, <1>4, <2>2, WholeIs
<1>6. events' \in SUBSET Log!Row /\ IsFiniteSet(events')
  <2>1. tx[t].mine \in SUBSET Log!Row
    BY <1>2 DEF TxRow
  <2>2. IsFiniteSet(events \cup tx[t].mine)
    BY <1>2, <1>4, FS_Union
  <2> QED
    BY <1>1, <1>2, <2>1, <2>2
<1>7. \A r, q \in events' : r.seq = q.seq => r = q
  <2>1. /\ \A p, q \in tx[t].mine : p.seq = q.seq => p = q
        /\ \A p \in tx[t].mine, q \in events : q.seq < p.seq
        /\ \A p, q \in events : p.seq = q.seq => p = q
    BY <1>2 DEF AuditInv, Sound, Above
  <2>2. \A p \in events' : p.seq \in Nat
    BY <1>6 DEF Log!Row
  <2>3. \A p \in tx[t].mine, q \in events : q.seq # p.seq
    BY <1>1, <2>1, <2>2
  <2> QED
    BY <1>1, <2>1, <2>3
<1>8. ~rewritten' => \A r \in events' : Genuine(r.hash, committed')
  <2> SUFFICES ASSUME ~rewritten, NEW r \in events' PROVE Genuine(r.hash, Whole(t, tx[t], committed))
    BY <1>1
  <2>1. CASE r \in events
    <3>1. Genuine(r.hash, committed)
      BY <2>1 DEF AuditInv
    <3> QED
      BY <1>2, <1>5, <3>1, GenuineStays DEF Whole
  <2>2. CASE r \in tx[t].mine
    BY <1>2, <2>2 DEF Sound, GenuineOf
  <2> QED
    BY <1>1, <2>1, <2>2
<1>9. damage' = 0 => events' = Told(committed')
  BY <1>1, <1>2 DEF Sound, ToldOf
<1>10. \A d \in Transaction : Placed(d, tx'[d], none) /\ tx'[d].mine = {} /\ tx'[d].at \notin Holding
  <2> SUFFICES ASSUME NEW d \in Transaction
               PROVE  Placed(d, tx'[d], none) /\ tx'[d].mine = {} /\ tx'[d].at \notin Holding
    OBVIOUS
  <2>1. none # d
    BY RecordAssumption
  <2>2. CASE d = t
    <3>1. tx'[d] = EndedTx
      BY <1>1, <1>2, <2>2
    <3>2. Sound(d, EndedTx, none)
      BY <2>1, EndedIs, RestsSound
    <3> QED
      BY <3>1, <3>2, EndedIs DEF Sound, Holding
  <2>3. CASE d # t
    <3>1. tx'[d] = tx[d] /\ Placed(d, tx[d], lock) /\ lock # d
      BY <1>1, <1>2, <1>3, <2>3 DEF AuditInv, Sound
    <3> QED
      BY <2>1, <3>1 DEF Placed
  <2> QED
    BY <2>2, <2>3
<1>11. (\A d \in Transaction : Sound(d, tx[d], lock))'
  <2> SUFFICES ASSUME NEW d \in Transaction PROVE Sound(d, tx[d], lock)'
    OBVIOUS
  <2>1. Placed(d, tx'[d], lock') /\ tx'[d].mine = {} /\ tx'[d].at \notin Holding /\ tx'[d].at # "read"
    BY <1>3, <1>10 DEF Holding
  <2> QED
    BY <2>1 DEF Sound, Above, GenuineOf, ToldOf
<1>12. Log!TypeOK'
  <2>1. tx' \in [Transaction -> TxRow]
    BY <1>1, <1>2, EndedIs
  <2> QED
    BY <1>1, <1>3, <1>5, <1>6, <2>1 DEF AuditInv, Log!TypeOK, TxRow
<1> QED
  BY <1>6, <1>7, <1>8, <1>9, <1>11, <1>12 DEF AuditInv

LEMMA AuditCheckpoints == ASSUME AuditInv, Log!Checkpoint PROVE AuditInv'
<1>1. /\ checkpoints' = checkpoints \cup {Log!HeadOf(events)}
      /\ UNCHANGED <<events, tx, lock, committed, damage, rewritten>>
  BY DEF Log!Checkpoint
<1>2. Log!HeadOf(events) \in Log!HeadType
  BY AuditTypes, HeadIsGreatest
<1>3. checkpoints' \subseteq Log!HeadType
  BY <1>1, <1>2, AuditTypes
<1> QED
  BY <1>1, <1>3 DEF AuditInv, Log!TypeOK, Sound

\* Rows changed by others: none is new at the end, and unless a tail is replaced each has the hash
\* of one that was there.
LEMMA AuditDamaged ==
    ASSUME AuditInv, NEW S \in SUBSET Log!Row, IsFiniteSet(S), Log!Damaged(S), rewritten' \in BOOLEAN,
           \A r, q \in S : r.seq = q.seq => r = q,
           \A r \in S : \E q \in events : r.seq <= q.seq,
           ~rewritten' => ~rewritten /\ \A r \in S : \E q \in events : r.hash = q.hash
    PROVE  AuditInv'
<1>1. /\ damage < MaxTampered /\ damage' = damage + 1 /\ events' = S
      /\ UNCHANGED <<tx, lock, committed, checkpoints>>
  BY DEF Log!Damaged
<1>2. damage \in Nat /\ damage' \in 0..MaxTampered /\ damage' # 0
  BY <1>1, AuditTypes, RecordAssumption
<1>3. Log!TypeOK'
  BY <1>1, <1>2 DEF AuditInv, Log!TypeOK
<1>4. ~rewritten' => \A r \in events' : Genuine(r.hash, committed')
  BY <1>1 DEF AuditInv
<1>5. \A t \in Transaction : Above(tx[t], S)
  <2> SUFFICES ASSUME NEW t \in Transaction PROVE Above(tx[t], S)
    OBVIOUS
  <2>1. tx[t] \in TxRow /\ Above(tx[t], events)
    BY AuditTypes DEF AuditInv, Sound
  <2>2. \A r \in S : r.seq \in Nat
    BY DEF Log!Row
  <2>3. \A r \in events : r.seq \in Nat
    BY AuditTypes DEF Log!Row
  <2>4. \A m \in tx[t].mine : m.seq \in Nat
    BY <2>1 DEF TxRow, Log!Row
  <2>5. tx[t].head.seq \in Nat
    BY <2>1 DEF TxRow, Log!HeadType
  <2>6. ASSUME NEW m \in tx[t].mine, NEW r \in S PROVE r.seq < m.seq
    <3>1. PICK q \in events : r.seq <= q.seq
      OBVIOUS
    <3>2. q.seq < m.seq
      BY <2>1 DEF Above
    <3> QED
      BY <2>2, <2>3, <2>4, <3>1, <3>2
  <2>7. ASSUME tx[t].at = "read", NEW r \in S PROVE r.seq <= tx[t].head.seq
    <3>1. PICK q \in events : r.seq <= q.seq
      OBVIOUS
    <3>2. q.seq <= tx[t].head.seq
      BY <2>1, <2>7 DEF Above
    <3> QED
      BY <2>2, <2>3, <2>5, <3>1, <3>2
  <2> QED
    BY <2>1, <2>6, <2>7 DEF Above
<1>6. (\A t \in Transaction : Sound(t, tx[t], lock))'
  <2> SUFFICES ASSUME NEW t \in Transaction PROVE Sound(t, tx[t], lock)'
    OBVIOUS
  <2>1. Sound(t, tx[t], lock) /\ Above(tx[t], S)
    BY <1>5 DEF AuditInv
  <2> QED
    BY <1>1, <1>2, <2>1 DEF Sound
<1> QED
  BY <1>1, <1>2, <1>3, <1>4, <1>6 DEF AuditInv

LEMMA RowsAre ==
    ASSUME AuditInv
    PROVE  /\ events \in SUBSET Log!Row /\ IsFiniteSet(events)
           /\ \A r, q \in events : r.seq = q.seq => r = q
           /\ \A r \in events : r.seq \in Nat /\ r.seq > 0
           /\ rewritten \in BOOLEAN
BY AuditTypes DEF AuditInv, Log!Row

LEMMA AuditChanged == ASSUME AuditInv, Log!Change PROVE AuditInv'
<1>1. PICK r \in events :
         /\ Log!Damaged((events \ {r}) \cup {[r EXCEPT !.event = Log!Other]}) /\ UNCHANGED rewritten
  BY DEF Log!Change
<1>2. PICK q : q = [r EXCEPT !.event = Log!Other]
  OBVIOUS
<1>3. Log!Other \in Log!Event
  BY DEF Log!Other, Log!Event
<1>4. q \in Log!Row /\ q.seq = r.seq /\ q.hash = r.hash
  <2>1. r \in Log!Row
    BY RowsAre
  <2> QED
    BY <1>2, <1>3, <2>1 DEF Log!Row
<1>5. PICK S : S = (events \ {r}) \cup {q}
  OBVIOUS
<1>6. S \in SUBSET Log!Row /\ IsFiniteSet(S)
  <2>1. IsFiniteSet(events \ {r})
    BY RowsAre, FS_Subset
  <2>2. IsFiniteSet((events \ {r}) \cup {q})
    BY <2>1, FS_AddElement
  <2> QED
    BY <1>4, <1>5, <2>2, RowsAre
<1>7. \A p, s \in S : p.seq = s.seq => p = s
  BY <1>4, <1>5, RowsAre
<1>8. \A p \in S : \E s \in events : p.seq <= s.seq
  BY <1>4, <1>5, RowsAre
<1>9. \A p \in S : \E s \in events : p.hash = s.hash
  BY <1>4, <1>5
<1>10. Log!Damaged(S) /\ rewritten' \in BOOLEAN /\ (~rewritten' => ~rewritten)
  <2>1. Log!Damaged(S)
    BY <1>1, <1>2, <1>5
  <2>2. rewritten' = rewritten /\ rewritten \in BOOLEAN
    BY <1>1, RowsAre
  <2> QED
    BY <2>1, <2>2
<1> QED
  BY <1>6, <1>7, <1>8, <1>9, <1>10, AuditDamaged

LEMMA AuditLosesOne == ASSUME AuditInv, Log!Remove PROVE AuditInv'
<1>1. PICK r \in events : Log!Damaged(events \ {r}) /\ UNCHANGED rewritten
  BY DEF Log!Remove
<1>2. PICK S : S = events \ {r}
  OBVIOUS
<1>3. S \in SUBSET Log!Row /\ IsFiniteSet(S) /\ S \subseteq events
  <2>1. IsFiniteSet(events \ {r})
    BY RowsAre, FS_Subset
  <2> QED
    BY <1>2, <2>1, RowsAre
<1>4. \A p, s \in S : p.seq = s.seq => p = s
  BY <1>3, RowsAre
<1>5. \A p \in S : \E s \in events : p.seq <= s.seq
  BY <1>3, RowsAre
<1>6. \A p \in S : \E s \in events : p.hash = s.hash
  BY <1>3
<1>7. Log!Damaged(S) /\ rewritten' \in BOOLEAN /\ (~rewritten' => ~rewritten)
  <2>1. Log!Damaged(S)
    BY <1>1, <1>2
  <2>2. rewritten' = rewritten /\ rewritten \in BOOLEAN
    BY <1>1, RowsAre
  <2> QED
    BY <2>1, <2>2
<1> QED
  BY <1>3, <1>4, <1>5, <1>6, <1>7, AuditDamaged

LEMMA AuditRenumbered == ASSUME AuditInv, Log!Renumber PROVE AuditInv'
<1>1. PICK r \in events, q \in events :
         /\ Log!Damaged((events \ {r, q}) \cup {[r EXCEPT !.seq = q.seq], [q EXCEPT !.seq = r.seq]})
         /\ UNCHANGED rewritten
  BY DEF Log!Renumber
<1>2. PICK a : a = [r EXCEPT !.seq = q.seq]
  OBVIOUS
<1>3. PICK b : b = [q EXCEPT !.seq = r.seq]
  OBVIOUS
<1>4. /\ a \in Log!Row /\ a.seq = q.seq /\ a.hash = r.hash
      /\ b \in Log!Row /\ b.seq = r.seq /\ b.hash = q.hash
      /\ r = q => a = b
  <2>1. r \in Log!Row /\ q \in Log!Row
    BY RowsAre
  <2> QED
    BY <1>2, <1>3, <2>1 DEF Log!Row
<1>5. PICK S : S = (events \ {r, q}) \cup {a, b}
  OBVIOUS
<1>6. S \in SUBSET Log!Row /\ IsFiniteSet(S)
  <2>1. IsFiniteSet(events \ {r, q})
    BY RowsAre, FS_Subset
  <2>2. IsFiniteSet((events \ {r, q}) \cup {a})
    BY <2>1, FS_AddElement
  <2>3. IsFiniteSet(((events \ {r, q}) \cup {a}) \cup {b})
    BY <2>2, FS_AddElement
  <2>4. S = ((events \ {r, q}) \cup {a}) \cup {b}
    BY <1>5
  <2> QED
    BY <1>4, <1>5, <2>3, <2>4, RowsAre
<1>7. ASSUME NEW p \in S, NEW s \in S, p.seq = s.seq PROVE p = s
  <2>1. \A w \in events \ {r, q} : w.seq # r.seq /\ w.seq # q.seq
    BY RowsAre
  <2>2. CASE p \in events \ {r, q}
    <3>1. s \in events \ {r, q}
      BY <1>4, <1>5, <1>7, <2>1, <2>2
    <3> QED
      BY <1>7, <2>2, <3>1, RowsAre
  <2>3. CASE p \in {a, b}
    <3>1. s \in {a, b}
      BY <1>4, <1>5, <1>7, <2>1, <2>3
    <3>2. r.seq = q.seq => a = b
      BY <1>4, RowsAre
    <3> QED
      BY <1>4, <1>7, <2>3, <3>1, <3>2
  <2> QED
    BY <1>5, <2>2, <2>3
<1>8. \A p \in S : \E s \in events : p.seq <= s.seq
  BY <1>4, <1>5, RowsAre
<1>9. \A p \in S : \E s \in events : p.hash = s.hash
  BY <1>4, <1>5
<1>10. Log!Damaged(S) /\ rewritten' \in BOOLEAN /\ (~rewritten' => ~rewritten)
  <2>1. Log!Damaged(S)
    BY <1>1, <1>2, <1>3, <1>5
  <2>2. rewritten' = rewritten /\ rewritten \in BOOLEAN
    BY <1>1, RowsAre
  <2> QED
    BY <2>1, <2>2
<1> QED
  BY <1>6, <1>7, <1>8, <1>9, <1>10, AuditDamaged

LEMMA AuditRewritten == ASSUME AuditInv, Log!Rewrite PROVE AuditInv'
<1>1. PICK r \in events :
         LET kept == {q \in events : q.seq < r.seq}
         IN  Log!Damaged(kept \cup {Log!NewRow(Log!HeadOf(kept), Log!Other)}) /\ rewritten' = TRUE
  BY DEF Log!Rewrite
<1>2. PICK T : T = {q \in events : q.seq < r.seq}
  OBVIOUS
<1>3. PICK h : h = Log!HeadOf(T)
  OBVIOUS
<1>4. PICK a : a = Log!NewRow(h, Log!Other)
  OBVIOUS
<1>5. PICK S : S = T \cup {a}
  OBVIOUS
<1>6. Log!Damaged(S) /\ rewritten' = TRUE
  BY <1>1, <1>2, <1>3, <1>4, <1>5
<1>7. T \in SUBSET Log!Row /\ IsFiniteSet(T)
  <2>1. IsFiniteSet({q \in events : q.seq < r.seq})
    BY RowsAre, FS_Subset
  <2> QED
    BY <1>2, <2>1, RowsAre
<1>8. /\ h \in Log!HeadType /\ \A q \in T : q.seq <= h.seq
      /\ T = {} => h = [seq |-> 0, hash |-> <<>>]
      /\ T # {} => \E q \in T : h = [seq |-> q.seq, hash |-> q.hash]
  BY <1>3, <1>7, HeadIsGreatest
<1>9. h.seq \in Nat /\ h.hash \in Seq(Log!Link)
  BY <1>8 DEF Log!HeadType
<1>10. h.seq < r.seq
  <2>1. CASE T = {}
    <3>1. h.seq = 0
      BY <1>8, <2>1
    <3> QED
      BY <3>1, RowsAre
  <2>2. CASE T # {}
    <3>1. PICK q \in T : h = [seq |-> q.seq, hash |-> q.hash]
      BY <1>8, <2>2
    <3>2. h.seq = q.seq
      BY <3>1
    <3> QED
      BY <1>2, <3>2
  <2> QED
    BY <2>1, <2>2
<1>11. a \in Log!Row /\ a.seq = h.seq + 1
  <2>1. Log!Other \in Log!Event
    BY DEF Log!Other, Log!Event
  <2>2. PICK y : y = <<h.seq + 1, Log!Other>>
    OBVIOUS
  <2>3. y \in Log!Link
    BY <1>9, <2>1, <2>2 DEF Log!Link
  <2>4. PICK g : g = Append(h.hash, y)
    OBVIOUS
  <2>5. g \in Seq(Log!Link)
    BY <1>9, <2>3, <2>4
  <2>6. a = [seq |-> h.seq + 1, event |-> Log!Other, prev |-> h.hash, hash |-> g]
    BY <1>4, <2>2, <2>4 DEF Log!NewRow, Log!event_hash
  <2>7. h.seq + 1 \in Nat \ {0}
    BY <1>9
  <2> QED
    BY <1>9, <2>1, <2>5, <2>6, <2>7 DEF Log!Row
<1>12. S \in SUBSET Log!Row /\ IsFiniteSet(S)
  <2>1. IsFiniteSet(T \cup {a})
    BY <1>7, FS_AddElement
  <2> QED
    BY <1>5, <1>7, <1>11, <2>1
<1>13. \A p \in T : p.seq # a.seq /\ p \in events
  <2>1. \A p \in T : p.seq \in Nat /\ p \in events
    BY <1>2, RowsAre
  <2> QED
    BY <1>8, <1>9, <1>11, <2>1
<1>14. \A p, s \in S : p.seq = s.seq => p = s
  BY <1>5, <1>13, RowsAre
<1>15. \A p \in S : \E s \in events : p.seq <= s.seq
  BY <1>5, <1>9, <1>10, <1>11, <1>13, RowsAre
<1> QED
  BY <1>6, <1>12, <1>14, <1>15, AuditDamaged

LEMMA AuditStep == ASSUME AuditInv, Log!Next PROVE AuditInv'
BY AuditTakesLock, AuditReadsHead, AuditInserts, AuditCommits, AuditRollsBack, AuditCheckpoints,
   AuditChanged, AuditLosesOne, AuditRenumbered, AuditRewritten DEF Log!Next

LEMMA AuditHolds == ASSUME AuditInv PROVE Log!ChainIsHistory /\ Log!DamageIsSeen
<1>1. Log!ChainIsHistory
  <2> SUFFICES ASSUME damage = 0
               PROVE  /\ Log!Verifies(events)
                      /\ {<<r.seq, r.event>> : r \in events} =
                            {<<n, committed[n]>> : n \in 1..Len(committed)}
                      /\ \A t \in Transaction : tx[t].at # "failed"
    BY DEF Log!ChainIsHistory
  <2>1. events = Told(committed) /\ committed \in Seq(Log!Event)
    BY AuditTypes DEF AuditInv
  <2>2. \A t \in Transaction : tx[t].at # "failed"
    BY DEF AuditInv, Sound, Placed
  <2>3. Log!Verifies(events)
    BY <2>1, ToldVerifies
  <2>4. {<<r.seq, r.event>> : r \in events} = {<<n, committed[n]>> : n \in 1..Len(committed)}
    BY <2>1, ToldTells
  <2> QED
    BY <2>2, <2>3, <2>4
<1>2. Log!DamageIsSeen
  BY CheckpointsHold, RowsInOrder DEF Log!DamageIsSeen
<1> QED
  BY <1>1, <1>2

-----------------------------------------------------------------------------
(* Exports.                                                                *)

\* What an export has read was committed, and once it has read the log, the log tells of all of
\* it; a manifest is that of an export that is past it.
ReadSoFar(e) ==
    /\ \A t \in Dump!Tables : export[e].of[t] \subseteq DOMAIN history
    /\ export[e].at > Len(Written) =>
          \A t \in Dump!Tables : export[e].of[t] \subseteq export[e].of["audit_events"]
OfOneExport ==
    manifest.there => \E e \in Export : export[e].at > Len(Written) + 1 /\ manifest.of = export[e].of
DumpInv ==
    /\ Dump!TypeOK
    /\ \A e \in Export : ReadSoFar(e)
    /\ OfOneExport

Reads == [at: 0..(Len(Written) + 3), of: [Dump!Tables -> SUBSET Dump!Event]]

LEMMA DumpBounds ==
    /\ Len(Written) \in Nat \ {0} /\ DOMAIN Written = 1..Len(Written)
    /\ "audit_events" \in Dump!Tables
    /\ \A n \in 1..Len(Written) : Written[n] \in Dump!Tables
    /\ MaxCommits \in Nat /\ MaxBroken \in Nat
<1>1. Written \in Seq(STRING) /\ Written # <<>> /\ Written[Len(Written)] = "audit_events"
  BY RecordAssumption
<1>2. Len(Written) \in Nat \ {0} /\ DOMAIN Written = 1..Len(Written)
  BY <1>1
<1> QED
  BY <1>1, <1>2, RecordAssumption DEF Dump!Tables

LEMMA DumpRows ==
    ASSUME DumpInv
    PROVE  /\ history \in Seq(Dump!Tables) /\ DOMAIN history = 1..Len(history)
           /\ Len(history) \in Nat /\ Len(history) <= MaxCommits /\ DOMAIN history \subseteq Dump!Event
           /\ \A t : Dump!Rows(t) \subseteq DOMAIN history
           /\ Dump!Rows("audit_events") = DOMAIN history
<1>1. history \in Seq(Dump!Tables) /\ Len(history) <= MaxCommits
  BY DEF DumpInv, Dump!TypeOK
<1>2. DOMAIN history = 1..Len(history) /\ Len(history) \in Nat
  BY <1>1
<1>3. DOMAIN history \subseteq Dump!Event
  BY <1>1, <1>2, DumpBounds DEF Dump!Event
<1> QED
  BY <1>1, <1>2, <1>3 DEF Dump!Rows

LEMMA DumpInit == ASSUME Dump!Init PROVE DumpInv
<1>1. /\ history = <<>> /\ tampered = 0
      /\ files = [t \in Dump!Tables |-> [there |-> FALSE, rows |-> {}]]
      /\ manifest = [there |-> FALSE, of |-> [t \in Dump!Tables |-> {}]]
      /\ export = [e \in Export |-> [at |-> 0, of |-> [t \in Dump!Tables |-> {}]]]
  BY DEF Dump!Init, Dump!NoFile, Dump!NoExport
<1>2. [at |-> 0, of |-> [t \in Dump!Tables |-> {}]] \in Reads
  BY DumpBounds DEF Reads
<1>3. export \in [Export -> Reads]
  BY <1>1, <1>2
<1>4. files \in [Dump!Tables -> [there: BOOLEAN, rows: SUBSET Dump!Event]]
  BY <1>1
<1>5. manifest \in [there: BOOLEAN, of: [Dump!Tables -> SUBSET Dump!Event]]
  BY <1>1
<1>6. history \in Seq(Dump!Tables) /\ Len(history) <= MaxCommits
  BY <1>1, DumpBounds
<1>7. \A e \in Export : ReadSoFar(e)
  BY <1>1, DumpBounds DEF ReadSoFar
<1> QED
  BY <1>1, <1>3, <1>4, <1>5, <1>6, <1>7, DumpBounds DEF DumpInv, Dump!TypeOK, OfOneExport, Reads

LEMMA DumpStays == ASSUME DumpInv, UNCHANGED exportVars PROVE DumpInv'
BY DEF DumpInv, exportVars, Dump!TypeOK, ReadSoFar, OfOneExport

\* The service appends an event: what was read before is still among them.
LEMMA DumpGrows ==
    ASSUME DumpInv, NEW t \in Dump!Tables, Len(history) < MaxCommits, history' = Append(history, t)
    PROVE  /\ history' \in Seq(Dump!Tables) /\ Len(history') <= MaxCommits
           /\ DOMAIN history \subseteq DOMAIN history'
BY DumpRows, DumpBounds

LEMMA DumpCommit ==
    ASSUME DumpInv, NEW t \in Dump!Tables, Dump!Commit(t)
    PROVE  DumpInv'
<1>1. Len(history) < MaxCommits /\ history' = Append(history, t)
      /\ UNCHANGED <<files, manifest, export, tampered>>
  BY DEF Dump!Commit
<1>2. /\ history' \in Seq(Dump!Tables) /\ Len(history') <= MaxCommits
      /\ DOMAIN history \subseteq DOMAIN history'
  BY <1>1, DumpGrows
<1>3. \A e \in Export : ReadSoFar(e)'
  BY <1>1, <1>2 DEF DumpInv, ReadSoFar
<1> QED
  BY <1>1, <1>2, <1>3 DEF DumpInv, Dump!TypeOK, OfOneExport

\* An export goes on: what it has read is not told of by another's manifest.
LEMMA DumpGoesOn ==
    ASSUME DumpInv, NEW e \in Export, NEW r \in Reads, export' = [export EXCEPT ![e] = r],
           history' = history, manifest' = manifest,
           export[e].at <= Len(Written) + 1 \/ (r.at > Len(Written) + 1 /\ r.of = export[e].of),
           \A t \in Dump!Tables : r.of[t] \subseteq DOMAIN history,
           r.at > Len(Written) => \A t \in Dump!Tables : r.of[t] \subseteq r.of["audit_events"]
    PROVE  /\ export' \in [Export -> Reads]
           /\ \A d \in Export : ReadSoFar(d)'
           /\ OfOneExport'
<1>1. export \in [Export -> Reads]
  BY DEF DumpInv, Dump!TypeOK, Reads
<1>2. \A d \in Export : export'[d] = IF d = e THEN r ELSE export[d]
  BY <1>1
<1>3. \A d \in Export : ReadSoFar(d)'
  BY <1>2 DEF DumpInv, ReadSoFar
<1>4. OfOneExport'
  <2> SUFFICES ASSUME manifest.there
               PROVE  \E d \in Export : export'[d].at > Len(Written) + 1 /\ manifest.of = export'[d].of
    BY DEF OfOneExport
  <2>1. PICK d \in Export : export[d].at > Len(Written) + 1 /\ manifest.of = export[d].of
    BY DEF DumpInv, OfOneExport
  <2>2. CASE d = e
    <3>1. export[e].at \in Nat /\ Len(Written) \in Nat
      BY <1>1, DumpBounds DEF Reads
    <3> QED
      BY <1>2, <2>1, <2>2, <3>1
  <2>3. CASE d # e
    BY <1>2, <2>1, <2>3
  <2> QED
    BY <2>2, <2>3
<1> QED
  BY <1>1, <1>3, <1>4

LEMMA DumpBegin ==
    ASSUME DumpInv, NEW e \in Export, Dump!Begin(e)
    PROVE  DumpInv'
<1>1. /\ export[e].at = 0 /\ export' = [export EXCEPT ![e].at = 1]
      /\ UNCHANGED <<history, files, manifest, tampered>>
  BY DEF Dump!Begin
<1>2. export \in [Export -> Reads] /\ export[e] \in Reads
  BY DEF DumpInv, Dump!TypeOK, Reads
<1>3. PICK r : r = [export[e] EXCEPT !.at = 1]
  OBVIOUS
<1>4. r \in Reads /\ r.at = 1 /\ r.of = export[e].of
  BY <1>2, <1>3, DumpBounds DEF Reads
<1>5. export' = [export EXCEPT ![e] = r]
  BY <1>1, <1>3
<1>6. ~(r.at > Len(Written)) /\ export[e].at <= Len(Written) + 1
  BY <1>1, <1>4, DumpBounds
<1>7. \A t \in Dump!Tables : r.of[t] \subseteq DOMAIN history
  BY <1>4 DEF DumpInv, ReadSoFar
<1>8. /\ export' \in [Export -> Reads]
      /\ \A d \in Export : ReadSoFar(d)'
      /\ OfOneExport'
  BY <1>1, <1>4, <1>5, <1>6, <1>7, DumpGoesOn
<1> QED
  BY <1>1, <1>8 DEF DumpInv, Dump!TypeOK, Reads

\* The log is read last.
LEMMA DumpWrites ==
    ASSUME DumpInv, NEW e \in Export, Dump!WriteTable(e)
    PROVE  DumpInv'
<1> DEFINE i == export[e].at
           t == Written[i]
<1>1. /\ i \in 1..Len(Written) /\ UNCHANGED <<history, manifest, tampered>>
      /\ files' = [files EXCEPT ![t] = [there |-> TRUE, rows |-> Dump!Rows(t)]]
      /\ export' = [export EXCEPT ![e] = [at |-> @.at + 1, of |-> [@.of EXCEPT ![t] = Dump!Rows(t)]]]
  BY DEF Dump!WriteTable, Dump!Tabled
<1>2. export \in [Export -> Reads] /\ export[e] \in Reads
      /\ files \in [Dump!Tables -> [there: BOOLEAN, rows: SUBSET Dump!Event]]
  BY DEF DumpInv, Dump!TypeOK, Reads
<1>3. t \in Dump!Tables /\ (i = Len(Written) => t = "audit_events")
  BY <1>1, DumpBounds, RecordAssumption
<1>4. Dump!Rows(t) \subseteq DOMAIN history /\ Dump!Rows(t) \in SUBSET Dump!Event
      /\ (t = "audit_events" => Dump!Rows(t) = DOMAIN history)
  BY DumpRows
<1>5. PICK r : r = [at |-> i + 1, of |-> [export[e].of EXCEPT ![t] = Dump!Rows(t)]]
  OBVIOUS
<1>6. export' = [export EXCEPT ![e] = r]
  BY <1>1, <1>5
<1>7. export[e].of \in [Dump!Tables -> SUBSET Dump!Event]
  BY <1>2 DEF Reads
<1>8. /\ r.at = i + 1 /\ r.of \in [Dump!Tables -> SUBSET Dump!Event]
      /\ \A u \in Dump!Tables : r.of[u] = IF u = t THEN Dump!Rows(t) ELSE export[e].of[u]
  BY <1>4, <1>5, <1>7
<1>9. i + 1 \in 0..(Len(Written) + 3) /\ i <= Len(Written) + 1
  BY <1>1, DumpBounds
<1>10. r \in Reads
  BY <1>5, <1>8, <1>9 DEF Reads
<1>11. \A u \in Dump!Tables : r.of[u] \subseteq DOMAIN history
  BY <1>4, <1>8 DEF DumpInv, ReadSoFar
<1>12. r.at > Len(Written) => \A u \in Dump!Tables : r.of[u] \subseteq r.of["audit_events"]
  <2> SUFFICES ASSUME r.at > Len(Written), NEW u \in Dump!Tables PROVE r.of[u] \subseteq r.of["audit_events"]
    OBVIOUS
  <2>1. i = Len(Written)
    BY <1>1, <1>8, DumpBounds
  <2>2. r.of["audit_events"] = DOMAIN history
    BY <1>3, <1>4, <1>8, <2>1
  <2> QED
    BY <1>11, <2>2
<1>13. /\ export' \in [Export -> Reads]
       /\ \A d \in Export : ReadSoFar(d)'
       /\ OfOneExport'
  BY <1>1, <1>6, <1>9, <1>10, <1>11, <1>12, DumpGoesOn
<1>14. files' \in [Dump!Tables -> [there: BOOLEAN, rows: SUBSET Dump!Event]]
  BY <1>1, <1>2, <1>4
<1> QED
  BY <1>1, <1>13, <1>14 DEF DumpInv, Dump!TypeOK, Reads

LEMMA DumpManifest ==
    ASSUME DumpInv, NEW e \in Export, Dump!WriteManifest(e)
    PROVE  DumpInv'
<1>1. /\ export[e].at = Len(Written) + 1 /\ UNCHANGED <<history, files, tampered>>
      /\ manifest' = [there |-> TRUE, of |-> export[e].of]
      /\ export' = [export EXCEPT ![e].at = @ + 1]
  BY DEF Dump!WriteManifest
<1>2. export \in [Export -> Reads] /\ export[e] \in Reads
  BY DEF DumpInv, Dump!TypeOK, Reads
<1>3. PICK r : r = [export[e] EXCEPT !.at = @ + 1]
  OBVIOUS
<1>4. r \in Reads /\ r.at = Len(Written) + 2 /\ r.of = export[e].of
  BY <1>1, <1>2, <1>3, DumpBounds DEF Reads
<1>5. export' = [export EXCEPT ![e] = r]
  BY <1>1, <1>3
<1>6. \A d \in Export : export'[d] = IF d = e THEN r ELSE export[d]
  BY <1>2, <1>5
<1>7. \A t \in Dump!Tables : r.of[t] \subseteq DOMAIN history /\ r.of[t] \subseteq r.of["audit_events"]
  BY <1>1, <1>4, DumpBounds DEF DumpInv, ReadSoFar
<1>8. export' \in [Export -> Reads] /\ \A d \in Export : ReadSoFar(d)'
  BY <1>1, <1>2, <1>4, <1>5, <1>6, <1>7 DEF DumpInv, ReadSoFar
<1>9. OfOneExport'
  <2>1. export'[e].at > Len(Written) + 1 /\ manifest'.of = export'[e].of
    BY <1>1, <1>4, <1>6, DumpBounds
  <2> QED
    BY <2>1 DEF OfOneExport
<1>10. manifest' \in [there: BOOLEAN, of: [Dump!Tables -> SUBSET Dump!Event]]
  BY <1>1, <1>2 DEF Reads
<1> QED
  BY <1>1, <1>8, <1>9, <1>10 DEF DumpInv, Dump!TypeOK, Reads

LEMMA DumpRecord ==
    ASSUME DumpInv, NEW e \in Export, Dump!Record(e)
    PROVE  DumpInv'
<1>1. /\ export[e].at = Len(Written) + 2 /\ UNCHANGED <<files, manifest, tampered>>
      /\ Len(history) < MaxCommits /\ history' = Append(history, "audit_events")
      /\ export' = [export EXCEPT ![e].at = @ + 1]
  BY DEF Dump!Record
<1>2. export \in [Export -> Reads] /\ export[e] \in Reads
  BY DEF DumpInv, Dump!TypeOK, Reads
<1>3. PICK r : r = [export[e] EXCEPT !.at = @ + 1]
  OBVIOUS
<1>4. r \in Reads /\ r.at = Len(Written) + 3 /\ r.of = export[e].of
  BY <1>1, <1>2, <1>3, DumpBounds DEF Reads
<1>5. export' = [export EXCEPT ![e] = r]
  BY <1>1, <1>3
<1>6. \A d \in Export : export'[d] = IF d = e THEN r ELSE export[d]
  BY <1>2, <1>5
<1>7. \A t \in Dump!Tables : r.of[t] \subseteq DOMAIN history /\ r.of[t] \subseteq r.of["audit_events"]
  BY <1>1, <1>4, DumpBounds DEF DumpInv, ReadSoFar
<1>8. /\ history' \in Seq(Dump!Tables) /\ Len(history') <= MaxCommits
      /\ DOMAIN history \subseteq DOMAIN history'
  BY <1>1, DumpGrows, DumpBounds
<1>9. \A d \in Export : ReadSoFar(d)'
  <2> SUFFICES ASSUME NEW d \in Export PROVE ReadSoFar(d)'
    OBVIOUS
  <2>1. CASE d = e
    BY <1>6, <1>7, <1>8, <2>1 DEF ReadSoFar
  <2>2. CASE d # e
    BY <1>6, <1>8, <2>2 DEF DumpInv, ReadSoFar
  <2> QED
    BY <2>1, <2>2
<1>10. OfOneExport'
  <2> SUFFICES ASSUME manifest.there
               PROVE  \E d \in Export : export'[d].at > Len(Written) + 1 /\ manifest.of = export'[d].of
    BY <1>1 DEF OfOneExport
  <2>1. PICK d \in Export : export[d].at > Len(Written) + 1 /\ manifest.of = export[d].of
    BY DEF DumpInv, OfOneExport
  <2>2. export'[d].at > Len(Written) + 1 /\ export'[d].of = export[d].of
    BY <1>4, <1>6, <2>1, DumpBounds
  <2> QED
    BY <2>1, <2>2
<1>11. export' \in [Export -> Reads]
  BY <1>2, <1>4, <1>5
<1> QED
  BY <1>1, <1>8, <1>9, <1>10, <1>11 DEF DumpInv, Dump!TypeOK, Reads

LEMMA DumpDamage ==
    ASSUME DumpInv, NEW t \in Dump!Tables, Dump!Damage(t)
    PROVE  DumpInv'
<1>1. /\ tampered < MaxBroken /\ tampered' = tampered + 1 /\ UNCHANGED <<history, manifest, export>>
  BY DEF Dump!Damage
<1>2. /\ files \in [Dump!Tables -> [there: BOOLEAN, rows: SUBSET Dump!Event]]
      /\ tampered \in 0..MaxBroken
  BY DEF DumpInv, Dump!TypeOK
<1>3. files' \in [Dump!Tables -> [there: BOOLEAN, rows: SUBSET Dump!Event]]
  <2>1. CASE files' = [files EXCEPT ![t] = Dump!NoFile]
    BY <1>2, <2>1 DEF Dump!NoFile
  <2>2. CASE \E n \in files[t].rows : files' = [files EXCEPT ![t].rows = @ \ {n}]
    BY <1>2, <2>2
  <2>3. CASE \E n \in Dump!Event \ files[t].rows : files' = [files EXCEPT ![t].rows = @ \cup {n}]
    BY <1>2, <2>3
  <2> QED
    BY <2>1, <2>2, <2>3 DEF Dump!Damage
<1>4. tampered' \in 0..MaxBroken
  BY <1>1, <1>2, DumpBounds
<1> QED
  BY <1>1, <1>3, <1>4 DEF DumpInv, Dump!TypeOK, ReadSoFar, OfOneExport

LEMMA DumpStep == ASSUME DumpInv, Dump!Next PROVE DumpInv'
BY DumpCommit, DumpDamage, DumpBegin, DumpWrites, DumpManifest, DumpRecord DEF Dump!Next

\* The digests that agree are those of one export, read to its end.
LEMMA DumpHolds == ASSUME DumpInv PROVE Dump!IntactIsWhole
<1> SUFFICES ASSUME Dump!Intact
             PROVE  /\ \E e \in Export : \A t \in Dump!Tables : files[t].rows = export[e].of[t]
                    /\ \A t \in Dump!Tables : files[t].rows \subseteq files["audit_events"].rows
  BY DEF Dump!IntactIsWhole
<1>1. manifest.there /\ \A t \in Dump!Tables : files[t].rows = manifest.of[t]
  BY DEF Dump!Intact, Dump!DigestsAgree
<1>2. PICK e \in Export : export[e].at > Len(Written) + 1 /\ manifest.of = export[e].of
  BY <1>1 DEF DumpInv, OfOneExport
<1>3. export[e].at > Len(Written)
  <2>1. export[e].at \in Nat
    BY DEF DumpInv, Dump!TypeOK
  <2> QED
    BY <1>2, <2>1, DumpBounds
<1> QED
  BY <1>1, <1>2, <1>3, DumpBounds DEF DumpInv, ReadSoFar

-----------------------------------------------------------------------------
(* What Components.tla promises.                                           *)

\* Only the component chosen moves.
LEMMA ChosenMoves ==
    ASSUME Next
    PROVE  /\ part' = part
           /\ part = "lifecycle" => L!Next
           /\ part = "runner" => M!Next
           /\ part = "service" => U!Next
           /\ part = "changes" => N!Next
           /\ part = "knowledge" => K!Next
           /\ part = "policy" => P!Next
           /\ part = "sessions" => Z!Next
           /\ part = "access" => H!Next
           /\ part = "stream" => V!Next
           /\ part = "credentials" => Y!Next
           /\ part = "calls" => B!Next
           /\ part = "deliveries" => O!Next
           /\ part = "intake" => I!Next
           /\ part = "choice" => D!Next
           /\ part = "drafts" => J!Next
           /\ part = "redaction" => Q!Next
           /\ part = "audit" => Log!Next
           /\ part = "export" => Dump!Next
           /\ part = "walk" => E!Next
           /\ part = "expressions" => X!Next
           /\ part = "gateway" => G!Next
           /\ part # "gateway" => UNCHANGED gatewayVars
           /\ part = "connections" => C!Next
           /\ part # "connections" => UNCHANGED connectionVars
BY DEF Next, Only, Lifecycle, Knowledge, Audit, Deliveries, SignedIn, Walk, Gateway, Policy, Connect,
   Rotate, Calls, Authority, Rules, Choose, TakeIn, Stream, Runner, Serve, Change, WriteOut, Draft,
   Redact

\* Each approver of a change is asked once, who decides is not the author, and the change is
\* closed as its action ended, whoever is in the group and however many attempts die.
THEOREM ChangesKeep == Spec => []ChangesHold
<1> DEFINE Held == In("changes", ChangeInv)
<1>1. Init => Held
  BY ChangeInit DEF Init, In
<1>2. Held /\ [Next]_vars => Held'
  <2> SUFFICES ASSUME Held, [Next]_vars, part' = "changes" PROVE ChangeInv'
    BY DEF In
  <2>1. CASE Next
    BY <2>1, ChosenMoves, ChangeStep DEF In
  <2>2. CASE UNCHANGED vars
    <3>1. UNCHANGED changeVars /\ ChangeInv
      BY <2>2 DEF vars, In
    <3> QED
      BY <3>1, ChangeStays
  <2> QED
    BY <2>1, <2>2
<1>3. Held => ChangesHold
  BY DEF In, ChangesHold, ChangeInv
<1> QED
  BY <1>1, <1>2, <1>3, PTL DEF Spec

\* A runner makes a call once in each of its lives and no two by one grant, over the settings it
\* was signed for, and none past its switch, whatever is signed for how many calls.
THEOREM RunnerKeeps == Spec => []RunnerHolds
<1> DEFINE Held == In("runner", RunnerInv)
<1>1. Init => Held
  BY RunnerInit DEF Init, In
<1>2. Held /\ [Next]_vars => Held'
  <2> SUFFICES ASSUME Held, [Next]_vars, part' = "runner" PROVE RunnerInv'
    BY DEF In
  <2>1. CASE Next
    BY <2>1, ChosenMoves, RunnerStep DEF In
  <2>2. CASE UNCHANGED vars
    <3>1. UNCHANGED runnerVars /\ RunnerInv
      BY <2>2 DEF vars, In
    <3> QED
      BY <3>1, RunnerStays
  <2> QED
    BY <2>1, <2>2
<1>3. Held => RunnerHolds
  BY DEF In, RunnerHolds, RunnerInv
<1> QED
  BY <1>1, <1>2, <1>3, PTL DEF Spec

\* No process serves people without what protects them, no loop uses what is closed, and a client
\* is let through no more than its share, with any settings, workers, clients and limits.
THEOREM ServiceKeeps == Spec => []ServiceHolds
<1> DEFINE Held == In("service", ServiceInv)
<1>1. Init => Held
  BY ServiceInit DEF Init, In
<1>2. Held /\ [Next]_vars => Held'
  <2> SUFFICES ASSUME Held, [Next]_vars, part' = "service" PROVE ServiceInv'
    BY DEF In
  <2>1. CASE Next
    BY <2>1, ChosenMoves, ServiceStep DEF In
  <2>2. CASE UNCHANGED vars
    <3>1. UNCHANGED serviceVars /\ ServiceInv
      BY <2>2 DEF vars, In
    <3> QED
      BY <3>1, ServiceStays
  <2> QED
    BY <2>1, <2>2
<1>3. Held => ServiceHolds
  BY ServesPassed DEF In, ServiceHolds, ServiceInv
<1> QED
  BY <1>1, <1>2, <1>3, PTL DEF Spec

\* The one SOP version in force is the one published last, and an approved version is what its
\* approver read, who did not write it, with any number of versions, contents and people.
THEOREM LifecycleKeeps == Spec => []LifecycleHolds
<1> DEFINE Held == In("lifecycle", LifecycleInv)
<1>1. Init => Held
  BY LifecycleInit DEF Init, In
<1>2. Held /\ [Next]_vars => Held'
  <2> SUFFICES ASSUME Held, [Next]_vars, part' = "lifecycle" PROVE LifecycleInv'
    BY DEF In
  <2>1. CASE Next
    BY <2>1, ChosenMoves, LifecycleStep DEF In
  <2>2. CASE UNCHANGED vars
    <3>1. UNCHANGED lifecycleVars /\ LifecycleInv
      BY <2>2 DEF vars, In
    <3> QED
      BY <3>1, LifecycleStays
  <2> QED
    BY <2>1, <2>2
<1>3. Held => LifecycleHolds
  BY RunIsApproved DEF In, LifecycleHolds, LifecycleInv
<1> QED
  BY <1>1, <1>2, <1>3, PTL DEF Spec

\* Budgets are passed by the requests under way at most, and one that was reached ends the model's
\* part in the run, with any number of runs and workers, and budgets of any size.
THEOREM BudgetsKeep == Spec => BudgetsHold
<1> DEFINE Moved == /\ G!WithinBudget'
                    /\ \A s \in over, a \in Attempt :
                          asking[<<s, a>>] = "idle" => asking'[<<s, a>>] = "idle"
<1>1. Init => BudgetInv
  BY BudgetInit DEF Init
<1>2. BudgetInv /\ [Next]_vars => BudgetInv'
  <2> SUFFICES ASSUME BudgetInv, [Next]_vars PROVE BudgetInv'
    OBVIOUS
  <2>1. CASE Next /\ part = "gateway"
    BY <2>1, ChosenMoves, BudgetStep
  <2>2. CASE UNCHANGED gatewayVars
    BY <2>2, BudgetStays
  <2> QED
    BY <2>1, <2>2, ChosenMoves DEF vars
<1>3. BudgetInv /\ BudgetInv' /\ [Next]_vars => [Moved]_G!vars
  <2> SUFFICES ASSUME BudgetInv, BudgetInv', [Next]_vars, ~(UNCHANGED G!vars) PROVE Moved
    OBVIOUS
  <2>1. ~(UNCHANGED gatewayVars)
    BY DEF gatewayVars, G!vars
  <2>2. G!Next
    BY <2>1, ChosenMoves DEF vars
  <2>3. G!WithinBudget'
    BY BudgetWithin, PTL
  <2> QED
    BY <2>2, <2>3, StoppedStays
<1> QED
  BY <1>1, <1>2, <1>3, PTL DEF Spec, BudgetsHold, G!BudgetsHold

\* Behind the cursor of a source every revision was handled, and became a draft once at most, with
\* any number of articles that fit a page and of syncs that run at the same time and die.
THEOREM KnowledgeKeeps == Spec => []EveryRevisionOnce
<1> DEFINE Held == In("knowledge", KnowledgeInv)
<1>1. Init => Held
  BY KnowledgeInit DEF Init, In
<1>2. Held /\ [Next]_vars => Held'
  <2> SUFFICES ASSUME Held, [Next]_vars, part' = "knowledge" PROVE KnowledgeInv'
    BY DEF In
  <2>1. CASE Next
    BY <2>1, ChosenMoves, KnowledgeStep DEF In
  <2>2. CASE UNCHANGED vars
    <3>1. UNCHANGED knowledgeVars /\ KnowledgeInv
      BY <2>2 DEF vars, In
    <3>2. clock \in 0..MaxSeconds /\ keys \subseteq Article /\ rows \in [K!Revision -> Nat]
          /\ \A r \in K!Revision : rows[r] <= 1
      BY <3>1 DEF KnowledgeInv, K!TypeOK, K!OneDraftPerRevision
    <3> QED
      BY <3>1, <3>2, KnowledgeStays DEF knowledgeVars
  <2> QED
    BY <2>1, <2>2
<1>3. Held => EveryRevisionOnce
  BY KnowledgeHolds DEF In, EveryRevisionOnce
<1> QED
  BY <1>1, <1>2, <1>3, PTL DEF Spec

\* A write is made by rules that let it be made no longer ago than a decision lasts, and writes that
\* follow one another keep the rate limit, whatever the rules say and however often they change.
THEOREM PolicyKeeps == Spec => []PolicyHolds
<1> DEFINE Held == In("policy", PolicyInv)
<1>1. Init => Held
  BY PolicyInit DEF Init, In
<1>2. Held /\ [Next]_vars => Held'
  <2> SUFFICES ASSUME Held, [Next]_vars, part' = "policy" PROVE PolicyInv'
    BY DEF In
  <2>1. CASE Next
    BY <2>1, ChosenMoves, PolicyStep DEF In
  <2>2. CASE UNCHANGED vars
    <3>1. UNCHANGED policyVars /\ PolicyInv
      BY <2>2 DEF vars, In
    <3> QED
      BY <3>1, PolicyStays
  <2> QED
    BY <2>1, <2>2
<1>3. Held => PolicyHolds
  BY PolicyKept DEF In, PolicyHolds
<1> QED
  BY <1>1, <1>2, <1>3, PTL DEF Spec

\* What a process is given to use was saved within the last Refresh, by the hub whatever runs at
\* the same time and by a handle whose reloads do not, with any connections and any number of users.
THEOREM ConnectionsKeep == Spec => InUseAsSaved
<1> DEFINE Moved ==
        \A c \in Task :
            call[c].at # "given" /\ call'[c].at = "given" /\ ~together =>
                \/ \E s \in C!Meant(call'[c].got) : age[s] < Refresh
                \/ call'[c].got = C!NoClient /\ \E o \in Task : call[o].at = "closing"
<1>1. Init => ConnectionInv
  BY ConnectionInit DEF Init
<1>2. ConnectionInv /\ [Next]_vars => ConnectionInv'
  <2> SUFFICES ASSUME ConnectionInv, [Next]_vars PROVE ConnectionInv'
    OBVIOUS
  <2>1. CASE Next /\ part = "connections"
    BY <2>1, ChosenMoves, ConnectionStep
  <2>2. CASE UNCHANGED connectionVars
    BY <2>2, ConnectionStays
  <2> QED
    BY <2>1, <2>2, ChosenMoves DEF vars
<1>3. ConnectionInv /\ [Next]_vars => [Moved]_C!vars
  <2> SUFFICES ASSUME ConnectionInv, [Next]_vars, ~(UNCHANGED C!vars) PROVE Moved
    OBVIOUS
  <2>1. ~(UNCHANGED connectionVars)
    BY DEF connectionVars, C!vars
  <2>2. C!Next
    BY <2>1, ChosenMoves DEF vars
  <2>3. Answers /\ together \in BOOLEAN
    BY <2>2, ConnectionStep DEF ConnectionInv
  <2> QED
    BY <2>3 DEF Answers, AsSaved
<1> QED
  BY <1>1, <1>2, <1>3, PTL DEF Spec, InUseAsSaved, C!InUseAsSaved

\* One sign-in makes one session at most, idle time ends a session that is not used and no other,
\* and authority that is taken away runs out, a token only reads, and a page that is not the
\* dashboard's changes nothing: with any number of callbacks, requests, roles and routes.
THEOREM AuthorityKeeps == Spec => []AuthorityHolds
<1> DEFINE Held == In("sessions", SessionInv) /\ In("access", AccessInv)
<1>1. Init => Held
  BY SessionInit, AccessInit DEF Init, In
<1>2. Held /\ [Next]_vars => Held'
  <2> SUFFICES ASSUME Held, [Next]_vars
               PROVE  /\ part' = "sessions" => SessionInv'
                      /\ part' = "access" => AccessInv'
    BY DEF In
  <2>1. CASE Next
    BY <2>1, ChosenMoves, SessionStep, AccessStep DEF In
  <2>2. CASE UNCHANGED vars
    <3>1. UNCHANGED <<part, sessionVars, accessVars>>
      BY <2>2 DEF vars
    <3> QED
      BY <3>1, SessionStays, AccessStays DEF In
  <2> QED
    BY <2>1, <2>2
<1>3. Held => AuthorityHolds
  <2> SUFFICES ASSUME Held PROVE AuthorityHolds
    OBVIOUS
  <2>1. part = "sessions" => Z!OneSessionPerSignIn /\ Z!IdleIsIdle
    BY SessionHolds DEF In
  <2>2. part = "access" => H!AuthorityRunsOut /\ H!TokensOnlyRead /\ H!OnlyWhatThePageAsked
    BY DEF In, AccessInv
  <2> QED
    BY <2>1, <2>2 DEF AuthorityHolds, In
<1> QED
  BY <1>1, <1>2, <1>3, PTL DEF Spec

\* A page is sent each event once and in order, knows that it has not heard from the server for
\* too long, and always has one way to connect again: with any number of events, whatever is
\* lost and whenever.
THEOREM ReadersKeep == Spec => []ReadersHold
<1> DEFINE Held == In("stream", StreamInv)
<1>1. Init => Held
  BY StreamInit DEF Init, In
<1>2. Held /\ [Next]_vars => Held'
  <2> SUFFICES ASSUME Held, [Next]_vars, part' = "stream" PROVE StreamInv'
    BY DEF In
  <2>1. CASE Next
    BY <2>1, ChosenMoves, StreamStep DEF In
  <2>2. CASE UNCHANGED vars
    <3>1. UNCHANGED streamVars /\ StreamInv
      BY <2>2 DEF vars, In
    <3> QED
      BY <3>1, StreamStays
  <2> QED
    BY <2>1, <2>2
<1>3. Held => ReadersHold
  BY StreamHolds DEF In, ReadersHold
<1> QED
  BY <1>1, <1>2, <1>3, PTL DEF Spec

\* A call that runs by itself is never refused for a credential that was rotated, and a target
\* that is down is sent no more than opens the breaker: with any number of calls and rotations,
\* any number of attempts, any threshold and any time a breaker is open.
THEOREM CallsKeep == Spec => []CallsHold
<1> DEFINE Held == In("credentials", CredentialInv) /\ In("calls", CallInv)
<1>1. Init => Held
  BY CredentialInit, CallInit DEF Init, In
<1>2. Held /\ [Next]_vars => Held'
  <2> SUFFICES ASSUME Held, [Next]_vars
               PROVE  /\ part' = "credentials" => CredentialInv'
                      /\ part' = "calls" => CallInv'
    BY DEF In
  <2>1. CASE Next
    BY <2>1, ChosenMoves, CredentialStep, CallStep DEF In
  <2>2. CASE UNCHANGED vars
    <3>1. UNCHANGED <<part, credentialVars, callVars>>
      BY <2>2 DEF vars
    <3> QED
      BY <3>1, CredentialStays, CallStays DEF In
  <2> QED
    BY <2>1, <2>2
<1>3. Held => CallsHold
  BY CredentialHolds, CallHolds DEF In, CallsHold
<1> QED
  BY <1>1, <1>2, <1>3, PTL DEF Spec

\* A signed delivery is acted on once, a ticket has one run, and a list that was read to its end
\* passed over no more than left it meanwhile: with any deliveries, copies and tickets, however
\* they come, move and are recorded.
THEOREM IntakeKeeps == Spec => []IntakeHolds
<1> DEFINE Held == In("deliveries", DeliveryInv) /\ In("intake", IntakeInv)
<1>1. Init => Held
  BY DeliveryInit, IntakeInit DEF Init, In
<1>2. Held /\ [Next]_vars => Held'
  <2> SUFFICES ASSUME Held, [Next]_vars
               PROVE  /\ part' = "deliveries" => DeliveryInv'
                      /\ part' = "intake" => IntakeInv'
    BY DEF In
  <2>1. CASE Next
    BY <2>1, ChosenMoves, DeliveryStep, IntakeStep DEF In
  <2>2. CASE UNCHANGED vars
    <3>1. UNCHANGED <<part, deliveryVars, intakeVars>>
      BY <2>2 DEF vars
    <3> QED
      BY <3>1, DeliveryStays, IntakeStays DEF In
  <2> QED
    BY <2>1, <2>2
<1>3. Held => IntakeHolds
  BY DeliveryHolds, IntakeIsRight DEF In, IntakeHolds
<1> QED
  BY <1>1, <1>2, <1>3, PTL DEF Spec

\* A run follows one SOP with values that are in the ticket or were declared, whatever a model
\* answers and however often an attempt dies; what it repeats comes back as it was; and what it
\* drafts makes no change until a person has edited it.
THEOREM AdviceStaysAdvice == Spec => []AdviceHolds
<1> DEFINE Held == In("choice", ChoiceInv) /\ In("redaction", RedactionInv) /\ In("drafts", DraftsInv)
<1>1. Init => Held
  BY ChoiceInit, RedactionInit, DraftsInit DEF Init, In
<1>2. Held /\ [Next]_vars => Held'
  <2> SUFFICES ASSUME Held, [Next]_vars PROVE Held'
    OBVIOUS
  <2>1. CASE Next
    BY <2>1, ChosenMoves, ChoiceStep, RedactionStep, DraftsStep DEF In
  <2>2. CASE UNCHANGED vars
    <3>1. part' = part /\ UNCHANGED choiceVars /\ UNCHANGED redactionVars /\ UNCHANGED draftVars
      BY <2>2 DEF vars
    <3> QED
      BY <3>1, ChoiceStays, RedactionStays, DraftsStays DEF In
  <2> QED
    BY <2>1, <2>2
<1>3. Held => AdviceHolds
  BY ChoiceHolds, RedactionHolds DEF In, AdviceHolds, DraftsInv
<1> QED
  BY <1>1, <1>2, <1>3, PTL DEF Spec

\* The audit chain verifies and tells the history, until something else than the program writes to
\* it, and what that does is seen; an export that verifies has all that its log says: with any number
\* of transactions, changes by others, tables and exports.
THEOREM RecordsKeep == Spec => []RecordsHold
<1> DEFINE Held == In("audit", AuditInv) /\ In("export", DumpInv)
<1>1. Init => Held
  BY AuditInit, DumpInit DEF Init, In
<1>2. Held /\ [Next]_vars => Held'
  <2> SUFFICES ASSUME Held, [Next]_vars
               PROVE  /\ part' = "audit" => AuditInv'
                      /\ part' = "export" => DumpInv'
    BY DEF In
  <2>1. CASE Next
    BY <2>1, ChosenMoves, AuditStep, DumpStep DEF In
  <2>2. CASE UNCHANGED vars
    <3>1. UNCHANGED <<part, auditVars, exportVars>>
      BY <2>2 DEF vars
    <3> QED
      BY <3>1, AuditStays, DumpStays DEF In
  <2> QED
    BY <2>1, <2>2
<1>3. Held => RecordsHold
  BY AuditHolds, DumpHolds DEF In, RecordsHold
<1> QED
  BY <1>1, <1>2, <1>3, PTL DEF Spec
=============================================================================
