------------------------- MODULE RingAndLatchProofs -------------------------
(***************************************************************************)
(* The two objects through which the frame thread and the workers of the   *)
(* job system meet, each for any number of threads: the ring that carries  *)
(* the jobs and the latch on which the frame waits for them.               *)
(***************************************************************************)
EXTENDS MpmcRing, JobLatch, TLAPS

-----------------------------------------------------------------------------
(***************************************************************************)
(* The ring                                                                *)
(***************************************************************************)

LEMMA Division ==
  ASSUME NEW n \in Nat
  PROVE  /\ n \div Capacity \in Int
         /\ Slot(n) \in 0 .. Capacity - 1
         /\ n = Capacity * (n \div Capacity) + Slot(n)
  BY CapacityAssumption DEF Slot

LEMMA TimesMonotone ==
  ASSUME NEW a \in Int, NEW b \in Int, a < b
  PROVE  Capacity * a + Capacity <= Capacity * b
<1>1. b - a - 1 \in Nat
  OBVIOUS
<1>2. \A k \in Nat : Capacity * k >= 0
  BY CapacityAssumption
<1>3. Capacity * (b - a - 1) >= 0
  BY <1>1, <1>2
<1>4. Capacity * (b - a - 1) = Capacity * b - Capacity * a - Capacity
  BY CapacityAssumption
<1>5. /\ Capacity * a \in Int
      /\ Capacity * b \in Int
  BY CapacityAssumption
<1> QED
  BY <1>3, <1>4, <1>5, CapacityAssumption

LEMMA SlotInRange == \A n \in Nat : Slot(n) \in Slots
  BY Division DEF Slots

LEMMA SlotSameLap ==
  ASSUME NEW m \in Nat, NEW n \in Nat, Slot(m) = Slot(n), m < n
  PROVE  m + Capacity <= n
<1> DEFINE p == m \div Capacity
           q == n \div Capacity
<1>1. /\ p \in Int
      /\ q \in Int
      /\ Capacity * p \in Int
      /\ Capacity * q \in Int
  BY Division, CapacityAssumption
<1>2. /\ m = Capacity * p + Slot(m)
      /\ n = Capacity * q + Slot(n)
      /\ Slot(m) \in Int
  BY Division
<1> HIDE DEF p, q
<1>3. Capacity * p < Capacity * q
  BY <1>1, <1>2
<1>4. ~ (q < p)
  <2>1. SUFFICES ASSUME q < p PROVE FALSE
    OBVIOUS
  <2>2. Capacity * q + Capacity <= Capacity * p
    BY <1>1, <2>1, TimesMonotone
  <2> QED
    BY <1>1, <1>3, <2>2, CapacityAssumption
<1>5. p # q
  BY <1>1, <1>3
<1>6. Capacity * p + Capacity <= Capacity * q
  BY <1>1, <1>4, <1>5, TimesMonotone
<1> QED
  BY <1>1, <1>2, <1>6, CapacityAssumption

LEMMA SlotNextLap ==
  ASSUME NEW n \in Nat
  PROVE  Slot(n + Capacity) = Slot(n)
<1> DEFINE p == n \div Capacity
           q == (n + Capacity) \div Capacity
<1>0. n + Capacity \in Nat
  BY CapacityAssumption
<1>1. /\ p \in Int
      /\ q \in Int
      /\ Capacity * p \in Int
      /\ Capacity * q \in Int
  BY <1>0, Division, CapacityAssumption
<1>2. /\ n = Capacity * p + Slot(n)
      /\ n + Capacity = Capacity * q + Slot(n + Capacity)
      /\ Slot(n) \in 0 .. Capacity - 1
      /\ Slot(n + Capacity) \in 0 .. Capacity - 1
  BY <1>0, Division
<1> HIDE DEF p, q
<1>3. ~ (p + 1 < q)
  <2>1. SUFFICES ASSUME p + 1 < q PROVE FALSE
    OBVIOUS
  <2>2. Capacity * (p + 1) + Capacity <= Capacity * q
    BY <1>1, <2>1, TimesMonotone
  <2>3. Capacity * (p + 1) = Capacity * p + Capacity
    BY <1>1, CapacityAssumption
  <2> QED
    BY <1>1, <1>2, <2>2, <2>3, CapacityAssumption
<1>4. ~ (q < p + 1)
  <2>1. SUFFICES ASSUME q < p + 1 PROVE FALSE
    OBVIOUS
  <2>2. Capacity * q + Capacity <= Capacity * (p + 1)
    BY <1>1, <2>1, TimesMonotone
  <2>3. Capacity * (p + 1) = Capacity * p + Capacity
    BY <1>1, CapacityAssumption
  <2> QED
    BY <1>1, <1>2, <2>2, <2>3, CapacityAssumption
<1>5. q = p + 1
  BY <1>1, <1>3, <1>4
<1>6. Capacity * q = Capacity * p + Capacity
  BY <1>1, <1>5, CapacityAssumption
<1> QED
  BY <1>1, <1>2, <1>6, CapacityAssumption

LEMMA SlotFacts ==
  /\ \A n \in Nat : Slot(n) \in Slots
  /\ \A n \in Nat : Slot(n + Capacity) = Slot(n)
  /\ \A m, n \in Nat : Slot(m) = Slot(n) /\ m < n => m + Capacity <= n
  BY SlotInRange, SlotNextLap, SlotSameLap

LEMMA SlotApart ==
  ASSUME NEW m \in Nat, NEW n \in Nat,
         m # n, m < n + Capacity, n < m + Capacity
  PROVE  Slot(m) # Slot(n)
<1>1. SUFFICES ASSUME Slot(m) = Slot(n) PROVE FALSE
  OBVIOUS
<1>2. CASE m < n
  BY <1>1, <1>2, SlotSameLap, CapacityAssumption
<1>3. CASE n < m
  BY <1>1, <1>3, SlotSameLap, CapacityAssumption
<1> QED
  BY <1>2, <1>3

-----------------------------------------------------------------------------
LEMMA InitInv == Capacity >= 2 /\ RingInit => RingInv
<1> SUFFICES ASSUME Capacity >= 2, RingInit PROVE RingInv
  OBVIOUS
<1> USE CapacityAssumption DEF RingInit
<1>1. RingTypeOK
  BY DEF RingTypeOK, Labels, Slots
<1>2. WithinOneLap
  BY DEF WithinOneLap
<1>3. QueuedSlots
  BY DEF QueuedSlots
<1>4. FreeSlots
  <2>1. \A n \in 0 .. Capacity - 1 : Slot(n) = n
    BY DEF Slot
  <2> QED
    BY <2>1 DEF FreeSlots, Slots
<1>5. WriterTicket /\ ReaderTicket /\ TicketsUnique /\ CheckedTurn /\ OvertakenTurn
  BY DEF WriterTicket, ReaderTicket, TicketsUnique, CheckedTurn, OvertakenTurn,
         Writing, Reading
<1> QED
  BY <1>1, <1>2, <1>3, <1>4, <1>5 DEF RingInv

-----------------------------------------------------------------------------
(***************************************************************************)
(* A step that touches none of the counters, the sequences and the tickets *)
(* in use only moves a thread from one check to another.                   *)
(***************************************************************************)
LEMMA LocalStep ==
  ASSUME RingInv, NEW t \in Threads, RingTypeOK',
         UNCHANGED <<head, tail, sequence>>,
         \A u \in Threads :
            /\ Writing(u)' <=> Writing(u)
            /\ Reading(u)' <=> Reading(u)
            /\ Writing(u) \/ Reading(u) => pos'[u] = pos[u],
         CheckedTurn', OvertakenTurn'
  PROVE  RingInv'
<1> USE DEF RingInv
<1>1. WithinOneLap'
  BY DEF WithinOneLap
<1>2. QueuedSlots'
  BY DEF QueuedSlots
<1>3. FreeSlots'
  BY DEF FreeSlots
<1>4. WriterTicket' /\ ReaderTicket' /\ TicketsUnique'
  BY DEF WriterTicket, ReaderTicket, TicketsUnique
<1> QED
  BY <1>1, <1>2, <1>3, <1>4

LEMMA TypeStep ==
  ASSUME RingTypeOK, [RingNext]_allVars
  PROVE  RingTypeOK'
<1> USE SlotFacts, CapacityAssumption DEF RingTypeOK, Labels, Goto, ringVars
<1>1. ASSUME NEW t \in Threads, NEW v \in Values, PushBegin(t, v)
      PROVE  RingTypeOK'
  BY <1>1 DEF PushBegin
<1>2. ASSUME NEW t \in Threads, PopBegin(t)
      PROVE  RingTypeOK'
  BY <1>2 DEF PopBegin
<1>3. ASSUME NEW t \in Threads, PushStep(t)
      PROVE  RingTypeOK'
  BY <1>3 DEF PushStep, PushLoad, PushMyTurn, PushFull, PushOvertaken,
              PushClaim, PushClaimFails, PushWrite, PushPublish
<1>4. ASSUME NEW t \in Threads, PopStep(t)
      PROVE  RingTypeOK'
  BY <1>4 DEF PopStep, PopLoad, PopMyTurn, PopEmpty, PopOvertaken,
              PopClaim, PopClaimFails, PopRead, PopRelease
<1>5. CASE UNCHANGED allVars
  BY <1>5 DEF allVars
<1> QED
  BY <1>1, <1>2, <1>3, <1>4, <1>5 DEF RingNext

-----------------------------------------------------------------------------
(***************************************************************************)
(* The four steps that move a counter or a sequence.                       *)
(***************************************************************************)
LEMMA PushClaimStep ==
  ASSUME RingInv, Capacity >= 2, NEW t \in Threads, PushClaim(t), RingTypeOK'
  PROVE  RingInv'
<1> DEFINE n == pos[t]
<1> USE CapacityAssumption
<1>1. /\ n = tail
      /\ tail' = n + 1
      /\ head' = head
      /\ sequence' = sequence
      /\ pos' = pos
      /\ pc[t] = "pushCas"
      /\ pc' = [pc EXCEPT ![t] = "pushWrite"]
      /\ RingTypeOK
  BY DEF PushClaim, Goto, RingInv
<1>2. /\ head \in Nat
      /\ tail \in Nat
      /\ n \in Nat
      /\ pos \in [Threads -> Nat]
      /\ pc \in [Threads -> Labels]
      /\ sequence \in [Slots -> Nat]
  BY <1>1 DEF RingTypeOK
<1>3. sequence[Slot(n)] = n
  BY <1>1 DEF RingInv, CheckedTurn
<1>4. tail < head + Capacity
  <2>1. SUFFICES ASSUME tail = head + Capacity PROVE FALSE
    BY <1>2 DEF RingInv, WithinOneLap
  <2>2. /\ head \in head .. tail - 1
        /\ Slot(tail) = Slot(head)
    BY <1>2, <2>1, SlotFacts
  <2>3. sequence[Slot(head)] \in {head, head + 1}
    BY <1>2, <2>2 DEF RingInv, QueuedSlots
  <2> QED
    BY <1>1, <1>2, <1>3, <2>1, <2>2, <2>3
<1>5. \A u \in Threads :
         /\ Writing(u)' <=> Writing(u) \/ u = t
         /\ Reading(u)' <=> Reading(u)
  BY <1>1, <1>2 DEF Writing, Reading
<1>6. ~ Writing(t) /\ ~ Reading(t)
  BY <1>1 DEF Writing, Reading
<1>7. WithinOneLap'
  BY <1>1, <1>2, <1>4 DEF RingInv, WithinOneLap
<1>8. QueuedSlots'
  BY <1>1, <1>2, <1>3, <1>5 DEF RingInv, QueuedSlots
<1>9. FreeSlots'
  BY <1>1, <1>2, <1>5 DEF RingInv, FreeSlots
<1>10. WriterTicket'
  BY <1>1, <1>2, <1>3, <1>5 DEF RingInv, WriterTicket, WithinOneLap
<1>11. ReaderTicket'
  <2> SUFFICES ASSUME NEW u \in Threads, Reading(u)
               PROVE  tail + 1 <= pos[u] + Capacity
    BY <1>1, <1>2, <1>5 DEF RingInv, ReaderTicket
  <2>1. /\ pos[u] \in Nat
        /\ tail <= pos[u] + Capacity
        /\ sequence[Slot(pos[u])] = pos[u] + 1
    BY <1>2 DEF RingInv, ReaderTicket
  <2>2. tail # pos[u] + Capacity
    BY <1>1, <1>2, <1>3, <2>1, SlotFacts
  <2> QED
    BY <1>2, <2>1, <2>2
<1>12. TicketsUnique'
  BY <1>1, <1>2, <1>5 DEF RingInv, TicketsUnique, WriterTicket
<1>13. CheckedTurn'
  BY <1>1, <1>2 DEF RingInv, CheckedTurn
<1>14. OvertakenTurn'
  BY <1>1, <1>2, <1>3 DEF RingInv, OvertakenTurn, CheckedTurn
<1> QED
  BY <1>7, <1>8, <1>9, <1>10, <1>11, <1>12, <1>13, <1>14 DEF RingInv

LEMMA PopClaimStep ==
  ASSUME RingInv, Capacity >= 2, NEW t \in Threads, PopClaim(t), RingTypeOK'
  PROVE  RingInv'
<1> DEFINE n == pos[t]
<1> USE CapacityAssumption
<1>1. /\ n = head
      /\ head' = n + 1
      /\ tail' = tail
      /\ sequence' = sequence
      /\ pos' = pos
      /\ pc[t] = "popCas"
      /\ pc' = [pc EXCEPT ![t] = "popRead"]
      /\ RingTypeOK
  BY DEF PopClaim, Goto, RingInv
<1>2. /\ head \in Nat
      /\ tail \in Nat
      /\ n \in Nat
      /\ pos \in [Threads -> Nat]
      /\ pc \in [Threads -> Labels]
      /\ sequence \in [Slots -> Nat]
  BY <1>1 DEF RingTypeOK
<1>3. sequence[Slot(n)] = n + 1
  BY <1>1 DEF RingInv, CheckedTurn
<1>4. head < tail
  <2>1. SUFFICES ASSUME tail = head PROVE FALSE
    BY <1>2 DEF RingInv, WithinOneLap
  <2>2. head \in tail .. head + Capacity - 1
    BY <1>2, <2>1
  <2>3. sequence[Slot(head)] \in {head, head + 1 - Capacity}
    BY <2>2 DEF RingInv, FreeSlots
  <2> QED
    BY <1>1, <1>2, <1>3, <2>3
<1>5. \A u \in Threads :
         /\ Writing(u)' <=> Writing(u)
         /\ Reading(u)' <=> Reading(u) \/ u = t
  BY <1>1, <1>2 DEF Writing, Reading
<1>6. ~ Writing(t) /\ ~ Reading(t)
  BY <1>1 DEF Writing, Reading
<1>7. WithinOneLap'
  BY <1>1, <1>2, <1>4 DEF RingInv, WithinOneLap
<1>8. QueuedSlots'
  BY <1>1, <1>2, <1>5 DEF RingInv, QueuedSlots
<1>9. FreeSlots'
  <2> SUFFICES ASSUME NEW m \in tail .. n + Capacity
               PROVE  \/ sequence[Slot(m)] = m
                      \/ /\ sequence[Slot(m)] = m + 1 - Capacity
                         /\ \E u \in Threads : Reading(u)' /\ pos[u] = m - Capacity
    BY <1>1, <1>2 DEF FreeSlots
  <2>1. CASE m = n + Capacity
    <3>1. Slot(m) = Slot(n) /\ m - Capacity = n
      BY <1>2, <2>1, SlotFacts
    <3> QED
      BY <1>1, <1>2, <1>3, <1>5, <2>1, <3>1
  <2>2. CASE m \in tail .. head + Capacity - 1
    BY <1>5, <2>2 DEF RingInv, FreeSlots
  <2> QED
    BY <1>1, <1>2, <2>1, <2>2
<1>10. WriterTicket'
  <2> SUFFICES ASSUME NEW u \in Threads, Writing(u)
               PROVE  head + 1 <= pos[u]
    BY <1>1, <1>2, <1>5 DEF RingInv, WriterTicket
  <2>1. /\ pos[u] \in Nat
        /\ head <= pos[u]
        /\ sequence[Slot(pos[u])] = pos[u]
    BY <1>2 DEF RingInv, WriterTicket
  <2> QED
    BY <1>1, <1>2, <1>3, <2>1
<1>11. ReaderTicket'
  BY <1>1, <1>2, <1>3, <1>5 DEF RingInv, ReaderTicket, WithinOneLap
<1>12. TicketsUnique'
  BY <1>1, <1>2, <1>5 DEF RingInv, TicketsUnique, ReaderTicket
<1>13. CheckedTurn'
  BY <1>1, <1>2 DEF RingInv, CheckedTurn
<1>14. OvertakenTurn'
  BY <1>1, <1>2, <1>3 DEF RingInv, OvertakenTurn, CheckedTurn
<1> QED
  BY <1>7, <1>8, <1>9, <1>10, <1>11, <1>12, <1>13, <1>14 DEF RingInv

LEMMA PushPublishStep ==
  ASSUME RingInv, Capacity >= 2, NEW t \in Threads, PushPublish(t), RingTypeOK'
  PROVE  RingInv'
<1> DEFINE n == pos[t]
<1> USE CapacityAssumption
<1>1. /\ head' = head
      /\ tail' = tail
      /\ sequence' = [sequence EXCEPT ![Slot(n)] = n + 1]
      /\ pos' = pos
      /\ pc[t] = "pushPublish"
      /\ pc' = [pc EXCEPT ![t] = "idle"]
      /\ RingTypeOK
  BY DEF PushPublish, Goto, RingInv
<1>2. /\ head \in Nat
      /\ tail \in Nat
      /\ n \in Nat
      /\ Slot(n) \in Slots
      /\ pos \in [Threads -> Nat]
      /\ pc \in [Threads -> Labels]
      /\ sequence \in [Slots -> Nat]
  BY <1>1, SlotFacts DEF RingTypeOK
<1>3. /\ head <= n
      /\ n < tail
      /\ tail <= head + Capacity
      /\ sequence[Slot(n)] = n
  BY <1>1, <1>2 DEF RingInv, WriterTicket, WithinOneLap, Writing
<1>4. \A u \in Threads :
         /\ Writing(u)' <=> Writing(u) /\ u # t
         /\ Reading(u)' <=> Reading(u)
  BY <1>1, <1>2 DEF Writing, Reading
<1>5. ASSUME NEW m \in Nat, m # n, m < n + Capacity, n < m + Capacity
      PROVE  sequence'[Slot(m)] = sequence[Slot(m)]
  <2>1. Slot(m) # Slot(n)
    BY <1>2, <1>5, SlotApart
  <2> QED
    BY <1>1, <1>2, <2>1, SlotFacts
<1>6. WithinOneLap'
  BY <1>1 DEF RingInv, WithinOneLap
<1>7. QueuedSlots'
  <2> SUFFICES ASSUME NEW m \in head .. tail - 1
               PROVE  \/ sequence'[Slot(m)] = m + 1
                      \/ /\ sequence'[Slot(m)] = m
                         /\ \E u \in Threads : Writing(u)' /\ pos[u] = m
    BY <1>1 DEF QueuedSlots
  <2>1. CASE m = n
    BY <1>1, <1>2, <2>1
  <2>2. CASE m # n
    <3>1. sequence'[Slot(m)] = sequence[Slot(m)]
      BY <1>2, <1>3, <1>5, <2>2
    <3> QED
      BY <1>4, <2>2, <3>1 DEF RingInv, QueuedSlots
  <2> QED
    BY <2>1, <2>2
<1>8. FreeSlots'
  <2> SUFFICES ASSUME NEW m \in tail .. head + Capacity - 1
               PROVE  \/ sequence'[Slot(m)] = m
                      \/ /\ sequence'[Slot(m)] = m + 1 - Capacity
                         /\ \E u \in Threads : Reading(u)' /\ pos[u] = m - Capacity
    BY <1>1 DEF FreeSlots
  <2>1. sequence'[Slot(m)] = sequence[Slot(m)]
    BY <1>2, <1>3, <1>5
  <2> QED
    BY <1>4, <2>1 DEF RingInv, FreeSlots
<1>9. WriterTicket'
  <2> SUFFICES ASSUME NEW u \in Threads, Writing(u), u # t
               PROVE  /\ head <= pos[u]
                      /\ pos[u] < tail
                      /\ sequence'[Slot(pos[u])] = pos[u]
    BY <1>1, <1>4 DEF WriterTicket
  <2>1. /\ pos[u] \in Nat
        /\ head <= pos[u]
        /\ pos[u] < tail
        /\ sequence[Slot(pos[u])] = pos[u]
    BY <1>2 DEF RingInv, WriterTicket
  <2>2. pos[u] # n
    BY <1>1 DEF RingInv, TicketsUnique, Writing
  <2> QED
    BY <1>2, <1>3, <1>5, <2>1, <2>2
<1>10. ReaderTicket'
  <2> SUFFICES ASSUME NEW u \in Threads, Reading(u)
               PROVE  /\ pos[u] < head
                      /\ tail <= pos[u] + Capacity
                      /\ sequence'[Slot(pos[u])] = pos[u] + 1
    BY <1>1, <1>4 DEF ReaderTicket
  <2>1. /\ pos[u] \in Nat
        /\ pos[u] < head
        /\ tail <= pos[u] + Capacity
        /\ sequence[Slot(pos[u])] = pos[u] + 1
    BY <1>2 DEF RingInv, ReaderTicket
  <2> QED
    BY <1>2, <1>3, <1>5, <2>1
<1>11. TicketsUnique'
  BY <1>1, <1>4 DEF RingInv, TicketsUnique
<1>12. CheckedTurn'
  <2> SUFFICES ASSUME NEW u \in Threads, u # t
               PROVE  /\ pc[u] = "pushCas" /\ pos[u] = tail =>
                            sequence'[Slot(pos[u])] = pos[u]
                      /\ pc[u] = "popCas" /\ pos[u] = head =>
                            sequence'[Slot(pos[u])] = pos[u] + 1
    BY <1>1, <1>2 DEF RingInv, CheckedTurn
  <2>1. CASE pc[u] = "pushCas" /\ pos[u] = tail
    <3>1. sequence[Slot(tail)] = tail
      BY <2>1 DEF RingInv, CheckedTurn
    <3>2. Slot(tail) # Slot(n)
      BY <1>2, <1>3, <3>1
    <3> QED
      BY <1>1, <1>2, <2>1, <3>1, <3>2, SlotFacts
  <2>2. CASE pc[u] = "popCas" /\ pos[u] = head
    <3>1. sequence[Slot(head)] = head + 1
      BY <2>2 DEF RingInv, CheckedTurn
    <3>2. Slot(head) # Slot(n)
      BY <1>2, <1>3, <3>1, SlotFacts
    <3> QED
      BY <1>1, <1>2, <2>2, <3>1, <3>2, SlotFacts
  <2> QED
    BY <2>1, <2>2
<1>13. OvertakenTurn'
  <2>1. \A m \in Nat : sequence'[Slot(m)] >= sequence[Slot(m)]
    BY <1>1, <1>2, <1>3, SlotFacts
  <2>2. \A m \in Nat : sequence[Slot(m)] \in Nat /\ sequence'[Slot(m)] \in Nat
    BY <1>2, SlotFacts DEF RingTypeOK
  <2> QED
    BY <1>1, <1>2, <2>1, <2>2 DEF RingInv, OvertakenTurn
<1> QED
  BY <1>6, <1>7, <1>8, <1>9, <1>10, <1>11, <1>12, <1>13 DEF RingInv

LEMMA PopReleaseStep ==
  ASSUME RingInv, Capacity >= 2, NEW t \in Threads, PopRelease(t), RingTypeOK'
  PROVE  RingInv'
<1> DEFINE n == pos[t]
<1> USE CapacityAssumption
<1>1. /\ head' = head
      /\ tail' = tail
      /\ sequence' = [sequence EXCEPT ![Slot(n)] = n + Capacity]
      /\ pos' = pos
      /\ pc[t] = "popRelease"
      /\ pc' = [pc EXCEPT ![t] = "idle"]
      /\ RingTypeOK
  BY DEF PopRelease, Goto, RingInv
<1>2. /\ head \in Nat
      /\ tail \in Nat
      /\ n \in Nat
      /\ Slot(n) \in Slots
      /\ pos \in [Threads -> Nat]
      /\ pc \in [Threads -> Labels]
      /\ sequence \in [Slots -> Nat]
  BY <1>1, SlotFacts DEF RingTypeOK
<1>3. /\ n < head
      /\ tail <= n + Capacity
      /\ head <= tail
      /\ sequence[Slot(n)] = n + 1
  BY <1>1, <1>2 DEF RingInv, ReaderTicket, WithinOneLap, Reading
<1>4. \A u \in Threads :
         /\ Writing(u)' <=> Writing(u)
         /\ Reading(u)' <=> Reading(u) /\ u # t
  BY <1>1, <1>2 DEF Writing, Reading
<1>5. ASSUME NEW m \in Nat, m # n, m < n + Capacity, n < m + Capacity
      PROVE  sequence'[Slot(m)] = sequence[Slot(m)]
  <2>1. Slot(m) # Slot(n)
    BY <1>2, <1>5, SlotApart
  <2> QED
    BY <1>1, <1>2, <2>1, SlotFacts
<1>6. WithinOneLap'
  BY <1>1 DEF RingInv, WithinOneLap
<1>7. QueuedSlots'
  <2> SUFFICES ASSUME NEW m \in head .. tail - 1
               PROVE  \/ sequence'[Slot(m)] = m + 1
                      \/ /\ sequence'[Slot(m)] = m
                         /\ \E u \in Threads : Writing(u)' /\ pos[u] = m
    BY <1>1 DEF QueuedSlots
  <2>1. sequence'[Slot(m)] = sequence[Slot(m)]
    BY <1>2, <1>3, <1>5
  <2> QED
    BY <1>4, <2>1 DEF RingInv, QueuedSlots
<1>8. FreeSlots'
  <2> SUFFICES ASSUME NEW m \in tail .. head + Capacity - 1
               PROVE  \/ sequence'[Slot(m)] = m
                      \/ /\ sequence'[Slot(m)] = m + 1 - Capacity
                         /\ \E u \in Threads : Reading(u)' /\ pos[u] = m - Capacity
    BY <1>1 DEF FreeSlots
  <2>0. m \in Nat /\ n + Capacity \in Nat
    BY <1>2
  <2>1. CASE m = n + Capacity
    <3>1. Slot(m) = Slot(n)
      BY <1>2, <2>1, SlotFacts
    <3> QED
      BY <1>1, <1>2, <2>1, <3>1
  <2>2. CASE m # n + Capacity
    <3>1. Slot(m) # Slot(n)
      <4>1. SUFFICES ASSUME Slot(m) = Slot(n + Capacity) PROVE FALSE
        BY <1>2, SlotFacts
      <4>2. \/ m + Capacity <= n + Capacity
            \/ n + Capacity + Capacity <= m
        BY <2>0, <2>2, <4>1, SlotFacts
      <4> QED
        BY <1>2, <1>3, <2>0, <4>2
    <3>2. sequence'[Slot(m)] = sequence[Slot(m)]
      BY <1>1, <1>2, <2>0, <3>1, SlotFacts
    <3>3. n # m - Capacity
      BY <1>2, <2>0, <2>2
    <3> QED
      BY <1>4, <3>2, <3>3 DEF RingInv, FreeSlots
  <2> QED
    BY <2>1, <2>2
<1>9. WriterTicket'
  <2> SUFFICES ASSUME NEW u \in Threads, Writing(u)
               PROVE  /\ head <= pos[u]
                      /\ pos[u] < tail
                      /\ sequence'[Slot(pos[u])] = pos[u]
    BY <1>1, <1>4 DEF WriterTicket
  <2>1. /\ pos[u] \in Nat
        /\ head <= pos[u]
        /\ pos[u] < tail
        /\ sequence[Slot(pos[u])] = pos[u]
    BY <1>2 DEF RingInv, WriterTicket
  <2> QED
    BY <1>2, <1>3, <1>5, <2>1
<1>10. ReaderTicket'
  <2> SUFFICES ASSUME NEW u \in Threads, Reading(u), u # t
               PROVE  /\ pos[u] < head
                      /\ tail <= pos[u] + Capacity
                      /\ sequence'[Slot(pos[u])] = pos[u] + 1
    BY <1>1, <1>4 DEF ReaderTicket
  <2>1. /\ pos[u] \in Nat
        /\ pos[u] < head
        /\ tail <= pos[u] + Capacity
        /\ sequence[Slot(pos[u])] = pos[u] + 1
    BY <1>2 DEF RingInv, ReaderTicket
  <2>2. pos[u] # n
    BY <1>1 DEF RingInv, TicketsUnique, Reading
  <2> QED
    BY <1>2, <1>3, <1>5, <2>1, <2>2
<1>11. TicketsUnique'
  BY <1>1, <1>4 DEF RingInv, TicketsUnique
<1>12. CheckedTurn'
  <2> SUFFICES ASSUME NEW u \in Threads, u # t
               PROVE  /\ pc[u] = "pushCas" /\ pos[u] = tail =>
                            sequence'[Slot(pos[u])] = pos[u]
                      /\ pc[u] = "popCas" /\ pos[u] = head =>
                            sequence'[Slot(pos[u])] = pos[u] + 1
    BY <1>1, <1>2 DEF RingInv, CheckedTurn
  <2>1. CASE pc[u] = "pushCas" /\ pos[u] = tail
    <3>1. sequence[Slot(tail)] = tail
      BY <2>1 DEF RingInv, CheckedTurn
    <3>2. Slot(tail) # Slot(n)
      <4>1. SUFFICES ASSUME Slot(tail) = Slot(n) PROVE FALSE
        OBVIOUS
      <4>2. tail = n + Capacity
        <5>1. n + Capacity <= tail
          BY <1>2, <1>3, <4>1, SlotSameLap
        <5> QED
          BY <1>2, <1>3, <5>1
      <4> QED
        BY <1>2, <1>3, <3>1, <4>1, <4>2
    <3> QED
      BY <1>1, <1>2, <2>1, <3>1, <3>2, SlotFacts
  <2>2. CASE pc[u] = "popCas" /\ pos[u] = head
    <3>1. sequence[Slot(head)] = head + 1
      BY <2>2 DEF RingInv, CheckedTurn
    <3>2. Slot(head) # Slot(n)
      BY <1>2, <1>3, <3>1
    <3> QED
      BY <1>1, <1>2, <2>2, <3>1, <3>2, SlotFacts
  <2> QED
    BY <2>1, <2>2
<1>13. OvertakenTurn'
  <2>1. \A m \in Nat : sequence'[Slot(m)] >= sequence[Slot(m)]
    BY <1>1, <1>2, <1>3, SlotFacts
  <2>2. \A m \in Nat : sequence[Slot(m)] \in Nat /\ sequence'[Slot(m)] \in Nat
    BY <1>2, SlotFacts DEF RingTypeOK
  <2> QED
    BY <1>1, <1>2, <2>1, <2>2 DEF RingInv, OvertakenTurn
<1> QED
  BY <1>6, <1>7, <1>8, <1>9, <1>10, <1>11, <1>12, <1>13 DEF RingInv

-----------------------------------------------------------------------------
(***************************************************************************)
(* All the other steps.                                                    *)
(***************************************************************************)
LEMMA PushLocalStep ==
  ASSUME RingInv, NEW t \in Threads, RingTypeOK',
         \/ \E v \in Values : PushBegin(t, v)
         \/ PushLoad(t)
         \/ PushMyTurn(t)
         \/ PushFull(t)
         \/ PushOvertaken(t)
         \/ PushClaimFails(t)
         \/ PushWrite(t)
  PROVE  RingInv'
<1> USE DEF Goto, ringVars
<1>1. /\ head \in Nat
      /\ tail \in Nat
      /\ pos \in [Threads -> Nat]
      /\ pc \in [Threads -> Labels]
      /\ CheckedTurn
  BY DEF RingInv, RingTypeOK
<1>2. UNCHANGED <<head, tail, sequence>>
  BY DEF PushBegin, PushLoad, PushMyTurn, PushFull, PushOvertaken,
         PushClaimFails, PushWrite
<1>3. \A u \in Threads :
         /\ Writing(u)' <=> Writing(u)
         /\ Reading(u)' <=> Reading(u)
         /\ Writing(u) \/ Reading(u) => pos'[u] = pos[u]
  BY <1>1 DEF PushBegin, PushLoad, PushMyTurn, PushFull, PushOvertaken,
              PushClaimFails, PushWrite, Writing, Reading
<1>4. CheckedTurn'
  BY <1>1 DEF PushBegin, PushLoad, PushMyTurn, PushFull, PushOvertaken,
              PushClaimFails, PushWrite, CheckedTurn
<1>5. OvertakenTurn'
  BY <1>1 DEF PushBegin, PushLoad, PushMyTurn, PushFull, PushOvertaken,
              PushClaimFails, PushWrite, RingInv, OvertakenTurn
<1> QED
  BY <1>2, <1>3, <1>4, <1>5, LocalStep

LEMMA PopLocalStep ==
  ASSUME RingInv, NEW t \in Threads, RingTypeOK',
         \/ PopBegin(t)
         \/ PopLoad(t)
         \/ PopMyTurn(t)
         \/ PopEmpty(t)
         \/ PopOvertaken(t)
         \/ PopClaimFails(t)
         \/ PopRead(t)
  PROVE  RingInv'
<1> USE DEF Goto, ringVars
<1>1. /\ head \in Nat
      /\ tail \in Nat
      /\ pos \in [Threads -> Nat]
      /\ pc \in [Threads -> Labels]
      /\ CheckedTurn
  BY DEF RingInv, RingTypeOK
<1>2. UNCHANGED <<head, tail, sequence>>
  BY DEF PopBegin, PopLoad, PopMyTurn, PopEmpty, PopOvertaken,
         PopClaimFails, PopRead
<1>3. \A u \in Threads :
         /\ Writing(u)' <=> Writing(u)
         /\ Reading(u)' <=> Reading(u)
         /\ Writing(u) \/ Reading(u) => pos'[u] = pos[u]
  BY <1>1 DEF PopBegin, PopLoad, PopMyTurn, PopEmpty, PopOvertaken,
              PopClaimFails, PopRead, Writing, Reading
<1>4. CheckedTurn'
  BY <1>1 DEF PopBegin, PopLoad, PopMyTurn, PopEmpty, PopOvertaken,
              PopClaimFails, PopRead, CheckedTurn
<1>5. OvertakenTurn'
  BY <1>1 DEF PopBegin, PopLoad, PopMyTurn, PopEmpty, PopOvertaken,
              PopClaimFails, PopRead, RingInv, OvertakenTurn
<1> QED
  BY <1>2, <1>3, <1>4, <1>5, LocalStep

LEMMA NextInv == Capacity >= 2 /\ RingInv /\ [RingNext]_allVars => RingInv'
<1> SUFFICES ASSUME Capacity >= 2, RingInv, [RingNext]_allVars
             PROVE  RingInv'
  OBVIOUS
<1>1. RingTypeOK'
  BY TypeStep DEF RingInv
<1>2. ASSUME NEW t \in Threads,
             \/ \E v \in Values : PushBegin(t, v)
             \/ PushStep(t)
      PROVE  RingInv'
  BY <1>1, <1>2, PushLocalStep, PushClaimStep, PushPublishStep DEF PushStep
<1>3. ASSUME NEW t \in Threads, PopBegin(t) \/ PopStep(t)
      PROVE  RingInv'
  BY <1>1, <1>3, PopLocalStep, PopClaimStep, PopReleaseStep DEF PopStep
<1>4. CASE UNCHANGED allVars
  BY <1>4 DEF allVars, RingInv, RingTypeOK, WithinOneLap, QueuedSlots, FreeSlots,
              WriterTicket, ReaderTicket, TicketsUnique, CheckedTurn,
              OvertakenTurn, Writing, Reading
<1> QED
  BY <1>2, <1>3, <1>4 DEF RingNext

(***************************************************************************)
(* Two tickets in use at the same time lie within one lap of each other,   *)
(* and are different: so are their slots.                                  *)
(***************************************************************************)
LEMMA SlotsApart == Capacity >= 2 /\ RingInv => NoSlotRace
<1> SUFFICES ASSUME Capacity >= 2, RingInv,
                    NEW t \in Threads, NEW u \in Threads, t # u,
                    Writing(t) \/ Reading(t), Writing(u) \/ Reading(u)
             PROVE  Slot(pos[t]) # Slot(pos[u])
  BY DEF NoSlotRace
<1>1. /\ head \in Nat
      /\ tail \in Nat
      /\ pos[t] \in Nat
      /\ pos[u] \in Nat
      /\ tail <= head + Capacity
      /\ head <= tail
  BY DEF RingInv, RingTypeOK, WithinOneLap
<1>2. CASE Writing(t) /\ Writing(u)
  <2>1. /\ pos[t] # pos[u]
        /\ pos[t] \in head .. tail - 1
        /\ pos[u] \in head .. tail - 1
    BY <1>1, <1>2 DEF RingInv, WriterTicket, TicketsUnique
  <2> QED
    BY <1>1, <2>1, SlotApart, CapacityAssumption
<1>3. CASE Reading(t) /\ Reading(u)
  <2>1. /\ pos[t] # pos[u]
        /\ tail - Capacity <= pos[t] /\ pos[t] < head
        /\ tail - Capacity <= pos[u] /\ pos[u] < head
    BY <1>1, <1>3, CapacityAssumption DEF RingInv, ReaderTicket, TicketsUnique
  <2> QED
    BY <1>1, <2>1, SlotApart, CapacityAssumption
<1>4. CASE \/ Writing(t) /\ Reading(u)
           \/ Reading(t) /\ Writing(u)
  <2>1. \/ /\ pos[u] < head /\ head <= pos[t]
           /\ pos[t] < tail /\ tail <= pos[u] + Capacity
        \/ /\ pos[t] < head /\ head <= pos[u]
           /\ pos[u] < tail /\ tail <= pos[t] + Capacity
    BY <1>4 DEF RingInv, WriterTicket, ReaderTicket
  <2>2. /\ pos[t] # pos[u]
        /\ pos[t] < pos[u] + Capacity
        /\ pos[u] < pos[t] + Capacity
    BY <1>1, <2>1, CapacityAssumption
  <2> QED
    BY <1>1, <2>2, SlotApart
<1> QED
  BY <1>2, <1>3, <1>4

-----------------------------------------------------------------------------
\* Every variable of the ring keeps its type, at any capacity, with any set
\* of threads calling push and pop (mpmc_ring.hpp).
THEOREM RingTypeCorrect == RingSpec => []RingTypeOK
<1>1. RingInit => RingTypeOK
  BY CapacityAssumption DEF RingInit, RingTypeOK, Labels, Slots
<1>2. RingTypeOK /\ [RingNext]_allVars => RingTypeOK'
  BY TypeStep
<1> QED
  BY <1>1, <1>2, PTL DEF RingSpec

\* The strengthened invariant is inductive once the ring has two slots: what
\* the sequence of every slot says about its ticket is true at every moment.
THEOREM RingInvariant == Capacity >= 2 => (RingSpec => []RingInv)
<1> SUFFICES ASSUME Capacity >= 2 PROVE RingSpec => []RingInv
  OBVIOUS
<1>1. RingInit => RingInv
  BY InitInv
<1>2. RingInv /\ [RingNext]_allVars => RingInv'
  BY NextInv
<1> QED
  BY <1>1, <1>2, PTL DEF RingSpec

\* The unsynchronised copies of slot.value in push and pop never meet in one
\* slot, with any number of threads and any capacity of at least two.
THEOREM RingNoSlotRace == Capacity >= 2 => (RingSpec => []NoSlotRace)
<1> SUFFICES ASSUME Capacity >= 2 PROVE RingSpec => []NoSlotRace
  OBVIOUS
<1>1. RingInv => NoSlotRace
  BY SlotsApart
<1> QED
  BY <1>1, RingInvariant, PTL

\* No push claims a slot whose value of the last lap is unread, and no pop a
\* ticket that no push has claimed.
THEOREM RingWithinOneLap == Capacity >= 2 => (RingSpec => []WithinOneLap)
<1> SUFFICES ASSUME Capacity >= 2 PROVE RingSpec => []WithinOneLap
  OBVIOUS
<1>1. RingInv => WithinOneLap
  BY DEF RingInv
<1> QED
  BY <1>1, RingInvariant, PTL

LEMMA HonestAnswers == Capacity >= 2 /\ RingInv => EmptyIsHonest /\ FullIsHonest
<1> SUFFICES ASSUME Capacity >= 2, RingInv
             PROVE  EmptyIsHonest /\ FullIsHonest
  OBVIOUS
<1>1. /\ head \in Nat
      /\ tail \in Nat
      /\ pos \in [Threads -> Nat]
      /\ sequence \in [Slots -> Nat]
      /\ head <= tail
      /\ tail <= head + Capacity
  BY DEF RingInv, RingTypeOK, WithinOneLap
<1>2. EmptyIsHonest
  <2> SUFFICES ASSUME NEW t \in Threads, SeesEmpty(t), head # tail
               PROVE  \E u \in Threads : Writing(u) /\ pos[u] = head
    BY DEF EmptyIsHonest
  <2>1. pos[t] = head
    BY <1>1, SlotFacts DEF RingInv, CheckedTurn, OvertakenTurn, SeesEmpty
  <2>2. head \in head .. tail - 1 /\ sequence[Slot(head)] # head + 1
    BY <1>1, <2>1, SlotFacts DEF SeesEmpty
  <2> QED
    BY <2>2 DEF RingInv, QueuedSlots
<1>3. FullIsHonest
  <2> SUFFICES ASSUME NEW t \in Threads, SeesFull(t), tail # head + Capacity
               PROVE  \E u \in Threads : Reading(u) /\ pos[u] = tail - Capacity
    BY DEF FullIsHonest
  <2>1. pos[t] = tail
    BY <1>1, SlotFacts DEF RingInv, CheckedTurn, OvertakenTurn, SeesFull
  <2>2. tail \in tail .. head + Capacity - 1 /\ sequence[Slot(tail)] # tail
    BY <1>1, <2>1, SlotFacts, CapacityAssumption DEF SeesFull
  <2> QED
    BY <2>2 DEF RingInv, FreeSlots
<1> QED
  BY <1>2, <1>3

\* A pop that returns false has seen a ring without a published oldest value:
\* a worker never parks because it misread the ring.  A push that returns
\* false has found the slot of its ticket taken, by the value of a lap ago
\* still queued or by one whose pop is still copying it out, even if other
\* slots are free.
THEOREM RingAnswersAreHonest == Capacity >= 2 => (RingSpec => []AnswersAreHonest)
<1> SUFFICES ASSUME Capacity >= 2 PROVE RingSpec => []AnswersAreHonest
  OBVIOUS
<1>1. RingInv => AnswersAreHonest
  BY HonestAnswers DEF AnswersAreHonest
<1> QED
  BY <1>1, RingInvariant, PTL

-----------------------------------------------------------------------------
(***************************************************************************)
(* The ring as a bounded queue                                             *)
(***************************************************************************)

\* t is to write the value of ticket n.
Writes(t, n) == pc[t] = "pushWrite" /\ pos[t] = n

\* Only values are queued, and only values are carried out.
ValuesInv ==
    /\ \A t \in Threads :
          pc[t] \in {"pushLoad", "pushCheck", "pushCas", "pushWrite", "pushPublish"}
             => item[t] \in Values
    /\ \A n \in head .. tail - 1 :
          (\A t \in Threads : ~Writes(t, n)) => value[Slot(n)] \in Values
    /\ \A t \in Threads : pc[t] = "popRead" => value[Slot(pos[t])] \in Values
    /\ \A t \in Threads : pc[t] = "popRelease" => item[t] \in Values

\* ValueOf as a function.
Vals == [n \in Nat |-> ValueOf(n)]

\* The value of a ticket is its writer's until it is in its slot.
ValsAre ==
    /\ \A n \in Nat : \A t \in Threads : Writes(t, n) => Vals[n] = item[t]
    /\ \A n \in Nat : (\A t \in Threads : ~Writes(t, n)) => Vals[n] = value[Slot(n)]
    /\ Queue = [i \in 1 .. tail - head |-> Vals[head + i - 1]]

LEMMA ValsLemma == RingInv => ValsAre
<1> SUFFICES ASSUME RingInv PROVE ValsAre
  OBVIOUS
<1>1. \A t, u \in Threads, n \in Nat : Writes(t, n) /\ Writes(u, n) => t = u
  BY DEF RingInv, TicketsUnique, Writing, Writes
<1>2. ASSUME NEW n \in Nat, NEW t \in Threads, Writes(t, n) PROVE Vals[n] = item[t]
  <2> DEFINE c == CHOOSE u \in Threads : pc[u] = "pushWrite" /\ pos[u] = n
  <2>1. c \in Threads /\ Writes(c, n)
    BY <1>2 DEF Writes
  <2>2. c = t
    BY <1>1, <1>2, <2>1
  <2>3. Vals[n] = item[c]
    BY <1>2 DEF Vals, ValueOf, Writes
  <2> QED
    BY <2>2, <2>3
<1>3. ASSUME NEW n \in Nat, \A t \in Threads : ~Writes(t, n) PROVE Vals[n] = value[Slot(n)]
  BY <1>3 DEF Vals, ValueOf, Writes
<1>4. \A i \in 1 .. tail - head : head + i - 1 \in Nat
  BY DEF RingInv, RingTypeOK
<1>5. Queue = [i \in 1 .. tail - head |-> Vals[head + i - 1]]
  BY <1>4 DEF Queue, Vals
<1> QED
  BY <1>2, <1>3, <1>5 DEF ValsAre

LEMMA ValsNextLemma == RingInv' => ValsAre'
  BY ValsLemma, PTL

\* The queue is a sequence of values.
QueueIs ==
    /\ Queue \in Seq(Values)
    /\ Len(Queue) = tail - head
    /\ \A i \in 1 .. tail - head : Queue[i] = Vals[head + i - 1]

LEMMA QueueLemma == RingInv /\ ValuesInv => QueueIs
<1> SUFFICES ASSUME RingInv, ValuesInv PROVE QueueIs
  OBVIOUS
<1>1. head \in Nat /\ tail \in Nat /\ head <= tail
  BY DEF RingInv, RingTypeOK, WithinOneLap
<1>2. ValsAre
  BY ValsLemma
<1>3. ASSUME NEW n \in head .. tail - 1 PROVE Vals[n] \in Values
  <2>0. n \in Nat
    BY <1>1
  <2>1. CASE \E u \in Threads : Writes(u, n)
    BY <1>2, <2>0, <2>1 DEF ValsAre, ValuesInv, Writes
  <2>2. CASE \A u \in Threads : ~Writes(u, n)
    BY <1>2, <2>0, <2>2 DEF ValsAre, ValuesInv
  <2> QED
    BY <2>1, <2>2
<1>4. \A i \in 1 .. tail - head : head + i - 1 \in head .. tail - 1
  BY <1>1
<1>5. Queue \in [1 .. tail - head -> Values] /\ \A i \in 1 .. tail - head : Queue[i] = Vals[head + i - 1]
  BY <1>2, <1>3, <1>4 DEF ValsAre
<1>6. tail - head \in Nat
  BY <1>1
<1>7. Queue \in Seq(Values) /\ Len(Queue) = tail - head
  BY <1>5, <1>6
<1> QED
  BY <1>5, <1>7 DEF QueueIs

LEMMA QueueNextLemma == RingInv' /\ ValuesInv' => QueueIs'
  BY QueueLemma, PTL

LEMMA SameSequence ==
  ASSUME NEW S, NEW s \in Seq(S), NEW r \in Seq(S), Len(s) = Len(r),
         \A i \in 1 .. Len(s) : s[i] = r[i]
  PROVE  s = r
  OBVIOUS

LEMMA ValsSame ==
  ASSUME RingInv, RingInv', UNCHANGED value,
         \A t \in Threads, n \in Nat : Writes(t, n)' <=> Writes(t, n),
         \A t \in Threads : pc[t] = "pushWrite" => item'[t] = item[t]
  PROVE  \A n \in Nat : Vals'[n] = Vals[n]
<1> SUFFICES ASSUME NEW n \in Nat PROVE Vals'[n] = Vals[n]
  OBVIOUS
<1>0. ValsAre /\ ValsAre'
  BY ValsLemma, ValsNextLemma
<1>1. CASE \E t \in Threads : Writes(t, n)
  <2>1. PICK t \in Threads : Writes(t, n)
    BY <1>1
  <2>2. item'[t] = item[t] /\ Writes(t, n)'
    BY <2>1 DEF Writes
  <2> QED
    BY <1>0, <2>1, <2>2 DEF ValsAre
<1>2. CASE \A t \in Threads : ~Writes(t, n)
  <2>1. \A t \in Threads : ~Writes(t, n)'
    BY <1>2
  <2> QED
    BY <1>0, <1>2, <2>1 DEF ValsAre, Slot
<1> QED
  BY <1>1, <1>2

LEMMA QueueSame ==
  ASSUME RingInv, RingInv', UNCHANGED <<head, tail>>,
         \A n \in head .. tail - 1 : Vals'[n] = Vals[n]
  PROVE  Queue' = Queue
<1>1. \A i \in 1 .. tail - head : head + i - 1 \in head .. tail - 1
  BY DEF RingInv, RingTypeOK
<1>2. Queue = [i \in 1 .. tail - head |-> Vals[head + i - 1]]
  BY ValsLemma DEF ValsAre
<1>3. Queue' = [i \in 1 .. tail' - head' |-> Vals'[head' + i - 1]]
  BY ValsNextLemma DEF ValsAre
<1>4. Queue' = [i \in 1 .. tail - head |-> Vals'[head + i - 1]]
  BY <1>3
<1>5. \A i \in 1 .. tail - head : Vals'[head + i - 1] = Vals[head + i - 1]
  BY <1>1
<1> QED
  BY <1>2, <1>4, <1>5

\* A step that claims no ticket and copies no value.
LEMMA ValuesUntouched ==
  ASSUME RingInv, RingInv', ValuesInv, UNCHANGED <<head, tail, value>>,
         \A t \in Threads :
            /\ pc'[t] = "pushWrite" <=> pc[t] = "pushWrite"
            /\ pc[t] = "pushWrite" => pos'[t] = pos[t]
            /\ pc'[t] \in {"pushLoad", "pushCheck", "pushCas", "pushWrite", "pushPublish"}
                  => item'[t] \in Values
            /\ pc[t] = "pushWrite" => item'[t] = item[t]
            /\ pc'[t] = "popRead" <=> pc[t] = "popRead"
            /\ pc[t] = "popRead" => pos'[t] = pos[t]
            /\ pc'[t] = "popRelease" <=> pc[t] = "popRelease"
            /\ pc[t] = "popRelease" => item'[t] = item[t] /\ pos'[t] = pos[t]
  PROVE  ValuesInv' /\ Queue' = Queue /\ Hand' = Hand /\ Lag' = Lag
<1>1. \A t \in Threads : \A n : Writes(t, n)' <=> Writes(t, n)
  BY DEF Writes
<1>2. ValuesInv'
  BY <1>1 DEF ValuesInv, Slot
<1>3. \A n \in Nat : Vals'[n] = Vals[n]
  BY <1>1, ValsSame
<1>4. Queue' = Queue
  <2>1. \A n \in head .. tail - 1 : n \in Nat
    BY DEF RingInv, RingTypeOK
  <2> QED
    BY <1>3, <2>1, QueueSame
<1>5. \A t \in Threads :
         (CASE pc[t] = "popRead" -> value[Slot(pos[t])] [] pc[t] = "popRelease" -> item[t]
            [] OTHER -> NoValue)'
          = CASE pc[t] = "popRead" -> value[Slot(pos[t])] [] pc[t] = "popRelease" -> item[t]
              [] OTHER -> NoValue
  BY DEF Slot
<1>6. Hand' = Hand
  BY <1>5 DEF Hand
<1>7. Lag' = Lag
  <2>1. \A t \in Threads : (IF Reading(t) THEN tail - pos[t] ELSE 0)'
                              = IF Reading(t) THEN tail - pos[t] ELSE 0
    BY DEF Reading
  <2> QED
    BY <2>1 DEF Lag
<1> QED
  BY <1>2, <1>4, <1>6, <1>7

LEMMA LocalFifo ==
  ASSUME RingInv, RingInv', ValuesInv, NEW t \in Threads,
         \/ \E v \in Values : PushBegin(t, v)
         \/ PushLoad(t) \/ PushMyTurn(t) \/ PushFull(t) \/ PushOvertaken(t)
         \/ PushClaimFails(t) \/ PushPublish(t)
         \/ PopBegin(t) \/ PopLoad(t) \/ PopMyTurn(t) \/ PopEmpty(t) \/ PopOvertaken(t)
         \/ PopClaimFails(t)
  PROVE  ValuesInv' /\ UNCHANGED Fifo!vars
<1>0. RingTypeOK
  BY DEF RingInv
<1>1. UNCHANGED <<head, tail, value>>
  BY DEF PushBegin, PushLoad, PushMyTurn, PushFull, PushOvertaken, PushClaimFails,
         PushPublish, PopBegin, PopLoad, PopMyTurn, PopEmpty, PopOvertaken, PopClaimFails,
         ringVars
<1>2. \A u \in Threads \ {t} : pc'[u] = pc[u] /\ pos'[u] = pos[u] /\ item'[u] = item[u]
  BY <1>0
     DEF RingTypeOK, Goto, PushBegin, PushLoad, PushMyTurn, PushFull, PushOvertaken,
         PushClaimFails, PushPublish, PopBegin, PopLoad, PopMyTurn, PopEmpty, PopOvertaken,
         PopClaimFails
<1>3. /\ pc[t] \notin {"pushWrite", "popRead", "popRelease"}
      /\ pc'[t] \notin {"pushWrite", "popRead", "popRelease"}
  BY <1>0
     DEF RingTypeOK, Goto, PushBegin, PushLoad, PushMyTurn, PushFull, PushOvertaken,
         PushClaimFails, PushPublish, PopBegin, PopLoad, PopMyTurn, PopEmpty, PopOvertaken,
         PopClaimFails
<1>4. pc'[t] \in {"pushLoad", "pushCheck", "pushCas", "pushWrite", "pushPublish"}
         => item'[t] \in Values
  BY <1>0
     DEF RingTypeOK, ValuesInv, Goto, PushBegin, PushLoad, PushMyTurn, PushFull, PushOvertaken,
         PushClaimFails, PushPublish, PopBegin, PopLoad, PopMyTurn, PopEmpty, PopOvertaken,
         PopClaimFails
<1>5. \A u \in Threads :
         /\ pc'[u] = "pushWrite" <=> pc[u] = "pushWrite"
         /\ pc[u] = "pushWrite" => pos'[u] = pos[u]
         /\ pc'[u] \in {"pushLoad", "pushCheck", "pushCas", "pushWrite", "pushPublish"}
               => item'[u] \in Values
         /\ pc[u] = "pushWrite" => item'[u] = item[u]
         /\ pc'[u] = "popRead" <=> pc[u] = "popRead"
         /\ pc[u] = "popRead" => pos'[u] = pos[u]
         /\ pc'[u] = "popRelease" <=> pc[u] = "popRelease"
         /\ pc[u] = "popRelease" => item'[u] = item[u] /\ pos'[u] = pos[u]
  BY <1>2, <1>3, <1>4 DEF ValuesInv
<1>6. ValuesInv' /\ Queue' = Queue /\ Hand' = Hand /\ Lag' = Lag
  BY <1>1, <1>5, ValuesUntouched
<1> QED
  BY <1>6 DEF Fifo!vars

\* Steps of threads that claim and release nothing keep the distances.
LEMMA LagSame ==
  ASSUME UNCHANGED <<tail, pos>>, \A t \in Threads : Reading(t)' <=> Reading(t)
  PROVE  Lag' = Lag
<1>1. \A t \in Threads : (IF Reading(t) THEN tail - pos[t] ELSE 0)'
                            = IF Reading(t) THEN tail - pos[t] ELSE 0
  OBVIOUS
<1> QED
  BY <1>1 DEF Lag

\* A thread has a value in its hand while it holds a pop ticket.
LEMMA HandIsReading ==
  ASSUME RingInv, ValuesInv
  PROVE  \A t \in Threads : Hand[t] # NoValue <=> Reading(t)
<1> SUFFICES ASSUME NEW t \in Threads PROVE Hand[t] # NoValue <=> Reading(t)
  OBVIOUS
<1>1. CASE pc[t] = "popRead"
  BY <1>1, NoValueAssumption DEF ValuesInv, Hand, Reading
<1>2. CASE pc[t] = "popRelease"
  BY <1>2, NoValueAssumption DEF ValuesInv, Hand, Reading
<1>3. CASE ~Reading(t)
  BY <1>3 DEF Hand, Reading
<1> QED
  BY <1>1, <1>2, <1>3 DEF Reading

\* The claim of its ticket is where a push takes effect.
LEMMA PushClaimFifo ==
  ASSUME Capacity >= 2, RingInv, RingInv', ValuesInv, NEW t \in Threads, PushClaim(t)
  PROVE  ValuesInv' /\ Fifo!Next
<1>0. PICK k \in Nat : k = tail
  BY DEF RingInv, RingTypeOK
<1>1. /\ pc[t] = "pushCas" /\ pc'[t] = "pushWrite" /\ pos[t] = k /\ tail' = k + 1
      /\ \A u \in Threads \ {t} : pc'[u] = pc[u]
      /\ UNCHANGED <<head, sequence, value, pos, item>>
  BY <1>0 DEF RingInv, RingTypeOK, PushClaim, Goto
<1>2. head \in Nat /\ head <= k /\ k + 1 <= head + Capacity
  BY <1>0, <1>1 DEF RingInv, RingTypeOK, WithinOneLap
<1>3. item[t] \in Values
  BY <1>1 DEF ValuesInv
<1>4. \A u \in Threads, n \in Nat : n < k => (Writes(u, n)' <=> Writes(u, n))
  BY <1>1 DEF Writes
<1>5. Writes(t, k)'
  BY <1>1 DEF Writes
<1>7. ValuesInv'
  <2>1. \A u \in Threads :
           pc'[u] \in {"pushLoad", "pushCheck", "pushCas", "pushWrite", "pushPublish"}
              => item'[u] \in Values
    BY <1>1, <1>3 DEF ValuesInv
  <2>2. ASSUME NEW n \in head' .. tail' - 1, \A u \in Threads : ~Writes(u, n)'
        PROVE  value'[Slot(n)] \in Values
    <3>1. n # k /\ n \in head .. tail - 1 /\ n \in Nat /\ n < k
      BY <1>0, <1>1, <1>2, <1>5, <2>2
    <3>2. \A u \in Threads : ~Writes(u, n)
      BY <1>4, <2>2, <3>1
    <3> QED
      BY <1>1, <3>1, <3>2 DEF ValuesInv
  <2>3. \A u \in Threads : pc'[u] = "popRead" => value'[Slot(pos'[u])] \in Values
    BY <1>1 DEF ValuesInv
  <2>4. \A u \in Threads : pc'[u] = "popRelease" => item'[u] \in Values
    BY <1>1 DEF ValuesInv
  <2> QED
    BY <2>1, <2>2, <2>3, <2>4 DEF ValuesInv, Slot
<1>8. ValsAre /\ ValsAre' /\ QueueIs /\ QueueIs'
  BY <1>7, ValsLemma, ValsNextLemma, QueueLemma, QueueNextLemma
<1>9. ASSUME NEW n \in Nat, n < k PROVE Vals'[n] = Vals[n]
  <2>1. CASE \E u \in Threads : Writes(u, n)
    <3>1. PICK u \in Threads : Writes(u, n)
      BY <2>1
    <3>2. Writes(u, n)' /\ item'[u] = item[u]
      BY <1>1, <1>4, <1>9, <3>1
    <3> QED
      BY <1>8, <3>1, <3>2 DEF ValsAre
  <2>2. CASE \A u \in Threads : ~Writes(u, n)
    <3>1. \A u \in Threads : ~Writes(u, n)'
      BY <1>4, <1>9, <2>2
    <3> QED
      BY <1>1, <1>8, <2>2, <3>1 DEF ValsAre, Slot
  <2> QED
    BY <2>1, <2>2
<1>10. Vals'[k] = item[t]
  BY <1>1, <1>5, <1>8 DEF ValsAre
<1>11. Queue' = Append(Queue, item[t])
  <2>1. /\ Append(Queue, item[t]) \in Seq(Values)
        /\ Len(Append(Queue, item[t])) = Len(Queue) + 1
        /\ \A i \in 1 .. Len(Queue) : Append(Queue, item[t])[i] = Queue[i]
        /\ Append(Queue, item[t])[Len(Queue) + 1] = item[t]
    BY <1>3, <1>8 DEF QueueIs
  <2>2a. Len(Queue) = k - head /\ \A i \in 1 .. k - head : Queue[i] = Vals[head + i - 1]
    BY <1>0, <1>8 DEF QueueIs
  <2>2b. head' = head /\ tail' = k + 1
    BY <1>1
  <2>2c. /\ Queue' \in Seq(Values)
         /\ Len(Queue') = tail' - head'
         /\ \A i \in 1 .. tail' - head' : Queue'[i] = Vals'[head' + i - 1]
    BY <1>8 DEF QueueIs
  <2>2. /\ Len(Queue) = k - head /\ Len(Queue') = k + 1 - head
        /\ Queue' \in Seq(Values)
        /\ \A i \in 1 .. k - head : Queue[i] = Vals[head + i - 1]
        /\ \A i \in 1 .. k + 1 - head : Queue'[i] = Vals'[head + i - 1]
    <3>1. Len(Queue') = k + 1 - head /\ Queue' \in Seq(Values)
      BY <1>2, <2>2b, <2>2c
    <3>2. \A i \in 1 .. k + 1 - head : Queue'[i] = Vals'[head + i - 1]
      <4> SUFFICES ASSUME NEW i \in 1 .. k + 1 - head PROVE Queue'[i] = Vals'[head + i - 1]
        OBVIOUS
      <4>1. i \in 1 .. tail' - head' /\ head' + i - 1 = head + i - 1
        BY <1>2, <2>2b
      <4>2. Queue'[i] = Vals'[head' + i - 1]
        BY <2>2c, <4>1
      <4> QED
        BY <4>1, <4>2
    <3> QED
      BY <2>2a, <3>1, <3>2
  <2>3. \A i \in 1 .. k - head :
            /\ i \in 1 .. k + 1 - head /\ head + i - 1 \in Nat /\ head + i - 1 < k
    BY <1>2
  <2>4. \A i \in 1 .. k + 1 - head : i \in 1 .. k - head \/ i = k - head + 1
    BY <1>2
  <2>5. k - head + 1 \in 1 .. k + 1 - head /\ head + (k - head + 1) - 1 = k
        /\ k + 1 - head = k - head + 1
    BY <1>2
  <2>6. \A i \in 1 .. k - head : Queue'[i] = Append(Queue, item[t])[i]
    BY <1>9, <2>1, <2>2, <2>3
  <2>7. Queue'[k - head + 1] = item[t]
    BY <1>10, <2>2, <2>5
  <2> QED
    BY <2>1, <2>2, <2>4, <2>5, <2>6, <2>7, SameSequence
<1>12. ~Fifo!SlotTaken
  <2>1. Len(Queue) # Capacity
    BY <1>0, <1>2, <1>8, CapacityAssumption DEF QueueIs
  <2>2. ASSUME NEW u \in Threads, Hand[u] # NoValue, Lag[u] = Capacity PROVE FALSE
    <3>1. Reading(u)
      BY <2>2, HandIsReading
    <3>2. PICK n \in Nat : n = pos[u]
      BY DEF RingInv, RingTypeOK
    <3>3. k = n + Capacity
      BY <1>0, <2>2, <3>1, <3>2, CapacityAssumption DEF Lag
    <3>4. Slot(k) = Slot(n)
      BY <3>3, SlotNextLap
    <3>5. sequence[Slot(n)] = n + 1
      BY <3>1, <3>2 DEF RingInv, ReaderTicket
    <3>6. sequence[Slot(k)] = k
      BY <1>0, <1>1 DEF RingInv, CheckedTurn
    <3> QED
      BY <3>3, <3>4, <3>5, <3>6, CapacityAssumption
  <2> QED
    BY <2>1, <2>2 DEF Fifo!SlotTaken
<1>13. Hand' = Hand
  <2>1. \A u \in Threads :
           (CASE pc[u] = "popRead" -> value[Slot(pos[u])] [] pc[u] = "popRelease" -> item[u]
              [] OTHER -> NoValue)'
            = CASE pc[u] = "popRead" -> value[Slot(pos[u])] [] pc[u] = "popRelease" -> item[u]
                [] OTHER -> NoValue
    BY <1>1 DEF Slot
  <2> QED
    BY <2>1 DEF Hand
<1>14. Lag' = [u \in Threads |-> IF Hand[u] = NoValue THEN 0 ELSE Lag[u] + 1]
  <2>1. ASSUME NEW u \in Threads
        PROVE  (IF Reading(u) THEN tail - pos[u] ELSE 0)'
                 = IF Hand[u] = NoValue THEN 0 ELSE Lag[u] + 1
    <3>1. Reading(u)' <=> Reading(u)
      BY <1>1 DEF Reading
    <3>2. pos[u] \in Nat /\ pos'[u] = pos[u]
      BY <1>1 DEF RingInv, RingTypeOK
    <3>3. CASE Reading(u)
      BY <1>0, <1>1, <3>1, <3>2, <3>3, HandIsReading DEF Lag
    <3>4. CASE ~Reading(u)
      BY <3>1, <3>4, HandIsReading
    <3> QED
      BY <3>3, <3>4
  <2> QED
    BY <2>1 DEF Lag
<1>15. PICK v \in Values : v = item[t]
  BY <1>3
<1>16. Fifo!Push(v)
  BY <1>11, <1>12, <1>13, <1>14, <1>15 DEF Fifo!Push
<1> QED
  BY <1>7, <1>16 DEF Fifo!Next

\* The copy into the slot: the value was queued when its ticket was claimed.
LEMMA PushWriteFifo ==
  ASSUME Capacity >= 2, RingInv, RingInv', ValuesInv, NEW t \in Threads, PushWrite(t)
  PROVE  ValuesInv' /\ UNCHANGED Fifo!vars
<1>0. PICK k \in Nat : k = pos[t]
  BY DEF RingInv, RingTypeOK
<1>1. /\ pc[t] = "pushWrite" /\ pc'[t] = "pushPublish"
      /\ \A u \in Threads \ {t} : pc'[u] = pc[u]
      /\ value'[Slot(k)] = item[t]
      /\ \A i \in Slots \ {Slot(k)} : value'[i] = value[i]
      /\ UNCHANGED <<head, tail, sequence, pos, item>>
  BY <1>0, SlotFacts DEF RingInv, RingTypeOK, PushWrite, Goto
<1>2. head \in Nat /\ tail \in Nat /\ head <= k /\ k < tail /\ tail <= head + Capacity
  BY <1>0, <1>1 DEF RingInv, RingTypeOK, WithinOneLap, WriterTicket, Writing
<1>3. \A n \in head .. tail - 1 : n # k => value'[Slot(n)] = value[Slot(n)]
  <2> SUFFICES ASSUME NEW n \in head .. tail - 1, n # k
               PROVE  value'[Slot(n)] = value[Slot(n)]
    OBVIOUS
  <2>1. n \in Nat /\ n < k + Capacity /\ k < n + Capacity
    BY <1>2, CapacityAssumption
  <2>2. Slot(n) # Slot(k)
    BY <2>1, SlotApart
  <2> QED
    BY <1>1, <2>1, <2>2, SlotFacts
<1>4. \A u \in Threads : pc[u] = "popRead" => value'[Slot(pos[u])] = value[Slot(pos[u])]
  <2> SUFFICES ASSUME NEW u \in Threads, pc[u] = "popRead"
               PROVE  value'[Slot(pos[u])] = value[Slot(pos[u])]
    OBVIOUS
  <2>1. u # t /\ Slot(pos[u]) # Slot(pos[t])
    BY <1>1, SlotsApart DEF NoSlotRace, Writing, Reading
  <2>2. Slot(pos[u]) \in Slots
    BY SlotFacts DEF RingInv, RingTypeOK
  <2> QED
    BY <1>0, <1>1, <2>1, <2>2
<1>5. \A u \in Threads, n \in Nat : Writes(u, n)' <=> Writes(u, n) /\ u # t
  BY <1>1 DEF Writes
<1>6. item[t] \in Values
  BY <1>1 DEF ValuesInv
<1>7. ValuesInv'
  <2>1. \A u \in Threads :
           pc'[u] \in {"pushLoad", "pushCheck", "pushCas", "pushWrite", "pushPublish"}
              => item'[u] \in Values
    BY <1>1, <1>6 DEF ValuesInv
  <2>2. ASSUME NEW n \in head' .. tail' - 1, \A u \in Threads : ~Writes(u, n)'
        PROVE  value'[Slot(n)] \in Values
    <3>0. n \in head .. tail - 1 /\ n \in Nat
      BY <1>1, <1>2
    <3>1. CASE n = k
      BY <1>1, <1>6, <3>1
    <3>2. CASE n # k
      <4>1. \A u \in Threads : ~Writes(u, n)
        BY <1>0, <1>5, <2>2, <3>0, <3>2 DEF Writes
      <4> QED
        BY <1>3, <3>0, <3>2, <4>1 DEF ValuesInv
    <3> QED
      BY <3>1, <3>2
  <2>3. \A u \in Threads : pc'[u] = "popRead" => value'[Slot(pos'[u])] \in Values
    BY <1>1, <1>4 DEF ValuesInv
  <2>4. \A u \in Threads : pc'[u] = "popRelease" => item'[u] \in Values
    BY <1>1 DEF ValuesInv
  <2> QED
    BY <2>1, <2>2, <2>3, <2>4 DEF ValuesInv, Slot
<1>8. ValsAre /\ ValsAre'
  BY ValsLemma, ValsNextLemma
<1>9. ASSUME NEW n \in head .. tail - 1 PROVE Vals'[n] = Vals[n]
  <2>0. n \in Nat
    BY <1>2
  <2>1. CASE n = k
    <3>1. Writes(t, n)
      BY <1>0, <1>1, <2>1 DEF Writes
    <3>2. \A u \in Threads : Writes(u, n) => u = t
      BY <3>1 DEF Writes, RingInv, TicketsUnique, Writing
    <3>3. \A u \in Threads : ~Writes(u, n)'
      BY <1>5, <2>0, <3>2
    <3>4. Vals[n] = item[t]
      BY <1>8, <2>0, <3>1 DEF ValsAre
    <3>5. Vals'[n] = value'[Slot(n)]
      BY <1>8, <2>0, <3>3 DEF ValsAre, Slot
    <3> QED
      BY <1>1, <2>1, <3>4, <3>5
  <2>2. CASE n # k /\ \E u \in Threads : Writes(u, n)
    <3>1. PICK u \in Threads : Writes(u, n)
      BY <2>2
    <3>2. u # t
      BY <1>0, <2>2, <3>1 DEF Writes
    <3>3. Writes(u, n)' /\ item'[u] = item[u]
      BY <1>1, <1>5, <2>0, <3>1, <3>2
    <3> QED
      BY <1>8, <2>0, <3>1, <3>3 DEF ValsAre
  <2>3. CASE n # k /\ \A u \in Threads : ~Writes(u, n)
    <3>1. \A u \in Threads : ~Writes(u, n)'
      BY <1>5, <2>0, <2>3
    <3>2. Vals[n] = value[Slot(n)]
      BY <1>8, <2>0, <2>3 DEF ValsAre
    <3>3. Vals'[n] = value'[Slot(n)]
      BY <1>8, <2>0, <3>1 DEF ValsAre, Slot
    <3> QED
      BY <1>3, <2>3, <3>2, <3>3
  <2> QED
    BY <2>1, <2>2, <2>3
<1>10. Queue' = Queue
  BY <1>1, <1>9, QueueSame
<1>11. Hand' = Hand
  <2>1. \A u \in Threads :
           (CASE pc[u] = "popRead" -> value[Slot(pos[u])] [] pc[u] = "popRelease" -> item[u]
              [] OTHER -> NoValue)'
            = CASE pc[u] = "popRead" -> value[Slot(pos[u])] [] pc[u] = "popRelease" -> item[u]
                [] OTHER -> NoValue
    BY <1>1, <1>4 DEF Slot
  <2> QED
    BY <2>1 DEF Hand
<1>12. Lag' = Lag
  BY <1>1, LagSame DEF Reading
<1> QED
  BY <1>7, <1>10, <1>11, <1>12 DEF Fifo!vars

\* The claim of its ticket is where a pop takes effect.
LEMMA PopClaimFifo ==
  ASSUME Capacity >= 2, RingInv, RingInv', ValuesInv, NEW t \in Threads, PopClaim(t)
  PROVE  ValuesInv' /\ Fifo!Next
<1>0. PICK k \in Nat : k = head
  BY DEF RingInv, RingTypeOK
<1>1. /\ pc[t] = "popCas" /\ pc'[t] = "popRead" /\ pos[t] = k /\ head' = k + 1
      /\ \A u \in Threads \ {t} : pc'[u] = pc[u]
      /\ UNCHANGED <<tail, sequence, value, pos, item>>
  BY <1>0 DEF RingInv, RingTypeOK, PopClaim, Goto
<1>2. PICK m \in Nat : m = tail
  BY DEF RingInv, RingTypeOK
<1>3. k + 1 <= m
  BY <1>1, <1>2 DEF RingInv, WithinOneLap
<1>4. \A u \in Threads : ~Writes(u, k)
  <2>1. sequence[Slot(k)] = k + 1
    BY <1>0, <1>1 DEF RingInv, CheckedTurn
  <2> QED
    BY <2>1 DEF RingInv, WriterTicket, Writing, Writes
<1>5. \A u \in Threads, n \in Nat : Writes(u, n)' <=> Writes(u, n)
  BY <1>1 DEF Writes
<1>6. k \in head .. tail - 1
  BY <1>0, <1>2, <1>3
<1>7. value[Slot(k)] \in Values
  BY <1>4, <1>6 DEF ValuesInv
<1>8. ValuesInv'
  <2>1. \A u \in Threads :
           pc'[u] \in {"pushLoad", "pushCheck", "pushCas", "pushWrite", "pushPublish"}
              => item'[u] \in Values
    BY <1>1 DEF ValuesInv
  <2>2. ASSUME NEW n \in head' .. tail' - 1, \A u \in Threads : ~Writes(u, n)'
        PROVE  value'[Slot(n)] \in Values
    <3>1. n \in head .. tail - 1 /\ n \in Nat
      BY <1>0, <1>1, <1>2
    <3>2. \A u \in Threads : ~Writes(u, n)
      BY <1>5, <2>2, <3>1
    <3> QED
      BY <1>1, <3>1, <3>2 DEF ValuesInv
  <2>3. \A u \in Threads : pc'[u] = "popRead" => value'[Slot(pos'[u])] \in Values
    BY <1>1, <1>7 DEF ValuesInv
  <2>4. \A u \in Threads : pc'[u] = "popRelease" => item'[u] \in Values
    BY <1>1 DEF ValuesInv
  <2> QED
    BY <2>1, <2>2, <2>3, <2>4 DEF ValuesInv, Slot
<1>9. ValsAre /\ ValsAre' /\ QueueIs /\ QueueIs'
  BY <1>8, ValsLemma, ValsNextLemma, QueueLemma, QueueNextLemma
<1>10. \A n \in Nat : Vals'[n] = Vals[n]
  BY <1>1, <1>5, ValsSame
<1>11. /\ Queue \in Seq(Values) /\ Len(Queue) = m - k
       /\ \A i \in 1 .. m - k : Queue[i] = Vals[k + i - 1]
  BY <1>0, <1>2, <1>9 DEF QueueIs
<1>12. /\ Queue' \in Seq(Values) /\ Len(Queue') = m - (k + 1)
       /\ \A i \in 1 .. m - (k + 1) : Queue'[i] = Vals'[(k + 1) + i - 1]
  <2>1. head' = k + 1 /\ tail' = m
    BY <1>1, <1>2
  <2>2. /\ Queue' \in Seq(Values)
        /\ Len(Queue') = tail' - head'
        /\ \A i \in 1 .. tail' - head' : Queue'[i] = Vals'[head' + i - 1]
    BY <1>9 DEF QueueIs
  <2> QED
    BY <2>1, <2>2
<1>13. Queue # <<>> /\ Head(Queue) = value[Slot(k)]
  <2>1. Vals[k] = value[Slot(k)]
    BY <1>4, <1>9 DEF ValsAre
  <2>2. 1 \in 1 .. m - k /\ k + 1 - 1 = k
    BY <1>3
  <2>3. Queue[1] = value[Slot(k)] /\ Len(Queue) >= 1
    BY <1>3, <1>11, <2>1, <2>2
  <2> QED
    BY <1>11, <2>3
<1>14. Queue' = Tail(Queue)
  <2>1. /\ Tail(Queue) \in Seq(Values)
        /\ Len(Tail(Queue)) = Len(Queue) - 1
        /\ \A i \in 1 .. Len(Queue) - 1 : Tail(Queue)[i] = Queue[i + 1]
    BY <1>11, <1>13
  <2>2. \A i \in 1 .. m - (k + 1) :
           i + 1 \in 1 .. m - k /\ (k + 1) + i - 1 = k + (i + 1) - 1
             /\ (k + 1) + i - 1 \in Nat
    BY <1>3
  <2>3. Len(Queue) - 1 = m - (k + 1)
    BY <1>11
  <2>4. \A i \in 1 .. m - (k + 1) : Queue'[i] = Tail(Queue)[i]
    <3> SUFFICES ASSUME NEW i \in 1 .. m - (k + 1) PROVE Queue'[i] = Tail(Queue)[i]
      OBVIOUS
    <3>1. Queue'[i] = Vals'[(k + 1) + i - 1]
      BY <1>12
    <3>2. Tail(Queue)[i] = Queue[i + 1]
      BY <2>1, <2>3
    <3>3. Queue[i + 1] = Vals[k + (i + 1) - 1]
      BY <1>11, <2>2
    <3>4. Vals'[(k + 1) + i - 1] = Vals[(k + 1) + i - 1]
      BY <1>10, <2>2
    <3>5. (k + 1) + i - 1 = k + (i + 1) - 1
      OBVIOUS
    <3> QED
      BY <3>1, <3>2, <3>3, <3>4, <3>5
  <2> QED
    BY <1>12, <2>1, <2>3, <2>4, SameSequence
<1>15. Hand[t] = NoValue /\ Hand' = [Hand EXCEPT ![t] = value[Slot(k)]]
  <2>1. \A u \in Threads :
           (CASE pc[u] = "popRead" -> value[Slot(pos[u])] [] pc[u] = "popRelease" -> item[u]
              [] OTHER -> NoValue)'
            = IF u = t THEN value[Slot(k)]
              ELSE CASE pc[u] = "popRead" -> value[Slot(pos[u])]
                     [] pc[u] = "popRelease" -> item[u]
                     [] OTHER -> NoValue
    BY <1>1 DEF Slot
  <2> QED
    BY <1>1, <2>1 DEF Hand
<1>16. Lag' = [Lag EXCEPT ![t] = Len(Queue)]
  <2>1. \A u \in Threads : (IF Reading(u) THEN tail - pos[u] ELSE 0)'
                              = IF u = t THEN m - k
                                ELSE IF Reading(u) THEN tail - pos[u] ELSE 0
    BY <1>1, <1>2 DEF Reading
  <2> QED
    BY <1>11, <2>1 DEF Lag
<1>17. Fifo!Pop(t)
  BY <1>13, <1>14, <1>15, <1>16 DEF Fifo!Pop
<1> QED
  BY <1>8, <1>17 DEF Fifo!Next

LEMMA PopReadFifo ==
  ASSUME RingInv, RingInv', ValuesInv, NEW t \in Threads, PopRead(t)
  PROVE  ValuesInv' /\ UNCHANGED Fifo!vars
<1>1. /\ pc[t] = "popRead" /\ pc'[t] = "popRelease"
      /\ \A u \in Threads \ {t} : pc'[u] = pc[u] /\ item'[u] = item[u]
      /\ item'[t] = value[Slot(pos[t])]
      /\ UNCHANGED <<head, tail, sequence, value, pos>>
  BY DEF RingInv, RingTypeOK, PopRead, Goto, ringVars
<1>2. \A u \in Threads : \A n : Writes(u, n)' <=> Writes(u, n)
  BY <1>1 DEF Writes
<1>3. ValuesInv'
  BY <1>1, <1>2 DEF ValuesInv, Slot
<1>4. Queue' = Queue
  <2>1. \A n \in head .. tail - 1 : n \in Nat
    BY DEF RingInv, RingTypeOK
  <2>2. \A n \in Nat : Vals'[n] = Vals[n]
    BY <1>1, <1>2, ValsSame
  <2> QED
    BY <1>1, <2>1, <2>2, QueueSame
<1>5. Hand' = Hand
  <2>1. \A u \in Threads :
           (CASE pc[u] = "popRead" -> value[Slot(pos[u])] [] pc[u] = "popRelease" -> item[u]
              [] OTHER -> NoValue)'
            = CASE pc[u] = "popRead" -> value[Slot(pos[u])] [] pc[u] = "popRelease" -> item[u]
                [] OTHER -> NoValue
    BY <1>1 DEF Slot
  <2> QED
    BY <2>1 DEF Hand
<1>6. Lag' = Lag
  BY <1>1, LagSame DEF Reading
<1> QED
  BY <1>3, <1>4, <1>5, <1>6 DEF Fifo!vars

LEMMA PopReleaseFifo ==
  ASSUME RingInv, RingInv', ValuesInv, NEW t \in Threads, PopRelease(t)
  PROVE  ValuesInv' /\ Fifo!Next
<1>1. /\ pc[t] = "popRelease" /\ pc'[t] = "idle"
      /\ \A u \in Threads \ {t} : pc'[u] = pc[u]
      /\ UNCHANGED <<head, tail, value, pos, item>>
  BY DEF RingInv, RingTypeOK, PopRelease, Goto
<1>2. \A u \in Threads : \A n : Writes(u, n)' <=> Writes(u, n)
  BY <1>1 DEF Writes
<1>3. ValuesInv'
  BY <1>1, <1>2 DEF ValuesInv, Slot
<1>4. Queue' = Queue
  <2>1. \A n \in head .. tail - 1 : n \in Nat
    BY DEF RingInv, RingTypeOK
  <2>2. \A n \in Nat : Vals'[n] = Vals[n]
    BY <1>1, <1>2, ValsSame
  <2> QED
    BY <1>1, <2>1, <2>2, QueueSame
<1>5. Hand[t] # NoValue /\ Hand' = [Hand EXCEPT ![t] = NoValue]
  <2>1. \A u \in Threads :
           (CASE pc[u] = "popRead" -> value[Slot(pos[u])] [] pc[u] = "popRelease" -> item[u]
              [] OTHER -> NoValue)'
            = IF u = t THEN NoValue
              ELSE CASE pc[u] = "popRead" -> value[Slot(pos[u])]
                     [] pc[u] = "popRelease" -> item[u]
                     [] OTHER -> NoValue
    BY <1>1 DEF Slot
  <2>2. item[t] \in Values
    BY <1>1 DEF ValuesInv
  <2>3. Hand[t] = item[t]
    BY <1>1 DEF Hand
  <2> QED
    BY <2>1, <2>2, <2>3, NoValueAssumption DEF Hand
<1>6. Lag' = [Lag EXCEPT ![t] = 0]
  <2>1. \A u \in Threads : (IF Reading(u) THEN tail - pos[u] ELSE 0)'
                              = IF u = t THEN 0
                                ELSE IF Reading(u) THEN tail - pos[u] ELSE 0
    BY <1>1 DEF Reading
  <2> QED
    BY <2>1 DEF Lag
<1>7. Fifo!Return(t)
  BY <1>4, <1>5, <1>6 DEF Fifo!Return
<1> QED
  BY <1>3, <1>7 DEF Fifo!Next

LEMMA FifoStep ==
  Capacity >= 2 /\ RingInv /\ RingInv' /\ ValuesInv /\ [RingNext]_allVars
     => ValuesInv' /\ [Fifo!Next]_(Fifo!vars)
<1> SUFFICES ASSUME Capacity >= 2, RingInv, RingInv', ValuesInv, [RingNext]_allVars
             PROVE  ValuesInv' /\ [Fifo!Next]_(Fifo!vars)
  OBVIOUS
<1>1. CASE UNCHANGED allVars
  <2>1. ValuesInv' /\ Queue' = Queue /\ Hand' = Hand /\ Lag' = Lag
    BY <1>1, ValuesUntouched DEF allVars, ValuesInv
  <2> QED
    BY <2>1 DEF Fifo!vars
<1>2. CASE RingNext
  <2> PICK t \in Threads :
        \/ \E v \in Values : PushBegin(t, v)
        \/ PopBegin(t)
        \/ PushStep(t)
        \/ PopStep(t)
    BY <1>2 DEF RingNext
  <2>1. CASE PushClaim(t)
    BY <2>1, PushClaimFifo
  <2>2. CASE PushWrite(t)
    BY <2>2, PushWriteFifo
  <2>3. CASE PopClaim(t)
    BY <2>3, PopClaimFifo
  <2>4. CASE PopRead(t)
    BY <2>4, PopReadFifo
  <2>5. CASE PopRelease(t)
    BY <2>5, PopReleaseFifo
  <2>6. CASE \/ \E v \in Values : PushBegin(t, v)
             \/ PushLoad(t) \/ PushMyTurn(t) \/ PushFull(t) \/ PushOvertaken(t)
             \/ PushClaimFails(t) \/ PushPublish(t)
             \/ PopBegin(t) \/ PopLoad(t) \/ PopMyTurn(t) \/ PopEmpty(t)
             \/ PopOvertaken(t) \/ PopClaimFails(t)
    BY <2>6, LocalFifo
  <2> QED
    BY <2>1, <2>2, <2>3, <2>4, <2>5, <2>6 DEF PushStep, PopStep
<1> QED
  BY <1>1, <1>2

LEMMA FifoInit == RingInit => ValuesInv /\ Fifo!Init
<1> SUFFICES ASSUME RingInit PROVE ValuesInv /\ Fifo!Init
  OBVIOUS
<1>1. ValuesInv
  BY DEF RingInit, ValuesInv
<1>2. Queue = <<>>
  BY DEF RingInit, Queue
<1>3. Hand = [t \in Threads |-> NoValue]
  BY DEF RingInit, Hand
<1>4. Lag = [t \in Threads |-> 0]
  BY DEF RingInit, Lag, Reading
<1> QED
  BY <1>1, <1>2, <1>3, <1>4 DEF Fifo!Init

\* The ring implements the bounded queue, for any threads, values and capacity
\* of at least two: every value pushed is taken once, whole and in order, and
\* a push takes effect only while the slot of its ticket is free.
THEOREM RingRefinesFifo == Capacity >= 2 => (RingSpec => ImplementsFifo)
<1> SUFFICES ASSUME Capacity >= 2 PROVE RingSpec => ImplementsFifo
  OBVIOUS
<1>1. RingSpec => []RingInv
  BY RingInvariant
<1>2. RingSpec /\ []RingInv => []ValuesInv /\ [][Fifo!Next]_(Fifo!vars)
  <2>1. RingInit => ValuesInv
    BY FifoInit
  <2>2. RingInv /\ RingInv' /\ ValuesInv /\ [RingNext]_allVars => ValuesInv' /\ [Fifo!Next]_(Fifo!vars)
    BY FifoStep
  <2> QED
    BY <2>1, <2>2, PTL DEF RingSpec
<1>3. RingInit => Fifo!Init
  BY FifoInit
<1> QED
  BY <1>1, <1>2, <1>3, PTL DEF RingSpec, ImplementsFifo, Fifo!Spec

-----------------------------------------------------------------------------
(***************************************************************************)
(* The latch: wait() returns only when every job is done, and a sleeping   *)
(* owner always has a notification coming.                                 *)
(***************************************************************************)

LEMMA InitLatchInv == Init => LatchInv
  BY ThreadsAssumption
     DEF Init, LatchInv, TypeOK, Counted, HolderIs, ReturnedMeansDone, NoMissedSignal

LEMMA OwnerStep ==
  ASSUME LatchInv, UNCHANGED owed,
         Create \/ WaitFast \/ WakeSpuriously \/ Waiting \/ Destroy
  PROVE  LatchInv'
<1> USE ThreadsAssumption DEF LatchInv
<1> USE DEF Create, WaitFast, WakeSpuriously, Waiting, WaitLock, WaitTest,
            WaitSleep, WaitReturn, Destroy
<1>1. TypeOK'
  BY DEF TypeOK
<1>2. Counted'
  BY DEF Counted, ReturnedMeansDone
<1>3. HolderIs'
  BY DEF HolderIs, TypeOK
<1>4. ReturnedMeansDone'
  BY DEF ReturnedMeansDone, Counted
<1>5. NoMissedSignal'
  BY DEF NoMissedSignal, HolderIs
<1> QED
  BY <1>1, <1>2, <1>3, <1>4, <1>5

LEMMA WorkerStep ==
  ASSUME LatchInv, NEW w \in Workers, UNCHANGED owed, Signalling(w)
  PROVE  LatchInv'
<1> USE ThreadsAssumption DEF LatchInv
<1> USE DEF Signalling, DoneLock, DoneNotify, DoneUnlock, TouchDead
<1>1. TypeOK'
  BY DEF TypeOK
<1>2. Counted'
  BY DEF Counted
<1>3. HolderIs'
  BY DEF HolderIs, TypeOK
<1>4. ReturnedMeansDone'
  BY DEF ReturnedMeansDone
<1>5. NoMissedSignal'
  BY DEF NoMissedSignal, HolderIs, TypeOK
<1> QED
  BY <1>1, <1>2, <1>3, <1>4, <1>5

LEMMA AddStep ==
  ASSUME LatchInv, AddJob
  PROVE  LatchInv'
  BY DEF LatchInv, AddJob, Add, TypeOK, Counted, HolderIs, ReturnedMeansDone,
         NoMissedSignal

LEMMA FinishStep ==
  ASSUME LatchInv, NEW w \in Workers, FinishJob(w)
  PROVE  LatchInv'
<1> USE ThreadsAssumption DEF LatchInv, FinishJob, Done
<1>1. TypeOK'
  BY DEF TypeOK, Counted
<1>2. Counted'
  BY DEF Counted, TypeOK
<1>3. HolderIs'
  BY DEF HolderIs, TypeOK
<1>4. ReturnedMeansDone'
  BY DEF ReturnedMeansDone
<1>5. NoMissedSignal'
  BY DEF NoMissedSignal, TypeOK
<1> QED
  BY <1>1, <1>2, <1>3, <1>4, <1>5

LEMMA NextLatchInv == LatchInv /\ [Next]_vars => LatchInv'
<1> SUFFICES ASSUME LatchInv, [Next]_vars PROVE LatchInv'
  OBVIOUS
<1>1. CASE UNCHANGED vars
  BY <1>1 DEF vars, LatchInv, TypeOK, Counted, HolderIs, ReturnedMeansDone,
              NoMissedSignal
<1> QED
  BY <1>1, AddStep, OwnerStep, WorkerStep, FinishStep DEF Next

\* The counter, the mutex and the two sides of the latch agree at every moment
\* of every life of a latch (job_latch.hpp).
THEOREM LatchInvariant == Spec => []LatchInv
  BY InitLatchInv, NextLatchInv, PTL DEF Spec

\* wait() never returns while a job is outstanding.
THEOREM LatchWaitsForAll == Spec => []ReturnedMeansDone
<1>1. LatchInv => ReturnedMeansDone
  BY DEF LatchInv
<1> QED
  BY <1>1, LatchInvariant, PTL

\* The owner never sleeps on a counter of zero without a worker that has yet to
\* notify it: taking the mutex around notify_all closes the window.
THEOREM LatchNeverMissesSignal == Spec => []NoMissedSignal
<1>1. LatchInv => NoMissedSignal
  BY DEF LatchInv
<1> QED
  BY <1>1, LatchInvariant, PTL
=============================================================================
