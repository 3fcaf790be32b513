------------------------------ MODULE MpmcRing ------------------------------
(***************************************************************************)
(* hpr::job::MpmcRing (hpr/thread/mpmc_ring.hpp): the bounded ring through *)
(* which the frame thread injects jobs into the scheduler.                 *)
(*                                                                         *)
(* Every slot carries a sequence number.  A push takes the ticket m_tail,  *)
(* a pop the ticket m_head, by compare-exchange, but only after it has     *)
(* seen the slot's sequence say that it is that ticket's turn; the value   *)
(* is then copied WITHOUT synchronisation, and the sequence is stored last *)
(* to hand the slot on.  Every atomic access of the code is a step of its  *)
(* own, and so is every copy of a value.                                   *)
(*                                                                         *)
(* Tickets are natural numbers here; the code's are uint32_t, compared by  *)
(* the sign of their difference.  The two agree for as long as no thread   *)
(* sleeps between its load and its compare-exchange while the others do    *)
(* 2^31 operations.                                                        *)
(***************************************************************************)
EXTENDS Integers, Sequences, FiniteSets

CONSTANTS
    Threads,    \* the threads that call push and pop
    Values,     \* the values they exchange (JobEntry)
    Capacity,   \* the template parameter Capacity
    NoValue,    \* the value of a slot never written
    MaxTicket   \* bound: no push starts once m_tail has reached it

ASSUME CapacityAssumption == Capacity \in Nat \ {0}
ASSUME MaxTicketAssumption == MaxTicket \in Nat
ASSUME NoValueAssumption == NoValue \notin Values

VARIABLES
    head,       \* m_head
    tail,       \* m_tail
    sequence,   \* sequence[i]: m_slots[i].sequence
    value,      \* value[i]: m_slots[i].value
    pc,         \* pc[t]: where thread t is in push or pop
    pos,        \* pos[t]: the local `tail` of push, the local `head` of pop
    item        \* item[t]: the argument of push, the out-parameter of pop

ringVars == <<head, tail, sequence, value>>
allVars == <<head, tail, sequence, value, pc, pos, item>>

Slots == 0 .. Capacity - 1

Slot(n) == n % Capacity

Labels == { "idle",
            "pushLoad", "pushCheck", "pushCas", "pushWrite", "pushPublish",
            "popLoad", "popCheck", "popCas", "popRead", "popRelease" }

RingInit ==
    /\ head = 0
    /\ tail = 0
    /\ sequence = [i \in Slots |-> i]
    /\ value = [i \in Slots |-> NoValue]
    /\ pc = [t \in Threads |-> "idle"]
    /\ pos = [t \in Threads |-> 0]
    /\ item = [t \in Threads |-> NoValue]

Goto(t, from, to) ==
    /\ pc[t] = from
    /\ pc' = [pc EXCEPT ![t] = to]

-----------------------------------------------------------------------------
(***************************************************************************)
(* push.  Both overloads of the code differ only in how they copy.         *)
(***************************************************************************)

PushBegin(t, v) ==
    /\ Goto(t, "idle", "pushLoad")
    /\ item' = [item EXCEPT ![t] = v]
    /\ UNCHANGED <<ringVars, pos>>

PushLoad(t) ==
    /\ Goto(t, "pushLoad", "pushCheck")
    /\ pos' = [pos EXCEPT ![t] = tail]
    /\ UNCHANGED <<ringVars, item>>

\* diff == 0: the slot is free for this ticket.
PushMyTurn(t) ==
    /\ sequence[Slot(pos[t])] = pos[t]
    /\ Goto(t, "pushCheck", "pushCas")
    /\ UNCHANGED <<ringVars, pos, item>>

\* diff < 0: the slot still holds the value of a lap ago.
SeesFull(t) == pc[t] = "pushCheck" /\ sequence[Slot(pos[t])] < pos[t]

\* push returns false.
PushFull(t) ==
    /\ SeesFull(t)
    /\ Goto(t, "pushCheck", "idle")
    /\ UNCHANGED <<ringVars, pos, item>>

\* diff > 0: another push took the ticket; reload m_tail.
PushOvertaken(t) ==
    /\ sequence[Slot(pos[t])] > pos[t]
    /\ Goto(t, "pushCheck", "pushLoad")
    /\ UNCHANGED <<ringVars, pos, item>>

\* Mutant: a push that takes its ticket by a plain store.
PushClaimUnconditionally(t) ==
    /\ Goto(t, "pushCas", "pushWrite")
    /\ tail' = pos[t] + 1
    /\ UNCHANGED <<head, sequence, value, pos, item>>

PushClaim(t) ==
    /\ tail = pos[t]
    /\ Goto(t, "pushCas", "pushWrite")
    /\ tail' = pos[t] + 1
    /\ UNCHANGED <<head, sequence, value, pos, item>>

\* The exchange is a weak one: it may fail although m_tail is the ticket.
\* A failure stores the current m_tail in the local.
PushClaimFails(t) ==
    /\ Goto(t, "pushCas", "pushCheck")
    /\ pos' = [pos EXCEPT ![t] = tail]
    /\ UNCHANGED <<ringVars, item>>

PushWrite(t) ==
    /\ Goto(t, "pushWrite", "pushPublish")
    /\ value' = [value EXCEPT ![Slot(pos[t])] = item[t]]
    /\ UNCHANGED <<head, tail, sequence, pos, item>>

\* Mutant: a push that publishes the sequence it found.
PushPublishNothing(t) ==
    /\ Goto(t, "pushPublish", "idle")
    /\ sequence' = [sequence EXCEPT ![Slot(pos[t])] = pos[t]]
    /\ UNCHANGED <<head, tail, value, pos, item>>

\* The store of the sequence hands the slot to the pop; push returns true.
PushPublish(t) ==
    /\ Goto(t, "pushPublish", "idle")
    /\ sequence' = [sequence EXCEPT ![Slot(pos[t])] = pos[t] + 1]
    /\ UNCHANGED <<head, tail, value, pos, item>>

-----------------------------------------------------------------------------
(***************************************************************************)
(* pop.                                                                    *)
(***************************************************************************)

PopBegin(t) ==
    /\ Goto(t, "idle", "popLoad")
    /\ UNCHANGED <<ringVars, pos, item>>

PopLoad(t) ==
    /\ Goto(t, "popLoad", "popCheck")
    /\ pos' = [pos EXCEPT ![t] = head]
    /\ UNCHANGED <<ringVars, item>>

\* Mutant: a pop that does not wait for the value to be published.
PopMyTurnUnpublished(t) ==
    /\ sequence[Slot(pos[t])] \in {pos[t], pos[t] + 1}
    /\ pos[t] < tail
    /\ Goto(t, "popCheck", "popCas")
    /\ UNCHANGED <<ringVars, pos, item>>

PopMyTurn(t) ==
    /\ sequence[Slot(pos[t])] = pos[t] + 1
    /\ Goto(t, "popCheck", "popCas")
    /\ UNCHANGED <<ringVars, pos, item>>

\* diff < 0: nothing published for this ticket yet.
SeesEmpty(t) == pc[t] = "popCheck" /\ sequence[Slot(pos[t])] < pos[t] + 1

\* pop returns false.
PopEmpty(t) ==
    /\ SeesEmpty(t)
    /\ Goto(t, "popCheck", "idle")
    /\ UNCHANGED <<ringVars, pos, item>>

PopOvertaken(t) ==
    /\ sequence[Slot(pos[t])] > pos[t] + 1
    /\ Goto(t, "popCheck", "popLoad")
    /\ UNCHANGED <<ringVars, pos, item>>

\* Mutant: a pop that frees the slot before it copies the value.
PopClaimAndRelease(t) ==
    /\ head = pos[t]
    /\ Goto(t, "popCas", "popRead")
    /\ head' = pos[t] + 1
    /\ sequence' = [sequence EXCEPT ![Slot(pos[t])] = pos[t] + Capacity]
    /\ UNCHANGED <<tail, value, pos, item>>

PopClaim(t) ==
    /\ head = pos[t]
    /\ Goto(t, "popCas", "popRead")
    /\ head' = pos[t] + 1
    /\ UNCHANGED <<tail, sequence, value, pos, item>>

PopClaimFails(t) ==
    /\ Goto(t, "popCas", "popLoad")
    /\ UNCHANGED <<ringVars, pos, item>>

PopRead(t) ==
    /\ Goto(t, "popRead", "popRelease")
    /\ item' = [item EXCEPT ![t] = value[Slot(pos[t])]]
    /\ UNCHANGED <<ringVars, pos>>

\* The store of the sequence frees the slot for the next lap.
PopRelease(t) ==
    /\ Goto(t, "popRelease", "idle")
    /\ sequence' = [sequence EXCEPT ![Slot(pos[t])] = pos[t] + Capacity]
    /\ UNCHANGED <<head, tail, value, pos, item>>

-----------------------------------------------------------------------------
PushStep(t) ==
    \/ PushLoad(t)
    \/ PushMyTurn(t)
    \/ PushFull(t)
    \/ PushOvertaken(t)
    \/ PushClaim(t)
    \/ PushClaimFails(t)
    \/ PushWrite(t)
    \/ PushPublish(t)

PopStep(t) ==
    \/ PopLoad(t)
    \/ PopMyTurn(t)
    \/ PopEmpty(t)
    \/ PopOvertaken(t)
    \/ PopClaim(t)
    \/ PopClaimFails(t)
    \/ PopRead(t)
    \/ PopRelease(t)

RingNext ==
    \E t \in Threads :
        \/ tail < MaxTicket /\ \E v \in Values : PushBegin(t, v)
        \/ PopBegin(t)
        \/ PushStep(t)
        \/ PopStep(t)

RingSpec == RingInit /\ [][RingNext]_allVars

-----------------------------------------------------------------------------
(***************************************************************************)
(* Properties.                                                             *)
(***************************************************************************)

\* Every variable has its type, and a thread is at one of its labels.
RingTypeOK ==
    /\ head \in Nat
    /\ tail \in Nat
    /\ sequence \in [Slots -> Nat]
    /\ value \in [Slots -> Values \cup {NoValue}]
    /\ pc \in [Threads -> Labels]
    /\ pos \in [Threads -> Nat]
    /\ item \in [Threads -> Values \cup {NoValue}]

\* t holds a push ticket, or a pop ticket, whose slot it has not handed on.
Writing(t) == pc[t] \in {"pushWrite", "pushPublish"}
Reading(t) == pc[t] \in {"popRead", "popRelease"}

(***************************************************************************)
(* The copies of slot.value in push and pop are plain accesses: while one  *)
(* thread may be copying into or out of a slot, no other thread may be     *)
(* copying into or out of the same slot.                                   *)
(***************************************************************************)
NoSlotRace ==
    \A t, u \in Threads :
        (t # u /\ (Writing(t) \/ Reading(t)) /\ (Writing(u) \/ Reading(u)))
            => Slot(pos[t]) # Slot(pos[u])

(***************************************************************************)
(* A slot of the ring is not handed to a push before the value of its last *)
(* lap was claimed by a pop: the tickets in flight never outnumber the     *)
(* slots, and a pop never claims a ticket no push has claimed.             *)
(***************************************************************************)
WithinOneLap ==
    /\ head <= tail
    /\ tail <= head + Capacity

(***************************************************************************)
(* When pop is about to return false, no published value waits at the head *)
(* of the ring: the ring is empty, or the push of its oldest ticket is     *)
(* still under way.  The scheduler's workers park on this answer.          *)
(***************************************************************************)
EmptyIsHonest ==
    \A t \in Threads : SeesEmpty(t) =>
        \/ head = tail
        \/ \E u \in Threads : Writing(u) /\ pos[u] = head

(***************************************************************************)
(* When push is about to return false, the one slot that its ticket would  *)
(* get is taken: by the value of a lap ago still queued, the ring being    *)
(* full, or by one whose pop is still copying it out, whether or not other *)
(* slots are free.                                                         *)
(***************************************************************************)
FullIsHonest ==
    \A t \in Threads : SeesFull(t) =>
        \/ tail = head + Capacity
        \/ \E u \in Threads : Reading(u) /\ pos[u] = tail - Capacity

(***************************************************************************)
(* What push and pop answer is true when they answer it, although each     *)
(* has read the counter and the slot at different times.                   *)
(***************************************************************************)
AnswersAreHonest == EmptyIsHonest /\ FullIsHonest

(***************************************************************************)
(* The ring implements the bounded queue.  A push takes effect when it     *)
(* claims its ticket, a pop when it claims its own; until the value of a   *)
(* claimed ticket is in its slot, it is still the argument of the push.    *)
(***************************************************************************)
ValueOf(n) ==
    IF \E t \in Threads : pc[t] = "pushWrite" /\ pos[t] = n
    THEN item[CHOOSE t \in Threads : pc[t] = "pushWrite" /\ pos[t] = n]
    ELSE value[Slot(n)]

Queue == [i \in 1 .. tail - head |-> ValueOf(head + i - 1)]

Hand ==
    [t \in Threads |->
        CASE pc[t] = "popRead"    -> value[Slot(pos[t])]
          [] pc[t] = "popRelease" -> item[t]
          [] OTHER                -> NoValue]

Lag == [t \in Threads |-> IF Reading(t) THEN tail - pos[t] ELSE 0]

Fifo == INSTANCE BoundedFifo WITH queue <- Queue, hand <- Hand, lag <- Lag

ImplementsFifo == Fifo!Spec

-----------------------------------------------------------------------------
(***************************************************************************)
(* The inductive invariant behind NoSlotRace and WithinOneLap: what each   *)
(* slot's sequence says at every moment, and what a thread between its     *)
(* check and its compare-exchange may still rely on.                       *)
(***************************************************************************)

\* A ticket claimed by a push and not yet by a pop: its value is on its way
\* into the slot, or published in it.
QueuedSlots ==
    \A n \in head .. tail - 1 :
        \/ sequence[Slot(n)] = n + 1
        \/ /\ sequence[Slot(n)] = n
           /\ \E t \in Threads : Writing(t) /\ pos[t] = n

\* A ticket the next pushes may claim: its slot is free, or the pop of the
\* previous lap has still to release it.
FreeSlots ==
    \A n \in tail .. head + Capacity - 1 :
        \/ sequence[Slot(n)] = n
        \/ /\ sequence[Slot(n)] = n + 1 - Capacity
           /\ \E t \in Threads : Reading(t) /\ pos[t] = n - Capacity

WriterTicket ==
    \A t \in Threads : Writing(t) =>
        /\ head <= pos[t]
        /\ pos[t] < tail
        /\ sequence[Slot(pos[t])] = pos[t]

ReaderTicket ==
    \A t \in Threads : Reading(t) =>
        /\ pos[t] < head
        /\ tail <= pos[t] + Capacity
        /\ sequence[Slot(pos[t])] = pos[t] + 1

TicketsUnique ==
    \A t, u \in Threads : t # u =>
        /\ Writing(t) /\ Writing(u) => pos[t] # pos[u]
        /\ Reading(t) /\ Reading(u) => pos[t] # pos[u]

\* While the shared counter has not moved, what the check saw still holds.
CheckedTurn ==
    \A t \in Threads :
        /\ pc[t] \in {"pushCheck", "pushCas"} => pos[t] <= tail
        /\ pc[t] \in {"popCheck", "popCas"} => pos[t] <= head
        /\ pc[t] = "pushCas" /\ pos[t] = tail =>
               sequence[Slot(pos[t])] = pos[t]
        /\ pc[t] = "popCas" /\ pos[t] = head =>
               sequence[Slot(pos[t])] = pos[t] + 1

\* A ticket that was overtaken between its load and its check is recognised:
\* the sequence of its slot has moved past it.
OvertakenTurn ==
    \A t \in Threads :
        /\ pc[t] = "pushCheck" /\ pos[t] < tail => sequence[Slot(pos[t])] >= pos[t]
        /\ pc[t] = "popCheck" /\ pos[t] < head => sequence[Slot(pos[t])] > pos[t]

RingInv ==
    /\ RingTypeOK
    /\ WithinOneLap
    /\ QueuedSlots
    /\ FreeSlots
    /\ WriterTicket
    /\ ReaderTicket
    /\ TicketsUnique
    /\ CheckedTurn
    /\ OvertakenTurn
=============================================================================
