----------------------------- MODULE BoundedFifo -----------------------------
(***************************************************************************)
(* What hpr::job::MpmcRing promises its callers: a FIFO queue of at most   *)
(* Capacity values from which every value pushed is taken by at most one   *)
(* thread, whole, in the order in which the pushes took effect.            *)
(*                                                                         *)
(* A push goes to one slot, the next of its lap, and succeeds only if that *)
(* very slot is free (SlotTaken).  Another that is free does not help: a   *)
(* value still being copied out of the slot holds the pushes up, whatever  *)
(* has been taken and returned since.  A failing push or pop leaves the    *)
(* state alone, so it needs no action here; when a pop may report "empty", *)
(* the promise does not say (the ring may while the oldest push has not    *)
(* published its value).                                                   *)
(***************************************************************************)
EXTENDS Naturals, Sequences

CONSTANTS
    Threads,    \* the threads that call push and pop
    Values,     \* the values they exchange
    Capacity,   \* the number of slots
    NoValue     \* the hand of a thread that has taken nothing

VARIABLES
    queue,      \* the values pushed and not yet taken, oldest first
    hand,       \* hand[t]: the value t has taken and is still carrying out
    lag         \* lag[t]: the pushes since that value's, its own included;
                \* 0 while the hand is empty

vars == <<queue, hand, lag>>

Init ==
    /\ queue = <<>>
    /\ hand = [t \in Threads |-> NoValue]
    /\ lag = [t \in Threads |-> 0]

\* The slot of the next push holds the value of Capacity pushes ago: still
\* queued, in a full queue, or still being carried out.
SlotTaken ==
    \/ Len(queue) = Capacity
    \/ \E t \in Threads : hand[t] # NoValue /\ lag[t] = Capacity

Push(v) ==
    /\ ~SlotTaken
    /\ queue' = Append(queue, v)
    /\ lag' = [t \in Threads |-> IF hand[t] = NoValue THEN 0 ELSE lag[t] + 1]
    /\ UNCHANGED hand

Pop(t) ==
    /\ queue # <<>>
    /\ hand[t] = NoValue
    /\ hand' = [hand EXCEPT ![t] = Head(queue)]
    /\ lag' = [lag EXCEPT ![t] = Len(queue)]
    /\ queue' = Tail(queue)

Return(t) ==
    /\ hand[t] # NoValue
    /\ hand' = [hand EXCEPT ![t] = NoValue]
    /\ lag' = [lag EXCEPT ![t] = 0]
    /\ UNCHANGED queue

Next ==
    \/ \E v \in Values : Push(v)
    \/ \E t \in Threads : Pop(t) \/ Return(t)

Spec == Init /\ [][Next]_vars
=============================================================================
