----------------------------- MODULE JobDispatch -----------------------------
(***************************************************************************)
(* What the job scheduler promises the frame thread: fork and join.  A     *)
(* round hands a number of slices out; each is run exactly once, by one    *)
(* worker, possibly while later slices are still being handed out; the     *)
(* round ends only after every slice has been run to its end.              *)
(*                                                                         *)
(* The promise does not say that a round ends.                             *)
(***************************************************************************)
EXTENDS Naturals

CONSTANTS
    Workers,    \* the worker threads
    MaxSlices,  \* the largest number of slices of a round
    NoJob       \* what a worker runs that runs no slice

VARIABLES
    size,       \* the number of slices of the round; NoJob between rounds
    forked,     \* the slices handed out
    executed,   \* the slices run to their end
    running     \* running[w]: the slice worker w runs

vars == <<size, forked, executed, running>>

Slices == 0 .. MaxSlices - 1

Init ==
    /\ size = NoJob
    /\ forked = {}
    /\ executed = {}
    /\ running = [w \in Workers |-> NoJob]

Begin(n) ==
    /\ size = NoJob
    /\ size' = n
    /\ forked' = {}
    /\ executed' = {}
    /\ UNCHANGED running

Fork(s) ==
    /\ size # NoJob
    /\ s < size
    /\ s \notin forked
    /\ forked' = forked \cup {s}
    /\ UNCHANGED <<size, executed, running>>

Start(w, s) ==
    /\ running[w] = NoJob
    /\ s \in forked \ executed
    /\ \A u \in Workers : running[u] # s
    /\ running' = [running EXCEPT ![w] = s]
    /\ UNCHANGED <<size, forked, executed>>

Finish(w) ==
    /\ running[w] # NoJob
    /\ executed' = executed \cup {running[w]}
    /\ running' = [running EXCEPT ![w] = NoJob]
    /\ UNCHANGED <<size, forked>>

Join ==
    /\ size # NoJob
    /\ executed = 0 .. size - 1
    /\ size' = NoJob
    /\ forked' = {}
    /\ executed' = {}
    /\ UNCHANGED running

Next ==
    \/ \E n \in 0 .. MaxSlices : Begin(n)
    \/ \E s \in Slices : Fork(s) \/ \E w \in Workers : Start(w, s)
    \/ \E w \in Workers : Finish(w)
    \/ Join

Spec == Init /\ [][Next]_vars
=============================================================================
