------------------------------ MODULE JobLatch ------------------------------
(***************************************************************************)
(* hpr::job::JobLatch (hpr/thread/job_latch.hpp): the counter on which the *)
(* frame thread waits for the jobs it dispatched.                          *)
(*                                                                         *)
(* One thread, the owner, keeps the latch in a local variable: it adds the *)
(* jobs one by one while workers already finish some of them, waits, and   *)
(* then leaves the scope (SceneLayer::dispatch_culling), which destroys    *)
(* the latch.  The next frame makes another one.  Every access to the      *)
(* counter, every operation on the mutex and on the condition variable is  *)
(* a step of its own.                                                      *)
(*                                                                         *)
(* A worker still inside done() when the latch is destroyed touches a dead *)
(* object, which is undefined: it may come back as if nothing happened, or *)
(* never (a lock that no unlock follows, a crash).  Nothing is said of     *)
(* what else the wild access does.                                         *)
(***************************************************************************)
EXTENDS Naturals

CONSTANTS
    Workers,    \* the threads that call done()
    Owner,      \* the thread that calls add() and wait()
    NoThread,   \* the holder of a free mutex
    MaxJobs     \* bound: jobs outstanding at a time

ASSUME ThreadsAssumption ==
    /\ Owner \notin Workers
    /\ NoThread \notin Workers \cup {Owner}

ASSUME MaxJobsAssumption == MaxJobs \in Nat

VARIABLES
    pending,    \* m_pending_count
    mutex,      \* the thread that holds m_mutex
    waiter,     \* where the owner is in the life of the latch
    signaller,  \* signaller[w]: where worker w is in done()
    owed        \* jobs added for which no worker has called done() yet

latchVars == <<pending, mutex, waiter, signaller>>
vars == <<pending, mutex, waiter, signaller, owed>>

Init ==
    /\ pending = 0
    /\ mutex = NoThread
    /\ waiter = "gone"
    /\ signaller = [w \in Workers |-> "out"]
    /\ owed = 0

-----------------------------------------------------------------------------
(***************************************************************************)
(* The owner.                                                              *)
(***************************************************************************)

Create ==
    /\ waiter = "gone"
    /\ waiter' = "adding"
    /\ pending' = 0
    /\ UNCHANGED <<mutex, signaller>>

Add(count) ==
    /\ waiter = "adding"
    /\ pending' = pending + count
    /\ UNCHANGED <<mutex, waiter, signaller>>

\* wait() looks at the counter before it takes the mutex.
WaitFast ==
    /\ waiter = "adding"
    /\ waiter' = IF pending = 0 THEN "returned" ELSE "lock"
    /\ UNCHANGED <<pending, mutex, signaller>>

\* Also the reacquisition of the mutex after the condition variable woke.
WaitLock ==
    /\ waiter = "lock"
    /\ mutex = NoThread
    /\ mutex' = Owner
    /\ waiter' = "test"
    /\ UNCHANGED <<pending, signaller>>

WaitTest ==
    /\ waiter = "test"
    /\ waiter' = IF pending = 0 THEN "unlock" ELSE "sleep"
    /\ UNCHANGED <<pending, mutex, signaller>>

\* The condition variable releases the mutex and blocks in one step.
WaitSleep ==
    /\ waiter = "sleep"
    /\ mutex' = NoThread
    /\ waiter' = "blocked"
    /\ UNCHANGED <<pending, signaller>>

WakeSpuriously ==
    /\ waiter = "blocked"
    /\ waiter' = "lock"
    /\ UNCHANGED <<pending, mutex, signaller>>

WaitReturn ==
    /\ waiter = "unlock"
    /\ mutex' = NoThread
    /\ waiter' = "returned"
    /\ UNCHANGED <<pending, signaller>>

\* The latch goes out of scope, whoever is still inside done().
Destroy ==
    /\ waiter = "returned"
    /\ waiter' = "gone"
    /\ mutex' = NoThread
    /\ signaller' = [w \in Workers |->
                        IF signaller[w] \in {"lock", "notify", "unlock"}
                        THEN "late" ELSE signaller[w]]
    /\ UNCHANGED pending

-----------------------------------------------------------------------------
(***************************************************************************)
(* The workers.                                                            *)
(***************************************************************************)

\* Mutant: a done() that notifies when the counter was zero, not one.
DoneOffByOne(w) ==
    /\ signaller[w] = "out"
    /\ pending' = pending - 1
    /\ signaller' = [signaller EXCEPT ![w] = IF pending = 0 THEN "lock" ELSE "out"]
    /\ UNCHANGED <<mutex, waiter>>

\* fetch_sub: the worker that takes the counter to zero goes on to notify.
Done(w) ==
    /\ signaller[w] = "out"
    /\ pending' = pending - 1
    /\ signaller' = [signaller EXCEPT ![w] = IF pending = 1 THEN "lock" ELSE "out"]
    /\ UNCHANGED <<mutex, waiter>>

\* Mutant: a done() that notifies without taking the mutex.
DoneWithoutLock(w) ==
    /\ signaller[w] = "lock"
    /\ signaller' = [signaller EXCEPT ![w] = "notify"]
    /\ UNCHANGED <<pending, mutex, waiter>>

DoneLock(w) ==
    /\ signaller[w] = "lock"
    /\ mutex = NoThread
    /\ mutex' = w
    /\ signaller' = [signaller EXCEPT ![w] = "notify"]
    /\ UNCHANGED <<pending, waiter>>

DoneNotify(w) ==
    /\ signaller[w] = "notify"
    /\ waiter' = IF waiter = "blocked" THEN "lock" ELSE waiter
    /\ signaller' = [signaller EXCEPT ![w] = "unlock"]
    /\ UNCHANGED <<pending, mutex>>

DoneUnlock(w) ==
    /\ signaller[w] = "unlock"
    /\ mutex' = NoThread
    /\ signaller' = [signaller EXCEPT ![w] = "out"]
    /\ UNCHANGED <<pending, waiter>>

TouchDead(w) ==
    /\ signaller[w] = "late"
    /\ \E after \in {"out", "undefined"} :
           signaller' = [signaller EXCEPT ![w] = after]
    /\ UNCHANGED <<pending, mutex, waiter>>

-----------------------------------------------------------------------------
\* The owner once it is in wait().
Waiting == WaitLock \/ WaitTest \/ WaitSleep \/ WaitReturn

\* The rest of done() after its fetch_sub.
Signalling(w) == DoneLock(w) \/ DoneNotify(w) \/ DoneUnlock(w) \/ TouchDead(w)

AddJob ==
    /\ owed < MaxJobs
    /\ Add(1)
    /\ owed' = owed + 1

\* A worker calls done() once for a job that was added.
FinishJob(w) ==
    /\ owed > 0
    /\ Done(w)
    /\ owed' = owed - 1

Next ==
    \/ AddJob
    \/ /\ \/ Create
          \/ WaitFast
          \/ WakeSpuriously
          \/ Waiting
          \/ Destroy
          \/ \E w \in Workers : Signalling(w)
       /\ UNCHANGED owed
    \/ \E w \in Workers : FinishJob(w)

Spec == Init /\ [][Next]_vars

\* Each thread runs on while it can: a job that was added is executed, and its
\* worker calls done(), as long as some worker is left to do it.  A worker is
\* not kept out for ever of a mutex that is released again and again, which
\* spurious wakeups of the owner could otherwise do.
Fairness ==
    /\ WF_vars(Waiting /\ UNCHANGED owed)
    /\ \A w \in Workers : /\ WF_vars(FinishJob(w))
                          /\ SF_vars(Signalling(w) /\ UNCHANGED owed)

FairSpec == Spec /\ Fairness

-----------------------------------------------------------------------------
(***************************************************************************)
(* Properties.                                                             *)
(***************************************************************************)

\* Every variable has its type: in particular the unsigned counter of jobs
\* never goes below zero.
TypeOK ==
    /\ pending \in Nat
    /\ owed \in Nat
    /\ mutex \in Workers \cup {Owner, NoThread}
    /\ waiter \in {"gone", "adding", "lock", "test", "sleep", "blocked",
                   "unlock", "returned"}
    /\ signaller \in [Workers -> {"out", "lock", "notify", "unlock",
                                  "late", "undefined"}]

(***************************************************************************)
(* wait() returns, by its fast path or by the condition variable, only     *)
(* when done() was called for every job added, and none is added to a dead *)
(* latch.                                                                  *)
(***************************************************************************)
ReturnedMeansDone == waiter \in {"unlock", "returned", "gone"} => owed = 0

(***************************************************************************)
(* The wakeup is never missed: while the owner is going to sleep, or       *)
(* sleeps, although the counter is already zero, some worker is still on   *)
(* its way to notify_all, and cannot get there before the owner sleeps.    *)
(***************************************************************************)
NoMissedSignal ==
    (waiter \in {"sleep", "blocked"} /\ pending = 0) =>
        \E w \in Workers :
            \/ signaller[w] = "lock"
            \/ signaller[w] = "notify" /\ waiter = "blocked"

(***************************************************************************)
(* An owner in wait() gets out of it, unless a worker has run into a latch *)
(* of an earlier frame that was already destroyed.                         *)
(***************************************************************************)
WaitEnds ==
    waiter \in {"lock", "test", "sleep", "blocked", "unlock"}
        ~> \/ waiter = "returned"
           \/ \E w \in Workers : signaller[w] = "undefined"

(***************************************************************************)
(* When wait() has returned and the latch goes out of scope, no worker is  *)
(* left inside done().  (The code does not ensure it.)                     *)
(***************************************************************************)
NoLateSignaller == \A w \in Workers : signaller[w] # "late"

-----------------------------------------------------------------------------
(***************************************************************************)
(* The inductive invariant: the counter counts, and the mutex is held by   *)
(* whoever is between its lock and its unlock.                             *)
(***************************************************************************)
Counted == pending = owed

HolderIs ==
    /\ mutex = Owner <=> waiter \in {"test", "sleep", "unlock"}
    /\ \A w \in Workers : mutex = w <=> signaller[w] \in {"notify", "unlock"}

LatchInv ==
    /\ TypeOK
    /\ Counted
    /\ HolderIs
    /\ ReturnedMeansDone
    /\ NoMissedSignal
=============================================================================
