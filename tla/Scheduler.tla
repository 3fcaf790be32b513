------------------------------ MODULE Scheduler ------------------------------
(***************************************************************************)
(* hpr::job::Scheduler (hpr/thread/scheduler.hpp) with the one client the  *)
(* engine gives it, SceneLayer::dispatch_culling: once per frame the frame *)
(* thread dispatches the slices of the culling work, waits for them on a   *)
(* latch of its own, and reads their results.                              *)
(*                                                                         *)
(* The injection ring appears as the bounded queue it implements (module   *)
(* MpmcRing), which refuses a push while the slot of its ticket is taken,  *)
(* if only by a value that a slow worker is still copying out; the latch   *)
(* is module JobLatch, step for step.  No job is ever put into the         *)
(* workers' own deques: popping one's own finds nothing, and stealing      *)
(* matters only for the life time of the deque it looks into.              *)
(*                                                                         *)
(* A job that runs ends.  A worker that steals from a deque not yet made,  *)
(* or already destroyed, reads dead memory: it may find nothing, or never  *)
(* come back.                                                              *)
(***************************************************************************)
EXTENDS Integers, Sequences, FiniteSets

CONSTANTS
    WorkerCount,    \* m_worker_count between init and shutdown
    MaxSlices,      \* bound: slices of one frame
    Capacity,       \* cfg::injection_capacity
    NoJob,          \* the absent job
    FrameThread,    \* the thread that owns the scheduler
    NoThread        \* the holder of a free mutex

ASSUME WorkerCountAssumption == WorkerCount \in Nat \ {0}
ASSUME MaxSlicesAssumption == MaxSlices \in Nat
ASSUME CapacityAssumption == Capacity \in Nat \ {0}
ASSUME NoJobAssumption == NoJob \notin Nat
ASSUME FrameThreadAssumption ==
    /\ FrameThread \notin 0 .. WorkerCount - 1
    /\ NoThread \notin (0 .. WorkerCount - 1) \cup {FrameThread}

Workers == 0 .. WorkerCount - 1
Slices == 0 .. MaxSlices - 1

VARIABLES
    frame,          \* where the frame thread is
    index,          \* its loop variable: a worker, or a slice
    count,          \* the number of slices of the frame
    cursor,         \* m_submit_counter % m_worker_count
    results,        \* results[s]: whether slice s wrote its async result
    shutdownFlag,   \* m_shutdown_requested
    hasWork,        \* hasWork[w]: m_workers[w].has_work
    deque,          \* deque[w]: the life of m_job_deques[w]
    pc,             \* pc[w]: where worker w is in worker_loop
    probe,          \* probe[w]: other_index of its stealing loop
    job,            \* job[w]: job_entry, once it is out of the ring
    queue,          \* m_injection_queue, the values pushed
    hand,           \* hand[w]: the value w is carrying out of its slot
    lag,            \* lag[w]: the pushes since that value's, its own included
    pending, mutex, waiter, signaller   \* the latch of the frame

latchVars == <<pending, mutex, waiter, signaller>>
ringVars == <<queue, hand, lag>>
frameVars == <<frame, index, count, cursor, results>>
workerVars == <<pc, probe, job>>
sharedVars == <<shutdownFlag, hasWork, deque>>
vars == <<frameVars, sharedVars, workerVars, ringVars, latchVars>>

Ring == INSTANCE BoundedFifo
            WITH Threads <- Workers, Values <- Slices, NoValue <- NoJob

\* The worker holds a job it has not yet reported to the latch.
Busy(w) == pc[w] \in {"held", "run", "finish"}

\* The frame thread is between the begin and the end of dispatch_culling.
InFrame == frame \in {"dispatch", "push", "flag", "notify", "wait"}

\* The slices of the frame whose jobs the latch was told of.
Added ==
    {s \in Slices : /\ InFrame
                    /\ \/ s < index
                       \/ s = index /\ frame \in {"push", "flag", "notify"}}

\* Jobs added to the latch and not yet reported done.
Outstanding ==
    Cardinality({s \in Added : \/ results[s] = "clear"
                               \/ \E w \in Workers : pc[w] = "finish" /\ job[w] = s})

Latch == INSTANCE JobLatch
             WITH Owner <- FrameThread, MaxJobs <- MaxSlices, owed <- Outstanding

Init ==
    /\ frame = "construct"
    /\ index = 0
    /\ count = 0
    /\ cursor = 0
    /\ results = [s \in Slices |-> "clear"]
    /\ shutdownFlag = FALSE
    /\ hasWork = [w \in Workers |-> 0]
    /\ deque = [w \in Workers |-> "raw"]
    /\ pc = [w \in Workers |-> "new"]
    /\ probe = [w \in Workers |-> 0]
    /\ job = [w \in Workers |-> NoJob]
    /\ Ring!Init
    /\ pending = 0
    /\ mutex = NoThread
    /\ waiter = "gone"
    /\ signaller = [w \in Workers |-> "out"]

-----------------------------------------------------------------------------
(***************************************************************************)
(* Scheduler::init: one deque and one thread after the other, so that the  *)
(* first workers run while the last deques do not exist.                   *)
(***************************************************************************)

\* Mutant: an init that starts the threads and forgets the deques.
ConstructNothing ==
    /\ frame = "construct"
    /\ frame' = "spawn"
    /\ UNCHANGED <<index, count, cursor, results, sharedVars, workerVars,
                   ringVars, latchVars>>

Construct ==
    /\ frame = "construct"
    /\ deque' = [deque EXCEPT ![index] = "live"]
    /\ frame' = "spawn"
    /\ UNCHANGED <<index, count, cursor, results, shutdownFlag, hasWork,
                   workerVars, ringVars, latchVars>>

Spawn ==
    /\ frame = "spawn"
    /\ pc' = [pc EXCEPT ![index] = "take"]
    /\ IF index + 1 < WorkerCount
       THEN frame' = "construct" /\ index' = index + 1
       ELSE frame' = "idle" /\ index' = 0
    /\ UNCHANGED <<count, cursor, results, sharedVars, probe, job, ringVars,
                   latchVars>>

-----------------------------------------------------------------------------
(***************************************************************************)
(* One frame: SceneLayer::dispatch_culling and Scheduler::dispatch_range.  *)
(***************************************************************************)

\* The slices are set up, their results cleared, the latch is made.
BeginFrame(n) ==
    /\ frame = "idle"
    /\ frame' = "dispatch"
    /\ index' = 0
    /\ count' = n
    /\ results' = [s \in Slices |-> "clear"]
    /\ Latch!Create
    /\ UNCHANGED <<cursor, sharedVars, workerVars, ringVars>>

\* Mutant: a dispatch_range that tells the latch of its first job only.
AddOnce ==
    /\ frame = "dispatch"
    /\ index < count
    /\ frame' = "push"
    /\ IF index = 0 THEN Latch!Add(1) ELSE UNCHANGED latchVars
    /\ UNCHANGED <<index, count, cursor, results, sharedVars, workerVars,
                   ringVars>>

AddToLatch ==
    /\ frame = "dispatch"
    /\ index < count
    /\ frame' = "push"
    /\ Latch!Add(1)
    /\ UNCHANGED <<index, count, cursor, results, sharedVars, workerVars,
                   ringVars>>

\* Mutant: a dispatch_range that hands out the first slice every time.
PushFirstSlice ==
    /\ frame = "push"
    /\ Ring!Push(0)
    /\ frame' = "flag"
    /\ UNCHANGED <<index, count, cursor, results, sharedVars, workerVars,
                   latchVars>>

Push ==
    /\ frame = "push"
    /\ Ring!Push(index)
    /\ frame' = "flag"
    /\ UNCHANGED <<index, count, cursor, results, sharedVars, workerVars,
                   latchVars>>

\* The one slot that the job would get is still queued or still being copied
\* out, whatever room there is elsewhere.  The assertion on push_success is
\* compiled out of a release build, which goes on without the job.
PushFails ==
    /\ frame = "push"
    /\ Ring!SlotTaken
    /\ frame' = "flag"
    /\ UNCHANGED <<index, count, cursor, results, sharedVars, workerVars,
                   ringVars, latchVars>>

\* The flag is set without the worker's mutex.
SetHasWork ==
    /\ frame = "flag"
    /\ hasWork' = [hasWork EXCEPT ![cursor] = 1]
    /\ frame' = "notify"
    /\ UNCHANGED <<index, count, cursor, results, shutdownFlag, deque,
                   workerVars, ringVars, latchVars>>

\* condition.notify_one: only a worker that is blocked already can hear it.
Notified(w) ==
    pc' = [pc EXCEPT ![w] = IF pc[w] = "parked" THEN "testFlag" ELSE pc[w]]

NotifyWorker ==
    /\ frame = "notify"
    /\ Notified(cursor)
    /\ cursor' = (cursor + 1) % WorkerCount
    /\ index' = index + 1
    /\ frame' = "dispatch"
    /\ UNCHANGED <<count, results, sharedVars, probe, job, ringVars, latchVars>>

EnterWait ==
    /\ frame = "dispatch"
    /\ index = count
    /\ Latch!WaitFast
    /\ frame' = "wait"
    /\ UNCHANGED <<index, count, cursor, results, sharedVars, workerVars,
                   ringVars>>

InWait ==
    /\ frame = "wait"
    /\ Latch!Waiting
    /\ UNCHANGED <<frameVars, sharedVars, workerVars, ringVars>>

WakeFrameSpuriously ==
    /\ frame = "wait"
    /\ Latch!WakeSpuriously
    /\ UNCHANGED <<frameVars, sharedVars, workerVars, ringVars>>

\* The results are read, then the slices, the results and the latch go away.
LeaveFrame ==
    /\ frame = "wait"
    /\ Latch!Destroy
    /\ frame' = "idle"
    /\ index' = 0
    /\ UNCHANGED <<count, cursor, results, sharedVars, workerVars, ringVars>>

FrameStep ==
    \/ AddToLatch
    \/ Push
    \/ PushFails
    \/ SetHasWork
    \/ NotifyWorker
    \/ EnterWait
    \/ InWait
    \/ LeaveFrame

-----------------------------------------------------------------------------
(***************************************************************************)
(* Scheduler::shutdown, from the destructor of the scene layer.            *)
(***************************************************************************)

RequestShutdown ==
    /\ frame = "idle"
    /\ shutdownFlag' = TRUE
    /\ frame' = "stopFlag"
    /\ index' = 0
    /\ UNCHANGED <<count, cursor, results, hasWork, deque, workerVars,
                   ringVars, latchVars>>

StopFlag ==
    /\ frame = "stopFlag"
    /\ hasWork' = [hasWork EXCEPT ![index] = 1]
    /\ frame' = "stopNotify"
    /\ UNCHANGED <<index, count, cursor, results, shutdownFlag, deque,
                   workerVars, ringVars, latchVars>>

StopNotify ==
    /\ frame = "stopNotify"
    /\ Notified(index)
    /\ IF index + 1 < WorkerCount
       THEN frame' = "stopFlag" /\ index' = index + 1
       ELSE frame' = "join" /\ index' = 0
    /\ UNCHANGED <<count, cursor, results, sharedVars, probe, job, ringVars,
                   latchVars>>

\* One worker is joined and its deque destroyed before the next one is joined.
JoinWorker ==
    /\ frame = "join"
    /\ pc[index] = "exited"
    /\ deque' = [deque EXCEPT ![index] = "destroyed"]
    /\ hasWork' = [hasWork EXCEPT ![index] = 0]
    /\ IF index + 1 < WorkerCount
       THEN frame' = "join" /\ index' = index + 1
       ELSE frame' = "reset" /\ index' = 0
    /\ UNCHANGED <<count, cursor, results, shutdownFlag, workerVars, ringVars,
                   latchVars>>

Reset ==
    /\ frame = "reset"
    /\ queue' = <<>>
    /\ shutdownFlag' = FALSE
    /\ cursor' = 0
    /\ frame' = "down"
    /\ UNCHANGED <<index, count, results, hasWork, deque, workerVars, hand,
                   lag, latchVars>>

StopStep == StopFlag \/ StopNotify \/ JoinWorker \/ Reset

-----------------------------------------------------------------------------
(***************************************************************************)
(* worker_loop.  A worker that is still inside done() is in the latch.     *)
(***************************************************************************)

At(w, from) == pc[w] = from /\ signaller[w] = "out"

Goto(w, from, to) == At(w, from) /\ pc' = [pc EXCEPT ![w] = to]

Take(w) ==
    /\ Goto(w, "take", "held")
    /\ Ring!Pop(w)
    /\ UNCHANGED <<frameVars, sharedVars, probe, job, latchVars>>

\* Mutant: a pop that never frees its slot.
KeepSlot(w) ==
    /\ Goto(w, "held", "run")
    /\ job' = [job EXCEPT ![w] = hand[w]]
    /\ UNCHANGED <<ringVars, frameVars, sharedVars, probe, latchVars>>

\* pop copied the value and freed its slot before it returned.
Release(w) ==
    /\ Goto(w, "held", "run")
    /\ Ring!Return(w)
    /\ job' = [job EXCEPT ![w] = hand[w]]
    /\ UNCHANGED <<frameVars, sharedVars, probe, latchVars>>

Execute(w) ==
    /\ Goto(w, "run", "finish")
    /\ results' = [results EXCEPT ![job[w]] = "written"]
    /\ UNCHANGED <<frame, index, count, cursor, sharedVars, probe, job,
                   ringVars, latchVars>>

Finish(w) ==
    /\ Goto(w, "finish", "take")
    /\ job' = [job EXCEPT ![w] = NoJob]
    /\ Latch!Done(w)
    /\ UNCHANGED <<frameVars, sharedVars, probe, ringVars>>

InDone(w) ==
    /\ Latch!Signalling(w)
    /\ UNCHANGED <<frameVars, sharedVars, workerVars, ringVars>>

TakeNothing(w) ==
    /\ Goto(w, "take", "steal")
    /\ queue = <<>>
    /\ probe' = [probe EXCEPT ![w] = 0]
    /\ UNCHANGED <<frameVars, sharedVars, job, ringVars, latchVars>>

\* other_index runs over m_worker_count, whichever deques exist.
StealNothing(w) ==
    /\ At(w, "steal")
    /\ probe[w] < WorkerCount
    /\ probe' = [probe EXCEPT ![w] = @ + 1]
    /\ UNCHANGED <<pc, job, frameVars, sharedVars, ringVars, latchVars>>

StealFromDead(w) ==
    /\ Goto(w, "steal", "undefined")
    /\ probe[w] < WorkerCount
    /\ probe[w] # w
    /\ deque[probe[w]] # "live"
    /\ UNCHANGED <<probe, job, frameVars, sharedVars, ringVars, latchVars>>

\* Mutant: a worker that clears its flag because it found nothing to do.
StealDoneAndClear(w) ==
    /\ Goto(w, "steal", "testFlag")
    /\ probe[w] = WorkerCount
    /\ hasWork' = [hasWork EXCEPT ![w] = 0]
    /\ UNCHANGED <<probe, job, frameVars, shutdownFlag, deque, ringVars, latchVars>>

StealDone(w) ==
    /\ Goto(w, "steal", "testFlag")
    /\ probe[w] = WorkerCount
    /\ UNCHANGED <<probe, job, frameVars, sharedVars, ringVars, latchVars>>

\* The predicate of the wait: two loads.  Only the worker itself ever locks
\* its mutex, which therefore orders nothing.
TestFlag(w) ==
    /\ Goto(w, "testFlag", IF shutdownFlag THEN "clear" ELSE "testWork")
    /\ UNCHANGED <<probe, job, frameVars, sharedVars, ringVars, latchVars>>

TestWork(w) ==
    /\ Goto(w, "testWork", IF hasWork[w] # 0 THEN "clear" ELSE "sleep")
    /\ UNCHANGED <<probe, job, frameVars, sharedVars, ringVars, latchVars>>

Sleep(w) ==
    /\ Goto(w, "sleep", "parked")
    /\ UNCHANGED <<probe, job, frameVars, sharedVars, ringVars, latchVars>>

WakeSpuriously(w) ==
    /\ Goto(w, "parked", "testFlag")
    /\ UNCHANGED <<probe, job, frameVars, sharedVars, ringVars, latchVars>>

ClearHasWork(w) ==
    /\ Goto(w, "clear", "leave")
    /\ hasWork' = [hasWork EXCEPT ![w] = 0]
    /\ UNCHANGED <<probe, job, frameVars, shutdownFlag, deque, ringVars, latchVars>>

LeaveOrLoop(w) ==
    /\ Goto(w, "leave", IF shutdownFlag THEN "exited" ELSE "take")
    /\ UNCHANGED <<probe, job, frameVars, sharedVars, ringVars, latchVars>>

WorkerStep(w) ==
    \/ Take(w)
    \/ Release(w)
    \/ Execute(w)
    \/ Finish(w)
    \/ InDone(w)
    \/ TakeNothing(w)
    \/ StealNothing(w)
    \/ StealDone(w)
    \/ TestFlag(w)
    \/ TestWork(w)
    \/ Sleep(w)
    \/ ClearHasWork(w)
    \/ LeaveOrLoop(w)

Next ==
    \/ Construct
    \/ Spawn
    \/ \E n \in 0 .. MaxSlices : BeginFrame(n)
    \/ FrameStep
    \/ WakeFrameSpuriously
    \/ RequestShutdown
    \/ StopStep
    \/ \E w \in Workers :
           \/ WorkerStep(w)
           \/ StealFromDead(w)
           \/ WakeSpuriously(w)

Spec == Init /\ [][Next]_vars

\* Every thread runs on while it can.  Nothing makes the frame thread begin a
\* frame or shut down, and nothing wakes a condition variable spuriously.  A
\* worker is not kept out for ever of a latch mutex released again and again.
Fairness ==
    /\ WF_vars(Construct \/ Spawn)
    /\ WF_vars(FrameStep)
    /\ WF_vars(StopStep)
    /\ \A w \in Workers : WF_vars(WorkerStep(w)) /\ SF_vars(InDone(w))

FairSpec == Spec /\ Fairness

-----------------------------------------------------------------------------
(***************************************************************************)
(* Properties.                                                             *)
(***************************************************************************)

\* Every variable has its type, and every thread is at one of its labels.
TypeOK ==
    /\ frame \in {"construct", "spawn", "idle", "dispatch", "push", "flag",
                  "notify", "wait", "stopFlag", "stopNotify", "join", "reset",
                  "down"}
    /\ index \in Nat
    /\ count \in 0 .. MaxSlices
    /\ cursor \in Workers
    /\ results \in [Slices -> {"clear", "written"}]
    /\ shutdownFlag \in BOOLEAN
    /\ hasWork \in [Workers -> {0, 1}]
    /\ deque \in [Workers -> {"raw", "live", "destroyed"}]
    /\ pc \in [Workers -> {"new", "take", "held", "run", "finish", "steal",
                           "testFlag", "testWork", "sleep", "parked", "clear",
                           "leave", "exited", "undefined"}]
    /\ probe \in [Workers -> 0 .. WorkerCount]
    /\ job \in [Workers -> Slices \cup {NoJob}]
    /\ queue \in Seq(Slices)
    /\ hand \in [Workers -> Slices \cup {NoJob}]
    /\ lag \in [Workers -> Nat]
    /\ Latch!TypeOK

(***************************************************************************)
(* A job exists, queued or in a worker's hands, only while the frame that  *)
(* dispatched it still holds the slices, the results and the latch.        *)
(***************************************************************************)
NoJobOutlivesFrame ==
    (queue # <<>> \/ \E w \in Workers : Busy(w)) =>
        InFrame /\ waiter \notin {"unlock", "returned"}

(***************************************************************************)
(* The flags never forget a job: while one is queued, the frame thread is  *)
(* about to raise a flag, or some worker's flag is up, or some worker is   *)
(* on its way to the ring.  (That the worker whose flag is up is awake is  *)
(* another matter.)                                                        *)
(***************************************************************************)
NoStrandedJob ==
    queue # <<>> =>
        \/ frame = "flag"
        \/ \E w \in Workers :
              hasWork[w] = 1 \/ pc[w] \in {"take", "held", "run", "finish", "leave"}

(***************************************************************************)
(* A push finds the slot of its ticket taken, and so is refused, only in a *)
(* frame of more slices than the ring has slots: the latch makes the jobs  *)
(* of the frame before leave theirs.                                       *)
(***************************************************************************)
RoomForJob == frame = "push" /\ Ring!SlotTaken => count > Capacity

(***************************************************************************)
(* The jobs of a frame are its own, from the first push to the wait.       *)
(***************************************************************************)
SchedulerInv == TypeOK /\ NoJobOutlivesFrame /\ RoomForJob

(***************************************************************************)
(* A worker runs into a deque that does not exist only while init makes    *)
(* them or shutdown destroys them, never while frames are served.          *)
(***************************************************************************)
NoWildStealInService ==
    [][ (frame = "idle" \/ InFrame) =>
            \A w \in Workers : pc'[w] = "undefined" => pc[w] = "undefined" ]_vars

(***************************************************************************)
(* The scheduler and its frames are a fork and join, and use the latch as  *)
(* the latch is meant to be used.                                          *)
(***************************************************************************)
Dispatch == INSTANCE JobDispatch
    WITH size     <- IF InFrame THEN count ELSE NoJob,
         forked   <- IF frame = "push" THEN Added \ {index} ELSE Added,
         executed <- IF InFrame THEN {s \in Slices : results[s] = "written"} ELSE {},
         running  <- [w \in Workers |-> CASE pc[w] = "held" -> hand[w]
                                           [] pc[w] = "run"  -> job[w]
                                           [] OTHER          -> NoJob]

ImplementsDispatch == Dispatch!Spec

UsesLatch == Latch!Spec

\* w sleeps through its flag, or through the shutdown: the notification came
\* after w evaluated the predicate and before it was blocked.
Oversleeps(w) == pc[w] = "parked" /\ (hasWork[w] = 1 \/ shutdownFlag)

\* The ring refused the job of s: nobody has it, and nobody ever will.
Refused(s) ==
    /\ s \in Added
    /\ frame = "push" => s # index
    /\ results[s] = "clear"
    /\ ~ \E i \in 1 .. Len(queue) : queue[i] = s
    /\ ~ \E w \in Workers : pc[w] \in {"held", "run"} /\ s \in {hand[w], job[w]}

\* w ran into a deque, or a latch, that does not exist.
Lost(w) == pc[w] = "undefined" \/ signaller[w] = "undefined"

(***************************************************************************)
(* The frame thread hangs, in wait() or in join(), only because a worker   *)
(* oversleeps or is lost, or because the ring refused a job.               *)
(***************************************************************************)
HangsOnlyByOversleeping ==
    <>[](frame \in {"wait", "join"}) =>
        <>[]( \/ \E w \in Workers : Oversleeps(w) \/ Lost(w)
              \/ \E s \in Slices : Refused(s))

(***************************************************************************)
(* The wait of every dispatched frame ends, unless a worker is lost.  (The *)
(* code does not ensure it.)                                               *)
(***************************************************************************)
FrameReturns ==
    frame = "wait" ~> (frame = "idle" \/ \E w \in Workers : Lost(w))
=============================================================================
