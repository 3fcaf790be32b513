--------------------------- MODULE SchedulerProofs ---------------------------
(***************************************************************************)
(* Proofs about module Scheduler, for any number of workers, slices of a   *)
(* frame and slots of the ring.                                            *)
(*                                                                         *)
(* That no job outlives its frame rests on the latch: wait() returns only  *)
(* when the counter is zero, the counter is the number of jobs that are    *)
(* outstanding, and whatever is in the ring or in a worker's hands is one  *)
(* of them.  The last needs that no slice is in two places, which needs    *)
(* that a slice is pushed once, before which it has no result.             *)
(*                                                                         *)
(* That a job is refused only in a frame of more slices than the ring has  *)
(* slots rests on how far back a value in the ring or in a hand was        *)
(* pushed: no further than its slice is behind the next.  ServiceInv joins *)
(* these facts.                                                            *)
(***************************************************************************)
EXTENDS Scheduler, FiniteSetTheorems, TLAPS

\* The places of worker_loop.
Labels ==
    {"new", "take", "held", "run", "finish", "steal", "testFlag", "testWork",
     "sleep", "parked", "clear", "leave", "exited", "undefined"}

\* The types of all but the latch.
OwnTypes ==
    /\ frame \in {"construct", "spawn", "idle", "dispatch", "push", "flag",
                  "notify", "wait", "stopFlag", "stopNotify", "join", "reset",
                  "down"}
    /\ index \in Nat
    /\ count \in 0 .. MaxSlices
    /\ cursor \in Workers
    /\ results \in [Slices -> {"clear", "written"}]
    /\ shutdownFlag \in BOOLEAN
    /\ hasWork \in [Workers -> {0, 1}]
    /\ deque \in [Workers -> {"raw", "live", "destroyed"}]
    /\ pc \in [Workers -> Labels]
    /\ probe \in [Workers -> 0 .. WorkerCount]
    /\ job \in [Workers -> Slices \cup {NoJob}]
    /\ queue \in Seq(Slices)
    /\ hand \in [Workers -> Slices \cup {NoJob}]
    /\ lag \in [Workers -> Nat]

\* The slices of the frame whose jobs dispatch_range has pushed, or has given
\* up pushing.
Given == IF frame = "push" THEN Added \ {index} ELSE Added

\* The jobs that the latch waits for.
Open ==
    {s \in Added : \/ results[s] = "clear"
                   \/ \E w \in Workers : pc[w] = "finish" /\ job[w] = s}

\* The job a busy worker holds.
Carried(w) == IF pc[w] = "held" THEN hand[w] ELSE job[w]

Starting(w) == pc[w] \in {"held", "run"}

\* Where the frame thread is says where it is in the latch, which deques
\* exist, how far its loop has come and whether the shutdown is on.
FrameInv ==
    /\ frame \in {"dispatch", "push", "flag", "notify"} => waiter = "adding"
    /\ frame = "wait" =>
          waiter \in {"lock", "test", "sleep", "blocked", "unlock", "returned"}
    /\ ~InFrame => waiter = "gone"
    /\ frame \in {"construct", "spawn", "stopFlag", "stopNotify", "join"} =>
          index < WorkerCount
    /\ frame = "dispatch" => index <= count
    /\ frame \in {"push", "flag", "notify"} => index < count
    /\ frame = "wait" => index = count
    /\ frame = "construct" => \A w \in Workers : w < index => deque[w] = "live"
    /\ frame = "spawn" => \A w \in Workers : w <= index => deque[w] = "live"
    /\ frame = "idle" \/ InFrame \/ frame \in {"stopFlag", "stopNotify"} =>
          \A w \in Workers : deque[w] = "live"
    /\ shutdownFlag => frame \in {"stopFlag", "stopNotify", "join", "reset"}

\* A worker carries a value out of the ring, or has a job, or has nothing.
HandsInv ==
    \A w \in Workers :
        /\ hand[w] # NoJob <=> pc[w] = "held"
        /\ job[w] # NoJob <=> pc[w] \in {"run", "finish"}

\* What is in the ring: slices of this frame, not yet run, each once.
QueueInv ==
    /\ \A i \in 1 .. Len(queue) : queue[i] \in Given /\ results[queue[i]] = "clear"
    /\ \A i, j \in 1 .. Len(queue) : queue[i] = queue[j] => i = j

\* What the workers hold: slices of this frame, no two the same, and none
\* that is still in the ring.
CarriedInv ==
    /\ \A w \in Workers : Busy(w) => Carried(w) \in Given
    /\ \A w \in Workers : Busy(w) =>
          results[Carried(w)] = IF pc[w] = "finish" THEN "written" ELSE "clear"
    /\ \A u, w \in Workers : Busy(u) /\ Busy(w) /\ Carried(u) = Carried(w) => u = w
    /\ \A w \in Workers : Starting(w) =>
          \A i \in 1 .. Len(queue) : queue[i] # Carried(w)

\* No slice has a result before it is handed out.
ResultsInv == InFrame => \A s \in Slices \ Given : results[s] = "clear"

JobsInv == HandsInv /\ QueueInv /\ CarriedInv /\ ResultsInv

\* How many slices dispatch_range has pushed, or has given up pushing.
Tried == IF frame \in {"flag", "notify"} THEN index + 1 ELSE index

\* Between the push of a slice and now there are at most the pushes of the
\* slices after it: nobody else pushes, and no slice of an earlier frame is
\* left.
TicketsInv ==
    InFrame =>
        /\ \A i \in 1 .. Len(queue) : queue[i] + Len(queue) - i + 1 <= Tried
        /\ \A w \in Workers : hand[w] # NoJob => hand[w] + lag[w] <= Tried

ServiceInv ==
    /\ OwnTypes
    /\ FrameInv
    /\ JobsInv
    /\ TicketsInv
    /\ NoStrandedJob
    /\ Latch!LatchInv

-----------------------------------------------------------------------------
(***************************************************************************)
(* Facts used everywhere                                                   *)
(***************************************************************************)

LEMMA OutstandingIs == Outstanding = Cardinality(Open)
  BY DEF Outstanding, Open

\* The steps of a worker that has no job before and none afterwards.
RestingStep(w) ==
    \/ TakeNothing(w) \/ StealNothing(w) \/ StealDone(w) \/ StealFromDead(w)
    \/ TestFlag(w) \/ TestWork(w) \/ Sleep(w) \/ WakeSpuriously(w)
    \/ ClearHasWork(w) \/ LeaveOrLoop(w)

LEMMA RestingWorker ==
  ASSUME OwnTypes, NEW w \in Workers, RestingStep(w)
  PROVE  /\ pc' \in [Workers -> Labels]
         /\ pc[w] \notin {"new", "held", "run", "finish"}
         /\ pc'[w] \notin {"new", "held", "run", "finish"}
         /\ \A u \in Workers \ {w} : pc'[u] = pc[u]
         /\ probe' \in [Workers -> 0 .. WorkerCount]
         /\ hasWork' \in [Workers -> {0, 1}]
         /\ UNCHANGED <<job, frameVars, ringVars, latchVars, deque, shutdownFlag>>
<1> USE DEF OwnTypes, At, Goto, frameVars, sharedVars, ringVars, latchVars
<1>1. CASE TakeNothing(w)
  <2>1. 0 \in 0 .. WorkerCount
    BY WorkerCountAssumption
  <2> QED
    BY <1>1, <2>1 DEF TakeNothing, Labels
<1>2. CASE StealNothing(w)
  <2>1. probe[w] + 1 \in 0 .. WorkerCount
    BY <1>2, WorkerCountAssumption DEF StealNothing
  <2> QED
    BY <1>2, <2>1 DEF StealNothing, Labels
<1>3. CASE StealDone(w) \/ StealFromDead(w)
  BY <1>3 DEF StealDone, StealFromDead, Labels
<1>4. CASE TestFlag(w) \/ TestWork(w)
  BY <1>4 DEF TestFlag, TestWork, Labels
<1>5. CASE Sleep(w) \/ WakeSpuriously(w)
  BY <1>5 DEF Sleep, WakeSpuriously, Labels
<1>6. CASE ClearHasWork(w) \/ LeaveOrLoop(w)
  BY <1>6 DEF ClearHasWork, LeaveOrLoop, Labels
<1> QED
  BY <1>1, <1>2, <1>3, <1>4, <1>5, <1>6 DEF RestingStep

\* The steps of a worker with a job.
BusyStep(w) == Take(w) \/ Release(w) \/ Execute(w) \/ Finish(w)

\* The steps of a frame.
InFrameStep ==
    \/ \E n \in 0 .. MaxSlices : BeginFrame(n)
    \/ FrameStep
    \/ WakeFrameSpuriously

\* The steps of init and shutdown.
ServiceStep == Construct \/ Spawn \/ RequestShutdown \/ StopStep

LEMMA NextIs ==
  Next <=> \/ InFrameStep \/ ServiceStep
           \/ \E w \in Workers : RestingStep(w) \/ BusyStep(w) \/ InDone(w)
  BY DEF Next, InFrameStep, ServiceStep, RestingStep, BusyStep, WorkerStep

-----------------------------------------------------------------------------
(***************************************************************************)
(* Types                                                                   *)
(***************************************************************************)

LEMMA FrameTypes ==
  ASSUME OwnTypes, FrameInv, InFrameStep
  PROVE  OwnTypes'
<1> USE DEF OwnTypes, frameVars, sharedVars, workerVars, ringVars
<1>1. ASSUME NEW n \in 0 .. MaxSlices, BeginFrame(n) PROVE OwnTypes'
  BY <1>1 DEF BeginFrame
<1>2. CASE AddToLatch \/ PushFails \/ SetHasWork
  BY <1>2 DEF AddToLatch, PushFails, SetHasWork
<1>3. CASE Push
  <2>1. index \in Slices
    BY <1>3, MaxSlicesAssumption DEF Push, FrameInv, Slices
  <2>2. queue' \in Seq(Slices)
    BY <1>3, <2>1 DEF Push, Ring!Push
  <2> QED
    BY <1>3, <2>2 DEF Push, Ring!Push
<1>4. CASE NotifyWorker
  <2>1. (cursor + 1) % WorkerCount \in Workers
    BY WorkerCountAssumption DEF Workers
  <2> QED
    BY <1>4, <2>1 DEF NotifyWorker, Notified, Labels
<1>5. CASE EnterWait \/ InWait \/ LeaveFrame \/ WakeFrameSpuriously
  BY <1>5 DEF EnterWait, InWait, LeaveFrame, WakeFrameSpuriously
<1> QED
  BY <1>1, <1>2, <1>3, <1>4, <1>5 DEF InFrameStep, FrameStep

LEMMA ServiceTypes ==
  ASSUME OwnTypes, ServiceStep
  PROVE  OwnTypes'
<1> USE DEF OwnTypes, frameVars, sharedVars, workerVars, ringVars
<1>1. CASE Construct
  BY <1>1 DEF Construct
<1>2. CASE Spawn
  <2>1. index' \in Nat
    BY <1>2 DEF Spawn
  <2>2. pc' \in [Workers -> Labels]
    BY <1>2 DEF Spawn, Labels
  <2> QED
    BY <1>2, <2>1, <2>2 DEF Spawn
<1>3. CASE RequestShutdown
  BY <1>3 DEF RequestShutdown
<1>7. CASE StopFlag
  BY <1>7 DEF StopFlag
<1>4. CASE StopNotify
  <2>1. index' \in Nat
    BY <1>4 DEF StopNotify
  <2>2. pc' \in [Workers -> Labels]
    BY <1>4 DEF StopNotify, Notified, Labels
  <2> QED
    BY <1>4, <2>1, <2>2 DEF StopNotify
<1>5. CASE JoinWorker
  <2>1. index' \in Nat
    BY <1>5 DEF JoinWorker
  <2> QED
    BY <1>5, <2>1 DEF JoinWorker
<1>6. CASE Reset
  <2>1. 0 \in Workers
    BY WorkerCountAssumption DEF Workers
  <2>2. queue' \in Seq(Slices)
    BY <1>6 DEF Reset
  <2> QED
    BY <1>6, <2>1, <2>2 DEF Reset
<1> QED
  BY <1>1, <1>2, <1>3, <1>4, <1>5, <1>6, <1>7 DEF ServiceStep, StopStep

LEMMA BusyTypes ==
  ASSUME OwnTypes, JobsInv, NEW w \in Workers, BusyStep(w)
  PROVE  OwnTypes'
<1> USE DEF OwnTypes, frameVars, sharedVars, workerVars, ringVars, At, Goto, Labels
<1>1. CASE Take(w)
  <2>1. /\ queue # <<>> /\ hand' = [hand EXCEPT ![w] = Head(queue)] /\ queue' = Tail(queue)
        /\ lag' = [lag EXCEPT ![w] = Len(queue)]
    BY <1>1 DEF Take, Ring!Pop
  <2>2. Head(queue) \in Slices /\ Tail(queue) \in Seq(Slices) /\ Len(queue) \in Nat
    BY <2>1
  <2> QED
    BY <1>1, <2>1, <2>2 DEF Take
<1>2. CASE Release(w)
  BY <1>2 DEF Release, Ring!Return
<1>3. CASE Execute(w)
  BY <1>3 DEF Execute
<1>4. CASE Finish(w)
  BY <1>4 DEF Finish
<1> QED
  BY <1>1, <1>2, <1>3, <1>4 DEF BusyStep

LEMMA OwnTypesStep ==
  ASSUME ServiceInv, [Next]_vars
  PROVE  OwnTypes'
<1>1. CASE UNCHANGED vars
  BY <1>1 DEF ServiceInv, OwnTypes, vars, frameVars, sharedVars, workerVars, ringVars
<1>2. ASSUME NEW w \in Workers, RestingStep(w) PROVE OwnTypes'
  BY <1>2, RestingWorker DEF ServiceInv, OwnTypes, frameVars, ringVars
<1>3. ASSUME NEW w \in Workers, InDone(w) PROVE OwnTypes'
  BY <1>3 DEF ServiceInv, OwnTypes, InDone, frameVars, sharedVars, workerVars, ringVars
<1> QED
  BY <1>1, <1>2, <1>3, FrameTypes, ServiceTypes, BusyTypes, NextIs DEF ServiceInv

-----------------------------------------------------------------------------
(***************************************************************************)
(* The frame thread                                                        *)
(***************************************************************************)

LEMMA FrameFrame ==
  ASSUME OwnTypes, FrameInv, InFrameStep
  PROVE  FrameInv'
<1> USE DEF FrameInv, OwnTypes, InFrame, sharedVars, latchVars
<1>1. ASSUME NEW n \in 0 .. MaxSlices, BeginFrame(n) PROVE FrameInv'
  BY <1>1 DEF BeginFrame, Latch!Create
<1>2. CASE AddToLatch
  BY <1>2 DEF AddToLatch, Latch!Add
<1>3. CASE Push \/ PushFails \/ SetHasWork
  BY <1>3 DEF Push, PushFails, SetHasWork
<1>4. CASE NotifyWorker
  BY <1>4 DEF NotifyWorker
<1>5. CASE EnterWait
  BY <1>5 DEF EnterWait, Latch!WaitFast
<1>6. CASE InWait \/ WakeFrameSpuriously
  BY <1>6 DEF InWait, WakeFrameSpuriously, Latch!Waiting, Latch!WaitLock, Latch!WaitTest,
       Latch!WaitSleep, Latch!WaitReturn, Latch!WakeSpuriously, frameVars
<1>7. CASE LeaveFrame
  BY <1>7 DEF LeaveFrame, Latch!Destroy
<1> QED
  BY <1>1, <1>2, <1>3, <1>4, <1>5, <1>6, <1>7 DEF InFrameStep, FrameStep

LEMMA ServiceFrame ==
  ASSUME OwnTypes, FrameInv, ServiceStep
  PROVE  FrameInv'
<1> USE WorkerCountAssumption DEF FrameInv, OwnTypes, InFrame, sharedVars, latchVars, Workers
<1>1. CASE Construct
  BY <1>1 DEF Construct
<1>2. CASE Spawn
  <2>1. CASE index + 1 < WorkerCount
    BY <1>2, <2>1 DEF Spawn
  <2>2. CASE ~(index + 1 < WorkerCount)
    BY <1>2, <2>2 DEF Spawn
  <2> QED
    BY <2>1, <2>2
<1>3. CASE RequestShutdown \/ StopFlag
  BY <1>3 DEF RequestShutdown, StopFlag
<1>4. CASE StopNotify
  BY <1>4 DEF StopNotify
<1>5. CASE JoinWorker \/ Reset
  BY <1>5 DEF JoinWorker, Reset
<1> QED
  BY <1>1, <1>2, <1>3, <1>4, <1>5 DEF ServiceStep, StopStep

LEMMA FrameInvStep ==
  ASSUME ServiceInv, [Next]_vars
  PROVE  FrameInv'
<1> USE DEF ServiceInv, FrameInv, InFrame, frameVars, sharedVars, latchVars
<1>1. CASE UNCHANGED vars
  BY <1>1 DEF vars
<1>2. ASSUME NEW w \in Workers, RestingStep(w) PROVE FrameInv'
  BY <1>2, RestingWorker
<1>3. ASSUME NEW w \in Workers, InDone(w) PROVE FrameInv'
  BY <1>3 DEF InDone, Latch!Signalling, Latch!DoneLock, Latch!DoneNotify, Latch!DoneUnlock,
       Latch!TouchDead
<1>4. ASSUME NEW w \in Workers, BusyStep(w) PROVE FrameInv'
  BY <1>4 DEF BusyStep, Take, Release, Execute, Finish, Latch!Done
<1> QED
  BY <1>1, <1>2, <1>3, <1>4, FrameFrame, ServiceFrame, NextIs

-----------------------------------------------------------------------------
(***************************************************************************)
(* The jobs                                                                *)
(***************************************************************************)

LEMMA GivenIs ==
  ASSUME OwnTypes
  PROVE  /\ frame \in {"dispatch", "push", "wait"} => Given = {s \in Slices : s < index}
         /\ frame \in {"flag", "notify"} => Given = {s \in Slices : s <= index}
         /\ ~InFrame => Given = {}
         /\ Given \subseteq Slices
<1>1. \A s \in Slices : s \in Nat
  BY MaxSlicesAssumption DEF Slices
<1> QED
  BY <1>1 DEF OwnTypes, Given, Added, InFrame

LEMMA GivenNextIs ==
  ASSUME OwnTypes'
  PROVE  /\ frame' \in {"dispatch", "push", "wait"} => Given' = {s \in Slices : s < index'}
         /\ frame' \in {"flag", "notify"} => Given' = {s \in Slices : s <= index'}
         /\ ~InFrame' => Given' = {}
<1>1. \A s \in Slices : s \in Nat
  BY MaxSlicesAssumption DEF Slices
<1> QED
  BY <1>1 DEF OwnTypes, Given, Added, InFrame

LEMMA IdleIsEmpty ==
  ASSUME OwnTypes, JobsInv, ~InFrame
  PROVE  queue = <<>> /\ Len(queue) = 0 /\ \A w \in Workers : ~Busy(w)
<1>1. Given = {}
  BY GivenIs
<1>2. Len(queue) \in Nat
  BY DEF OwnTypes
<1>3. Len(queue) = 0
  BY <1>1, <1>2 DEF JobsInv, QueueInv
<1> QED
  BY <1>1, <1>3 DEF JobsInv, CarriedInv, OwnTypes

\* A step that moves no job.
LEMMA JobsUntouched ==
  ASSUME OwnTypes, JobsInv,
         UNCHANGED <<results, queue, hand, job>>,
         Given' = Given, InFrame' => InFrame,
         \A w \in Workers :
            \/ pc'[w] = pc[w]
            \/ pc[w] \notin {"held", "run", "finish"} /\ pc'[w] \notin {"held", "run", "finish"}
  PROVE  JobsInv'
<1>1. HandsInv'
  BY DEF JobsInv, HandsInv
<1>2. QueueInv'
  BY DEF JobsInv, QueueInv
<1>3. CarriedInv'
  BY DEF JobsInv, CarriedInv, Carried, Starting, Busy
<1>4. ResultsInv'
  BY DEF JobsInv, ResultsInv
<1> QED
  BY <1>1, <1>2, <1>3, <1>4 DEF JobsInv

LEMMA BeginJobs ==
  ASSUME OwnTypes, OwnTypes', JobsInv, NEW n \in 0 .. MaxSlices, BeginFrame(n)
  PROVE  JobsInv'
<1>1. ~InFrame /\ UNCHANGED <<pc, job, queue, hand>> /\ results' = [s \in Slices |-> "clear"]
  BY DEF BeginFrame, InFrame, workerVars, ringVars
<1>2. Len(queue) = 0 /\ \A w \in Workers : ~Busy(w)
  BY <1>1, IdleIsEmpty
<1>3. HandsInv'
  BY <1>1 DEF JobsInv, HandsInv
<1>4. QueueInv' /\ CarriedInv'
  BY <1>1, <1>2 DEF QueueInv, CarriedInv, Busy, Starting
<1>5. ResultsInv'
  BY <1>1 DEF ResultsInv
<1> QED
  BY <1>3, <1>4, <1>5 DEF JobsInv

LEMMA PushedIs ==
  ASSUME OwnTypes, OwnTypes', FrameInv, Push \/ PushFails
  PROVE  /\ index \in Slices \ Given
         /\ Given' = Given \cup {index}
         /\ InFrame
         /\ UNCHANGED <<results, pc, job, hand>>
<1>1. /\ frame = "push" /\ frame' = "flag" /\ index' = index
      /\ UNCHANGED <<results, pc, job, hand>>
  BY DEF Push, PushFails, workerVars, ringVars, Ring!Push
<1>2. index \in Slices
  BY <1>1, MaxSlicesAssumption DEF OwnTypes, FrameInv, Slices
<1>3. Given = {s \in Slices : s < index} /\ Given' = {s \in Slices : s <= index}
  BY <1>1, GivenIs, GivenNextIs
<1>4. \A s \in Slices : s <= index <=> s < index \/ s = index
  BY <1>2, MaxSlicesAssumption DEF Slices
<1>5. ~(index < index)
  BY DEF OwnTypes
<1>6. Given' = Given \cup {index}
  BY <1>2, <1>3, <1>4
<1> QED
  BY <1>1, <1>2, <1>3, <1>5, <1>6 DEF InFrame

LEMMA PushJobs ==
  ASSUME OwnTypes, OwnTypes', FrameInv, JobsInv, Push
  PROVE  JobsInv'
<1>1. /\ index \in Slices \ Given /\ Given' = Given \cup {index}
      /\ InFrame
      /\ UNCHANGED <<results, pc, job, hand>>
  BY PushedIs
<1>2. queue' = Append(queue, index) /\ queue \in Seq(Slices)
  BY DEF Push, Ring!Push, OwnTypes
<1>3. /\ Len(queue) \in Nat /\ Len(queue') = Len(queue) + 1
      /\ \A i \in 1 .. Len(queue) : queue'[i] = queue[i]
      /\ queue'[Len(queue) + 1] = index
  BY <1>1, <1>2
<1>4. \A i \in 1 .. Len(queue') : i \in 1 .. Len(queue) \/ i = Len(queue) + 1
  BY <1>3
<1>5. results[index] = "clear"
  BY <1>1 DEF JobsInv, ResultsInv
<1>6. HandsInv'
  BY <1>1 DEF JobsInv, HandsInv
<1>7. QueueInv'
  BY <1>1, <1>3, <1>4, <1>5 DEF JobsInv, QueueInv
<1>8. CarriedInv'
  BY <1>1, <1>3, <1>4 DEF JobsInv, CarriedInv, Carried, Busy, Starting
<1>9. ResultsInv'
  BY <1>1 DEF JobsInv, ResultsInv
<1> QED
  BY <1>6, <1>7, <1>8, <1>9 DEF JobsInv

LEMMA PushFailsJobs ==
  ASSUME OwnTypes, OwnTypes', FrameInv, JobsInv, PushFails
  PROVE  JobsInv'
<1>1. /\ Given' = Given \cup {index} /\ InFrame
      /\ UNCHANGED <<results, pc, job, hand>>
  BY PushedIs
<1>2. queue' = queue
  BY DEF PushFails, ringVars
<1>3. HandsInv'
  BY <1>1 DEF JobsInv, HandsInv
<1>4. QueueInv'
  BY <1>1, <1>2 DEF JobsInv, QueueInv
<1>5. CarriedInv'
  BY <1>1, <1>2 DEF JobsInv, CarriedInv, Carried, Busy, Starting
<1>6. ResultsInv'
  BY <1>1 DEF JobsInv, ResultsInv
<1> QED
  BY <1>3, <1>4, <1>5, <1>6 DEF JobsInv

LEMMA TakeJobs ==
  ASSUME OwnTypes, JobsInv, NEW w \in Workers, Take(w)
  PROVE  JobsInv'
<1>1. /\ pc[w] = "take" /\ pc' = [pc EXCEPT ![w] = "held"]
      /\ hand' = [hand EXCEPT ![w] = Head(queue)] /\ queue' = Tail(queue)
      /\ queue # <<>>
      /\ UNCHANGED <<frame, index, results, job>>
  BY DEF Take, Goto, At, Ring!Pop, frameVars
<1>2. Given' = Given /\ InFrame' = InFrame
  BY <1>1 DEF Given, Added, InFrame
<1>3. /\ Len(queue) \in Nat /\ Len(queue) >= 1 /\ Head(queue) = queue[1]
      /\ Len(queue') = Len(queue) - 1
      /\ \A i \in 1 .. Len(queue) - 1 : queue'[i] = queue[i + 1]
  BY <1>1 DEF OwnTypes
<1>4. \A i \in 1 .. Len(queue') : i + 1 \in 1 .. Len(queue) /\ queue'[i] = queue[i + 1] /\ i + 1 # 1
  BY <1>3
<1>5. 1 \in 1 .. Len(queue)
  BY <1>3
<1>6. queue[1] \in Given /\ results[queue[1]] = "clear" /\ queue[1] # NoJob
  BY <1>5, GivenIs, NoJobAssumption, MaxSlicesAssumption DEF JobsInv, QueueInv, Slices
<1>7. \A i \in 1 .. Len(queue') : queue'[i] # queue[1]
  BY <1>4, <1>5 DEF JobsInv, QueueInv
<1>8. HandsInv'
  BY <1>1, <1>3, <1>6 DEF JobsInv, HandsInv, OwnTypes
<1>9. QueueInv'
  <2>1. \A i \in 1 .. Len(queue') : queue'[i] \in Given /\ results[queue'[i]] = "clear"
    BY <1>4 DEF JobsInv, QueueInv
  <2>2. ASSUME NEW i \in 1 .. Len(queue'), NEW j \in 1 .. Len(queue'), queue'[i] = queue'[j]
        PROVE  i = j
    <3>1. i + 1 = j + 1
      BY <1>4, <2>2 DEF JobsInv, QueueInv
    <3> QED
      BY <3>1
  <2> QED
    BY <1>1, <1>2, <2>1, <2>2 DEF QueueInv
<1>10. pc'[w] = "held" /\ hand'[w] = queue[1]
       /\ \A u \in Workers \ {w} : pc'[u] = pc[u] /\ hand'[u] = hand[u]
  BY <1>1, <1>3 DEF OwnTypes
<1>11. CarriedInv'
  <2>1. \A u \in Workers \ {w} : Busy(u) => Carried(u) # queue[1]
    BY <1>5, <1>6 DEF JobsInv, CarriedInv, Busy, Starting
  <2>2. Carried(w)' = queue[1] /\ Busy(w)' /\ Starting(w)'
    BY <1>10 DEF Carried, Busy, Starting
  <2>3. \A u \in Workers \ {w} : /\ Carried(u)' = Carried(u) /\ Busy(u)' = Busy(u)
                                 /\ Starting(u)' = Starting(u)
    BY <1>1, <1>10 DEF Carried, Busy, Starting
  <2>4. \A u \in Workers : Busy(u)' => Carried(u)' \in Given
    BY <1>6, <2>2, <2>3 DEF JobsInv, CarriedInv
  <2>5. \A u \in Workers : Busy(u)' =>
           results[Carried(u)'] = IF pc'[u] = "finish" THEN "written" ELSE "clear"
    BY <1>6, <1>10, <2>2, <2>3 DEF JobsInv, CarriedInv
  <2>6. \A u, v \in Workers : Busy(u)' /\ Busy(v)' /\ Carried(u)' = Carried(v)' => u = v
    BY <2>1, <2>2, <2>3 DEF JobsInv, CarriedInv
  <2>7. \A u \in Workers : Starting(u)' => \A i \in 1 .. Len(queue') : queue'[i] # Carried(u)'
    BY <1>4, <1>7, <2>2, <2>3 DEF JobsInv, CarriedInv
  <2> QED
    BY <1>1, <1>2, <2>4, <2>5, <2>6, <2>7 DEF CarriedInv
<1>12. ResultsInv'
  BY <1>1, <1>2 DEF JobsInv, ResultsInv
<1> QED
  BY <1>8, <1>9, <1>11, <1>12 DEF JobsInv

LEMMA ReleaseJobs ==
  ASSUME OwnTypes, JobsInv, NEW w \in Workers, Release(w)
  PROVE  JobsInv'
<1>1. /\ pc[w] = "held" /\ pc' = [pc EXCEPT ![w] = "run"]
      /\ hand' = [hand EXCEPT ![w] = NoJob] /\ job' = [job EXCEPT ![w] = hand[w]]
      /\ hand[w] # NoJob
      /\ UNCHANGED <<frame, index, results, queue>>
  BY DEF Release, Goto, At, Ring!Return, frameVars
<1>2. Given' = Given /\ InFrame' = InFrame
  BY <1>1 DEF Given, Added, InFrame
<1>3. HandsInv'
  BY <1>1 DEF JobsInv, HandsInv, OwnTypes
<1>4. \A u \in Workers : /\ Carried(u)' = Carried(u) /\ Busy(u)' = Busy(u)
                         /\ Starting(u)' = Starting(u)
                         /\ (pc'[u] = "finish") = (pc[u] = "finish")
  BY <1>1 DEF Carried, Busy, Starting, OwnTypes
<1>5. CarriedInv'
  BY <1>1, <1>2, <1>4 DEF JobsInv, CarriedInv
<1>6. QueueInv' /\ ResultsInv'
  BY <1>1, <1>2 DEF JobsInv, QueueInv, ResultsInv
<1> QED
  BY <1>3, <1>5, <1>6 DEF JobsInv

LEMMA ExecuteJobs ==
  ASSUME OwnTypes, JobsInv, NEW w \in Workers, Execute(w)
  PROVE  JobsInv'
<1>1. /\ pc[w] = "run" /\ pc' = [pc EXCEPT ![w] = "finish"]
      /\ results' = [results EXCEPT ![job[w]] = "written"]
      /\ UNCHANGED <<frame, index, job, queue, hand>>
  BY DEF Execute, Goto, At, ringVars
<1>2. Given' = Given /\ InFrame' = InFrame
  BY <1>1 DEF Given, Added, InFrame
<1>3. /\ Busy(w) /\ Starting(w) /\ Carried(w) = job[w]
      /\ pc'[w] = "finish" /\ \A u \in Workers \ {w} : pc'[u] = pc[u]
  BY <1>1 DEF Busy, Starting, Carried, OwnTypes
<1>4. job[w] \in Given /\ job[w] \in Slices
  BY <1>3, GivenIs DEF JobsInv, CarriedInv
<1>5. /\ results'[job[w]] = "written"
      /\ \A s \in Slices : s # job[w] => results'[s] = results[s]
  BY <1>1, <1>4 DEF OwnTypes
<1>6. HandsInv'
  BY <1>1, <1>3 DEF JobsInv, HandsInv
<1>7. QueueInv'
  <2>1. \A i \in 1 .. Len(queue) : queue[i] \in Slices /\ queue[i] # job[w]
    BY <1>3, GivenIs DEF JobsInv, CarriedInv, QueueInv
  <2> QED
    BY <1>1, <1>2, <1>5, <2>1 DEF JobsInv, QueueInv
<1>8. CarriedInv'
  <2>1. \A u \in Workers : Carried(u)' = Carried(u) /\ Busy(u)' = Busy(u)
    BY <1>1, <1>3 DEF Carried, Busy
  <2>2. \A u \in Workers : Starting(u)' => Starting(u)
    BY <1>1, <1>3 DEF Starting
  <2>3. \A u \in Workers \ {w} : Busy(u) => Carried(u) # job[w] /\ Carried(u) \in Slices
    BY <1>3, GivenIs DEF JobsInv, CarriedInv
  <2>4. \A u \in Workers : Busy(u)' =>
           results'[Carried(u)'] = IF pc'[u] = "finish" THEN "written" ELSE "clear"
    BY <1>3, <1>5, <2>1, <2>3 DEF JobsInv, CarriedInv
  <2> QED
    BY <1>1, <1>2, <2>1, <2>2, <2>4 DEF JobsInv, CarriedInv
<1>9. ResultsInv'
  BY <1>1, <1>2, <1>4, <1>5 DEF JobsInv, ResultsInv
<1> QED
  BY <1>6, <1>7, <1>8, <1>9 DEF JobsInv

LEMMA FinishJobs ==
  ASSUME OwnTypes, JobsInv, NEW w \in Workers, Finish(w)
  PROVE  JobsInv'
<1>1. /\ pc[w] = "finish" /\ pc' = [pc EXCEPT ![w] = "take"]
      /\ job' = [job EXCEPT ![w] = NoJob]
      /\ UNCHANGED <<frame, index, results, queue, hand>>
  BY DEF Finish, Goto, At, ringVars, frameVars
<1>2. Given' = Given /\ InFrame' = InFrame
  BY <1>1 DEF Given, Added, InFrame
<1>3. /\ ~Busy(w)' /\ ~Starting(w)'
      /\ \A u \in Workers \ {w} : /\ pc'[u] = pc[u] /\ Carried(u)' = Carried(u)
                                  /\ Busy(u)' = Busy(u) /\ Starting(u)' = Starting(u)
  BY <1>1 DEF Busy, Starting, Carried, OwnTypes
<1>4. HandsInv'
  BY <1>1 DEF JobsInv, HandsInv, OwnTypes
<1>5. CarriedInv'
  BY <1>1, <1>2, <1>3 DEF JobsInv, CarriedInv
<1>6. QueueInv' /\ ResultsInv'
  BY <1>1, <1>2 DEF JobsInv, QueueInv, ResultsInv
<1> QED
  BY <1>4, <1>5, <1>6 DEF JobsInv

-----------------------------------------------------------------------------
(***************************************************************************)
(* The jobs that the latch waits for                                       *)
(***************************************************************************)

LEMMA OpenIsFinite ==
  ASSUME TRUE
  PROVE  /\ IsFiniteSet(Slices) /\ IsFiniteSet(Open)
         /\ Open \subseteq Slices
         /\ Outstanding \in Nat
<1>1. IsFiniteSet(Slices)
  BY FS_Interval, MaxSlicesAssumption DEF Slices
<1>2. Open \subseteq Slices
  BY DEF Open, Added
<1>3. IsFiniteSet(Open)
  BY <1>1, <1>2, FS_Subset
<1> QED
  BY <1>1, <1>2, <1>3, FS_CardinalityType, OutstandingIs

\* When the counter is zero, nothing of the frame is left anywhere.
LEMMA NothingLeft ==
  ASSUME OwnTypes, JobsInv, Outstanding = 0
  PROVE  /\ Len(queue) = 0
         /\ \A w \in Workers : ~Busy(w)
         /\ \A s \in Added : results[s] = "written"
<1>1. Open = {}
  BY OpenIsFinite, OutstandingIs, FS_EmptySet
<1>2. \A s \in Added : results[s] = "written"
  BY <1>1 DEF Open, OwnTypes, Added
<1>3. Given \subseteq Added
  BY DEF Given
<1>4. Len(queue) \in Nat
  BY DEF OwnTypes
<1>5. Len(queue) = 0
  <2>1. ASSUME NEW i \in 1 .. Len(queue) PROVE FALSE
    BY <1>2, <1>3, <2>1 DEF JobsInv, QueueInv
  <2> QED
    BY <1>4, <2>1
<1>6. ASSUME NEW w \in Workers, Busy(w) PROVE FALSE
  <2>1. Carried(w) \in Added /\ results[Carried(w)] = "written"
    BY <1>2, <1>3, <1>6 DEF JobsInv, CarriedInv
  <2>2. pc[w] = "finish"
    BY <1>6, <2>1 DEF JobsInv, CarriedInv
  <2> QED
    BY <1>1, <2>1, <2>2 DEF Open, Carried
<1> QED
  BY <1>2, <1>5, <1>6

LEMMA FrameJobs ==
  ASSUME OwnTypes, OwnTypes', FrameInv, JobsInv, InFrameStep,
         Outstanding = 0 \/ ~LeaveFrame
  PROVE  JobsInv'
<1> USE DEF sharedVars, workerVars, ringVars, frameVars
<1>1. ASSUME NEW n \in 0 .. MaxSlices, BeginFrame(n) PROVE JobsInv'
  BY <1>1, BeginJobs
<1>2. CASE AddToLatch
  <2>1. Given' = Given
    BY <1>2, GivenIs, GivenNextIs DEF AddToLatch
  <2> QED
    BY <1>2, <2>1, JobsUntouched DEF AddToLatch, InFrame
<1>3. CASE SetHasWork
  <2>1. Given' = Given
    BY <1>3, GivenIs, GivenNextIs DEF SetHasWork
  <2> QED
    BY <1>3, <2>1, JobsUntouched DEF SetHasWork, InFrame
<1>4. CASE NotifyWorker
  <2>1. Given = {s \in Slices : s <= index} /\ Given' = {s \in Slices : s < index + 1}
    BY <1>4, GivenIs, GivenNextIs DEF NotifyWorker
  <2>2. \A s \in Slices : s <= index <=> s < index + 1
    BY MaxSlicesAssumption DEF Slices, OwnTypes
  <2>3. Given' = Given
    BY <2>1, <2>2
  <2>4. \A w \in Workers :
            \/ pc'[w] = pc[w]
            \/ pc[w] \notin {"held", "run", "finish"} /\ pc'[w] \notin {"held", "run", "finish"}
    BY <1>4 DEF NotifyWorker, Notified, OwnTypes
  <2> QED
    BY <1>4, <2>3, <2>4, JobsUntouched DEF NotifyWorker, InFrame
<1>5. CASE EnterWait
  <2>1. Given' = Given
    BY <1>5, GivenIs, GivenNextIs DEF EnterWait
  <2> QED
    BY <1>5, <2>1, JobsUntouched DEF EnterWait, InFrame
<1>6. CASE InWait \/ WakeFrameSpuriously
  <2>1. Given' = Given
    BY <1>6, GivenIs, GivenNextIs DEF InWait, WakeFrameSpuriously
  <2> QED
    BY <1>6, <2>1, JobsUntouched DEF InWait, WakeFrameSpuriously, InFrame
<1>7. CASE LeaveFrame
  <2>1. Len(queue) = 0 /\ \A w \in Workers : ~Busy(w)
    BY <1>7, NothingLeft
  <2>2. ~InFrame' /\ UNCHANGED <<pc, job, queue, hand>>
    BY <1>7 DEF LeaveFrame, InFrame
  <2>3. HandsInv'
    BY <2>2 DEF JobsInv, HandsInv
  <2>4. QueueInv' /\ CarriedInv' /\ ResultsInv'
    BY <2>1, <2>2 DEF QueueInv, CarriedInv, ResultsInv, Busy, Starting
  <2> QED
    BY <2>3, <2>4 DEF JobsInv
<1> QED
  BY <1>1, <1>2, <1>3, <1>4, <1>5, <1>6, <1>7, PushJobs, PushFailsJobs
     DEF InFrameStep, FrameStep

LEMMA ServiceJobs ==
  ASSUME OwnTypes, OwnTypes', JobsInv, ServiceStep
  PROVE  JobsInv'
<1> USE DEF sharedVars, workerVars, ringVars, frameVars
<1>1. ~InFrame /\ ~InFrame'
  BY DEF ServiceStep, StopStep, Construct, Spawn, RequestShutdown, StopFlag, StopNotify,
         JoinWorker, Reset, InFrame
<1>2. queue = <<>> /\ Given' = Given
  BY <1>1, IdleIsEmpty, GivenIs, GivenNextIs
<1>3. UNCHANGED <<results, queue, hand, job>>
  BY <1>2 DEF ServiceStep, StopStep, Construct, Spawn, RequestShutdown, StopFlag, StopNotify,
         JoinWorker, Reset
<1>4. ASSUME NEW w \in Workers
      PROVE  \/ pc'[w] = pc[w]
             \/ pc[w] \notin {"held", "run", "finish"} /\ pc'[w] \notin {"held", "run", "finish"}
  <2>1. ~Busy(w)
    BY <1>1, IdleIsEmpty
  <2>2. CASE Spawn \/ StopNotify
    BY <2>1, <2>2 DEF Busy, Spawn, StopNotify, Notified, OwnTypes
  <2> QED
    BY <2>2 DEF ServiceStep, StopStep, Construct, RequestShutdown, StopFlag, JoinWorker, Reset
<1> QED
  BY <1>1, <1>2, <1>3, <1>4, JobsUntouched

LEMMA JobsInvStep ==
  ASSUME ServiceInv, OwnTypes', [Next]_vars
  PROVE  JobsInv'
<1> USE DEF ServiceInv
<1>1. LeaveFrame => Outstanding = 0
  BY DEF LeaveFrame, Latch!Destroy, Latch!LatchInv, Latch!ReturnedMeansDone
<1>2. CASE UNCHANGED vars
  <2>1. Given' = Given /\ InFrame' = InFrame
    BY <1>2 DEF Given, Added, InFrame, vars, frameVars
  <2> QED
    BY <1>2, <2>1, JobsUntouched DEF vars, frameVars, workerVars, ringVars
<1>3. ASSUME NEW w \in Workers, RestingStep(w) PROVE JobsInv'
  <2>1. UNCHANGED <<frameVars, job, ringVars>>
    BY <1>3, RestingWorker
  <2>2. Given' = Given /\ InFrame' = InFrame
    BY <2>1 DEF Given, Added, InFrame, frameVars
  <2>3. \A u \in Workers :
            \/ pc'[u] = pc[u]
            \/ pc[u] \notin {"held", "run", "finish"} /\ pc'[u] \notin {"held", "run", "finish"}
    BY <1>3, RestingWorker
  <2> QED
    BY <2>1, <2>2, <2>3, JobsUntouched DEF frameVars, ringVars
<1>4. ASSUME NEW w \in Workers, InDone(w) PROVE JobsInv'
  <2>1. UNCHANGED <<frameVars, workerVars, ringVars>>
    BY <1>4 DEF InDone
  <2>2. Given' = Given /\ InFrame' = InFrame
    BY <2>1 DEF Given, Added, InFrame, frameVars
  <2> QED
    BY <2>1, <2>2, JobsUntouched DEF frameVars, workerVars, ringVars
<1>5. ASSUME NEW w \in Workers, BusyStep(w) PROVE JobsInv'
  BY <1>5, TakeJobs, ReleaseJobs, ExecuteJobs, FinishJobs DEF BusyStep
<1> QED
  BY <1>1, <1>2, <1>3, <1>4, <1>5, FrameJobs, ServiceJobs, NextIs

-----------------------------------------------------------------------------
(***************************************************************************)
(* The latch: its invariant, for whatever Outstanding is                   *)
(***************************************************************************)

LEMMA LatchKeepsInv ==
  ASSUME Latch!LatchInv, [Latch!Next]_(Latch!vars)
  PROVE  Latch!LatchInv'
<1>0. FrameThread \notin Workers /\ NoThread \notin Workers \cup {FrameThread}
  BY FrameThreadAssumption DEF Workers
<1> USE <1>0 DEF Latch!LatchInv
<1> USE DEF Latch!TypeOK, Latch!Counted, Latch!HolderIs, Latch!ReturnedMeansDone,
            Latch!NoMissedSignal
<1>1. CASE UNCHANGED Latch!vars
  BY <1>1 DEF Latch!vars
<1>2. CASE Latch!AddJob
  BY <1>2 DEF Latch!AddJob, Latch!Add
<1>3. CASE /\ Latch!Create \/ Latch!WaitFast \/ Latch!WakeSpuriously \/ Latch!Waiting
           /\ UNCHANGED Outstanding
  BY <1>3 DEF Latch!Create, Latch!WaitFast, Latch!WakeSpuriously, Latch!Waiting,
       Latch!WaitLock, Latch!WaitTest, Latch!WaitSleep, Latch!WaitReturn
<1>4. CASE Latch!Destroy /\ UNCHANGED Outstanding
  BY <1>4 DEF Latch!Destroy
<1>5. ASSUME NEW w \in Workers, Latch!Signalling(w), UNCHANGED Outstanding
      PROVE  Latch!LatchInv'
  <2> USE <1>5
          DEF Latch!Signalling, Latch!DoneLock, Latch!DoneNotify, Latch!DoneUnlock,
              Latch!TouchDead
  <2>1. Latch!TypeOK' /\ Latch!Counted' /\ Latch!ReturnedMeansDone'
    OBVIOUS
  <2>2. Latch!HolderIs'
    OBVIOUS
  <2>3. Latch!NoMissedSignal'
    OBVIOUS
  <2> QED
    BY <2>1, <2>2, <2>3
<1>6. ASSUME NEW w \in Workers, Latch!FinishJob(w)
      PROVE  Latch!LatchInv'
  BY <1>6 DEF Latch!FinishJob, Latch!Done
<1> QED
  BY <1>1, <1>2, <1>3, <1>4, <1>5, <1>6 DEF Latch!Next

-----------------------------------------------------------------------------
(***************************************************************************)
(* What each step does to the number of outstanding jobs                   *)
(***************************************************************************)

LEMMA OpenUntouched ==
  ASSUME OwnTypes, Added' = Added, UNCHANGED results,
         \A w \in Workers : /\ pc'[w] = "finish" <=> pc[w] = "finish"
                            /\ pc[w] = "finish" => job'[w] = job[w]
  PROVE  Outstanding' = Outstanding
<1>1. Open' = Open
  BY DEF Open
<1>2. Outstanding' = Cardinality(Open')
  BY DEF Outstanding, Open
<1> QED
  BY <1>1, <1>2, OutstandingIs

LEMMA NoneAdded ==
  ASSUME TRUE
  PROVE  /\ Added = {} => Outstanding = 0
         /\ Added' = {} => Outstanding' = 0
<1>1. ASSUME Added = {} PROVE Outstanding = 0
  <2>1. Open = {}
    BY <1>1 DEF Open
  <2> QED
    BY <2>1, OutstandingIs, FS_EmptySet
<1>2. ASSUME Added' = {} PROVE Outstanding' = 0
  <2>1. Open' = {}
    BY <1>2 DEF Open
  <2>2. Outstanding' = Cardinality(Open')
    BY DEF Outstanding, Open
  <2> QED
    BY <2>1, <2>2, FS_EmptySet
<1> QED
  BY <1>1, <1>2

LEMMA AddOpens ==
  ASSUME OwnTypes, FrameInv, JobsInv, AddToLatch
  PROVE  Outstanding' = Outstanding + 1 /\ Outstanding < MaxSlices
<1>1. /\ frame = "dispatch" /\ frame' = "push" /\ index < count /\ index' = index
      /\ UNCHANGED <<results, pc, job>>
  BY DEF AddToLatch, workerVars
<1>2. index \in Slices
  BY <1>1, MaxSlicesAssumption DEF OwnTypes, Slices
<1>3. index \notin Added /\ Added' = Added \cup {index}
  BY <1>1, <1>2, MaxSlicesAssumption DEF Added, InFrame, OwnTypes, Slices
<1>4. results[index] = "clear"
  BY <1>1, <1>2, <1>3 DEF JobsInv, ResultsInv, Given, InFrame
<1>5. index \notin Open /\ Open' = Open \cup {index}
  BY <1>1, <1>3, <1>4 DEF Open
<1>6. Cardinality(Open') = Cardinality(Open) + 1
  BY <1>5, OpenIsFinite, FS_AddElement
<1>7. Outstanding' = Cardinality(Open')
  BY DEF Outstanding, Open
<1>8. Cardinality(Slices) = MaxSlices
  BY FS_Interval, MaxSlicesAssumption DEF Slices
<1>9. Cardinality(Open) <= MaxSlices /\ (Cardinality(Open) = MaxSlices => Open = Slices)
  BY <1>8, OpenIsFinite, FS_Subset
<1>10. Cardinality(Open) # MaxSlices
  BY <1>2, <1>5, <1>9
<1> QED
  BY <1>6, <1>7, <1>9, <1>10, OutstandingIs, OpenIsFinite, MaxSlicesAssumption

LEMMA FinishCloses ==
  ASSUME OwnTypes, JobsInv, NEW w \in Workers, Finish(w)
  PROVE  Outstanding' = Outstanding - 1 /\ Outstanding > 0
<1>1. /\ pc[w] = "finish" /\ pc' = [pc EXCEPT ![w] = "take"]
      /\ job' = [job EXCEPT ![w] = NoJob]
      /\ UNCHANGED <<frame, index, results>>
  BY DEF Finish, Goto, At, frameVars
<1>2. Added' = Added
  BY <1>1 DEF Added, InFrame
<1>3. Busy(w) /\ Carried(w) = job[w]
  BY <1>1 DEF Busy, Carried
<1>4. job[w] \in Added /\ results[job[w]] = "written"
  BY <1>1, <1>3 DEF JobsInv, CarriedInv, Given
<1>5. \A u \in Workers \ {w} : pc[u] = "finish" => job[u] # job[w]
  BY <1>3 DEF JobsInv, CarriedInv, Busy, Carried
<1>6. \A u \in Workers : pc'[u] = "finish" <=> u # w /\ pc[u] = "finish"
  BY <1>1 DEF OwnTypes
<1>7. \A u \in Workers \ {w} : job'[u] = job[u]
  BY <1>1 DEF OwnTypes
<1>8. job[w] \in Open
  BY <1>1, <1>4 DEF Open
<1>9. Open' = Open \ {job[w]}
  <2>1. ASSUME NEW s \in Open', s # job[w] PROVE s \in Open
    BY <1>1, <1>2, <1>6, <1>7, <2>1 DEF Open
  <2>2. job[w] \notin Open'
    BY <1>1, <1>4, <1>5, <1>6, <1>7 DEF Open
  <2>3. ASSUME NEW s \in Open, s # job[w] PROVE s \in Open'
    BY <1>1, <1>2, <1>6, <1>7, <2>3 DEF Open
  <2> QED
    BY <2>1, <2>2, <2>3
<1>10. Cardinality(Open') = Cardinality(Open) - 1
  BY <1>8, <1>9, OpenIsFinite, FS_RemoveElement
<1>11. Outstanding' = Cardinality(Open')
  BY DEF Outstanding, Open
<1>12. Outstanding # 0
  BY <1>8, OpenIsFinite, OutstandingIs, FS_EmptySet
<1> QED
  BY <1>10, <1>11, <1>12, OutstandingIs, OpenIsFinite

LEMMA ExecuteKeepsOpen ==
  ASSUME OwnTypes, JobsInv, NEW w \in Workers, Execute(w)
  PROVE  Outstanding' = Outstanding
<1>1. /\ pc[w] = "run" /\ pc' = [pc EXCEPT ![w] = "finish"]
      /\ results' = [results EXCEPT ![job[w]] = "written"]
      /\ UNCHANGED <<frame, index, job>>
  BY DEF Execute, Goto, At
<1>2. Added' = Added /\ Added \subseteq Slices
  BY <1>1 DEF Added, InFrame
<1>3. Busy(w) /\ Carried(w) = job[w]
  BY <1>1 DEF Busy, Carried
<1>4. job[w] \in Added /\ results[job[w]] = "clear"
  BY <1>1, <1>3 DEF JobsInv, CarriedInv, Given
<1>5. pc'[w] = "finish" /\ \A u \in Workers \ {w} : pc'[u] = pc[u]
  BY <1>1 DEF OwnTypes
<1>6. /\ results'[job[w]] = "written"
      /\ \A s \in Slices : s # job[w] => results'[s] = results[s]
  BY <1>1, <1>2, <1>4 DEF OwnTypes
<1>7. Open' = Open
  <2>1. job[w] \in Open /\ job[w] \in Open'
    BY <1>1, <1>2, <1>4, <1>5 DEF Open
  <2>2. ASSUME NEW s \in Added, s # job[w] PROVE s \in Open <=> s \in Open'
    BY <1>1, <1>2, <1>5, <1>6, <2>2 DEF Open
  <2>3. Open \subseteq Added /\ Open' \subseteq Added
    BY <1>2 DEF Open
  <2> QED
    BY <2>1, <2>2, <2>3
<1>8. Outstanding' = Cardinality(Open')
  BY DEF Outstanding, Open
<1> QED
  BY <1>7, <1>8, OutstandingIs

LEMMA FrameKeepsOpen ==
  ASSUME OwnTypes, Push \/ PushFails \/ SetHasWork \/ NotifyWorker \/ EnterWait
                   \/ InWait \/ WakeFrameSpuriously
  PROVE  Outstanding' = Outstanding
<1> USE DEF frameVars, workerVars
<1>1. UNCHANGED <<results, job>>
  BY DEF Push, PushFails, SetHasWork, NotifyWorker, EnterWait, InWait, WakeFrameSpuriously
<1>2. \A w \in Workers : pc'[w] = "finish" <=> pc[w] = "finish"
  <2>1. CASE NotifyWorker
    BY <2>1 DEF NotifyWorker, Notified, OwnTypes
  <2> QED
    BY <2>1 DEF Push, PushFails, SetHasWork, EnterWait, InWait, WakeFrameSpuriously
<1>3. Added' = Added
  <2>1. CASE NotifyWorker
    <3>1. \A s \in Slices : s < index + 1 <=> s < index \/ s = index
      BY MaxSlicesAssumption DEF Slices, OwnTypes
    <3> QED
      BY <2>1, <3>1 DEF NotifyWorker, Added, InFrame
  <2>2. CASE Push \/ PushFails \/ SetHasWork
    BY <2>2 DEF Push, PushFails, SetHasWork, Added, InFrame
  <2>3. CASE EnterWait \/ InWait \/ WakeFrameSpuriously
    BY <2>3 DEF EnterWait, InWait, WakeFrameSpuriously, Added, InFrame
  <2> QED
    BY <2>1, <2>2, <2>3
<1> QED
  BY <1>1, <1>2, <1>3, OpenUntouched

\* Every step of the scheduler is a step of the latch, or none.
LEMMA LatchStep ==
  ASSUME ServiceInv, [Next]_vars
  PROVE  [Latch!Next]_(Latch!vars)
<1> USE DEF ServiceInv, frameVars, workerVars, ringVars
<1>1. CASE UNCHANGED vars
  <2>1. Added' = Added
    BY <1>1 DEF Added, InFrame, vars
  <2>2. Outstanding' = Outstanding
    BY <1>1, <2>1, OpenUntouched DEF vars
  <2> QED
    BY <1>1, <2>2 DEF Latch!vars, vars, latchVars
<1>2. ASSUME NEW n \in 0 .. MaxSlices, BeginFrame(n) PROVE Latch!Next
  <2>1. Added = {} /\ Added' = {}
    BY <1>2, MaxSlicesAssumption DEF BeginFrame, Added, InFrame, Slices
  <2>2. UNCHANGED Outstanding
    BY <2>1, NoneAdded
  <2> QED
    BY <1>2, <2>2 DEF BeginFrame, Latch!Next
<1>3. CASE AddToLatch
  BY <1>3, AddOpens DEF AddToLatch, Latch!Next, Latch!AddJob
<1>4. CASE Push \/ PushFails \/ SetHasWork \/ NotifyWorker
  <2>1. Outstanding' = Outstanding
    BY <1>4, FrameKeepsOpen
  <2> QED
    BY <1>4, <2>1 DEF Push, PushFails, SetHasWork, NotifyWorker, latchVars, Latch!vars
<1>5. CASE EnterWait \/ InWait \/ WakeFrameSpuriously
  <2>1. Outstanding' = Outstanding
    BY <1>5, FrameKeepsOpen
  <2> QED
    BY <1>5, <2>1 DEF EnterWait, InWait, WakeFrameSpuriously, Latch!Next
<1>6. CASE LeaveFrame
  <2>1. Outstanding = 0
    BY <1>6 DEF LeaveFrame, Latch!Destroy, Latch!LatchInv, Latch!ReturnedMeansDone
  <2>2. Added' = {}
    BY <1>6 DEF LeaveFrame, Added, InFrame
  <2>3. UNCHANGED Outstanding
    BY <2>1, <2>2, NoneAdded
  <2> QED
    BY <1>6, <2>3 DEF LeaveFrame, Latch!Next
<1>7. CASE ServiceStep
  <2>1. Added = {} /\ Added' = {}
    BY <1>7 DEF ServiceStep, StopStep, Construct, Spawn, RequestShutdown, StopFlag,
         StopNotify, JoinWorker, Reset, Added, InFrame
  <2>2. UNCHANGED latchVars
    BY <1>7 DEF ServiceStep, StopStep, Construct, Spawn, RequestShutdown, StopFlag,
         StopNotify, JoinWorker, Reset
  <2> QED
    BY <2>1, <2>2, NoneAdded DEF latchVars, Latch!vars
<1>8. ASSUME NEW w \in Workers, RestingStep(w) PROVE UNCHANGED Latch!vars
  <2>1. Added' = Added
    BY <1>8, RestingWorker DEF Added, InFrame
  <2>2. \A u \in Workers : pc'[u] = "finish" <=> pc[u] = "finish"
    BY <1>8, RestingWorker
  <2>3. Outstanding' = Outstanding
    BY <1>8, <2>1, <2>2, RestingWorker, OpenUntouched
  <2> QED
    BY <1>8, <2>3, RestingWorker DEF latchVars, Latch!vars
<1>9. ASSUME NEW w \in Workers, InDone(w) PROVE Latch!Next
  <2>1. Added' = Added
    BY <1>9 DEF InDone, Added, InFrame
  <2>2. Outstanding' = Outstanding
    BY <1>9, <2>1, OpenUntouched DEF InDone
  <2> QED
    BY <1>9, <2>2 DEF InDone, Latch!Next
<1>10. ASSUME NEW w \in Workers, Take(w) \/ Release(w) PROVE UNCHANGED Latch!vars
  <2>1. Added' = Added /\ UNCHANGED results
    BY <1>10 DEF Take, Release, Added, InFrame
  <2>2. \A u \in Workers : /\ pc'[u] = "finish" <=> pc[u] = "finish"
                           /\ pc[u] = "finish" => job'[u] = job[u]
    BY <1>10 DEF Take, Release, Goto, At, OwnTypes
  <2>3. Outstanding' = Outstanding
    BY <2>1, <2>2, OpenUntouched
  <2> QED
    BY <1>10, <2>3 DEF Take, Release, latchVars, Latch!vars
<1>11. ASSUME NEW w \in Workers, Execute(w) PROVE UNCHANGED Latch!vars
  BY <1>11, ExecuteKeepsOpen DEF Execute, latchVars, Latch!vars
<1>12. ASSUME NEW w \in Workers, Finish(w) PROVE Latch!Next
  BY <1>12, FinishCloses DEF Finish, Latch!Next, Latch!FinishJob
<1> QED
  BY <1>1, <1>2, <1>3, <1>4, <1>5, <1>6, <1>7, <1>8, <1>9, <1>10, <1>11, <1>12, NextIs
     DEF InFrameStep, FrameStep, BusyStep

-----------------------------------------------------------------------------
(***************************************************************************)
(* The flags                                                               *)
(***************************************************************************)

LEMMA StrandedStep ==
  ASSUME ServiceInv, OwnTypes', JobsInv', [Next]_vars
  PROVE  NoStrandedJob'
<1> USE DEF ServiceInv
<1> DEFINE Aware(w) == hasWork[w] = 1 \/ pc[w] \in {"take", "held", "run", "finish", "leave"}
<1>0. ASSUME ~InFrame' PROVE NoStrandedJob'
  <2>1. Given' = {}
    BY <1>0, GivenNextIs
  <2>2. queue' = <<>>
    BY <2>1 DEF JobsInv, QueueInv, OwnTypes
  <2> QED
    BY <2>2 DEF NoStrandedJob
<1>1. CASE UNCHANGED vars
  BY <1>1 DEF NoStrandedJob, vars, frameVars, sharedVars, workerVars, ringVars
<1>2. CASE Push \/ PushFails
  BY <1>2 DEF NoStrandedJob, Push, PushFails
<1>3. CASE SetHasWork
  <2>1. cursor \in Workers /\ hasWork'[cursor] = 1
    BY <1>3 DEF SetHasWork, OwnTypes
  <2> QED
    BY <2>1 DEF NoStrandedJob
<1>4. CASE NotifyWorker
  <2>1. \A w \in Workers : Aware(w) => Aware(w)'
    BY <1>4 DEF NotifyWorker, Notified, OwnTypes, sharedVars
  <2> QED
    BY <1>4, <2>1 DEF NoStrandedJob, NotifyWorker, ringVars
<1>5. CASE AddToLatch \/ EnterWait \/ InWait \/ WakeFrameSpuriously
  BY <1>5 DEF NoStrandedJob, AddToLatch, EnterWait, InWait, WakeFrameSpuriously,
       frameVars, sharedVars, workerVars, ringVars
<1>6. ASSUME NEW n \in 0 .. MaxSlices, BeginFrame(n) PROVE NoStrandedJob'
  BY <1>6 DEF NoStrandedJob, BeginFrame, sharedVars, workerVars, ringVars
<1>7. CASE LeaveFrame \/ ServiceStep
  <2>1. ~InFrame'
    BY <1>7 DEF LeaveFrame, ServiceStep, StopStep, Construct, Spawn, RequestShutdown,
         StopFlag, StopNotify, JoinWorker, Reset, InFrame
  <2> QED
    BY <1>0, <2>1
<1>8. ASSUME NEW w \in Workers, RestingStep(w), InFrame, queue # <<>> PROVE NoStrandedJob'
  <2>1. UNCHANGED <<frame, queue>>
    BY <1>8, RestingWorker DEF frameVars, ringVars
  <2>2. \A u \in Workers : Aware(u) => Aware(u)'
    <3>1. ~shutdownFlag
      BY <1>8 DEF FrameInv, InFrame
    <3>2. \A u \in Workers \ {w} : pc'[u] = pc[u] /\ hasWork'[u] = hasWork[u]
      BY <1>8, RestingWorker
         DEF RestingStep, TakeNothing, StealNothing, StealDone, StealFromDead, TestFlag,
             TestWork, Sleep, WakeSpuriously, ClearHasWork, LeaveOrLoop, sharedVars, OwnTypes
    <3>3. ASSUME Aware(w) PROVE Aware(w)'
      <4>1. CASE ClearHasWork(w)
        BY <4>1 DEF ClearHasWork, Goto, At, OwnTypes
      <4>2. CASE LeaveOrLoop(w)
        BY <3>1, <4>2 DEF LeaveOrLoop, Goto, At, OwnTypes
      <4>3. CASE TakeNothing(w)
        BY <1>8, <4>3 DEF TakeNothing
      <4> QED
        BY <1>8, <3>3, <4>1, <4>2, <4>3
           DEF RestingStep, StealNothing, StealDone, StealFromDead, TestFlag,
             TestWork, Sleep, WakeSpuriously, Goto, At, sharedVars, OwnTypes
    <3> QED
      BY <3>2, <3>3
  <2> QED
    BY <2>1, <2>2 DEF NoStrandedJob
<1>9. ASSUME NEW w \in Workers, InDone(w) PROVE NoStrandedJob'
  BY <1>9 DEF NoStrandedJob, InDone, frameVars, sharedVars, workerVars, ringVars
<1>10. ASSUME NEW w \in Workers, BusyStep(w) PROVE NoStrandedJob'
  <2>1. pc'[w] \in {"take", "held", "run", "finish", "leave"}
    BY <1>10 DEF BusyStep, Take, Release, Execute, Finish, Goto, At, OwnTypes
  <2> QED
    BY <2>1 DEF NoStrandedJob
<1>11. ASSUME NEW w \in Workers, RestingStep(w) PROVE NoStrandedJob'
  <2>1. queue' = queue /\ InFrame' = InFrame
    BY <1>11, RestingWorker DEF frameVars, ringVars, InFrame
  <2> QED
    BY <1>0, <1>8, <1>11, <2>1 DEF NoStrandedJob
<1> QED
  BY <1>1, <1>2, <1>3, <1>4, <1>5, <1>6, <1>7, <1>9, <1>10, <1>11, NextIs
     DEF InFrameStep, FrameStep

-----------------------------------------------------------------------------
(***************************************************************************)
(* The tickets                                                             *)
(***************************************************************************)

LEMMA RingTypes ==
  ASSUME OwnTypes
  PROVE  /\ Len(queue) \in Nat
         /\ \A i \in 1 .. Len(queue) : queue[i] \in Nat
         /\ \A w \in Workers : hand[w] # NoJob => hand[w] \in Nat
         /\ \A w \in Workers : lag[w] \in Nat
         /\ Tried \in Nat
<1>1. \A s \in Slices : s \in Nat
  BY MaxSlicesAssumption DEF Slices
<1>2. \A i \in 1 .. Len(queue) : queue[i] \in Slices
  BY DEF OwnTypes
<1> QED
  BY <1>1, <1>2 DEF OwnTypes, Tried

LEMMA TriedNextType ==
  ASSUME OwnTypes'
  PROVE  Tried' \in Nat
<1>1. index' \in Nat
  BY DEF OwnTypes
<1>2. Tried' = index' \/ Tried' = index' + 1
  BY DEF Tried
<1> QED
  BY <1>1, <1>2

\* A step that moves nothing in the ring.
LEMMA TicketsUntouched ==
  ASSUME OwnTypes, OwnTypes', TicketsInv, UNCHANGED ringVars,
         InFrame' => InFrame /\ Tried <= Tried'
  PROVE  TicketsInv'
<1> SUFFICES ASSUME InFrame' PROVE TicketsInv'
  BY DEF TicketsInv
<1>1. Tried \in Nat /\ Tried' \in Nat /\ Tried <= Tried'
  BY RingTypes, TriedNextType
<1>2. UNCHANGED <<queue, hand, lag>> /\ Len(queue) \in Nat
  BY DEF ringVars, OwnTypes
<1>3. ASSUME NEW i \in 1 .. Len(queue) PROVE queue[i] + Len(queue) - i + 1 <= Tried'
  <2>1. queue[i] \in Nat
    BY RingTypes
  <2>2. queue[i] + Len(queue) - i + 1 <= Tried
    BY DEF TicketsInv
  <2> QED
    BY <1>1, <1>2, <2>1, <2>2
<1>4. ASSUME NEW w \in Workers, hand[w] # NoJob PROVE hand[w] + lag[w] <= Tried'
  <2>1. hand[w] \in Nat /\ lag[w] \in Nat
    BY <1>4, RingTypes
  <2>2. hand[w] + lag[w] <= Tried
    BY <1>4 DEF TicketsInv
  <2> QED
    BY <1>1, <2>1, <2>2
<1> QED
  BY <1>2, <1>3, <1>4 DEF TicketsInv

LEMMA PushTickets ==
  ASSUME OwnTypes, OwnTypes', TicketsInv, Push
  PROVE  TicketsInv'
<1>1. InFrame /\ index \in Nat /\ Tried = index /\ Tried' = index + 1
  BY DEF Push, InFrame, Tried, OwnTypes
<1>2. /\ queue' = Append(queue, index) /\ hand' = hand
      /\ lag' = [w \in Workers |-> IF hand[w] = NoJob THEN 0 ELSE lag[w] + 1]
  BY DEF Push, Ring!Push
<1>3. ASSUME NEW i \in 1 .. Len(queue') PROVE queue'[i] + Len(queue') - i + 1 <= Tried'
  <2>1. Len(queue) \in Nat /\ Len(queue') = Len(queue) + 1
    BY <1>2 DEF OwnTypes
  <2>2. CASE i = Len(queue')
    BY <1>1, <1>2, <2>1, <2>2 DEF OwnTypes
  <2>3. CASE i # Len(queue')
    <3>1. i \in 1 .. Len(queue) /\ queue'[i] = queue[i]
      BY <1>2, <2>1, <2>3 DEF OwnTypes
    <3>2. queue[i] \in Nat
      BY <3>1, RingTypes
    <3>3. queue[i] + Len(queue) - i + 1 <= index
      BY <1>1, <3>1 DEF TicketsInv
    <3> QED
      BY <1>1, <2>1, <3>1, <3>2, <3>3
  <2> QED
    BY <2>2, <2>3
<1>4. ASSUME NEW w \in Workers, hand'[w] # NoJob PROVE hand'[w] + lag'[w] <= Tried'
  <2>1. hand[w] \in Nat /\ lag[w] \in Nat /\ lag'[w] = lag[w] + 1
    BY <1>2, <1>4, RingTypes DEF OwnTypes
  <2>2. hand[w] + lag[w] <= index
    BY <1>1, <1>2, <1>4 DEF TicketsInv
  <2> QED
    BY <1>1, <1>2, <2>1, <2>2
<1> QED
  BY <1>3, <1>4 DEF TicketsInv

LEMMA TakeTickets ==
  ASSUME OwnTypes, OwnTypes', TicketsInv, NEW w \in Workers, Take(w)
  PROVE  TicketsInv'
<1> SUFFICES ASSUME InFrame' PROVE TicketsInv'
  BY DEF TicketsInv
<1>1. /\ queue # <<>> /\ queue' = Tail(queue)
      /\ hand' = [hand EXCEPT ![w] = Head(queue)]
      /\ lag' = [lag EXCEPT ![w] = Len(queue)]
      /\ frame' = frame /\ index' = index
  BY DEF Take, Ring!Pop, frameVars
<1>2. InFrame /\ Tried' = Tried /\ Tried \in Nat
  BY <1>1 DEF InFrame, Tried, OwnTypes
<1>3. /\ Len(queue) \in Nat /\ Len(queue) >= 1 /\ Head(queue) = queue[1]
      /\ Len(queue') = Len(queue) - 1
      /\ \A i \in 1 .. Len(queue) - 1 : queue'[i] = queue[i + 1]
  BY <1>1 DEF OwnTypes
<1>4. \A i \in 1 .. Len(queue) : queue[i] \in Nat /\ queue[i] + Len(queue) - i + 1 <= Tried
  BY <1>2, RingTypes DEF TicketsInv
<1>5. ASSUME NEW i \in 1 .. Len(queue') PROVE queue'[i] + Len(queue') - i + 1 <= Tried'
  <2>1. i + 1 \in 1 .. Len(queue) /\ queue'[i] = queue[i + 1]
    BY <1>3
  <2>2. queue[i + 1] \in Nat /\ queue[i + 1] + Len(queue) - (i + 1) + 1 <= Tried
    BY <1>4, <2>1
  <2> QED
    BY <1>2, <1>3, <2>1, <2>2
<1>6. ASSUME NEW u \in Workers, hand'[u] # NoJob PROVE hand'[u] + lag'[u] <= Tried'
  <2>1. CASE u = w
    <3>1. hand'[u] = queue[1] /\ lag'[u] = Len(queue)
      BY <1>1, <1>3, <2>1 DEF OwnTypes
    <3>2. queue[1] \in Nat /\ queue[1] + Len(queue) - 1 + 1 <= Tried
      BY <1>3, <1>4
    <3> QED
      BY <1>2, <1>3, <3>1, <3>2
  <2>2. CASE u # w
    BY <1>1, <1>2, <1>6, <2>2 DEF TicketsInv, OwnTypes
  <2> QED
    BY <2>1, <2>2
<1> QED
  BY <1>5, <1>6 DEF TicketsInv

LEMMA TicketsInvStep ==
  ASSUME ServiceInv, OwnTypes', [Next]_vars
  PROVE  TicketsInv'
<1> USE DEF ServiceInv, frameVars, workerVars
<1>1. CASE UNCHANGED vars
  <2>1. UNCHANGED <<frame, index, ringVars>>
    BY <1>1 DEF vars
  <2>2. (InFrame' <=> InFrame) /\ Tried' = Tried /\ Tried <= Tried
    <3>1. Tried <= Tried
      BY RingTypes
    <3> QED
      BY <2>1, <3>1 DEF InFrame, Tried
  <2> QED
    BY <2>1, <2>2, TicketsUntouched
<1>2. ASSUME NEW w \in Workers, RestingStep(w) \/ InDone(w) \/ Execute(w) \/ Finish(w)
      PROVE  TicketsInv'
  <2>1. UNCHANGED <<frame, index, ringVars>>
    BY <1>2, RestingWorker DEF InDone, Execute, Finish
  <2>2. (InFrame' <=> InFrame) /\ Tried' = Tried /\ Tried <= Tried
    <3>1. Tried <= Tried
      BY RingTypes
    <3> QED
      BY <2>1, <3>1 DEF InFrame, Tried
  <2> QED
    BY <2>1, <2>2, TicketsUntouched
<1>3. ASSUME NEW w \in Workers, Release(w) PROVE TicketsInv'
  <2>1. /\ queue' = queue /\ frame' = frame /\ index' = index /\ hand'[w] = NoJob
        /\ \A u \in Workers \ {w} : hand'[u] = hand[u] /\ lag'[u] = lag[u]
    BY <1>3 DEF Release, Ring!Return, OwnTypes
  <2> QED
    BY <2>1 DEF TicketsInv, InFrame, Tried
<1>4. CASE ServiceStep
  <2>1. ~InFrame'
    BY <1>4 DEF ServiceStep, StopStep, Construct, Spawn, RequestShutdown, StopFlag, StopNotify,
         JoinWorker, Reset, InFrame
  <2> QED
    BY <2>1 DEF TicketsInv
<1>5. ASSUME NEW n \in 0 .. MaxSlices, BeginFrame(n) PROVE TicketsInv'
  <2>1. ~InFrame /\ queue' = queue /\ hand' = hand
    BY <1>5 DEF BeginFrame, InFrame, ringVars
  <2>2. Len(queue) = 0 /\ \A w \in Workers : ~Busy(w)
    BY <2>1, IdleIsEmpty
  <2>3. \A w \in Workers : hand[w] = NoJob
    BY <2>2 DEF JobsInv, HandsInv, Busy
  <2>4. \A i \in 1 .. Len(queue') : FALSE
    BY <2>1, <2>2
  <2> QED
    BY <2>1, <2>3, <2>4 DEF TicketsInv
<1>6. CASE AddToLatch \/ PushFails \/ SetHasWork \/ NotifyWorker \/ EnterWait \/ InWait
           \/ WakeFrameSpuriously
  <2>1. InFrame /\ UNCHANGED ringVars
    BY <1>6 DEF AddToLatch, PushFails, SetHasWork, NotifyWorker, EnterWait, InWait,
         WakeFrameSpuriously, InFrame
  <2>2. Tried <= Tried'
    <3>1. index \in Nat
      BY DEF OwnTypes
    <3>2. CASE NotifyWorker
      BY <3>1, <3>2 DEF NotifyWorker, Tried
    <3>3. CASE PushFails \/ SetHasWork
      BY <3>1, <3>3 DEF PushFails, SetHasWork, Tried
    <3>4. CASE AddToLatch \/ EnterWait \/ InWait \/ WakeFrameSpuriously
      BY <3>1, <3>4 DEF AddToLatch, EnterWait, InWait, WakeFrameSpuriously, Tried
    <3> QED
      BY <1>6, <3>2, <3>3, <3>4
  <2> QED
    BY <2>1, <2>2, TicketsUntouched
<1>7. CASE LeaveFrame
  BY <1>7 DEF LeaveFrame, TicketsInv, InFrame
<1> QED
  BY <1>1, <1>2, <1>3, <1>4, <1>5, <1>6, <1>7, PushTickets, TakeTickets, NextIs
     DEF InFrameStep, FrameStep, BusyStep

-----------------------------------------------------------------------------
(***************************************************************************)
(* The theorems                                                            *)
(***************************************************************************)

LEMMA InitServiceInv == Init => ServiceInv
<1> SUFFICES ASSUME Init PROVE ServiceInv
  OBVIOUS
<1>1. 0 \in Workers /\ 0 \in 0 .. WorkerCount /\ 0 \in 0 .. MaxSlices
  BY WorkerCountAssumption, MaxSlicesAssumption DEF Workers
<1>2. OwnTypes
  BY <1>1 DEF Init, OwnTypes, Labels, Ring!Init
<1>3. FrameInv
  BY WorkerCountAssumption DEF Init, FrameInv, InFrame, Workers
<1>4. Added = {}
  BY DEF Init, Added, InFrame
<1>5. HandsInv
  BY DEF Init, HandsInv, Ring!Init
<1>6. QueueInv
  BY DEF Init, QueueInv, Ring!Init
<1>7. CarriedInv /\ ResultsInv
  BY DEF Init, CarriedInv, ResultsInv, Busy, Starting, InFrame
<1>8. NoStrandedJob /\ TicketsInv
  BY DEF Init, NoStrandedJob, TicketsInv, InFrame, Ring!Init
<1>9. FrameThread \notin Workers /\ NoThread \notin Workers \cup {FrameThread}
  BY FrameThreadAssumption DEF Workers
<1>10. Outstanding = 0
  BY <1>4, NoneAdded
<1>11. Latch!LatchInv
  BY <1>9, <1>10
     DEF Init, Latch!LatchInv, Latch!TypeOK, Latch!Counted, Latch!HolderIs,
         Latch!ReturnedMeansDone, Latch!NoMissedSignal
<1> QED
  BY <1>2, <1>3, <1>5, <1>6, <1>7, <1>8, <1>11 DEF ServiceInv, JobsInv

\* Frame thread, latch, ring and workers agree at every step of every frame,
\* of init and of shutdown.
THEOREM ServiceInvariant == Spec => []ServiceInv
<1>1. ASSUME ServiceInv, [Next]_vars PROVE ServiceInv'
  <2>1. OwnTypes' /\ FrameInv'
    BY <1>1, OwnTypesStep, FrameInvStep
  <2>2. JobsInv'
    BY <1>1, <2>1, JobsInvStep
  <2>3. TicketsInv'
    BY <1>1, <2>1, TicketsInvStep
  <2>4. NoStrandedJob'
    BY <1>1, <2>1, <2>2, StrandedStep
  <2>5. Latch!LatchInv'
    BY <1>1, LatchStep, LatchKeepsInv DEF ServiceInv
  <2> QED
    BY <2>1, <2>2, <2>3, <2>4, <2>5 DEF ServiceInv
<1> QED
  BY <1>1, InitServiceInv, PTL DEF Spec

\* The value in the slot of a refused push is that of a slice with a number
\* smaller by at least the slots of the ring.
LEMMA RingHasRoom ==
  ASSUME ServiceInv
  PROVE  RoomForJob
<1> SUFFICES ASSUME frame = "push", Ring!SlotTaken PROVE count > Capacity
  BY DEF RoomForJob
<1>1. /\ index \in Nat /\ count \in Nat /\ index < count /\ Tried = index /\ InFrame
  BY MaxSlicesAssumption DEF ServiceInv, OwnTypes, FrameInv, Tried, InFrame
<1>2. CASE Len(queue) = Capacity
  <2>1. 1 \in 1 .. Len(queue) /\ queue[1] \in Nat
    BY <1>2, CapacityAssumption, RingTypes DEF ServiceInv
  <2>2. queue[1] + Len(queue) - 1 + 1 <= index
    BY <1>1, <2>1 DEF ServiceInv, TicketsInv
  <2> QED
    BY <1>1, <1>2, <2>1, <2>2, CapacityAssumption
<1>3. ASSUME NEW w \in Workers, hand[w] # NoJob, lag[w] = Capacity PROVE count > Capacity
  <2>1. hand[w] \in Nat
    BY <1>3, RingTypes DEF ServiceInv
  <2>2. hand[w] + lag[w] <= index
    BY <1>1, <1>3 DEF ServiceInv, TicketsInv
  <2> QED
    BY <1>1, <1>3, <2>1, <2>2, CapacityAssumption
<1> QED
  BY <1>2, <1>3 DEF Ring!SlotTaken

\* Nothing of a frame is left when its wait returns, so that slices, results
\* and latch may go; and a push finds the slot of its ticket taken, queued or
\* still being copied out, only in a frame of more slices than the ring has.
THEOREM SchedulerInvariant == Spec => []SchedulerInv
<1>1. ServiceInv => SchedulerInv
  <2> SUFFICES ASSUME ServiceInv PROVE SchedulerInv
    OBVIOUS
  <2>1. TypeOK
    BY DEF ServiceInv, OwnTypes, Labels, TypeOK, Latch!LatchInv
  <2>2. NoJobOutlivesFrame
    <3>1. ASSUME queue # <<>> \/ \E w \in Workers : Busy(w) PROVE InFrame
      BY <3>1, IdleIsEmpty DEF ServiceInv
    <3>2. ASSUME waiter \in {"unlock", "returned"} PROVE queue = <<>> /\ \A w \in Workers : ~Busy(w)
      <4>1. Outstanding = 0
        BY <3>2 DEF ServiceInv, Latch!LatchInv, Latch!ReturnedMeansDone
      <4>2. Len(queue) = 0 /\ \A w \in Workers : ~Busy(w)
        BY <4>1, NothingLeft DEF ServiceInv
      <4> QED
        BY <4>2 DEF ServiceInv, OwnTypes
    <3> QED
      BY <3>1, <3>2 DEF NoJobOutlivesFrame
  <2> QED
    BY <2>1, <2>2, RingHasRoom DEF SchedulerInv
<1> QED
  BY <1>1, ServiceInvariant, PTL

\* While a job is queued, its flag is up or about to be, or a worker is on its
\* way to the ring.
THEOREM SchedulerStrandsNoJob == Spec => []NoStrandedJob
<1>1. ServiceInv => NoStrandedJob
  BY DEF ServiceInv
<1> QED
  BY <1>1, ServiceInvariant, PTL

\* While frames are served every deque exists, so no steal is wild.
THEOREM SchedulerNoWildSteal == Spec => NoWildStealInService
<1>1. ASSUME ServiceInv, [Next]_vars
      PROVE  [ (frame = "idle" \/ InFrame) =>
                  \A w \in Workers : pc'[w] = "undefined" => pc[w] = "undefined" ]_vars
  <2> SUFFICES ASSUME frame = "idle" \/ InFrame, NEW w \in Workers, pc'[w] = "undefined"
               PROVE  pc[w] = "undefined" \/ UNCHANGED vars
    OBVIOUS
  <2>0. OwnTypes /\ \A u \in Workers : deque[u] = "live"
    BY <1>1 DEF ServiceInv, FrameInv
  <2>1. CASE InFrameStep
    BY <2>0, <2>1
       DEF InFrameStep, FrameStep, BeginFrame, AddToLatch, Push, PushFails, SetHasWork,
           NotifyWorker, Notified, EnterWait, InWait, LeaveFrame, WakeFrameSpuriously,
           workerVars, OwnTypes
  <2>2. CASE ServiceStep
    BY <2>0, <2>2
       DEF ServiceStep, StopStep, Construct, Spawn, RequestShutdown, StopFlag, StopNotify,
           JoinWorker, Reset, InFrame, workerVars, OwnTypes
  <2>3. ASSUME NEW u \in Workers, RestingStep(u) PROVE pc[w] = "undefined"
    <3>1. ~StealFromDead(u)
      <4>1. StealFromDead(u) => probe[u] \in Workers
        BY <2>0, WorkerCountAssumption DEF StealFromDead, OwnTypes, Workers
      <4> QED
        BY <2>0, <4>1 DEF StealFromDead
    <3> QED
      BY <2>0, <2>3, <3>1
         DEF RestingStep, TakeNothing, StealNothing, StealDone, TestFlag, TestWork, Sleep,
             WakeSpuriously, ClearHasWork, LeaveOrLoop, Goto, At, OwnTypes
  <2>4. ASSUME NEW u \in Workers, BusyStep(u) \/ InDone(u) PROVE pc[w] = "undefined"
    BY <2>0, <2>4 DEF BusyStep, Take, Release, Execute, Finish, InDone, Goto, At,
         workerVars, OwnTypes
  <2> QED
    BY <1>1, <2>1, <2>2, <2>3, <2>4, NextIs
<1> QED
  BY <1>1, ServiceInvariant, PTL DEF Spec, NoWildStealInService

\* The frame thread and the workers use the latch as module JobLatch lets its
\* clients: jobs are added before the wait, and done once each.
THEOREM SchedulerUsesLatch == Spec => UsesLatch
<1>1. Init => Latch!Init
  <2> SUFFICES ASSUME Init PROVE Latch!Init
    OBVIOUS
  <2>1. Outstanding = 0
    BY NoneAdded DEF Init, Added, InFrame
  <2> QED
    BY <2>1 DEF Init, Latch!Init
<1>2. ServiceInv /\ [Next]_vars => [Latch!Next]_(Latch!vars)
  BY LatchStep
<1> QED
  BY <1>1, <1>2, ServiceInvariant, PTL DEF Spec, UsesLatch, Latch!Spec

-----------------------------------------------------------------------------
(***************************************************************************)
(* Fork and join: what the variables of module JobDispatch are here        *)
(***************************************************************************)

Size == IF InFrame THEN count ELSE NoJob

Executed == IF InFrame THEN {s \in Slices : results[s] = "written"} ELSE {}

Running == [w \in Workers |-> CASE pc[w] = "held" -> hand[w]
                                [] pc[w] = "run"  -> job[w]
                                [] OTHER          -> NoJob]

LEMMA RunningIs ==
  ASSUME OwnTypes
  PROVE  \A w \in Workers :
            Running[w] = IF Starting(w) THEN Carried(w) ELSE NoJob
  BY DEF Running, Starting, Carried

LEMMA RunningUntouched ==
  ASSUME UNCHANGED <<hand, job>>,
         \A w \in Workers : pc'[w] = pc[w] \/ (~Starting(w) /\ ~Starting(w)')
  PROVE  Running' = Running
<1>1. \A w \in Workers :
         (CASE pc[w] = "held" -> hand[w] [] pc[w] = "run" -> job[w] [] OTHER -> NoJob)'
            = CASE pc[w] = "held" -> hand[w] [] pc[w] = "run" -> job[w] [] OTHER -> NoJob
  BY DEF Starting
<1> QED
  BY <1>1 DEF Running

LEMMA ForkStep ==
  ASSUME OwnTypes, OwnTypes', FrameInv, JobsInv, Push \/ PushFails
  PROVE  Dispatch!Next
<1>1. /\ index \in Slices \ Given /\ Given' = Given \cup {index} /\ InFrame
      /\ UNCHANGED <<results, pc, job, hand>>
  BY PushedIs
<1>2. InFrame' /\ count' = count /\ index < count
  BY DEF Push, PushFails, InFrame, FrameInv
<1>3. Size' = Size /\ Size # NoJob /\ Executed' = Executed /\ index < Size
  BY <1>1, <1>2, NoJobAssumption DEF Size, Executed, OwnTypes
<1>4. Running' = Running
  BY <1>1, RunningUntouched
<1>5. Dispatch!Fork(index)
  BY <1>1, <1>3, <1>4 DEF Dispatch!Fork, Size, Executed, Running, Given
<1> QED
  BY <1>1, <1>5 DEF Dispatch!Next, Dispatch!Slices, Slices

LEMMA StartStep ==
  ASSUME OwnTypes, JobsInv, NEW w \in Workers, Take(w)
  PROVE  Dispatch!Next
<1>1. /\ pc[w] = "take" /\ pc' = [pc EXCEPT ![w] = "held"]
      /\ hand' = [hand EXCEPT ![w] = Head(queue)]
      /\ queue # <<>>
      /\ UNCHANGED <<frame, index, count, results, job>>
  BY DEF Take, Goto, At, Ring!Pop, frameVars
<1>0. PICK s \in Slices : s = Head(queue)
  BY <1>1 DEF OwnTypes
<1>2. s = queue[1] /\ 1 \in 1 .. Len(queue)
  BY <1>0, <1>1 DEF OwnTypes
<1>3. s \in Given /\ s \in Slices /\ results[s] = "clear"
  BY <1>2, GivenIs DEF JobsInv, QueueInv
<1>4. InFrame
  BY <1>3, GivenIs
<1>5. s \notin Executed
  BY <1>3 DEF Executed
<1>6. \A u \in Workers : Running[u] # s
  <2>1. s # NoJob
    BY <1>3, NoJobAssumption, MaxSlicesAssumption DEF Slices
  <2>2. \A u \in Workers : Starting(u) => Carried(u) # s
    BY <1>2 DEF JobsInv, CarriedInv
  <2> QED
    BY <2>1, <2>2, RunningIs
<1>7. Running[w] = NoJob
  BY <1>1, RunningIs DEF Starting
<1>8. Running' = [Running EXCEPT ![w] = s]
  <2>1. \A u \in Workers \ {w} : pc'[u] = pc[u] /\ hand'[u] = hand[u]
    BY <1>1 DEF OwnTypes
  <2>2. pc'[w] = "held" /\ hand'[w] = s
    BY <1>0, <1>1 DEF OwnTypes
  <2>3. \A u \in Workers :
           (CASE pc[u] = "held" -> hand[u] [] pc[u] = "run" -> job[u] [] OTHER -> NoJob)'
              = IF u = w THEN s ELSE Running[u]
    BY <1>1, <2>1, <2>2 DEF Running
  <2> QED
    BY <2>3 DEF Running
<1>9. Size' = Size /\ Given' = Given /\ Executed' = Executed
  BY <1>1 DEF Size, Given, Executed, Added, InFrame
<1>10. Dispatch!Start(w, s)
  BY <1>3, <1>5, <1>6, <1>7, <1>8, <1>9
     DEF Dispatch!Start, Size, Executed, Running, Given
<1>11. \E t \in Slices : \E u \in Workers : Dispatch!Start(u, t)
  BY <1>3, <1>10
<1> QED
  BY <1>11 DEF Dispatch!Next, Dispatch!Slices, Slices

LEMMA FinishStep ==
  ASSUME OwnTypes, JobsInv, NEW w \in Workers, Execute(w)
  PROVE  Dispatch!Next
<1>1. /\ pc[w] = "run" /\ pc' = [pc EXCEPT ![w] = "finish"]
      /\ results' = [results EXCEPT ![job[w]] = "written"]
      /\ UNCHANGED <<frame, index, count, job, hand>>
  BY DEF Execute, Goto, At, ringVars
<1>2. Busy(w) /\ Starting(w) /\ Carried(w) = job[w]
  BY <1>1 DEF Busy, Starting, Carried
<1>3. job[w] \in Given /\ job[w] \in Slices /\ job[w] # NoJob
  BY <1>2, GivenIs, NoJobAssumption, MaxSlicesAssumption DEF JobsInv, CarriedInv, Slices
<1>4. InFrame /\ InFrame'
  BY <1>1, <1>3, GivenIs DEF InFrame
<1>5. Running[w] = job[w]
  BY <1>2, RunningIs
<1>6. Running' = [Running EXCEPT ![w] = NoJob]
  <2>1. pc'[w] = "finish" /\ \A u \in Workers \ {w} : pc'[u] = pc[u]
    BY <1>1 DEF OwnTypes
  <2>2. \A u \in Workers :
           (CASE pc[u] = "held" -> hand[u] [] pc[u] = "run" -> job[u] [] OTHER -> NoJob)'
              = IF u = w THEN NoJob ELSE Running[u]
    BY <1>1, <2>1 DEF Running
  <2> QED
    BY <2>2 DEF Running
<1>7. Executed' = Executed \cup {job[w]}
  <2>1. /\ results'[job[w]] = "written"
        /\ \A s \in Slices : s # job[w] => results'[s] = results[s]
    BY <1>1, <1>3 DEF OwnTypes
  <2> QED
    BY <1>3, <1>4, <2>1 DEF Executed
<1>8. Size' = Size /\ Given' = Given
  BY <1>1 DEF Size, Given, Added, InFrame
<1>9. Dispatch!Finish(w)
  BY <1>3, <1>5, <1>6, <1>7, <1>8
     DEF Dispatch!Finish, Size, Executed, Running, Given
<1> QED
  BY <1>9 DEF Dispatch!Next

LEMMA JoinStep ==
  ASSUME OwnTypes, OwnTypes', FrameInv, JobsInv, Outstanding = 0, LeaveFrame
  PROVE  Dispatch!Next
<1>1. /\ frame = "wait" /\ frame' = "idle" /\ InFrame /\ ~InFrame' /\ index = count
      /\ UNCHANGED <<pc, job, hand>>
  BY DEF LeaveFrame, InFrame, FrameInv, workerVars, ringVars
<1>2. Given = {s \in Slices : s < count} /\ Given = Added
  BY <1>1, GivenIs DEF Given
<1>3. \A s \in Slices : results[s] = "written" <=> s \in Given
  BY <1>1, <1>2, NothingLeft DEF JobsInv, ResultsInv
<1>4. Executed = 0 .. Size - 1
  BY <1>1, <1>2, <1>3, MaxSlicesAssumption DEF Executed, Size, Slices, OwnTypes
<1>5. Size # NoJob
  BY <1>1, NoJobAssumption DEF Size, OwnTypes
<1>6. Size' = NoJob /\ Given' = {} /\ Executed' = {}
  BY <1>1, GivenNextIs DEF Size, Executed
<1>7. Running' = Running
  BY <1>1, RunningUntouched
<1>8. Dispatch!Join
  BY <1>4, <1>5, <1>6, <1>7 DEF Dispatch!Join, Size, Executed, Running, Given
<1> QED
  BY <1>8 DEF Dispatch!Next

LEMMA BeginStep ==
  ASSUME OwnTypes, OwnTypes', NEW n \in 0 .. MaxSlices, BeginFrame(n)
  PROVE  Dispatch!Next
<1>1. /\ ~InFrame /\ InFrame' /\ frame' = "dispatch" /\ index' = 0 /\ count' = n
      /\ results' = [s \in Slices |-> "clear"]
      /\ UNCHANGED <<pc, job, hand>>
  BY DEF BeginFrame, InFrame, workerVars, ringVars
<1>2. Size = NoJob /\ Size' = n
  BY <1>1 DEF Size
<1>3. Given' = {}
  <2>1. Given' = {s \in Slices : s < index'}
    BY <1>1, GivenNextIs
  <2> QED
    BY <1>1, <2>1, MaxSlicesAssumption DEF Slices
<1>4. Executed' = {}
  BY <1>1 DEF Executed
<1>5. Running' = Running
  BY <1>1, RunningUntouched
<1>6. Dispatch!Begin(n)
  BY <1>2, <1>3, <1>4, <1>5 DEF Dispatch!Begin, Size, Executed, Running, Given
<1> QED
  BY <1>6 DEF Dispatch!Next

\* A step that forks, starts, ends and joins nothing.
LEMMA DispatchRests ==
  ASSUME Given' = Given, Size' = Size, Executed' = Executed, Running' = Running
  PROVE  UNCHANGED Dispatch!vars
  BY DEF Dispatch!vars, Given, Size, Executed, Running

LEMMA FrameRests ==
  ASSUME OwnTypes, OwnTypes',
         AddToLatch \/ SetHasWork \/ NotifyWorker \/ EnterWait \/ InWait \/ WakeFrameSpuriously
  PROVE  UNCHANGED Dispatch!vars
<1> USE DEF frameVars, workerVars, ringVars
<1>1. InFrame /\ InFrame' /\ UNCHANGED <<count, results, job, hand>>
  BY DEF AddToLatch, SetHasWork, NotifyWorker, EnterWait, InWait, WakeFrameSpuriously, InFrame
<1>2. Size' = Size /\ Executed' = Executed
  BY <1>1 DEF Size, Executed
<1>3. Running' = Running
  <2>1. \A w \in Workers : pc'[w] = pc[w] \/ (~Starting(w) /\ ~Starting(w)')
    <3>1. CASE NotifyWorker
      BY <3>1 DEF NotifyWorker, Notified, Starting, OwnTypes
    <3> QED
      BY <3>1 DEF AddToLatch, SetHasWork, EnterWait, InWait, WakeFrameSpuriously
  <2> QED
    BY <1>1, <2>1, RunningUntouched
<1>4. Given' = Given
  <2>1. CASE NotifyWorker
    <3>1. \A s \in Slices : s <= index <=> s < index + 1
      BY MaxSlicesAssumption DEF Slices, OwnTypes
    <3> QED
      BY <2>1, <3>1, GivenIs, GivenNextIs DEF NotifyWorker
  <2>2. CASE AddToLatch \/ SetHasWork
    BY <2>2, GivenIs, GivenNextIs DEF AddToLatch, SetHasWork
  <2>3. CASE EnterWait \/ InWait \/ WakeFrameSpuriously
    BY <2>3, GivenIs, GivenNextIs DEF EnterWait, InWait, WakeFrameSpuriously
  <2> QED
    BY <2>1, <2>2, <2>3
<1> QED
  BY <1>2, <1>3, <1>4, DispatchRests

LEMMA ServiceRests ==
  ASSUME OwnTypes, OwnTypes', JobsInv, ServiceStep
  PROVE  UNCHANGED Dispatch!vars
<1> USE DEF workerVars, ringVars
<1>1. ~InFrame /\ ~InFrame' /\ UNCHANGED <<job, hand>>
  BY DEF ServiceStep, StopStep, Construct, Spawn, RequestShutdown, StopFlag, StopNotify,
         JoinWorker, Reset, InFrame
<1>2. Given' = Given /\ Size' = Size /\ Executed' = Executed
  BY <1>1, GivenIs, GivenNextIs DEF Size, Executed
<1>3. ASSUME NEW w \in Workers PROVE pc'[w] = pc[w] \/ (~Starting(w) /\ ~Starting(w)')
  <2>1. ~Starting(w)
    BY <1>1, IdleIsEmpty DEF Busy, Starting
  <2>2. CASE Spawn \/ StopNotify
    BY <2>1, <2>2 DEF Starting, Spawn, StopNotify, Notified, OwnTypes
  <2> QED
    BY <2>2 DEF ServiceStep, StopStep, Construct, RequestShutdown, StopFlag, JoinWorker, Reset
<1>4. Running' = Running
  BY <1>1, <1>3, RunningUntouched
<1> QED
  BY <1>2, <1>4, DispatchRests

LEMMA WorkerRests ==
  ASSUME OwnTypes, JobsInv, NEW w \in Workers,
         RestingStep(w) \/ Release(w) \/ Finish(w) \/ InDone(w)
  PROVE  UNCHANGED Dispatch!vars
<1>1. UNCHANGED <<frame, index, count, results>>
  BY RestingWorker DEF Release, Finish, InDone, frameVars
<1>2. Given' = Given /\ Size' = Size /\ Executed' = Executed
  BY <1>1 DEF Given, Added, Size, Executed, InFrame
<1>3. CASE RestingStep(w)
  <2>1. UNCHANGED <<hand, job>>
    BY <1>3, RestingWorker DEF ringVars
  <2>2. \A u \in Workers : pc'[u] = pc[u] \/ (~Starting(u) /\ ~Starting(u)')
    BY <1>3, RestingWorker DEF Starting
  <2> QED
    BY <1>2, <2>1, <2>2, RunningUntouched, DispatchRests
<1>4. CASE Release(w)
  <2>1. /\ pc[w] = "held" /\ pc'[w] = "run" /\ job'[w] = hand[w]
        /\ \A u \in Workers \ {w} : /\ pc'[u] = pc[u] /\ job'[u] = job[u]
                                    /\ hand'[u] = hand[u]
    BY <1>4 DEF Release, Goto, At, Ring!Return, OwnTypes
  <2>2. \A u \in Workers :
           (CASE pc[u] = "held" -> hand[u] [] pc[u] = "run" -> job[u] [] OTHER -> NoJob)'
              = CASE pc[u] = "held" -> hand[u] [] pc[u] = "run" -> job[u] [] OTHER -> NoJob
    BY <2>1
  <2>3. Running' = Running
    BY <2>2 DEF Running
  <2> QED
    BY <1>2, <2>3, DispatchRests
<1>5. CASE Finish(w)
  <2>1. /\ pc[w] = "finish" /\ pc'[w] = "take" /\ hand' = hand
        /\ \A u \in Workers \ {w} : pc'[u] = pc[u] /\ job'[u] = job[u]
    BY <1>5 DEF Finish, Goto, At, ringVars, OwnTypes
  <2>2. \A u \in Workers :
           (CASE pc[u] = "held" -> hand[u] [] pc[u] = "run" -> job[u] [] OTHER -> NoJob)'
              = CASE pc[u] = "held" -> hand[u] [] pc[u] = "run" -> job[u] [] OTHER -> NoJob
    BY <2>1
  <2>3. Running' = Running
    BY <2>2 DEF Running
  <2> QED
    BY <1>2, <2>3, DispatchRests
<1>6. CASE InDone(w)
  BY <1>2, <1>6, RunningUntouched, DispatchRests DEF InDone, workerVars, ringVars
<1> QED
  BY <1>3, <1>4, <1>5, <1>6

LEMMA DispatchStep ==
  ASSUME ServiceInv, ServiceInv', [Next]_vars
  PROVE  [Dispatch!Next]_(Dispatch!vars)
<1> USE DEF ServiceInv
<1>1. CASE UNCHANGED vars
  <2>1. Given' = Given /\ Size' = Size /\ Executed' = Executed
    BY <1>1 DEF Given, Added, Size, Executed, InFrame, vars, frameVars
  <2>2. Running' = Running
    BY <1>1, RunningUntouched DEF vars, workerVars, ringVars
  <2> QED
    BY <2>1, <2>2, DispatchRests
<1>2. CASE LeaveFrame
  <2>1. Outstanding = 0
    BY <1>2 DEF LeaveFrame, Latch!Destroy, Latch!LatchInv, Latch!ReturnedMeansDone
  <2> QED
    BY <1>2, <2>1, JoinStep
<1>3. CASE InFrameStep
  BY <1>2, <1>3, BeginStep, ForkStep, FrameRests DEF InFrameStep, FrameStep
<1>4. CASE ServiceStep
  BY <1>4, ServiceRests
<1>5. ASSUME NEW w \in Workers, RestingStep(w) \/ BusyStep(w) \/ InDone(w)
      PROVE  [Dispatch!Next]_(Dispatch!vars)
  BY <1>5, WorkerRests, StartStep, FinishStep DEF BusyStep
<1> QED
  BY <1>1, <1>3, <1>4, <1>5, NextIs

\* The scheduler and its frames are a fork and join: every slice is handed out
\* once, run once by one worker, and the frame goes on after the last of them.
THEOREM SchedulerRefinesDispatch == Spec => ImplementsDispatch
<1>1. Init => Dispatch!Init
  <2> SUFFICES ASSUME Init PROVE Dispatch!Init
    OBVIOUS
  <2>1. Size = NoJob /\ Given = {} /\ Executed = {}
    BY DEF Init, Size, Given, Added, Executed, InFrame
  <2>2. Running = [w \in Workers |-> NoJob]
    BY DEF Init, Running
  <2> QED
    BY <2>1, <2>2 DEF Dispatch!Init, Size, Given, Executed, Running
<1>2. ServiceInv /\ ServiceInv' /\ [Next]_vars => [Dispatch!Next]_(Dispatch!vars)
  BY DispatchStep
<1> QED
  BY <1>1, <1>2, ServiceInvariant, PTL DEF Spec, ImplementsDispatch, Dispatch!Spec
=============================================================================
