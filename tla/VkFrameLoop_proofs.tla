------------------------- MODULE VkFrameLoop_proofs -------------------------
(***************************************************************************)
(* Machine-checked proofs about VkFrameLoop, for every set of images,      *)
(* every bound on the events of a dispatch and every set of calls that may *)
(* fail.                                                                   *)
(***************************************************************************)
EXTENDS VkFrameLoop, SequenceTheorems, TLAPS

-----------------------------------------------------------------------------
(***************************************************************************)
(* Lemmas: what submitting to the queue and retiring its head do to it.    *)
(***************************************************************************)

\* Submitting an operation (vkQueueSubmit, vkQueuePresentKHR) adds it behind
\* those queued, which keep their places.
LEMMA AppendOp ==
    ASSUME NEW q \in Seq(QueueOps), NEW e \in QueueOps
    PROVE  /\ Append(q, e) \in Seq(QueueOps)
           /\ Len(q) \in Nat
           /\ Len(Append(q, e)) = Len(q) + 1
           /\ \A k \in 1..Len(q) : Append(q, e)[k] = q[k]
           /\ Append(q, e)[Len(q) + 1] = e
           /\ Append(q, e) # <<>>
<1>1. /\ Append(q, e) \in Seq(QueueOps)
      /\ Len(q) \in Nat
      /\ Len(Append(q, e)) = Len(q) + 1
      /\ \A k \in 1..Len(q) : Append(q, e)[k] = q[k]
      /\ Append(q, e)[Len(q) + 1] = e
  OBVIOUS
<1>2. Append(q, e) # <<>> BY <1>1, EmptySeq
<1> QED BY <1>1, <1>2

\* Submitting does not change the head of a queue that has one.
LEMMA AppendHead ==
    ASSUME NEW q \in Seq(QueueOps), q # <<>>, NEW e \in QueueOps
    PROVE  Append(q, e) # <<>> /\ Head(Append(q, e)) = Head(q)
<1>1. Len(q) \in Nat \ {0} BY EmptySeq
<1>2. Append(q, e)[1] = q[1] BY <1>1, AppendOp
<1> QED BY <1>2, AppendOp

\* Retiring the head of a queue moves every other operation up one place.
LEMMA TailOp ==
    ASSUME NEW q \in Seq(QueueOps), q # <<>>
    PROVE  /\ Tail(q) \in Seq(QueueOps)
           /\ Len(q) \in Nat /\ Len(q) >= 1
           /\ Len(Tail(q)) = Len(q) - 1
           /\ \A k \in 1..(Len(q) - 1) : Tail(q)[k] = q[k + 1]
           /\ Head(q) = q[1]
           /\ Head(q) \in QueueOps
           /\ Tail(q) = <<>> <=> Len(q) = 1
<1>1. Len(q) \in Nat /\ Len(q) >= 1 BY EmptySeq
<1>2. /\ Tail(q) \in Seq(QueueOps) /\ Head(q) \in QueueOps
      /\ Len(Tail(q)) = Len(q) - 1
      /\ \A k \in 1..Len(Tail(q)) : Tail(q)[k] = q[k + 1]
  BY HeadTailProperties
<1>3. Head(q) = q[1] OBVIOUS
<1>4. Tail(q) = <<>> <=> Len(q) = 1
  <2>1. Tail(q) = <<>> => Len(Tail(q)) = 0 BY EmptySeq
  <2>2. Tail(q) # <<>> => Len(Tail(q)) \in Nat \ {0} BY <1>2, EmptySeq
  <2> QED BY <1>1, <1>2, <2>1, <2>2
<1> QED BY <1>1, <1>2, <1>3, <1>4

\* The places of a queue hold queue operations, some of them draws.
LEMMA SubmitsInQueue ==
    ASSUME NEW q \in Seq(QueueOps)
    PROVE  /\ Submits(q) \subseteq 1..Len(q)
           /\ q = <<>> => Submits(q) = {}
           /\ \A k \in 1..Len(q) : k \notin Submits(q) => q[k].op = "present"
           /\ \A k \in 1..Len(q) : q[k] \in QueueOps
<1>1. Len(q) \in Nat /\ \A k \in 1..Len(q) : q[k] \in QueueOps
  BY ElementOfSeq, EmptySeq
<1>2. q = <<>> => 1..Len(q) = {} BY EmptySeq
<1> QED BY <1>1, <1>2 DEF Submits, QueueOps

-----------------------------------------------------------------------------
(***************************************************************************)
(* Type correctness.                                                       *)
(***************************************************************************)
LEMMA InitType == Init => TypeOK
<1> SUFFICES ASSUME Init PROVE TypeOK
  OBVIOUS
<1>1. queue \in Seq(QueueOps) BY EmptySeq DEF Init
<1>2. events \in 0..MaxEvents BY MaxEventsAssumption DEF Init
<1> QED BY <1>1, <1>2, ImagesAssumption
        DEF Init, TypeOK, RenderSteps, TeardownSteps

\* An event delivered leaves fewer to deliver.
LEMMA FewerEvents ==
    ASSUME events \in 0..MaxEvents, events > 0
    PROVE  events - 1 \in 0..MaxEvents
  BY MaxEventsAssumption

LEMMA HostType == TypeOK /\ Host => TypeOK'
<1> SUFFICES ASSUME TypeOK, Host PROVE TypeOK'
  OBVIOUS
<1> USE ImagesAssumption, MaxEventsAssumption DEF TypeOK, RenderSteps,
      TeardownSteps, sems, engine, Fails
<1>1. CASE FirstFrame BY <1>1 DEF FirstFrame, EnterRender
<1>2. CASE SetupFails BY <1>2 DEF SetupFails
<1>3. CASE CreateSyncObjs BY <1>3 DEF CreateSyncObjs
<1>4. CASE ConnectionLost BY <1>4 DEF ConnectionLost
<1>5. CASE \E n \in 0..MaxEvents : Dispatch(n) BY <1>5 DEF Dispatch
<1>6. CASE DeliverClose BY <1>6, FewerEvents DEF DeliverClose
<1>7. CASE DeliverFrame BY <1>7, FewerEvents DEF DeliverFrame, EnterRender
<1>8. CASE LoopTest BY <1>8 DEF LoopTest
<1>9. CASE Destroy
  <2>1. AfterDestroy[pc] \in TeardownSteps \cup {"done"}
    BY <1>9 DEF Destroy, AfterDestroy
  <2> QED BY <1>9, <2>1 DEF Destroy
<1>11. CASE DestroyUnwaited
  <2>1. AfterDestroy[pc] \in TeardownSteps \cup {"done"}
    BY <1>11 DEF DestroyUnwaited, AfterDestroy
  <2> QED BY <1>11, <2>1 DEF DestroyUnwaited
<1>10. CASE Render
  <2>1. CASE WaitFence BY <2>1 DEF WaitFence
  <2>2. CASE AcquireFails BY <2>2 DEF AcquireFails
  <2>3. CASE \E i \in Images : AcquireNextImage(i) BY <2>3 DEF AcquireNextImage
  <2>4. CASE Record BY <2>4 DEF Record
  <2>5. CASE RecordFails BY <2>5 DEF RecordFails
  <2>6. CASE ResetFence BY <2>6 DEF ResetFence
  <2>7. CASE QueueSubmit
    <3>1. SubmitInfo(target) \in QueueOps BY DEF SubmitInfo, QueueOps
    <3>2. Append(queue, SubmitInfo(target)) \in Seq(QueueOps) BY <3>1, AppendOp
    <3> QED BY <2>7, <3>2 DEF QueueSubmit
  <2>8. CASE SubmitFails BY <2>8 DEF SubmitFails
  <2>9. CASE QueuePresent
    <3>1. PresentInfo(imageIndex) \in QueueOps BY DEF PresentInfo, QueueOps
    <3>2. Append(queue, PresentInfo(imageIndex)) \in Seq(QueueOps)
      BY <3>1, AppendOp
    <3> QED BY <2>9, <3>2 DEF QueuePresent
  <2>10. CASE WaitFails BY <2>10 DEF WaitFails
  <2>11. CASE ResetFails BY <2>11 DEF ResetFails
  <2>12. CASE PresentFails BY <2>12 DEF PresentFails
  <2> QED BY <1>10, <2>1, <2>2, <2>3, <2>4, <2>5, <2>6, <2>7, <2>8, <2>9,
             <2>10, <2>11, <2>12
          DEF Render
<1> QED BY <1>1, <1>2, <1>3, <1>4, <1>5, <1>6, <1>7, <1>8, <1>9, <1>10, <1>11
        DEF Host, HostProgress

\* A busy device executes the draw at the head of the queue.
BusyInv == gpu = "executing" => queue # <<>> /\ Head(queue).op = "submit"

LEMMA DeviceType == TypeOK /\ BusyInv /\ Device => TypeOK'
<1> SUFFICES ASSUME TypeOK, BusyInv, Device PROVE TypeOK'
  OBVIOUS
<1> USE DEF TypeOK, host, sems, engine
<1>1. CASE GpuStart BY <1>1 DEF GpuStart
<1>2. CASE GpuFinish
  <2>1. Tail(queue) \in Seq(QueueOps) BY <1>2, TailOp DEF GpuFinish, BusyInv
  <2> QED BY <1>2, <2>1 DEF GpuFinish
<1>3. CASE GpuPresent BY <1>3, TailOp DEF GpuPresent
<1> QED BY <1>1, <1>2, <1>3 DEF Device

LEMMA NextBusy == TypeOK /\ BusyInv /\ [Next]_vars => BusyInv'
<1> SUFFICES ASSUME TypeOK, BusyInv, [Next]_vars PROVE BusyInv'
  OBVIOUS
<1> USE DEF BusyInv, sems, engine, host
<1>1. CASE QueueSubmit
  <2>1. SubmitInfo(target) \in QueueOps BY DEF SubmitInfo, QueueOps, TypeOK
  <2> QED BY <1>1, <2>1, AppendHead DEF QueueSubmit, TypeOK
<1>2. CASE QueuePresent
  <2>1. PresentInfo(imageIndex) \in QueueOps BY DEF PresentInfo, QueueOps, TypeOK
  <2> QED BY <1>2, <2>1, AppendHead DEF QueuePresent, TypeOK
<1>3. CASE Device BY <1>3 DEF Device, GpuStart, GpuFinish, GpuPresent, TypeOK
<1>4. CASE UNCHANGED <<queue, gpu>> BY <1>4
<1>5. Host \/ Engine \/ Terminated \/ UNCHANGED vars =>
        QueueSubmit \/ QueuePresent \/ UNCHANGED <<queue, gpu>>
  BY DEF Host, HostProgress, Render, Engine, Terminated, vars, FirstFrame,
         SetupFails, CreateSyncObjs, ConnectionLost, Dispatch, DeliverClose,
         DeliverFrame, LoopTest, WaitFence, AcquireFails, AcquireNextImage,
         WaitFails, Record, RecordFails, ResetFence, ResetFails, SubmitFails,
         PresentFails, Destroy, DestroyUnwaited, SignalAcquired, Display, Discard, FinishReading
<1> QED BY <1>1, <1>2, <1>3, <1>4, <1>5 DEF Next

LEMMA EngineType == TypeOK /\ Engine => TypeOK'
<1> SUFFICES ASSUME TypeOK, Engine PROVE TypeOK'
  OBVIOUS
<1> USE DEF TypeOK, host, sems, engine
<1>1. CASE SignalAcquired BY <1>1 DEF SignalAcquired
<1>2. ASSUME NEW i \in Images, Display(i) PROVE TypeOK'
  BY <1>2 DEF Display, OnScreen
<1>3. ASSUME NEW i \in Images, Discard(i) PROVE TypeOK'
  BY <1>3 DEF Discard
<1>4. ASSUME NEW i \in Images, FinishReading(i) PROVE TypeOK'
  BY <1>4 DEF FinishReading
<1> QED BY <1>1, <1>2, <1>3, <1>4 DEF Engine

LEMMA NextType == TypeOK /\ BusyInv /\ [Next]_vars => TypeOK'
<1> SUFFICES ASSUME TypeOK, BusyInv, [Next]_vars PROVE TypeOK'
  OBVIOUS
<1>1. CASE Host BY <1>1, HostType
<1>2. CASE Device BY <1>2, DeviceType
<1>3. CASE Engine BY <1>3, EngineType
<1>4. CASE Terminated \/ UNCHANGED vars BY <1>4 DEF Terminated, vars, TypeOK
<1> QED BY <1>1, <1>2, <1>3, <1>4 DEF Next

\* Every variable of the frame loop keeps its type, whatever calls fail.
THEOREM TypeCorrect == Spec => []TypeOK
<1>1. Init => TypeOK /\ BusyInv BY InitType DEF Init, BusyInv
<1>2. TypeOK /\ BusyInv /\ [Next]_vars => TypeOK' /\ BusyInv'
  BY NextType, NextBusy
<1> QED BY <1>1, <1>2, PTL DEF Spec

-----------------------------------------------------------------------------
(***************************************************************************)
(* The inductive invariant of the frame loop, until a wait or a reset fails. *)
(***************************************************************************)

\* Where the draws of a queue are after an operation is added.
LEMMA SubmitsAppend ==
    ASSUME NEW q \in Seq(QueueOps), NEW e \in QueueOps
    PROVE  Submits(Append(q, e)) =
             Submits(q) \cup IF e.op = "submit" THEN {Len(q) + 1} ELSE {}
  BY AppendOp DEF Submits

\* Where the draws of a queue are after its head is retired.
LEMMA SubmitsTail ==
    ASSUME NEW q \in Seq(QueueOps), q # <<>>
    PROVE  /\ Submits(Tail(q)) \subseteq 1..(Len(q) - 1)
           /\ \A k \in 1..(Len(q) - 1) :
                k \in Submits(Tail(q)) <=> k + 1 \in Submits(q)
  BY TailOp DEF Submits

LEMMA InitCore == Init => CoreInv
<1> SUFFICES ASSUME Init PROVE CoreInv
  OBVIOUS
<1>1. queue \in Seq(QueueOps) /\ queue = <<>> BY EmptySeq DEF Init
<1>2. Len(queue) = 0 BY <1>1, EmptySeq
<1>3. Submits(queue) = {} BY <1>1, SubmitsInQueue
<1> QED BY <1>1, <1>2, <1>3 DEF Init, CoreInv, SetupInv, FenceInv, QueueInv,
                          Stalled, RenderSteps, TeardownSteps, Destroying

\* Steps of the host that leave the device, the queue and the images alone.
LEMMA ControlCore ==
    ASSUME TypeOK, CoreInv,
           \/ FirstFrame \/ SetupFails \/ CreateSyncObjs \/ ConnectionLost
           \/ (\E n \in 0..MaxEvents : Dispatch(n))
           \/ DeliverClose \/ DeliverFrame \/ LoopTest \/ WaitFence
    PROVE  CoreInv'
<1>1. /\ UNCHANGED <<sems, imageIndex, queue, gpu, engine, destroyed, failed>>
      /\ pc \in {"setup", "create", "loop", "dispatch", "wait"}
      /\ pc' \in {"create", "loop", "dispatch", "wait", "acquire", "fence"}
      /\ fence' = fence \/ ~syncs
      /\ pc' = "acquire" => fence'
      /\ pc' = "create" => ~syncs'
      /\ pc' \in {"wait", "acquire", "loop", "dispatch"} => syncs'
      /\ ~syncs' => ~syncs
  BY DEF FirstFrame, SetupFails, CreateSyncObjs, ConnectionLost, Dispatch,
         DeliverClose, DeliverFrame, LoopTest, WaitFence, EnterRender,
         CoreInv, SetupInv, RenderSteps, TypeOK
<1>2. SetupInv'
  BY <1>1 DEF CoreInv, SetupInv, RenderSteps, TeardownSteps, Destroying, sems
<1>3. FenceInv'
  BY <1>1, SubmitsInQueue DEF CoreInv, SetupInv, FenceInv, TypeOK, sems
<1>4. QueueInv'
  BY <1>1 DEF CoreInv, QueueInv, sems
<1>5. (~Stalled => ImageInv)'
  <2>1. CASE syncs
    BY <1>1, <2>1 DEF CoreInv, ImageInv, Stalled, sems, engine
  <2>2. CASE ~syncs
    <3>1. queue = <<>> /\ imageSem = "idle" /\ Submits(queue) = {}
      BY <2>2, SubmitsInQueue DEF CoreInv, SetupInv, TypeOK
    <3>2. Len(queue) = 0 /\ gpu # "executing"
      BY <3>1, EmptySeq DEF CoreInv, QueueInv, TypeOK
    <3> QED BY <1>1, <3>1, <3>2 DEF ImageInv, sems, engine
  <2> QED BY <2>1, <2>2
<1> QED BY <1>2, <1>3, <1>4, <1>5 DEF CoreInv

\* Whether vkDeviceWaitIdle has waited or not.
LEMMA DestroyCore ==
    ASSUME TypeOK, CoreInv, Destroy \/ (DestroyUnwaited /\ FenceKept')
    PROVE  CoreInv'
<1>1. /\ UNCHANGED <<syncs, fence, sems, imageIndex, target, queue, gpu, engine>>
      /\ pc \in TeardownSteps /\ pc' \in Destroying
      /\ pc = "fence" => (syncs => fence)
      /\ "present" \in failed <=> "present" \in failed'
  <2>1. CASE Destroy
    BY <2>1 DEF Destroy, AfterDestroy, TeardownSteps, Destroying, MayDestroy
  <2>2. CASE DestroyUnwaited /\ FenceKept'
    <3>1. pc = "device" /\ failed' = failed \cup {"wait_idle"}
      BY <2>2 DEF DestroyUnwaited, FenceKept, Fails
    <3> QED BY <2>2, <3>1 DEF DestroyUnwaited, AfterDestroy, TeardownSteps, Destroying
  <2> QED BY <2>1, <2>2
<1>2. SetupInv'
  BY <1>1 DEF CoreInv, SetupInv, RenderSteps, TeardownSteps, Destroying, sems
<1>3. FenceInv'
  BY <1>1 DEF CoreInv, FenceInv, sems, TeardownSteps, Destroying
<1>4. QueueInv'
  BY <1>1 DEF CoreInv, QueueInv, sems, TeardownSteps, Destroying
<1>5. (~Stalled => ImageInv)'
  BY <1>1 DEF CoreInv, ImageInv, Stalled, sems, engine, TeardownSteps,
             Destroying
<1> QED BY <1>2, <1>3, <1>4, <1>5 DEF CoreInv

LEMMA AcquireCore ==
    ASSUME TypeOK, CoreInv, NEW i \in Images, AcquireNextImage(i)
    PROVE  CoreInv'
<1> USE DEF AcquireNextImage
<1>1. fence /\ Submits(queue) = {} /\ imageSem = "idle" /\ syncs
  BY DEF CoreInv, FenceInv, SetupInv, RenderSteps
<1>2. queue \in Seq(QueueOps) /\ img \in [Images -> {"free", "acquired",
        "queued", "presented", "shown"}] /\ imageIndex \in Images
  BY DEF TypeOK
<1>0. ImageInv BY <1>1 DEF CoreInv, Stalled
<1>3. \A k \in 1..Len(queue) : /\ queue[k].op = "present"
                                /\ queue[k].image # i
  BY <1>0, <1>1, <1>2, SubmitsInQueue DEF ImageInv
<1>4. gpu # "executing" BY <1>1 DEF CoreInv, QueueInv
<1>5. SetupInv'
  BY <1>1 DEF CoreInv, SetupInv, RenderSteps, TeardownSteps, Destroying
<1>6. FenceInv' BY <1>1 DEF CoreInv, FenceInv
<1>7. QueueInv'
  <2>1. queue # <<>> => 1 \in 1..Len(queue) BY <1>2, EmptySeq
  <2> QED BY <1>1, <1>3, <1>4, <2>1 DEF CoreInv, QueueInv
<1>8. ImageInv'
  <2>1. queue # <<>> => 1 \in 1..Len(queue) BY <1>2, EmptySeq
  <2> QED BY <1>0, <1>1, <1>2, <1>3, <1>4, <2>1 DEF ImageInv
<1> QED BY <1>5, <1>6, <1>7, <1>8 DEF CoreInv

\* A failed acquire: from here on nothing is claimed of the images.
LEMMA AcquireFailsCore == ASSUME TypeOK, CoreInv, AcquireFails PROVE CoreInv'
<1> USE DEF AcquireFails, Fails, sems, engine
<1>1. imageSem = "idle" /\ gpu = "idle"
  BY DEF CoreInv, FenceInv, QueueInv, TypeOK
<1>2. SetupInv'
  BY DEF CoreInv, SetupInv, RenderSteps, TeardownSteps, Destroying
<1>3. FenceInv' BY DEF CoreInv, FenceInv
<1>4. QueueInv' BY <1>1 DEF CoreInv, FenceInv, QueueInv
<1>5. Stalled' BY <1>1 DEF Stalled
<1> QED BY <1>2, <1>3, <1>4, <1>5 DEF CoreInv

LEMMA RecordCore == ASSUME TypeOK, CoreInv, Record PROVE CoreInv'
<1> USE DEF Record, sems, engine
<1>1. SetupInv'
  BY DEF CoreInv, SetupInv, RenderSteps, TeardownSteps, Destroying
<1>2. FenceInv' BY DEF CoreInv, FenceInv
<1>3. QueueInv' BY DEF CoreInv, QueueInv
<1>4. (~Stalled => ImageInv)' BY DEF CoreInv, FenceInv, Stalled, ImageInv
<1> QED BY <1>1, <1>2, <1>3, <1>4 DEF CoreInv

LEMMA RecordFailsCore == ASSUME TypeOK, CoreInv, RecordFails PROVE CoreInv'
<1> USE DEF RecordFails, Fails, sems, engine
<1>1. SetupInv'
  BY DEF CoreInv, SetupInv, RenderSteps, TeardownSteps, Destroying
<1>2. FenceInv' BY DEF CoreInv, FenceInv
<1>3. QueueInv' BY DEF CoreInv, QueueInv
<1>4. (~Stalled => ImageInv)' BY DEF CoreInv, FenceInv, Stalled, ImageInv
<1> QED BY <1>1, <1>2, <1>3, <1>4 DEF CoreInv

LEMMA ResetCore == ASSUME TypeOK, CoreInv, ResetFence PROVE CoreInv'
<1> USE DEF ResetFence, sems, engine
<1>1. SetupInv'
  BY DEF CoreInv, SetupInv, RenderSteps, TeardownSteps, Destroying
<1>2. FenceInv' BY DEF CoreInv, FenceInv
<1>3. QueueInv' BY DEF CoreInv, QueueInv
<1>4. (~Stalled => ImageInv)' BY DEF CoreInv, FenceInv, Stalled, ImageInv
<1> QED BY <1>1, <1>2, <1>3, <1>4 DEF CoreInv

LEMMA SubmitFailsCore == ASSUME TypeOK, CoreInv, SubmitFails PROVE CoreInv'
<1> USE DEF SubmitFails, Fails, sems, engine
<1>1. SetupInv'
  BY DEF CoreInv, SetupInv, RenderSteps, TeardownSteps, Destroying
<1>2. FenceInv' BY DEF CoreInv, FenceInv
<1>3. QueueInv' BY DEF CoreInv, QueueInv
<1>4. (~Stalled => ImageInv)' BY DEF CoreInv, FenceInv, Stalled, ImageInv
<1> QED BY <1>1, <1>2, <1>3, <1>4 DEF CoreInv

LEMMA PresentFailsCore == ASSUME TypeOK, CoreInv, PresentFails PROVE CoreInv'
<1> USE DEF PresentFails, Fails, sems, engine
<1>1. SetupInv'
  BY DEF CoreInv, SetupInv, RenderSteps, TeardownSteps, Destroying
<1>2. FenceInv' BY DEF CoreInv, FenceInv
<1>3. QueueInv' BY DEF CoreInv, QueueInv
<1>4. (~Stalled => ImageInv)' BY DEF CoreInv, FenceInv, Stalled, ImageInv
<1> QED BY <1>1, <1>2, <1>3, <1>4 DEF CoreInv

LEMMA SubmitCore == ASSUME TypeOK, CoreInv, QueueSubmit PROVE CoreInv'
<1> USE DEF QueueSubmit, sems, engine
<1> DEFINE e == SubmitInfo(target)
           n == Len(queue) + 1
<1>1. /\ queue \in Seq(QueueOps) /\ e \in QueueOps
      /\ e.op = "submit" /\ e.waits
  BY DEF TypeOK, SubmitInfo, QueueOps
<1>2. ~fence /\ Submits(queue) = {} /\ syncs
  BY DEF CoreInv, FenceInv, SetupInv, RenderSteps
<1> HIDE DEF e
<1>3. queue' = Append(queue, e) BY DEF e
<1>4. /\ queue' \in Seq(QueueOps) /\ queue' # <<>>
      /\ Len(queue) \in Nat /\ Len(queue') = n
      /\ \A k \in 1..Len(queue) : queue'[k] = queue[k]
      /\ queue'[n] = e
  BY <1>1, <1>3, AppendOp
<1>5. Submits(queue') = {n} BY <1>1, <1>2, <1>3, SubmitsAppend
<1>6. SetupInv'
  BY <1>2 DEF CoreInv, SetupInv, RenderSteps, TeardownSteps, Destroying
<1>7. FenceInv' BY <1>2 DEF CoreInv, FenceInv
<1>8. QueueInv'
  <2>1. \A k \in 1..Len(queue') : queue'[k].waits
    BY <1>1, <1>4 DEF CoreInv, QueueInv
  <2>2. gpu # "executing" BY <1>2 DEF CoreInv, QueueInv
  <2>3. renderSem /\ "present" \notin failed =>
          /\ queue # <<>> /\ queue'[1] = queue[1]
    BY <1>1, <1>4, EmptySeq DEF CoreInv, QueueInv
  <2> QED BY <1>1, <1>4, <1>5, <2>1, <2>2, <2>3 DEF CoreInv, QueueInv
<1>9. (~Stalled => ImageInv)'
  <2> SUFFICES ASSUME ~Stalled PROVE ImageInv'
    BY DEF Stalled
  <2>1. \A k \in 1..Len(queue') : queue'[k].op = "present" =>
           k \in 1..Len(queue) /\ queue'[k] = queue[k]
    BY <1>1, <1>4
  <2>2. gpu # "executing" BY <1>2 DEF CoreInv, QueueInv
  <2> QED BY <1>4, <2>1, <2>2 DEF CoreInv, ImageInv
<1> QED BY <1>6, <1>7, <1>8, <1>9 DEF CoreInv

LEMMA PresentCore == ASSUME TypeOK, CoreInv, QueuePresent PROVE CoreInv'
<1> USE DEF QueuePresent, sems
<1> DEFINE e == PresentInfo(imageIndex)
           n == Len(queue) + 1
<1>1. /\ queue \in Seq(QueueOps) /\ e \in QueueOps
      /\ e.op = "present" /\ e.image = imageIndex /\ e.waits
      /\ imageIndex \in Images
      /\ img \in [Images -> {"free", "acquired", "queued", "presented", "shown"}]
  BY DEF TypeOK, PresentInfo, QueueOps
<1>2. syncs BY DEF CoreInv, SetupInv, RenderSteps
<1> HIDE DEF e
<1>3. queue' = Append(queue, e) BY DEF e
<1>4. /\ queue' \in Seq(QueueOps) /\ queue' # <<>>
      /\ Len(queue) \in Nat /\ Len(queue') = n
      /\ \A k \in 1..Len(queue) : queue'[k] = queue[k]
      /\ queue'[n] = e
  BY <1>1, <1>3, AppendOp
<1>5. Submits(queue') = Submits(queue) /\ Submits(queue) \subseteq 1..Len(queue)
  <2>1. Submits(queue') = Submits(queue) \cup {} BY <1>1, <1>3, SubmitsAppend
  <2> QED BY <1>1, <2>1, SubmitsInQueue
<1>6. SetupInv'
  BY <1>2 DEF CoreInv, SetupInv, RenderSteps, TeardownSteps, Destroying
<1>7. FenceInv' BY <1>5 DEF CoreInv, FenceInv
<1>8. QueueInv'
  <2>1. \A k \in 1..Len(queue') : queue'[k].waits
    BY <1>1, <1>4 DEF CoreInv, QueueInv
  <2>2. \A k \in Submits(queue') :
          /\ k < Len(queue') /\ queue'[k + 1] = PresentInfo(imageIndex')
    <3> SUFFICES ASSUME NEW k \in Submits(queue')
                 PROVE  /\ k < Len(queue') /\ queue'[k + 1] = PresentInfo(imageIndex)
      OBVIOUS
    <3>1. k \in Submits(queue) /\ k \in 1..Len(queue) BY <1>5
    <3>2. CASE k = Len(queue) BY <3>1, <3>2, <1>4 DEF CoreInv, QueueInv, e
    <3>3. CASE k < Len(queue) BY <3>1, <3>3, <1>4 DEF CoreInv, QueueInv
    <3> QED BY <3>1, <3>2, <3>3, <1>4
  <2>3. renderSem /\ "present" \notin failed => queue'[1].op = "present"
    <3>1. CASE queue = <<>>
      <4>1. n = 1 BY <3>1, EmptySeq
      <4> QED BY <1>1, <1>4, <3>1, <4>1 DEF CoreInv, QueueInv
    <3>2. CASE queue # <<>>
      <4>1. queue'[1] = queue[1] BY <1>1, <1>4, <3>2, EmptySeq
      <4> QED BY <3>2, <4>1 DEF CoreInv, QueueInv
    <3> QED BY <3>1, <3>2
  <2> QED BY <1>4, <1>5, <2>1, <2>2, <2>3 DEF CoreInv, QueueInv
<1>9. (~Stalled => ImageInv)'
  <2> SUFFICES ASSUME ~Stalled PROVE ImageInv'
    BY DEF Stalled, TypeOK
  <2>0. /\ img[imageIndex] = "acquired"
        /\ img' = [img EXCEPT ![imageIndex] = "queued"]
    BY DEF CoreInv, ImageInv
  <2>1. \A k \in 1..Len(queue) : queue[k].op = "present" =>
          /\ queue[k].image # imageIndex /\ queue[k].image \in Images
          /\ img[queue[k].image] = "queued"
    BY <2>0 DEF CoreInv, ImageInv
  <2>2. \A k \in 1..Len(queue') :
          \/ k = n /\ queue'[k] = e
          \/ k \in 1..Len(queue) /\ queue'[k] = queue[k]
    <3> TAKE k \in 1..Len(queue')
    <3>1. k = n \/ k \in 1..Len(queue) BY <1>4
    <3> QED BY <3>1, <1>4
  <2>3. \A k \in 1..Len(queue') :
          queue'[k].op = "present" =>
             queue'[k].image \in Images /\ img'[queue'[k].image] = "queued"
    <3> SUFFICES ASSUME NEW k \in 1..Len(queue'), queue'[k].op = "present"
                 PROVE  /\ queue'[k].image \in Images
                        /\ img'[queue'[k].image] = "queued"
      OBVIOUS
    <3>1. CASE queue'[k] = e BY <1>1, <2>0, <3>1
    <3>2. CASE k \in 1..Len(queue) /\ queue'[k] = queue[k]
      <4>1. queue[k].image \in Images \ {imageIndex}
            /\ img[queue[k].image] = "queued"
        BY <2>1, <3>2
      <4> QED BY <1>1, <2>0, <3>2, <4>1
    <3> QED BY <2>2, <3>1, <3>2
  <2>4. \A j, k \in 1..Len(queue') :
          /\ queue'[j].op = "present" /\ queue'[k].op = "present"
          /\ queue'[j].image = queue'[k].image
          => j = k
    BY <1>1, <2>1, <2>2 DEF CoreInv, ImageInv
  <2>5. img'[imageIndex'] = "queued" BY <1>1, <2>0
  <2>6. Len(queue') \notin Submits(queue') BY <1>4, <1>5
  <2> QED BY <1>5, <2>3, <2>4, <2>5, <2>6 DEF CoreInv, ImageInv
<1> QED BY <1>6, <1>7, <1>8, <1>9 DEF CoreInv

LEMMA StartCore == ASSUME TypeOK, CoreInv, GpuStart PROVE CoreInv'
<1> USE DEF GpuStart, host, engine
<1>1. /\ queue \in Seq(QueueOps) /\ Head(queue) = queue[1]
      /\ 1 \in 1..Len(queue) /\ 1 \in Submits(queue)
  BY TailOp DEF TypeOK, Submits
<1>2. /\ imageSem = "signaled" /\ imageSem' = "idle" /\ ~fence
      /\ "present" \notin failed => ~renderSem
  BY <1>1 DEF CoreInv, QueueInv, FenceInv, Submits
<1>3. SetupInv'
  BY <1>2 DEF CoreInv, SetupInv, RenderSteps, TeardownSteps, Destroying
<1>4. FenceInv' BY <1>2 DEF CoreInv, FenceInv
<1>5. QueueInv' BY <1>1, <1>2 DEF CoreInv, QueueInv
<1>6. (~Stalled => ImageInv)' BY <1>1, <1>2 DEF CoreInv, Stalled, ImageInv
<1> QED BY <1>3, <1>4, <1>5, <1>6 DEF CoreInv

LEMMA FinishCore == ASSUME TypeOK, CoreInv, GpuFinish PROVE CoreInv'
<1> USE DEF GpuFinish, host, engine
<1>1. /\ queue \in Seq(QueueOps) /\ 1 \in Submits(queue) /\ imageSem = "idle"
      /\ 1 \in 1..Len(queue)
  BY SubmitsInQueue DEF TypeOK, CoreInv, QueueInv
<1>2. queue # <<>> BY <1>1, EmptySeq
<1>3. /\ queue' = Tail(queue)
      /\ Len(queue) \in Nat /\ Len(queue) >= 1
      /\ Len(queue') = Len(queue) - 1
      /\ \A k \in 1..Len(queue') : /\ queue'[k] = queue[k + 1]
                                    /\ k + 1 \in 1..Len(queue)
      /\ queue' = <<>> <=> Len(queue) = 1
  BY <1>1, <1>2, TailOp
<1>4. Submits(queue') = {}
  <2>1. Submits(queue') \subseteq 1..Len(queue')
    BY <1>1, <1>2, <1>3, SubmitsTail
  <2>2. \A k \in Submits(queue') : k + 1 \in Submits(queue)
    BY <1>1, <1>2, <1>3, <2>1, SubmitsTail
  <2>3. \A k \in Submits(queue') : k + 1 = 1
    BY <1>1, <2>2 DEF CoreInv, QueueInv
  <2> QED BY <2>1, <2>3
<1>5. SetupInv'
  BY <1>1, <1>2 DEF CoreInv, SetupInv, RenderSteps, TeardownSteps, Destroying
<1>6. FenceInv' BY <1>1, <1>4 DEF CoreInv, FenceInv
<1>7. QueueInv'
  <2>1. queue' = <<>> => pc = "present" \/ "present" \in failed
    BY <1>1, <1>3 DEF CoreInv, QueueInv
  <2>2. queue' # <<>> => queue'[1].op = "present"
    <3> SUFFICES ASSUME queue' # <<>> PROVE queue'[1].op = "present"
      OBVIOUS
    <3>1. 1 < Len(queue) /\ 1 \in 1..Len(queue') BY <1>3
    <3>2. queue[1 + 1] = PresentInfo(imageIndex)
      BY <1>1, <3>1 DEF CoreInv, QueueInv
    <3> QED BY <1>3, <3>1, <3>2 DEF PresentInfo
  <2>3. \A k \in 1..Len(queue') : queue'[k].waits
    BY <1>3 DEF CoreInv, QueueInv
  <2> QED BY <1>1, <1>4, <2>1, <2>2, <2>3 DEF CoreInv, QueueInv
<1>8. (~Stalled => ImageInv)'
  <2>0. ~Stalled BY DEF Stalled
  <2>1. \A j, k \in 1..Len(queue') :
          /\ queue'[j].op = "present" /\ queue'[k].op = "present"
          /\ queue'[j].image = queue'[k].image
          => j = k
    <3> SUFFICES ASSUME NEW j \in 1..Len(queue'), NEW k \in 1..Len(queue'),
                        queue'[j].op = "present", queue'[k].op = "present",
                        queue'[j].image = queue'[k].image
                 PROVE  j = k
      OBVIOUS
    <3>1. j + 1 = k + 1 BY <1>3, <2>0 DEF CoreInv, ImageInv
    <3> QED BY <1>3, <3>1
  <2> QED BY <1>1, <1>3, <1>4, <2>0, <2>1 DEF CoreInv, ImageInv
<1> QED BY <1>5, <1>6, <1>7, <1>8 DEF CoreInv

LEMMA GpuPresentCore == ASSUME TypeOK, CoreInv, GpuPresent PROVE CoreInv'
<1> USE DEF GpuPresent, host
<1> DEFINE i == queue[1].image
<1>1. /\ queue \in Seq(QueueOps) /\ queue # <<>> /\ imageIndex \in Images
      /\ Head(queue) = queue[1] /\ 1 \in 1..Len(queue)
      /\ queue[1].op = "present"
      /\ img \in [Images -> {"free", "acquired", "queued", "presented", "shown"}]
  BY TailOp DEF TypeOK
<1>2. /\ queue' = Tail(queue)
      /\ Len(queue) \in Nat /\ Len(queue) >= 1
      /\ Len(queue') = Len(queue) - 1
      /\ \A k \in 1..Len(queue') : /\ queue'[k] = queue[k + 1]
                                    /\ k + 1 \in 1..Len(queue)
      /\ queue' = <<>> <=> Len(queue) = 1
  BY <1>1, TailOp
<1>3. /\ Submits(queue') \subseteq 1..Len(queue')
      /\ \A k \in 1..Len(queue') : k \in Submits(queue') <=> k + 1 \in Submits(queue)
      /\ Submits(queue') # {} => Submits(queue) # {}
      /\ 1 \notin Submits(queue)
  BY <1>1, <1>2, SubmitsTail DEF Submits
<1>4. /\ img' = [img EXCEPT ![i] = "presented"]
      /\ ~renderSem'
  BY <1>1 DEF CoreInv, QueueInv
<1> HIDE DEF i
<1>5. gpu # "executing" BY <1>3 DEF CoreInv, QueueInv
<1>6. SetupInv'
  BY <1>1 DEF CoreInv, SetupInv, RenderSteps, TeardownSteps, Destroying
<1>7. FenceInv' BY <1>3 DEF CoreInv, FenceInv
<1>8. QueueInv'
  <2>1. \A k \in 1..Len(queue') : queue'[k].waits
    BY <1>2 DEF CoreInv, QueueInv
  <2>2. \A j, k \in Submits(queue') : j = k
    <3> SUFFICES ASSUME NEW j \in Submits(queue'), NEW k \in Submits(queue')
                 PROVE  j = k
      OBVIOUS
    <3>1. j + 1 = k + 1 BY <1>3 DEF CoreInv, QueueInv
    <3> QED BY <1>2, <1>3, <3>1
  <2>3. ASSUME NEW k \in Submits(queue')
        PROVE  /\ k = Len(queue') => pc = "present" \/ "present" \in failed
               /\ k < Len(queue') => queue'[k + 1] = PresentInfo(imageIndex)
    <3>1. /\ k \in 1..Len(queue') /\ k + 1 \in Submits(queue)
          /\ queue'[k] = queue[k + 1]
      BY <1>2, <1>3
    <3>2. k < Len(queue') => k + 1 \in 1..Len(queue') BY <1>2, <3>1
    <3>3. k < Len(queue') => queue'[k + 1] = queue[(k + 1) + 1]
      BY <1>2, <3>2
    <3>4. k \in Nat /\ Len(queue) \in Nat /\ Len(queue') = Len(queue) - 1
      BY <1>2, <3>1
    <3>5. k = Len(queue') => k + 1 = Len(queue) BY <3>4
    <3>6. k < Len(queue') => k + 1 < Len(queue) BY <3>4
    <3> QED BY <3>1, <3>3, <3>5, <3>6 DEF CoreInv, QueueInv
  <2> QED BY <1>4, <1>5, <2>1, <2>2, <2>3 DEF CoreInv, QueueInv
<1>9. (~Stalled => ImageInv)'
  <2> SUFFICES ASSUME ImageInv PROVE ImageInv'
    BY DEF CoreInv, Stalled
  <2>0. i \in Images /\ img[i] = "queued"
    BY <1>1 DEF ImageInv, i
  <2>1. \A k \in 1..Len(queue') : queue'[k].op = "present" =>
          /\ queue'[k].image \in Images \ {i}
          /\ img[queue'[k].image] = "queued"
    <3> SUFFICES ASSUME NEW k \in 1..Len(queue'), queue'[k].op = "present"
                 PROVE  /\ queue'[k].image \in Images \ {i}
                        /\ img[queue'[k].image] = "queued"
      OBVIOUS
    <3>1. queue'[k] = queue[k + 1] /\ k + 1 \in 1..Len(queue) /\ k + 1 # 1
      BY <1>2
    <3>2. queue[k + 1].image # queue[1].image
      BY <1>1, <3>1 DEF ImageInv
    <3> QED BY <3>1, <3>2 DEF ImageInv, i
  <2>2. \A j, k \in 1..Len(queue') :
          /\ queue'[j].op = "present" /\ queue'[k].op = "present"
          /\ queue'[j].image = queue'[k].image
          => j = k
    <3> SUFFICES ASSUME NEW j \in 1..Len(queue'), NEW k \in 1..Len(queue'),
                        queue'[j].op = "present", queue'[k].op = "present",
                        queue'[j].image = queue'[k].image
                 PROVE  j = k
      OBVIOUS
    <3>1. j + 1 = k + 1 BY <1>2 DEF ImageInv
    <3> QED BY <1>2, <3>1
  <2>3. Len(queue') \in Submits(queue') => Len(queue) \in Submits(queue)
    <3>1. (Len(queue) - 1) + 1 = Len(queue) BY <1>2
    <3> QED BY <1>2, <1>3, <3>1
  <2>4. Submits(queue') # {} => imageIndex # i
    <3> SUFFICES ASSUME NEW k \in Submits(queue) PROVE imageIndex # i
      BY <1>3
    <3>1. k \in 1..Len(queue) /\ k # 1 BY <1>1, <1>3, SubmitsInQueue
    <3>0. Len(queue) \in Nat BY <1>2
    <3>2. CASE k = Len(queue)
      <4>1. img[imageIndex] = "acquired"
        BY <3>2 DEF ImageInv
      <4> QED BY <4>1, <2>0
    <3>3. CASE k < Len(queue)
      <4>1. queue[k + 1] = PresentInfo(imageIndex) /\ k + 1 \in 1..Len(queue)
        <5>1. k + 1 \in 1..Len(queue) BY <3>0, <3>1, <3>3
        <5> QED BY <3>3, <5>1 DEF CoreInv, QueueInv
      <4>2. queue[k + 1].op = "present" /\ queue[k + 1].image = imageIndex
        BY <4>1 DEF PresentInfo
      <4>3. k + 1 # 1 BY <3>1, <1>2
      <4> QED BY <1>1, <4>1, <4>2, <4>3 DEF ImageInv, i
    <3> QED BY <3>0, <3>1, <3>2, <3>3
  <2>5. pc \in {"record", "reset", "submit", "present"} => imageIndex # i
    BY <2>0 DEF ImageInv
  <2>6. \A k \in 1..Len(queue') : queue'[k].op = "present" =>
          queue'[k].image \in Images /\ img'[queue'[k].image] = "queued"
    BY <1>1, <1>4, <2>0, <2>1
  <2>7. imageIndex # i => img'[imageIndex] = img[imageIndex] BY <1>1, <1>4, <2>0
  <2> QED BY <1>3, <1>4, <1>5, <2>2, <2>3, <2>4, <2>5, <2>6, <2>7
          DEF ImageInv
<1> QED BY <1>6, <1>7, <1>8, <1>9 DEF CoreInv

LEMMA EngineCore == ASSUME TypeOK, CoreInv, Engine PROVE CoreInv'
<1> USE DEF host
<1>1. CASE SignalAcquired
  <2> USE <1>1 DEF SignalAcquired, engine
  <2>1. SetupInv'
    BY DEF CoreInv, SetupInv, RenderSteps, TeardownSteps, Destroying
  <2>2. FenceInv' BY DEF CoreInv, FenceInv
  <2>3. QueueInv' BY DEF CoreInv, QueueInv
  <2>4. (~Stalled => ImageInv)' BY DEF CoreInv, Stalled, ImageInv
  <2> QED BY <2>1, <2>2, <2>3, <2>4 DEF CoreInv
<1>2. ASSUME NEW i \in Images, Display(i) \/ Discard(i) \/ FinishReading(i)
      PROVE  CoreInv'
  <2> USE DEF sems
  <2>1. /\ UNCHANGED <<pc, syncs, fence, sems, imageIndex, target, queue, gpu,
                       destroyed, failed>>
        /\ \A j \in Images : img[j] \in {"acquired", "queued"} =>
               /\ img'[j] = img[j]
               /\ j \notin reading => j \notin reading'
    BY <1>2 DEF Display, Discard, FinishReading, OnScreen, TypeOK
  <2>2. SetupInv'
    BY <2>1 DEF CoreInv, SetupInv, RenderSteps, TeardownSteps, Destroying
  <2>3. FenceInv' BY <2>1 DEF CoreInv, FenceInv
  <2>4. QueueInv' BY <2>1 DEF CoreInv, QueueInv
  <2>5. (~Stalled => ImageInv)'
    <3>1. imageIndex \in Images BY DEF TypeOK
    <3>2. gpu = "executing" => Submits(queue) # {}
      BY DEF CoreInv, QueueInv
    <3> QED BY <2>1, <3>1, <3>2 DEF CoreInv, Stalled, ImageInv
  <2> QED BY <2>2, <2>3, <2>4, <2>5 DEF CoreInv
<1> QED BY <1>1, <1>2 DEF Engine

LEMMA CoreRests == ASSUME CoreInv, UNCHANGED vars PROVE CoreInv'
<1>1. SetupInv' BY DEF CoreInv, SetupInv, vars
<1>2. FenceInv' BY DEF CoreInv, FenceInv, vars
<1>3. QueueInv' BY DEF CoreInv, QueueInv, vars
<1>4. (~Stalled => ImageInv)' BY DEF CoreInv, Stalled, ImageInv, vars
<1> QED BY <1>1, <1>2, <1>3, <1>4 DEF CoreInv

\* A call that has failed is not forgotten.
LEMMA FailedGrows == TypeOK /\ [Next]_vars => failed \subseteq failed'
<1> SUFFICES ASSUME [Next]_vars PROVE failed \subseteq failed'
  OBVIOUS
<1>1. CASE Host
  BY <1>1 DEF Host, HostProgress, Render, Fails, FirstFrame, SetupFails,
       CreateSyncObjs, ConnectionLost, Dispatch, DeliverClose, DeliverFrame,
       LoopTest, WaitFence, WaitFails, AcquireFails, AcquireNextImage, Record,
       RecordFails, ResetFence, ResetFails, QueueSubmit, SubmitFails,
       QueuePresent, PresentFails, Destroy, DestroyUnwaited
<1>2. CASE Device BY <1>2 DEF Device, GpuStart, GpuFinish, GpuPresent
<1>3. CASE Engine
  BY <1>3 DEF Engine, SignalAcquired, Display, Discard, FinishReading
<1>4. CASE Terminated \/ UNCHANGED vars BY <1>4 DEF Terminated, vars
<1> QED BY <1>1, <1>2, <1>3, <1>4 DEF Next

\* A wait or a reset of render() that fails is not kept secret.
LEMMA FenceLost == WaitFails \/ ResetFails => ~FenceKept'
  BY DEF WaitFails, ResetFails, Fails, FenceKept

LEMMA NextFault == ASSUME TypeOK, FaultInv, [Next]_vars PROVE FaultInv'
<1> SUFFICES ASSUME FenceKept' PROVE CoreInv'
  BY DEF FaultInv
<1>0. CoreInv BY FailedGrows DEF FaultInv, FenceKept
<1>1. CASE Host
  BY <1>0, <1>1, FenceLost, ControlCore, DestroyCore, AcquireCore,
     AcquireFailsCore, RecordCore, RecordFailsCore, ResetCore, SubmitCore,
     SubmitFailsCore, PresentCore, PresentFailsCore
  DEF Host, HostProgress, Render
<1>2. CASE Device
  BY <1>0, <1>2, StartCore, FinishCore, GpuPresentCore DEF Device
<1>3. CASE Engine BY <1>0, <1>3, EngineCore
<1>4. CASE Terminated \/ UNCHANGED vars
  BY <1>0, <1>4, CoreRests DEF Terminated
<1> QED BY <1>1, <1>2, <1>3, <1>4 DEF Next

\* Whatever calls fail, the frame loop keeps CoreInv until a wait for the
\* fence or its reset does.
THEOREM FaultInvariant == Spec => [](TypeOK /\ FaultInv)
<1>1. Init => TypeOK /\ BusyInv /\ FaultInv
  BY InitType, InitCore DEF Init, BusyInv, FaultInv
<1>2. TypeOK /\ BusyInv /\ FaultInv /\ [Next]_vars
        => TypeOK' /\ BusyInv' /\ FaultInv'
  BY NextType, NextBusy, NextFault
<1> QED BY <1>1, <1>2, PTL DEF Spec

\* The host never re-records the command buffer, resets the fence or acquires
\* with the semaphore while the device may still use it (triangle.c:79-103),
\* whatever calls fail, until the wait for the fence or its reset does.
THEOREM HostOwnership == Spec => []HostOwnsFrameObjects
<1>1. TypeOK /\ FaultInv => HostOwnsFrameObjects
  BY DEF FaultInv, CoreInv, FenceInv, HostOwnsFrameObjects
<1> QED BY <1>1, FaultInvariant, PTL

\* No draw starts without an image acquired for it, whatever calls fail, until
\* the wait for the fence or its reset does: a failed acquire (triangle.c:81)
\* leaves its draw waiting.
THEOREM AcquiredDrawing == Spec => []AcquiredWhileDrawing
<1>1. TypeOK /\ FaultInv => AcquiredWhileDrawing
  <2> SUFFICES ASSUME TypeOK, CoreInv, gpu = "executing"
               PROVE  /\ img[imageIndex] \in {"acquired", "queued"}
                      /\ imageIndex \notin reading
    BY DEF AcquiredWhileDrawing, FaultInv
  <2>1. Submits(queue) # {} /\ ~Stalled BY DEF CoreInv, QueueInv, Stalled
  <2> QED BY <2>1 DEF CoreInv, ImageInv
<1> QED BY <1>1, FaultInvariant, PTL

\* No draw is left when uvr_vk_destory has destroyed anything: its wait for
\* the fence is enough for the fence and for what a draw uses, whatever calls
\* failed before, other than that wait, the one of render() and the reset.
THEOREM TeardownOwnership == Spec => []DrawObjectsIdleAtDestroy
<1>1. TypeOK /\ FaultInv => DrawObjectsIdleAtDestroy
  BY SubmitsInQueue
     DEF TypeOK, FaultInv, CoreInv, SetupInv, FenceInv, DrawObjectsIdleAtDestroy
<1> QED BY <1>1, FaultInvariant, PTL

-----------------------------------------------------------------------------
(***************************************************************************)
(* Frames whose acquire and recording succeed (a failed vkQueueSubmit or   *)
(* vkQueuePresentKHR is allowed).                                          *)
(***************************************************************************)
\* The invariant of these frames.
GoodInv == CoreInv /\ DrawInv

\* The failures that leave the frames acquired and recorded as they should.
Drawn(calls) == calls \subseteq {"submit", "present"}

LEMMA HostDraw ==
    ASSUME TypeOK, GoodInv, Host, Drawn(failed')
    PROVE  DrawInv'
<1> USE DEF sems, engine
<1>0. /\ ~AcquireFails /\ ~RecordFails /\ ~WaitFails /\ ~ResetFails
      /\ ~DestroyUnwaited
  BY DEF AcquireFails, RecordFails, WaitFails, ResetFails, DestroyUnwaited,
         Fails, Drawn
<1>1. queue \in Seq(QueueOps) /\ (~syncs => Submits(queue) = {})
  BY SubmitsInQueue DEF TypeOK, GoodInv, CoreInv, SetupInv
<1>2. CASE \/ FirstFrame \/ SetupFails \/ CreateSyncObjs \/ ConnectionLost
           \/ (\E n \in 0..MaxEvents : Dispatch(n))
           \/ DeliverClose \/ DeliverFrame \/ LoopTest \/ WaitFence
  <2>1. /\ UNCHANGED <<sems, imageIndex, queue, gpu>>
        /\ pc \notin {"record", "reset", "submit"}
        /\ pc' \notin {"record", "reset", "submit"}
        /\ syncs' /\ ~syncs => fence'
        /\ syncs => syncs' /\ UNCHANGED fence
    BY <1>2 DEF FirstFrame, SetupFails, CreateSyncObjs, ConnectionLost,
         Dispatch, DeliverClose, DeliverFrame, LoopTest, WaitFence, EnterRender,
         TypeOK, GoodInv, CoreInv, SetupInv
  <2> QED BY <2>1 DEF GoodInv, DrawInv, Stalled
<1>3. CASE Destroy
  <2>1. pc' \in Destroying
    BY <1>3 DEF Destroy, AfterDestroy, TeardownSteps, Destroying
  <2> QED BY <1>3, <2>1 DEF Destroy, GoodInv, DrawInv, Stalled, TeardownSteps,
                          Destroying
<1>4. CASE \E i \in Images : AcquireNextImage(i)
  <2>1. Submits(queue) = {}
    BY <1>4 DEF AcquireNextImage, GoodInv, CoreInv, FenceInv
  <2> QED BY <1>4, <2>1 DEF AcquireNextImage, GoodInv, DrawInv, Stalled
<1>5. CASE Record BY <1>5 DEF Record, GoodInv, DrawInv, Stalled
<1>6. CASE ResetFence
  BY <1>6 DEF ResetFence, GoodInv, CoreInv, SetupInv, RenderSteps, DrawInv, Stalled
<1>7. CASE QueueSubmit
  <2>1. SubmitInfo(target) \in QueueOps /\ SubmitInfo(target).op = "submit"
        /\ SubmitInfo(target).image = imageIndex
    BY <1>7 DEF QueueSubmit, SubmitInfo, QueueOps, TypeOK, GoodInv, DrawInv
  <2>2. Submits(queue) = {}
    BY <1>7 DEF QueueSubmit, GoodInv, CoreInv, FenceInv
  <2>3. Submits(queue') = {Len(queue) + 1}
    BY <1>1, <1>7, <2>1, <2>2, SubmitsAppend DEF QueueSubmit
  <2>4. queue'[Len(queue) + 1] = SubmitInfo(target)
    BY <1>1, <1>7, <2>1, AppendOp DEF QueueSubmit
  <2> QED BY <1>7, <2>1, <2>3, <2>4 DEF QueueSubmit, GoodInv, DrawInv, Stalled
<1>8. CASE SubmitFails \/ PresentFails
  BY <1>8 DEF SubmitFails, PresentFails, GoodInv, DrawInv, Stalled
<1>9. CASE QueuePresent
  <2>1. PresentInfo(imageIndex) \in QueueOps
        /\ PresentInfo(imageIndex).op = "present"
    BY DEF PresentInfo, QueueOps, TypeOK
  <2>2. Submits(queue') = Submits(queue) \cup {}
    BY <1>1, <1>9, <2>1, SubmitsAppend DEF QueuePresent
  <2>3. \A k \in Submits(queue) : queue'[k] = queue[k]
    BY <1>1, <1>9, <2>1, AppendOp, SubmitsInQueue DEF QueuePresent
  <2> QED BY <1>9, <2>2, <2>3 DEF QueuePresent, GoodInv, DrawInv, Stalled
<1> QED BY <1>0, <1>2, <1>3, <1>4, <1>5, <1>6, <1>7, <1>8, <1>9
        DEF Host, HostProgress, Render

LEMMA DeviceDraw == ASSUME TypeOK, GoodInv, Device PROVE DrawInv'
<1> USE DEF host, sems, engine
<1>1. queue \in Seq(QueueOps) BY DEF TypeOK
<1>2. CASE GpuStart BY <1>2 DEF GpuStart, GoodInv, DrawInv, Stalled
<1>3. CASE GpuFinish \/ GpuPresent
  <2>1. queue # <<>> /\ queue' = Tail(queue) /\ UNCHANGED <<imageIndex, pc, target>>
    BY <1>1, <1>3, SubmitsInQueue
       DEF GpuFinish, GpuPresent, GoodInv, CoreInv, QueueInv
  <2>2. \A k \in Submits(queue') : k + 1 \in Submits(queue)
                                   /\ queue'[k] = queue[k + 1]
    BY <1>1, <2>1, SubmitsTail, TailOp
  <2>3. ~Stalled' \/ ~syncs'
    BY <1>3 DEF GpuFinish, GpuPresent, GoodInv, CoreInv, FenceInv, QueueInv,
                DrawInv, Stalled
  <2> QED BY <2>1, <2>2, <2>3 DEF GoodInv, DrawInv
<1> QED BY <1>2, <1>3 DEF Device

LEMMA EngineDraw == ASSUME GoodInv, Engine PROVE DrawInv'
  BY DEF Engine, SignalAcquired, Display, Discard, FinishReading, GoodInv,
         DrawInv, Stalled, host, sems, engine

LEMMA NextDraw ==
    ASSUME TypeOK, GoodInv, [Next]_vars, Drawn(failed')
    PROVE  DrawInv'
<1>1. CASE Host BY <1>1, HostDraw
<1>2. CASE Device BY <1>2, DeviceDraw
<1>3. CASE Engine BY <1>3, EngineDraw
<1>4. CASE Terminated \/ UNCHANGED vars
  BY <1>4 DEF Terminated, vars, GoodInv, DrawInv, Stalled
<1> QED BY <1>1, <1>2, <1>3, <1>4 DEF Next

\* Up to a fault of another kind both invariants hold.
LEMMA FrameGood == FrameInv /\ Drawn(failed) => GoodInv
  BY DEF FrameInv, FaultInv, GoodInv, Drawn, FenceKept

LEMMA NextFrame ==
    ASSUME TypeOK, FrameInv, [Next]_vars
    PROVE  FrameInv'
<1>1. FaultInv' BY NextFault DEF FrameInv
<1>2. ASSUME Drawn(failed') PROVE DrawInv'
  <2>1. Drawn(failed) BY <1>2, FailedGrows DEF Drawn
  <2> QED BY <1>2, <2>1, FrameGood, NextDraw
<1> QED BY <1>1, <1>2 DEF FrameInv, Drawn

LEMMA InitFrame == Init => FrameInv
<1> SUFFICES ASSUME Init PROVE FrameInv
  OBVIOUS
<1>1. CoreInv BY InitCore
<1>2. Submits(queue) = {} BY EmptySeq, SubmitsInQueue DEF Init
<1> QED BY <1>1, <1>2 DEF Init, FrameInv, FaultInv, DrawInv

\* Whatever calls fail: CoreInv holds until a wait for the fence or its reset
\* does, DrawInv until an acquire or a recording does as well.
THEOREM FrameInvariant == Spec => [](TypeOK /\ FrameInv)
<1>1. Init => TypeOK /\ BusyInv /\ FrameInv
  BY InitType, InitFrame DEF Init, BusyInv
<1>2. TypeOK /\ BusyInv /\ FrameInv /\ [Next]_vars
        => TypeOK' /\ BusyInv' /\ FrameInv'
  BY NextType, NextBusy, NextFrame
<1> QED BY <1>1, <1>2, PTL DEF Spec

\* As long as only submissions and presentations have failed, the device draws
\* only into an image lent to the program that the engine no longer reads; as
\* long as only submissions have, it never signals a signaled semaphore
\* (triangle.c:85-115).
THEOREM DrawOwnership == Spec => []DrawsLentImage
<1>1. TypeOK /\ FrameInv => DrawsLentImage
  <2> SUFFICES ASSUME TypeOK, GoodInv, gpu = "executing"
               PROVE  /\ Head(queue).image \in Images \ reading
                      /\ img[Head(queue).image] \in {"acquired", "queued"}
                      /\ "present" \notin failed => ~renderSem
    BY FrameGood DEF DrawsLentImage, Drawn
  <2>1. 1 \in Submits(queue) BY DEF GoodInv, CoreInv, QueueInv
  <2>2. queue # <<>> BY <2>1, SubmitsInQueue DEF TypeOK
  <2>3. Head(queue) = queue[1] /\ queue[1].image = imageIndex
    BY <2>1, <2>2, TailOp DEF TypeOK, GoodInv, DrawInv
  <2>4. "present" \notin failed => ~renderSem
    BY <2>1, <2>2 DEF GoodInv, CoreInv, QueueInv, Submits
  <2>5. ImageInv BY DEF GoodInv, CoreInv, Stalled
  <2> QED BY <2>1, <2>3, <2>4, <2>5 DEF TypeOK, ImageInv
<1> QED BY <1>1, FrameInvariant, PTL

-----------------------------------------------------------------------------
(***************************************************************************)
(* The frame loop implements the life of the images (SwapchainImages).     *)
(***************************************************************************)

\* Steps that neither change an image the engine has lent nor the queue.
LEMMA QuietLend ==
    ASSUME LendInv,
           UNCHANGED <<imageIndex, queue>>,
           \A i \in Images : img'[i] \in {"acquired", "queued"} => img'[i] = img[i],
           \/ pc' \in {"record", "reset", "submit", "present"}
           \/ pc \notin {"record", "reset", "submit", "present"}
    PROVE  LendInv'
  BY DEF LendInv

LEMMA NextLend ==
    ASSUME TypeOK, GoodInv, LendInv, [Next]_vars, failed' = {}
    PROVE  LendInv'
<1> USE DEF host, sems, engine
<1>0. /\ queue \in Seq(QueueOps) /\ imageIndex \in Images
      /\ img \in [Images -> {"free", "acquired", "queued", "presented", "shown"}]
  BY DEF TypeOK
<1>1. ASSUME NEW i \in Images, AcquireNextImage(i) PROVE LendInv'
  <2>1. /\ queue' = queue /\ imageIndex' = i /\ pc' = "record"
        /\ img' = [img EXCEPT ![i] = "acquired"]
        /\ \A j \in Images : img[j] # "acquired"
    BY <1>1 DEF AcquireNextImage, LendInv
  <2> QED BY <1>0, <2>1 DEF LendInv
<1>2. CASE QueueSubmit
  <2>1. SubmitInfo(target) \in QueueOps /\ SubmitInfo(target).op = "submit"
        /\ queue' = Append(queue, SubmitInfo(target)) /\ pc' = "present"
        /\ UNCHANGED <<img, imageIndex>> /\ Submits(queue) = {}
    BY <1>2 DEF QueueSubmit, SubmitInfo, QueueOps, TypeOK, GoodInv, CoreInv, FenceInv
  <2>2. Submits(queue') = {Len(queue) + 1} /\ Len(queue') = Len(queue) + 1
        /\ Len(queue) \in Nat /\ \A k \in 1..Len(queue) : queue'[k] = queue[k]
    BY <1>0, <2>1, SubmitsAppend, AppendOp
  <2>3. \A k \in Submits(queue') : Len(queue') <= k + 1 BY <2>2
  <2>4. \A k \in 1..Len(queue) : k \in 1..Len(queue') BY <2>2
  <2>5. \A i \in Images : img[i] = "queued" =>
          \E k \in 1..Len(queue') : queue'[k] = PresentInfo(i)
    BY <2>2, <2>4 DEF LendInv
  <2> QED BY <2>1, <2>3, <2>5 DEF LendInv
<1>3. CASE QueuePresent
  <2> DEFINE e == PresentInfo(imageIndex)
  <2>1. e \in QueueOps /\ e.op = "present" /\ UNCHANGED imageIndex
        /\ queue' = Append(queue, e)
    BY <1>3 DEF QueuePresent, PresentInfo, QueueOps, TypeOK
  <2>2. \A i \in Images : /\ img'[i] # "acquired"
                          /\ img'[i] = "queued" /\ i # imageIndex => img[i] = "queued"
    BY <1>0, <1>3 DEF QueuePresent, LendInv
  <2> HIDE DEF e
  <2>3. /\ Submits(queue') = Submits(queue) \cup {} /\ Len(queue') = Len(queue) + 1
        /\ Len(queue) \in Nat /\ queue'[Len(queue) + 1] = e
        /\ \A k \in 1..Len(queue) : queue'[k] = queue[k]
    <3>1. Submits(queue') = Submits(queue) \cup {} BY <1>0, <2>1, SubmitsAppend
    <3> QED BY <1>0, <2>1, <3>1, AppendOp
  <2>4. \A k \in Submits(queue') : Len(queue') <= k + 1
    <3> SUFFICES ASSUME NEW k \in Submits(queue) PROVE k = Len(queue)
      BY <2>3
    <3>1. k \in 1..Len(queue) BY <1>0, SubmitsInQueue
    <3>2. CASE k < Len(queue)
      <4>1. queue[k + 1] = e /\ k + 1 \in 1..Len(queue)
        BY <2>3, <3>1, <3>2 DEF GoodInv, CoreInv, QueueInv, e
      <4>2. ~Stalled BY <1>3 DEF GoodInv, CoreInv, SetupInv, DrawInv, QueuePresent,
                                RenderSteps
      <4>3. img[e.image] = "queued" /\ img[imageIndex] = "acquired"
        BY <1>3, <2>1, <4>1, <4>2 DEF GoodInv, CoreInv, ImageInv, QueuePresent
      <4> QED BY <4>3 DEF PresentInfo, e
    <3> QED BY <2>3, <3>1, <3>2
  <2>5. \A k \in 1..Len(queue) : k \in 1..Len(queue') BY <2>3
  <2>6. Len(queue) + 1 \in 1..Len(queue') BY <2>3
  <2>7. \A i \in Images : img'[i] = "queued" =>
          \E k \in 1..Len(queue') : queue'[k] = PresentInfo(i)
    BY <2>2, <2>3, <2>5, <2>6 DEF LendInv, e
  <2> QED BY <2>2, <2>4, <2>7 DEF LendInv
<1>4. CASE GpuFinish \/ GpuPresent
  <2>1. queue # <<>> /\ queue' = Tail(queue) /\ UNCHANGED <<imageIndex, pc>>
    BY <1>0, <1>4, SubmitsInQueue
       DEF GpuFinish, GpuPresent, GoodInv, CoreInv, QueueInv
  <2>2. /\ Len(queue) \in Nat /\ Len(queue') = Len(queue) - 1
        /\ Head(queue) = queue[1]
        /\ \A k \in Submits(queue') : k \in 1..Len(queue') /\ k + 1 \in Submits(queue)
        /\ \A k \in 1..Len(queue') : queue'[k] = queue[k + 1]
    BY <1>0, <2>1, SubmitsTail, TailOp
  <2>3. \A k \in Submits(queue') : Len(queue') <= k + 1
    BY <2>2 DEF LendInv
  <2>4. \A i \in Images : img'[i] \in {"acquired", "queued"} =>
          img'[i] = img[i] /\ queue[1] # PresentInfo(i)
    <3>1. CASE GpuFinish
      <4>1. 1 \in Submits(queue) BY <3>1 DEF GpuFinish, GoodInv, CoreInv, QueueInv
      <4> QED BY <3>1, <4>1 DEF GpuFinish, Submits, PresentInfo
    <3>2. CASE GpuPresent
      BY <1>0, <2>2, <3>2 DEF GpuPresent, PresentInfo
    <3> QED BY <1>4, <3>1, <3>2
  <2>5. \A i \in Images : img'[i] = "queued" =>
          \E k \in 1..Len(queue') : queue'[k] = PresentInfo(i)
    <3> SUFFICES ASSUME NEW i \in Images, img'[i] = "queued"
                 PROVE  \E k \in 1..Len(queue') : queue'[k] = PresentInfo(i)
      OBVIOUS
    <3>1. PICK k \in 1..Len(queue) : queue[k] = PresentInfo(i)
      BY <2>4 DEF LendInv
    <3>2. k # 1 BY <2>4, <3>1
    <3>3. k - 1 \in 1..Len(queue') /\ (k - 1) + 1 = k BY <2>2, <3>1, <3>2
    <3>4. queue'[k - 1] = queue[(k - 1) + 1] BY <2>2, <3>3
    <3> QED BY <3>1, <3>3, <3>4
  <2> QED BY <2>1, <2>3, <2>4, <2>5 DEF LendInv
<1>5. CASE Engine
  <2>1. /\ UNCHANGED <<imageIndex, queue, pc>>
        /\ \A i \in Images : img'[i] \in {"acquired", "queued"} => img'[i] = img[i]
    BY <1>0, <1>5 DEF Engine, SignalAcquired, Display, Discard, FinishReading, OnScreen
  <2> QED BY <2>1, QuietLend
<1>6. CASE Terminated \/ UNCHANGED vars BY <1>6 DEF Terminated, vars, LendInv
<1>7. CASE GpuStart BY <1>7, QuietLend DEF GpuStart
<1>8. CASE Destroy
  <2>1. pc \in TeardownSteps /\ UNCHANGED <<imageIndex, queue, img>>
    BY <1>8 DEF Destroy
  <2> QED BY <2>1, QuietLend DEF TeardownSteps
<1>9. CASE \/ FirstFrame \/ SetupFails \/ CreateSyncObjs \/ ConnectionLost
           \/ (\E n \in 0..MaxEvents : Dispatch(n))
           \/ DeliverClose \/ DeliverFrame \/ LoopTest \/ WaitFence
           \/ Record \/ ResetFence \/ SubmitFails
  BY <1>9, QuietLend
     DEF FirstFrame, SetupFails, CreateSyncObjs, ConnectionLost, Dispatch,
         DeliverClose, DeliverFrame, LoopTest, WaitFence, EnterRender,
         Record, ResetFence, SubmitFails
<1> QED
  <2>1. /\ ~AcquireFails /\ ~RecordFails /\ ~WaitFails /\ ~ResetFails
        /\ ~PresentFails /\ ~DestroyUnwaited
    BY DEF AcquireFails, RecordFails, WaitFails, ResetFails, PresentFails,
           DestroyUnwaited, Fails
  <2> QED BY <2>1, <1>1, <1>2, <1>3, <1>4, <1>5, <1>6, <1>7, <1>8, <1>9
          DEF Next, Host, HostProgress, Render, Device


\* The status of the images, before and after a step.
LEMMA StatusValues ==
    /\ ImageStatus = [i \in Images |-> StatusOf(i)]
    /\ ImageStatus' = [i \in Images |-> StatusOf(i)']
  BY DEF ImageStatus

\* A step that changes the status of no image is invisible to SwapchainImages.
LEMMA StatusStays ==
    ASSUME \A i \in Images : StatusOf(i)' = StatusOf(i)
    PROVE  UNCHANGED ImageStatus
  BY StatusValues

\* A step that moves one image is a move of SwapchainImages.
LEMMA StatusMoves ==
    ASSUME NEW i \in Images, NEW from, NEW to,
           StatusOf(i) = from, StatusOf(i)' = to,
           \A j \in Images \ {i} : StatusOf(j)' = StatusOf(j)
    PROVE  Swapchain!Move(i, from, to)
  BY StatusValues DEF Swapchain!Move

\* What an image the engine has lent can be in the middle of.
LEMMA DrawStatus ==
    ASSUME TypeOK, GoodInv, LendInv, NEW i \in Images
    PROVE  /\ gpu = "executing" \/ Submits(queue) # {} =>
                /\ img[imageIndex] \in {"acquired", "queued"}
                /\ pc \notin {"record", "reset", "submit"}
           /\ gpu = "executing" =>
                /\ queue # <<>> /\ Head(queue).image = imageIndex
                /\ 1 \in Submits(queue)
           /\ ToBeDrawn(i) => i = imageIndex
           /\ \A k \in Submits(queue) : queue[k].image = imageIndex
<1>1. gpu = "executing" => 1 \in Submits(queue)
  BY DEF GoodInv, CoreInv, QueueInv
<1>2. /\ queue \in Seq(QueueOps) /\ Submits(queue) \subseteq 1..Len(queue)
      /\ Submits(queue) # {} => queue # <<>>
  BY SubmitsInQueue DEF TypeOK
<1>3. gpu = "executing" => queue # <<>> /\ Head(queue) = queue[1]
  BY <1>1, <1>2, TailOp
<1>4. \A k \in Submits(queue) : queue[k].image = imageIndex
  BY DEF GoodInv, DrawInv
<1>5. Submits(queue) # {} => ImageInv
  BY <1>2 DEF GoodInv, CoreInv, SetupInv, DrawInv
<1>6. Submits(queue) # {} => pc \notin {"record", "reset", "submit"}
  BY DEF GoodInv, CoreInv, FenceInv
<1>7. ToBeDrawn(i) => i = imageIndex
  BY <1>4 DEF ToBeDrawn, LendInv
<1> QED BY <1>1, <1>3, <1>4, <1>5, <1>6, <1>7 DEF ImageInv

\* Steps between the frames and at the edges of the host's part of one: the
\* images, the queue and the device are left alone.
LEMMA QuietStatus ==
    ASSUME UNCHANGED <<img, queue, gpu>>,
           pc \in {"record", "reset", "submit"} <=> pc' \in {"record", "reset", "submit"}
    PROVE  UNCHANGED ImageStatus
<1>1. \A i \in Images : StatusOf(i)' = StatusOf(i)
  BY DEF StatusOf, ToBeDrawn
<1> QED BY <1>1, StatusStays

LEMMA AcquireLends ==
    ASSUME TypeOK, GoodInv, LendInv, NEW i \in Images, AcquireNextImage(i)
    PROVE  Swapchain!Lend(i)
<1>1. /\ pc = "acquire" /\ pc' = "record" /\ img[i] = "free" /\ UNCHANGED <<queue, gpu>>
      /\ img' = [img EXCEPT ![i] = "acquired"] /\ Submits(queue) = {}
      /\ img \in [Images -> {"free", "acquired", "queued", "presented", "shown"}]
  BY DEF AcquireNextImage, GoodInv, CoreInv, FenceInv, TypeOK
<1>2. gpu # "executing" /\ gpu' # "executing"
  BY <1>1 DEF GoodInv, CoreInv, QueueInv
<1>3. \A j \in Images : StatusOf(j) \notin {"lent", "drawing"}
  BY <1>1, <1>2 DEF StatusOf, ToBeDrawn
<1>4. StatusOf(i) = "engine" /\ StatusOf(i)' = "lent"
  BY <1>1, <1>2 DEF StatusOf, ToBeDrawn
<1>5. \A j \in Images \ {i} : StatusOf(j)' = StatusOf(j)
  BY <1>1, <1>2 DEF StatusOf, ToBeDrawn, LendInv
<1> QED BY <1>3, <1>4, <1>5, StatusMoves, StatusValues DEF Swapchain!Lend, Swapchain!In

\* The frame passes from the host to the queue: its image is still to be drawn.
LEMMA SubmitStays ==
    ASSUME TypeOK, GoodInv, LendInv, QueueSubmit
    PROVE  UNCHANGED ImageStatus
<1> DEFINE e == SubmitInfo(target)
<1>1. /\ queue \in Seq(QueueOps) /\ e \in QueueOps /\ e.op = "submit"
      /\ e.image = imageIndex /\ queue' = Append(queue, e)
      /\ UNCHANGED <<img, gpu>> /\ pc = "submit" /\ pc' = "present"
      /\ Submits(queue) = {}
  BY DEF QueueSubmit, SubmitInfo, QueueOps, TypeOK, GoodInv, CoreInv, FenceInv,
         DrawInv, engine
<1> HIDE DEF e
<1>2. /\ Submits(queue') = {Len(queue) + 1} /\ queue'[Len(queue) + 1] = e
  BY <1>1, SubmitsAppend, AppendOp
<1>3. gpu # "executing" /\ gpu' # "executing"
  BY <1>1 DEF GoodInv, CoreInv, QueueInv
<1>4. img[imageIndex] = "acquired"
  BY <1>1 DEF GoodInv, CoreInv, SetupInv, RenderSteps, DrawInv, ImageInv
<1>5. \A i \in Images : StatusOf(i)' = StatusOf(i)
  BY <1>1, <1>2, <1>3, <1>4 DEF StatusOf, ToBeDrawn, LendInv
<1> QED BY <1>5, StatusStays

\* Queueing the presentation takes nothing from the draw.
LEMMA PresentStays ==
    ASSUME TypeOK, GoodInv, LendInv, QueuePresent
    PROVE  UNCHANGED ImageStatus
<1> DEFINE e == PresentInfo(imageIndex)
<1>1. /\ queue \in Seq(QueueOps) /\ e \in QueueOps /\ e.op = "present"
      /\ queue' = Append(queue, e) /\ imageIndex \in Images
      /\ UNCHANGED gpu /\ pc = "present" /\ pc' = "dispatch"
      /\ img \in [Images -> {"free", "acquired", "queued", "presented", "shown"}]
  BY DEF QueuePresent, PresentInfo, QueueOps, TypeOK
<1> HIDE DEF e
<1>2. /\ Submits(queue') = Submits(queue) \cup {}
      /\ Submits(queue) \subseteq 1..Len(queue)
      /\ \A k \in 1..Len(queue) : queue'[k] = queue[k]
  BY <1>1, SubmitsAppend, AppendOp, SubmitsInQueue
<1>3. img[imageIndex] = "acquired" /\ img' = [img EXCEPT ![imageIndex] = "queued"]
  BY <1>1 DEF QueuePresent, GoodInv, CoreInv, SetupInv, RenderSteps, DrawInv, ImageInv
<1>4. gpu = "executing" => Head(queue') = Head(queue)
  BY <1>1, AppendHead, DrawStatus
<1>5. \A i \in Images : ToBeDrawn(i)' <=> ToBeDrawn(i)
  BY <1>1, <1>2 DEF ToBeDrawn
<1>6. \A i \in Images : img[i] \in {"free", "presented", "shown"}
                        <=> img'[i] \in {"free", "presented", "shown"}
  BY <1>1, <1>3
<1>7. \A i \in Images : StatusOf(i)' = StatusOf(i)
  BY <1>1, <1>4, <1>5, <1>6 DEF StatusOf
<1> QED BY <1>7, StatusStays

LEMMA GpuStartDraws ==
    ASSUME TypeOK, GoodInv, LendInv, GpuStart
    PROVE  \E i \in Images : Swapchain!StartDraw(i)
<1>0. PICK i \in Images : i = imageIndex BY DEF TypeOK
<1>1. /\ UNCHANGED <<pc, queue, img>> /\ gpu = "idle" /\ gpu' = "executing"
      /\ queue \in Seq(QueueOps) /\ Len(queue) \in Nat
      /\ Head(queue) = queue[1]
      /\ 1 \in Submits(queue) /\ Len(queue) <= 1 + 1
  BY TailOp DEF GpuStart, host, engine, TypeOK, Submits, LendInv
<1>2. /\ img[i] \in {"acquired", "queued"}
      /\ queue[1].image = i
      /\ pc \notin {"record", "reset", "submit"}
  BY <1>0, <1>1, DrawStatus
<1>3. \A j \in Images : img[j] \in {"acquired", "queued"} => j = i
  <2> SUFFICES ASSUME NEW j \in Images, img[j] = "queued" PROVE j = i
    BY <1>0 DEF LendInv
  <2>1. PICK k \in 1..Len(queue) : queue[k] = PresentInfo(j)
    BY DEF LendInv
  <2>2. k # 1 BY <1>1, <2>1 DEF Submits, PresentInfo
  <2>3. k = 1 + 1 /\ 1 < Len(queue) BY <1>1, <2>1, <2>2
  <2>4. queue[1 + 1] = PresentInfo(imageIndex)
    BY <1>1, <2>3 DEF GoodInv, CoreInv, QueueInv
  <2> QED BY <1>0, <2>1, <2>3, <2>4 DEF PresentInfo
<1>4. StatusOf(i) = "lent" /\ StatusOf(i)' = "drawing"
  BY <1>1, <1>2 DEF StatusOf, ToBeDrawn
<1>5. \A j \in Images \ {i} :
        StatusOf(j) = "engine" /\ StatusOf(j)' = "engine"
  <2>1. \A j \in Images \ {i} : img[j] \in {"free", "presented", "shown"}
    BY <1>3 DEF TypeOK
  <2> QED BY <1>1, <2>1 DEF StatusOf
<1>6. Swapchain!In({"drawn"}) = {}
  BY <1>4, <1>5, StatusValues DEF Swapchain!In
<1>7. Swapchain!Move(i, "lent", "drawing") BY <1>4, <1>5, StatusMoves
<1> QED BY <1>6, <1>7 DEF Swapchain!StartDraw

LEMMA GpuFinishEndsDraw ==
    ASSUME TypeOK, GoodInv, LendInv, GpuFinish
    PROVE  \E i \in Images : Swapchain!EndDraw(i)
<1>0. PICK i \in Images : i = imageIndex BY DEF TypeOK
<1>1. /\ UNCHANGED <<pc, img>> /\ gpu = "executing" /\ gpu' = "idle"
      /\ queue \in Seq(QueueOps) /\ fence'
  BY DEF GpuFinish, host, engine, TypeOK
<1>2. /\ img[i] \in {"acquired", "queued"}
      /\ Head(queue).image = i
      /\ pc \notin {"record", "reset", "submit"}
  BY <1>0, <1>1, DrawStatus
<1>3. Submits(queue') = {} BY <1>1, FinishCore DEF GoodInv, CoreInv, FenceInv
<1>4. StatusOf(i) = "drawing" /\ StatusOf(i)' = "drawn"
  BY <1>1, <1>2, <1>3 DEF StatusOf, ToBeDrawn
<1>5. \A j \in Images \ {i} : ~ToBeDrawn(j) BY <1>0, DrawStatus
<1>6. \A j \in Images \ {i} : StatusOf(j)' = StatusOf(j)
  BY <1>1, <1>2, <1>3, <1>5 DEF StatusOf, ToBeDrawn
<1>7. Swapchain!Move(i, "drawing", "drawn") BY <1>4, <1>6, StatusMoves
<1> QED BY <1>7 DEF Swapchain!EndDraw

LEMMA GpuPresentHandsBack ==
    ASSUME TypeOK, GoodInv, LendInv, GpuPresent
    PROVE  \E i \in Images : Swapchain!HandBack(i)
<1>0. PICK i : i = queue[1].image OBVIOUS
<1>1. /\ queue \in Seq(QueueOps) /\ queue # <<>> /\ queue' = Tail(queue)
      /\ Head(queue) = queue[1] /\ 1 \in 1..Len(queue) /\ Len(queue) \in Nat
      /\ img \in [Images -> {"free", "acquired", "queued", "presented", "shown"}]
  BY TailOp DEF GpuPresent, TypeOK
<1>2. /\ UNCHANGED <<pc, gpu>> /\ queue[1].op = "present" /\ 1 \notin Submits(queue)
      /\ img' = [img EXCEPT ![i] = "presented"]
  BY <1>0, <1>1 DEF GpuPresent, host, Submits
<1>3. ImageInv /\ gpu # "executing"
  <2>1. syncs BY <1>1 DEF GoodInv, CoreInv, SetupInv
  <2> QED BY <1>2, <2>1 DEF GoodInv, CoreInv, QueueInv, DrawInv
<1>4. i \in Images /\ img[i] = "queued" BY <1>0, <1>1, <1>2, <1>3 DEF ImageInv
<1>5. /\ \A k \in Submits(queue) : k \in 1..Len(queue)
      /\ \A k \in Submits(queue') :
            k + 1 \in Submits(queue) /\ queue'[k] = queue[k + 1]
  BY <1>1, TailOp, SubmitsTail, SubmitsInQueue
<1>6. \A k \in Submits(queue) : k - 1 \in Submits(queue') /\ queue'[k - 1] = queue[k]
  <2> TAKE k \in Submits(queue)
  <2>1. k \in 1..Len(queue) /\ k # 1 BY <1>2, <1>5
  <2>2. k - 1 \in 1..(Len(queue) - 1) /\ (k - 1) + 1 = k BY <1>1, <2>1
  <2> QED BY <1>1, <2>2, SubmitsTail, TailOp
<1>7. \A j \in Images \ {i} : ToBeDrawn(j)' <=> ToBeDrawn(j)
  <2>1. \A j \in Images \ {i} : img'[j] = img[j] BY <1>1, <1>2, <1>4
  <2>2. \A j \in Images : (\E k \in Submits(queue') : queue'[k].image = j)
                          <=> \E k \in Submits(queue) : queue[k].image = j
    BY <1>5, <1>6
  <2> QED BY <1>2, <2>1, <2>2 DEF ToBeDrawn
<1>8. ~ToBeDrawn(i)
  <2> SUFFICES ASSUME NEW k \in Submits(queue), queue[k].image = i PROVE FALSE
    BY <1>4 DEF ToBeDrawn
  <2>1. k \in 1..Len(queue) /\ k # 1 BY <1>2, <1>5
  <2>2. i = imageIndex BY DEF GoodInv, DrawInv
  <2>3. CASE k = Len(queue)
    BY <1>3, <1>4, <2>2, <2>3 DEF GoodInv, CoreInv, QueueInv, ImageInv
  <2>4. CASE k < Len(queue)
    <3>1. k + 1 \in 1..Len(queue) /\ k + 1 # 1 BY <1>1, <2>1, <2>4
    <3>2. queue[k + 1] = PresentInfo(imageIndex)
      BY <2>4 DEF GoodInv, CoreInv, QueueInv
    <3>3. queue[k + 1].op = "present" /\ queue[k + 1].image = queue[1].image
      BY <1>0, <2>2, <3>2 DEF PresentInfo
    <3> QED BY <1>1, <1>2, <1>3, <3>1, <3>3 DEF ImageInv
  <2> QED BY <1>1, <2>1, <2>3, <2>4
<1>9. StatusOf(i) = "drawn" /\ StatusOf(i)' = "engine"
  BY <1>1, <1>2, <1>3, <1>4, <1>8 DEF StatusOf
<1>10. \A j \in Images \ {i} : StatusOf(j)' = StatusOf(j)
  BY <1>1, <1>2, <1>3, <1>4, <1>7 DEF StatusOf
<1>11. Swapchain!Move(i, "drawn", "engine") BY <1>4, <1>9, <1>10, StatusMoves
<1> QED BY <1>4, <1>11 DEF Swapchain!HandBack

\* The engine moves images among its own: lent ones it leaves alone.
LEMMA EngineStays == ASSUME TypeOK, Engine PROVE UNCHANGED ImageStatus
<1>1. CASE SignalAcquired
  BY <1>1, QuietStatus DEF SignalAcquired, host, engine
<1>2. ASSUME NEW j \in Images, Display(j) \/ Discard(j) \/ FinishReading(j)
      PROVE  UNCHANGED ImageStatus
  <2>1. /\ UNCHANGED <<pc, queue, gpu>>
        /\ \A i \in Images :
              \/ img'[i] = img[i]
              \/ /\ img[i] \in {"free", "presented", "shown"}
                 /\ img'[i] \in {"free", "presented", "shown"}
    BY <1>2 DEF Display, Discard, FinishReading, OnScreen, TypeOK, host
  <2>2. \A i \in Images : StatusOf(i)' = StatusOf(i)
    BY <2>1 DEF StatusOf, ToBeDrawn
  <2> QED BY <2>2, StatusStays
<1> QED BY <1>1, <1>2 DEF Engine

LEMMA NextSwapchain ==
    ASSUME TypeOK, GoodInv, LendInv, [Next]_vars, failed' = {}
    PROVE  [Swapchain!Next]_ImageStatus
<1>1. ASSUME NEW i \in Images, AcquireNextImage(i) PROVE Swapchain!Next
  BY <1>1, AcquireLends DEF Swapchain!Next
<1>2. CASE QueueSubmit BY <1>2, SubmitStays
<1>3. CASE QueuePresent BY <1>3, PresentStays
<1>4. CASE GpuStart
  BY <1>4, GpuStartDraws DEF Swapchain!Next, TypeOK
<1>5. CASE GpuFinish
  BY <1>5, GpuFinishEndsDraw DEF Swapchain!Next, TypeOK
<1>6. CASE GpuPresent
  BY <1>6, GpuPresentHandsBack DEF Swapchain!Next
<1>7. CASE Engine BY <1>7, EngineStays
<1>8. CASE Destroy
  <2>1. pc' \in Destroying /\ pc \in TeardownSteps /\ UNCHANGED <<img, queue, gpu>>
    BY <1>8 DEF Destroy, AfterDestroy, TeardownSteps, Destroying, engine
  <2> QED BY <2>1, QuietStatus DEF TeardownSteps, Destroying
<1>9. CASE \/ FirstFrame \/ SetupFails \/ CreateSyncObjs \/ ConnectionLost
           \/ (\E n \in 0..MaxEvents : Dispatch(n))
           \/ DeliverClose \/ DeliverFrame \/ LoopTest \/ WaitFence
           \/ Record \/ ResetFence
  BY <1>9, QuietStatus
     DEF FirstFrame, SetupFails, CreateSyncObjs, ConnectionLost, Dispatch,
         DeliverClose, DeliverFrame, LoopTest, WaitFence, EnterRender,
         Record, ResetFence, engine
<1>10. CASE Terminated \/ UNCHANGED vars
  BY <1>10, QuietStatus DEF Terminated, vars
<1> QED
  <2>1. /\ ~AcquireFails /\ ~RecordFails /\ ~SubmitFails /\ ~WaitFails
        /\ ~ResetFails /\ ~PresentFails /\ ~DestroyUnwaited
    BY DEF AcquireFails, RecordFails, SubmitFails, WaitFails, ResetFails,
           PresentFails, DestroyUnwaited, Fails
  <2> QED BY <2>1, <1>1, <1>2, <1>3, <1>4, <1>5, <1>6, <1>7, <1>8, <1>9, <1>10
          DEF Next, Host, HostProgress, Render, Device

\* Until a call fails: the invariants of the images lent.
LentInv == failed = {} => LendInv

LEMMA NextLent == ASSUME TypeOK, FrameInv, LentInv, [Next]_vars PROVE LentInv'
<1> SUFFICES ASSUME failed' = {} PROVE LendInv'
  BY DEF LentInv
<1>1. failed = {} BY FailedGrows
<1> QED BY <1>1, FrameGood, NextLend DEF LentInv, Drawn

LEMMA StepSwapchain ==
    ASSUME TypeOK, FrameInv, LentInv, [Next]_vars
    PROVE  [failed' = {} => Swapchain!Next]_ImageStatus
<1> SUFFICES ASSUME failed' = {} PROVE [Swapchain!Next]_ImageStatus
  OBVIOUS
<1>1. failed = {} BY FailedGrows
<1> QED BY <1>1, FrameGood, NextSwapchain DEF LentInv, Drawn

\* Until a call fails, every image is lent, drawn once and handed back, and no
\* draw starts before the last frame is back with the engine: the safety part
\* of SwapchainSpec.
THEOREM ImplementsSwapchain == Spec => SwapchainSteps
<1>1. Init => Swapchain!Init
  BY DEF Init, ImageStatus, StatusOf, Swapchain!Init
<1>2. Init => TypeOK /\ BusyInv /\ FrameInv /\ LentInv
  <2> SUFFICES ASSUME Init PROVE LendInv
    BY InitType, InitFrame DEF Init, BusyInv, LentInv
  <2>1. Submits(queue) = {} BY EmptySeq, SubmitsInQueue DEF Init
  <2> QED BY <2>1 DEF Init, LendInv
<1>3. TypeOK /\ BusyInv /\ FrameInv /\ LentInv /\ [Next]_vars
        => TypeOK' /\ BusyInv' /\ FrameInv' /\ LentInv'
  BY NextType, NextBusy, NextFrame, NextLent
<1>4. TypeOK /\ FrameInv /\ LentInv /\ [Next]_vars
        => [failed' = {} => Swapchain!Next]_ImageStatus
  BY StepSwapchain
<1> QED BY <1>1, <1>2, <1>3, <1>4, PTL DEF Spec, SwapchainSteps

=============================================================================
