---------------------------- MODULE VkFrameLoop ----------------------------
(***************************************************************************)
(* The frame loop of a program built on the library, from the creation of  *)
(* its synchronization objects to uvr_vk_destory: the host thread of       *)
(* examples/wayland/triangle.c (examples/xcb/triangle.c renders the same   *)
(* way), the device queue it submits to, and the presentation engine that  *)
(* owns the swapchain images in between.                                   *)
(*                                                                         *)
(* One fence, two semaphores and one command buffer serve every frame, and *)
(* neither render() nor uvr_vk_destory looks at a result: the Faults are   *)
(* the calls allowed to fail, and failed remembers which of them have.     *)
(* The queue retires its operations in order.                              *)
(***************************************************************************)
EXTENDS Naturals, Sequences, FiniteSets

CONSTANTS
    Images,       \* the images of the swapchain
    FirstImage,   \* the image of index 0, the initial value of *imageIndex
    NoImage,      \* the framebuffer of a command buffer never recorded
    MaxEvents,    \* bound: events delivered by one wl_display_dispatch
    Faults        \* the calls that may fail

ASSUME ImagesAssumption == FirstImage \in Images /\ NoImage \notin Images
ASSUME MaxEventsAssumption == MaxEvents \in Nat \ {0}
ASSUME FaultsAssumption ==
    Faults \subseteq {"wait", "acquire", "record", "reset", "submit", "present",
                      "wait_idle"}

VARIABLES
    pc,           \* where the host thread is
    events,       \* events wl_display_dispatch has still to deliver
    running,      \* the flag the close handler clears
    syncs,        \* whether vkFences and vkSemaphores exist
    fence,        \* vkFences[0]: signaled or not
    imageSem,     \* vkSemaphores[0]: idle, pending (acquire), signaled
    renderSem,    \* vkSemaphores[1]: signaled or not
    imageIndex,   \* *imageIndex
    target,       \* the image the command buffer draws into
    queue,        \* operations of the device queue, oldest first
    gpu,          \* the device: idle, or executing the head of the queue
    img,          \* where each swapchain image is
    reading,      \* images replaced on screen that the engine still reads
    destroyed,    \* what uvr_vk_destory has destroyed
    failed        \* history: the calls that have failed, of Faults

host   == <<pc, events, running, syncs>>
sems   == <<imageSem, renderSem>>
engine == <<img, reading>>
vars == <<pc, events, running, syncs, fence, imageSem, renderSem, imageIndex,
          target, queue, gpu, img, reading, destroyed, failed>>

RenderSteps == {"wait", "acquire", "record", "reset", "submit", "present"}

\* What uvr_vk_destory does after each step: children of the device first,
\* and vkDeviceWaitIdle only before the device itself.
AfterDestroy ==
    [fence        |-> "semaphores",
     semaphores   |-> "command_pool",
     command_pool |-> "framebuffers",
     framebuffers |-> "pipelines",
     pipelines    |-> "image_views",
     image_views  |-> "swapchain",
     swapchain    |-> "device",
     device       |-> "done"]

TeardownSteps == {"fence", "semaphores", "command_pool", "framebuffers",
                  "pipelines", "image_views", "swapchain", "device"}

\* variants: a queue operation that does not wait for its semaphore
SubmitInfoNoWait(i)  == [op |-> "submit", image |-> i, waits |-> FALSE]
PresentInfoNoWait(i) == [op |-> "present", image |-> i, waits |-> FALSE]

\* The queue operations of a frame.  The draw waits for the image semaphore
\* and signals the render semaphore, which the presentation waits for.
SubmitInfo(i)  == [op |-> "submit", image |-> i, waits |-> TRUE]
PresentInfo(i) == [op |-> "present", image |-> i, waits |-> TRUE]

QueueOps == [op : {"submit", "present"}, image : Images \cup {NoImage},
             waits : BOOLEAN]

Submits(q) == {k \in 1..Len(q) : q[k].op = "submit"}

Init ==
    /\ pc = "setup" /\ events = 0 /\ running = TRUE
    /\ syncs = FALSE /\ fence = FALSE
    /\ imageSem = "idle" /\ renderSem = FALSE
    /\ imageIndex = FirstImage /\ target = NoImage
    /\ queue = <<>> /\ gpu = "idle"
    /\ img = [i \in Images |-> "free"] /\ reading = {}
    /\ destroyed = {} /\ failed = {}

(***************************************************************************)
(* The host: setup, the dispatch loop and render().                        *)
(***************************************************************************)

\* A call of render() or uvr_vk_destory fails, and its result is ignored.
Fails(call) == call \in Faults /\ failed' = failed \cup {call}

\* No fence has been left unwaited or unreset so far.
FenceKept == failed \cap {"wait", "reset"} = {}

\* render() returns at once until both arrays of objects exist.
EnterRender(return) == pc' = IF syncs THEN "wait" ELSE return

\* uvr_wc_surface_create draws the first frame before there is a device.
FirstFrame ==
    /\ pc = "setup"
    /\ EnterRender("create")
    /\ UNCHANGED <<events, running, syncs, fence, sems, imageIndex, target,
                   queue, gpu, engine, destroyed, failed>>

\* A step of the setup fails: goto exit_error.
SetupFails ==
    /\ pc = "create"
    /\ pc' = "fence"
    /\ UNCHANGED <<events, running, syncs, fence, sems, imageIndex, target,
                   queue, gpu, engine, destroyed, failed>>

\* variant: without VK_FENCE_CREATE_SIGNALED_BIT
CreateSyncObjsUnsignaled ==
    /\ pc = "create"
    /\ pc' = "loop"
    /\ syncs' = TRUE
    /\ UNCHANGED <<events, running, fence, sems, imageIndex, target, queue, gpu,
                   engine, destroyed, failed>>

\* The last step of the setup; the fence is created signaled.  The X program
\* also records the command buffer for image 0.
CreateSyncObjs ==
    /\ pc = "create"
    /\ pc' = "loop"
    /\ syncs' = TRUE
    /\ fence' = TRUE
    /\ target' \in {NoImage, FirstImage}
    /\ UNCHANGED <<events, running, sems, imageIndex, queue, gpu, engine,
                   destroyed, failed>>

\* wl_display_dispatch has read n events of the compositor.
Dispatch(n) ==
    /\ pc = "loop"
    /\ pc' = "dispatch"
    /\ events' = n
    /\ UNCHANGED <<running, syncs, fence, sems, imageIndex, target, queue,
                   gpu, engine, destroyed, failed>>

\* wl_display_dispatch returns -1.
ConnectionLost ==
    /\ pc = "loop"
    /\ pc' = "fence"
    /\ UNCHANGED <<events, running, syncs, fence, sems, imageIndex, target,
                   queue, gpu, engine, destroyed, failed>>

\* variant: the close handler runs once more than there are events
DeliverCloseTwice ==
    /\ pc = "dispatch"
    /\ events' = events - 1
    /\ running' = FALSE
    /\ UNCHANGED <<pc, syncs, fence, sems, imageIndex, target, queue, gpu,
                   engine, destroyed, failed>>

DeliverClose ==
    /\ pc = "dispatch" /\ events > 0
    /\ events' = events - 1
    /\ running' = FALSE
    /\ UNCHANGED <<pc, syncs, fence, sems, imageIndex, target, queue, gpu,
                   engine, destroyed, failed>>

\* The frame event reaches drawframe, which calls render().
DeliverFrame ==
    /\ pc = "dispatch" /\ events > 0
    /\ events' = events - 1
    /\ EnterRender("dispatch")
    /\ UNCHANGED <<running, syncs, fence, sems, imageIndex, target, queue,
                   gpu, engine, destroyed, failed>>

\* The test of the while loop, once every event is delivered.
LoopTest ==
    /\ pc = "dispatch" /\ events = 0
    /\ pc' = IF running THEN "loop" ELSE "fence"
    /\ UNCHANGED <<events, running, syncs, fence, sems, imageIndex, target,
                   queue, gpu, engine, destroyed, failed>>

\* variant: render() does not wait for the frame before
WaitFenceNot ==
    /\ pc = "wait"
    /\ pc' = "acquire"
    /\ UNCHANGED <<events, running, syncs, fence, sems, imageIndex, target,
                   queue, gpu, engine, destroyed, failed>>

WaitFence ==
    /\ pc = "wait" /\ fence
    /\ pc' = "acquire"
    /\ UNCHANGED <<events, running, syncs, fence, sems, imageIndex, target,
                   queue, gpu, engine, destroyed, failed>>

\* The result is ignored: the frame goes on, whatever the fence says.  A lost
\* device counts as waited for, since nothing is executed on it any more.
\* Bound: one wait or reset of render() fails, which lets the queue hold one
\* frame more.
WaitFails ==
    /\ pc = "wait" /\ FenceKept /\ Fails("wait")
    /\ pc' = "acquire"
    /\ UNCHANGED <<events, running, syncs, fence, sems, imageIndex, target,
                   queue, gpu, engine, destroyed>>

\* Blocks until an image is free; the semaphore is signaled later, when the
\* engine has finished reading it.
AcquireNextImage(i) ==
    /\ pc = "acquire" /\ img[i] = "free"
    /\ pc' = "record"
    /\ imageIndex' = i
    /\ img' = [img EXCEPT ![i] = "acquired"]
    /\ imageSem' = "pending"
    /\ UNCHANGED <<events, running, syncs, fence, renderSem, target, queue,
                   gpu, reading, destroyed, failed>>

\* The result is ignored: the frame goes on with the index of an earlier one.
AcquireFails ==
    /\ pc = "acquire" /\ Fails("acquire")
    /\ pc' = "record"
    /\ UNCHANGED <<events, running, syncs, fence, sems, imageIndex, target,
                   queue, gpu, engine, destroyed>>

\* variant: the command buffer is recorded once, for the first image
RecordOnce ==
    /\ pc = "record"
    /\ pc' = "reset"
    /\ target' = IF target = NoImage THEN imageIndex ELSE target
    /\ UNCHANGED <<events, running, syncs, fence, sems, imageIndex, queue,
                   gpu, engine, destroyed, failed>>

\* record_vk_draw_commands draws into the framebuffer of *imageIndex.
Record ==
    /\ pc = "record"
    /\ pc' = "reset"
    /\ target' = imageIndex
    /\ UNCHANGED <<events, running, syncs, fence, sems, imageIndex, queue,
                   gpu, engine, destroyed, failed>>

\* vkBeginCommandBuffer fails and leaves the commands of an earlier frame, or
\* vkEndCommandBuffer fails and leaves none.  The result is ignored.
RecordFails ==
    /\ pc = "record" /\ Fails("record")
    /\ pc' = "reset"
    /\ target' \in {target, NoImage}
    /\ UNCHANGED <<events, running, syncs, fence, sems, imageIndex, queue,
                   gpu, engine, destroyed>>

ResetFence ==
    /\ pc = "reset"
    /\ pc' = "submit"
    /\ fence' = FALSE
    /\ UNCHANGED <<events, running, syncs, sems, imageIndex, target, queue,
                   gpu, engine, destroyed, failed>>

\* The result is ignored: the draw is submitted with the fence signaled.
ResetFails ==
    /\ pc = "reset" /\ FenceKept /\ Fails("reset")
    /\ pc' = "submit"
    /\ UNCHANGED <<events, running, syncs, fence, sems, imageIndex, target,
                   queue, gpu, engine, destroyed>>

QueueSubmit ==
    /\ pc = "submit"
    /\ pc' = "present"
    /\ queue' = Append(queue, SubmitInfo(target))
    /\ UNCHANGED <<events, running, syncs, fence, sems, imageIndex, target,
                   gpu, engine, destroyed, failed>>

\* The result is ignored: nothing is queued that would signal the fence.
SubmitFails ==
    /\ pc = "submit" /\ Fails("submit")
    /\ pc' = "present"
    /\ UNCHANGED <<events, running, syncs, fence, sems, imageIndex, target,
                   queue, gpu, engine, destroyed>>

\* The image leaves the host, and render() returns to the dispatch.
QueuePresent ==
    /\ pc = "present"
    /\ pc' = "dispatch"
    /\ queue' = Append(queue, PresentInfo(imageIndex))
    /\ img' = IF img[imageIndex] = "acquired"
                THEN [img EXCEPT ![imageIndex] = "queued"] ELSE img
    /\ UNCHANGED <<events, running, syncs, fence, sems, imageIndex, target,
                   gpu, reading, destroyed, failed>>

\* The result is ignored: the image stays with the program.  (A presentation
\* that the engine rejects is queued like any other.)
PresentFails ==
    /\ pc = "present" /\ Fails("present")
    /\ pc' = "dispatch"
    /\ UNCHANGED <<events, running, syncs, fence, sems, imageIndex, target,
                   queue, gpu, engine, destroyed>>

Render == \/ WaitFence \/ WaitFails
          \/ AcquireFails \/ (\E i \in Images : AcquireNextImage(i))
          \/ Record \/ RecordFails \/ ResetFence \/ ResetFails
          \/ QueueSubmit \/ SubmitFails \/ QueuePresent \/ PresentFails

(***************************************************************************)
(* uvr_vk_destory: it waits for the fence, destroys every child of the     *)
(* device, waits for the device and destroys it.                           *)
(***************************************************************************)
\* variant: the fence is destroyed without a wait
MayDestroyAtOnce(step) == step = "device" => queue = <<>>

MayDestroy(step) ==
    CASE step = "fence"  -> syncs => fence
      [] step = "device" -> queue = <<>>
      [] OTHER           -> TRUE

Destroy ==
    /\ pc \in TeardownSteps
    /\ MayDestroy(pc)
    /\ pc' = AfterDestroy[pc]
    /\ destroyed' = destroyed \cup {pc}
    /\ UNCHANGED <<events, running, syncs, fence, sems, imageIndex, target,
                   queue, gpu, engine, failed>>

\* vkWaitForFences or vkDeviceWaitIdle fails: what it should have waited for
\* is destroyed at once.  Without fences there is no wait that could fail.
DestroyUnwaited ==
    /\ \/ pc = "fence" /\ syncs /\ Fails("wait")
       \/ pc = "device" /\ Fails("wait_idle")
    /\ pc' = AfterDestroy[pc]
    /\ destroyed' = destroyed \cup {pc}
    /\ UNCHANGED <<events, running, syncs, fence, sems, imageIndex, target,
                   queue, gpu, engine>>

Terminated == pc = "done" /\ UNCHANGED vars

(***************************************************************************)
(* The device.                                                             *)
(***************************************************************************)
GpuStart ==
    /\ queue # <<>> /\ Head(queue).op = "submit" /\ gpu = "idle"
    /\ Head(queue).waits => imageSem = "signaled"
    /\ gpu' = "executing"
    /\ imageSem' = IF Head(queue).waits THEN "idle" ELSE imageSem
    /\ UNCHANGED <<host, fence, renderSem, imageIndex, target, queue, engine,
                   destroyed, failed>>

GpuFinish ==
    /\ gpu = "executing"
    /\ gpu' = "idle"
    /\ queue' = Tail(queue)
    /\ fence' = TRUE
    /\ renderSem' = TRUE
    /\ UNCHANGED <<host, imageSem, imageIndex, target, engine, destroyed,
                   failed>>

GpuPresent ==
    /\ queue # <<>> /\ Head(queue).op = "present"
    /\ Head(queue).waits => renderSem
    /\ queue' = Tail(queue)
    /\ renderSem' = IF Head(queue).waits THEN FALSE ELSE renderSem
    /\ img' = [img EXCEPT ![Head(queue).image] = "presented"]
    /\ UNCHANGED <<host, fence, imageSem, imageIndex, target, gpu, reading,
                   destroyed, failed>>

Device == GpuStart \/ GpuFinish \/ GpuPresent

(***************************************************************************)
(* The presentation engine.                                                *)
(***************************************************************************)
OnScreen == {i \in Images : img[i] = "shown"}

\* A presented image replaces the one on screen, which the engine may still
\* be reading when it lends it again.
Display(i) ==
    /\ img[i] = "presented"
    /\ img' = [j \in Images |-> IF j = i THEN "shown"
                                ELSE IF j \in OnScreen THEN "free" ELSE img[j]]
    /\ reading' = reading \cup OnScreen
    /\ UNCHANGED <<host, fence, sems, imageIndex, target, queue, gpu,
                   destroyed, failed>>

\* The mailbox mode: a newer presented image replaces this one unseen.
Discard(i) ==
    /\ img[i] = "presented"
    /\ \E j \in Images \ {i} : img[j] = "presented"
    /\ img' = [img EXCEPT ![i] = "free"]
    /\ UNCHANGED <<host, fence, sems, imageIndex, target, queue, gpu, reading,
                   destroyed, failed>>

FinishReading(i) ==
    /\ i \in reading
    /\ reading' = reading \ {i}
    /\ UNCHANGED <<host, fence, sems, imageIndex, target, queue, gpu, img,
                   destroyed, failed>>

SignalAcquired ==
    /\ imageSem = "pending" /\ imageIndex \notin reading
    /\ imageSem' = "signaled"
    /\ UNCHANGED <<host, fence, renderSem, imageIndex, target, queue, gpu,
                   engine, destroyed, failed>>

Engine == SignalAcquired \/ \E i \in Images : Display(i) \/ Discard(i) \/ FinishReading(i)

-----------------------------------------------------------------------------
HostProgress == \/ Render \/ DeliverClose \/ DeliverFrame \/ LoopTest
                \/ Destroy \/ DestroyUnwaited

Host == \/ FirstFrame \/ SetupFails \/ CreateSyncObjs \/ ConnectionLost
        \/ (\E n \in 0..MaxEvents : Dispatch(n))
        \/ HostProgress

Next == Host \/ Device \/ Engine \/ Terminated

Spec == Init /\ [][Next]_vars

-----------------------------------------------------------------------------
(***************************************************************************)
(* Properties.                                                             *)
(***************************************************************************)
TypeOK ==
    /\ pc \in {"setup", "create", "loop", "dispatch", "done"}
              \cup RenderSteps \cup TeardownSteps
    /\ events \in 0..MaxEvents
    /\ running \in BOOLEAN /\ syncs \in BOOLEAN
    /\ fence \in BOOLEAN
    /\ imageSem \in {"idle", "pending", "signaled"}
    /\ renderSem \in BOOLEAN
    /\ imageIndex \in Images
    /\ target \in Images \cup {NoImage}
    /\ queue \in Seq(QueueOps)
    /\ gpu \in {"idle", "executing"}
    /\ img \in [Images -> {"free", "acquired", "queued", "presented", "shown"}]
    /\ reading \subseteq Images
    /\ destroyed \subseteq TeardownSteps
    /\ failed \subseteq Faults

\* The host records the command buffer, resets the fence and acquires with the
\* image semaphore only when the device has no draw of an earlier frame left:
\* one wait (triangle.c:79) has to cover all three, whatever else fails.  Only
\* a wait or a reset that itself failed, unnoticed, is excused.
HostOwnsFrameObjects ==
    FenceKept /\ pc \in {"acquire", "record", "reset", "submit"} =>
        /\ Submits(queue) = {}
        /\ pc = "acquire" => imageSem = "idle"

\* The device draws only into an image the engine has lent and has stopped
\* reading, and signals the render semaphore only after the presentation of
\* the frame before has consumed it: what the one semaphore pair of the loop
\* (triangle.c:85-113) has to ensure without any wait of the host.  A failed
\* vkQueueSubmit breaks neither, a failed presentation only the second.
DrawsLentImage ==
    gpu = "executing" /\ failed \subseteq {"submit", "present"} =>
        LET i == Head(queue).image IN
        /\ i \in Images \ reading
        /\ img[i] \in {"acquired", "queued"}
        /\ "present" \notin failed => ~renderSem

\* While the device draws, the image acquired last is lent to the program and
\* no longer read by the engine, whatever failed unnoticed but the wait for
\* the fence or its reset.  A stale image index (triangle.c:81) never leads to
\* a draw, because the semaphore it waits for stays unsignaled; a stale
\* command buffer (triangle.c:83) does.
AcquiredWhileDrawing ==
    FenceKept /\ gpu = "executing" =>
        img[imageIndex] \in {"acquired", "queued"} /\ imageIndex \notin reading

\* What a draw uses (command pool, framebuffers, pipelines, views) and the
\* fence are destroyed only when no draw is left in the queue: the wait of
\* uvr_vk_destory (vulkan.c:968) covers them, unless it fails itself or the
\* fence had ceased to say anything.
DrawObjectsIdleAtDestroy ==
    FenceKept /\ destroyed # {} => Submits(queue) = {}

\* vulkan.h:926-928 has synchronization objects "make sure operations that
\* require other operations to finish can happen after": what the device may
\* still wait on or present is destroyed only when the queue is empty.
SyncObjsIdleAtDestroy ==
    destroyed \cap {"semaphores", "swapchain"} # {} => queue = <<>>

-----------------------------------------------------------------------------
(***************************************************************************)
(* The images as SwapchainImages sees them.                                *)
(***************************************************************************)
ToBeDrawn(i) ==
    \/ img[i] = "acquired" /\ pc \in {"record", "reset", "submit"}
    \/ \E k \in Submits(queue) : queue[k].image = i

StatusOf(i) ==
    IF img[i] \in {"free", "presented", "shown"} THEN "engine"
    ELSE IF gpu = "executing" /\ Head(queue).image = i THEN "drawing"
    ELSE IF ToBeDrawn(i) THEN "lent"
    ELSE "drawn"

ImageStatus == [i \in Images |-> StatusOf(i)]

Swapchain == INSTANCE SwapchainImages WITH status <- ImageStatus

\* The frame loop implements the life of the images: every frame is drawn
\* exactly once, into the image lent for it, before it is handed back, and
\* every image lent is handed back.
SwapchainSpec == Swapchain!Spec

\* Its safety part, in a loop where calls may fail: until the first of them
\* does, no step does anything else to an image.
SwapchainSteps ==
    Swapchain!Init /\ [][failed' = {} => Swapchain!Next]_ImageStatus

-----------------------------------------------------------------------------
(***************************************************************************)
(* Why it works: the inductive invariant behind the safety properties.     *)
(* CoreInv lasts until a wait or a reset fails, whatever other calls do;   *)
(* DrawInv until an acquire or a recording fails as well.                  *)
(***************************************************************************)
Destroying == (TeardownSteps \ {"fence"}) \cup {"done"}

\* Nothing is used before it exists, or waited for after it is gone.
SetupInv ==
    /\ pc \in RenderSteps \cup {"loop", "dispatch"} => syncs
    /\ pc \in {"setup", "create"} => ~syncs
    /\ ~syncs => queue = <<>> /\ imageSem = "idle"
    /\ destroyed # {} => pc \in Destroying
    /\ pc \in Destroying => (syncs => fence)

\* A signaled fence means that no draw is queued, and that the draw before
\* has consumed the image semaphore.
FenceInv ==
    /\ fence => Submits(queue) = {}
    /\ pc \in {"acquire", "record", "reset"} => fence
    /\ pc = "submit" => ~fence /\ Submits(queue) = {}
    /\ fence /\ pc \notin {"record", "reset"} => imageSem = "idle"

\* The one draw of the queue is followed by the presentation of the image
\* last acquired; the render semaphore is signaled for the head.
QueueInv ==
    /\ \A k \in 1..Len(queue) : queue[k].waits
    /\ \A j, k \in Submits(queue) : j = k
    /\ \A k \in Submits(queue) :
          /\ k = Len(queue) => pc = "present" \/ "present" \in failed
          /\ k < Len(queue) => queue[k + 1] = PresentInfo(imageIndex)
    /\ gpu = "executing" => 1 \in Submits(queue) /\ imageSem = "idle"
    /\ renderSem /\ "present" \notin failed =>
          /\ queue = <<>> => pc = "present"
          /\ queue # <<>> => queue[1].op = "present"

\* An image waiting to be presented is the queue's, once; the image of the
\* frame in progress is nobody else's, and read by nobody once it is drawn.
ImageInv ==
    /\ \A k \in 1..Len(queue) :
          queue[k].op = "present" =>
             queue[k].image \in Images /\ img[queue[k].image] = "queued"
    /\ \A j, k \in 1..Len(queue) :
          /\ queue[j].op = "present" /\ queue[k].op = "present"
          /\ queue[j].image = queue[k].image
          => j = k
    /\ pc \in {"record", "reset", "submit", "present"} =>
          img[imageIndex] = "acquired"
    /\ Submits(queue) # {} => img[imageIndex] \in {"acquired", "queued"}
    /\ Len(queue) \in Submits(queue) => img[imageIndex] = "acquired"
    /\ \/ gpu = "executing"
       \/ /\ imageSem = "signaled"
          /\ pc \in {"record", "reset", "submit"} \/ Submits(queue) # {}
       => imageIndex \notin reading

\* A frame that goes on without an image: nothing will signal the semaphore
\* its draw waits for, nor the fence the next render() waits for.
Stalled == imageSem = "idle" /\ gpu = "idle"
           /\ (fence => pc \in {"record", "reset"})

CoreInv == SetupInv /\ FenceInv /\ QueueInv /\ (~Stalled => ImageInv)

FaultInv == FenceKept => CoreInv

\* A frame acquired and recorded without fault draws into its own image.
DrawInv ==
    /\ syncs => ~Stalled
    /\ pc \in {"reset", "submit"} => target = imageIndex
    /\ \A k \in Submits(queue) : queue[k].image = imageIndex

FrameInv == FaultInv /\ (failed \subseteq {"submit", "present"} => DrawInv)

\* An image the engine has lent is that of the frame in progress or has its
\* presentation in the queue, and no presentation overtakes a frame's draw.
LendInv ==
    /\ \A i \in Images : img[i] = "acquired" =>
          i = imageIndex /\ pc \in {"record", "reset", "submit", "present"}
    /\ \A i \in Images : img[i] = "queued" =>
          \E k \in 1..Len(queue) : queue[k] = PresentInfo(i)
    /\ \A k \in Submits(queue) : Len(queue) <= k + 1

=============================================================================
