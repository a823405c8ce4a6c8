------------------------ MODULE XcbFrameLoop_proofs ------------------------
(***************************************************************************)
(* The X program implements the frame loop of VkFrameLoop, for every set   *)
(* of images, every bound on the events and every call allowed to fail:    *)
(* what VkFrameLoop_proofs shows of the one holds of the other.            *)
(***************************************************************************)
EXTENDS XcbFrameLoop, VkFrameLoop_proofs

\* Each poll of the connection is a dispatch of one event, the end of the
\* loop or, for an event that has only arrived, nothing at all.
LEMMA XStep == [XNext]_xvars => [Next]_vars
<1> SUFFICES ASSUME [XNext]_xvars PROVE [Next]_vars
  OBVIOUS
<1>1. CASE XSetup
  BY <1>1 DEF XSetup, Next, Host
<1>2. CASE XHostProgress
  <2>1. 1 \in 0..MaxEvents BY MaxEventsAssumption
  <2>2. CASE FirstRecordFails
    BY <2>2 DEF FirstRecordFails, Next, Host
  <2>3. CASE HandleNothing
    BY <2>1, <2>3 DEF HandleNothing, Next, Host
  <2>4. CASE HandleOther
    BY <2>1, <2>4 DEF HandleOther, Next, Host
  <2>5. CASE HandleQuit
    BY <2>5 DEF HandleQuit, Next, Host
  <2>6. CASE /\ DeliverFrame \/ LoopTest \/ Render \/ Destroy \/ DestroyUnwaited
             /\ UNCHANGED <<inbox, ready, xwindow>>
    BY <2>6 DEF Next, Host, HostProgress
  <2> QED BY <1>2, <2>2, <2>3, <2>4, <2>5, <2>6 DEF XHostProgress
<1>3. CASE XEnvironment
  BY <1>3 DEF XEnvironment, Next
<1>4. CASE \E e \in {"quit", "other"} : SendEvent(e)
  BY <1>4 DEF SendEvent
<1>5. CASE XTerminated
  BY <1>5 DEF XTerminated, xvars
<1>6. CASE UNCHANGED xvars
  BY <1>6 DEF xvars
<1>7. CASE CreateXWindow \/ DestroyXWindow
  BY <1>7 DEF CreateXWindow, DestroyXWindow
<1> QED BY <1>1, <1>2, <1>3, <1>4, <1>5, <1>6, <1>7 DEF XNext

\* The loop of the X program adds no step to those of the frame loop: it may
\* poll without waiting, ignore events and quit behind a frame in flight.
THEOREM XcbImplementsFrameLoop == XSpec => ImplementsFrameLoop
<1>1. XInit => Init BY DEF XInit
<1>2. [XNext]_xvars => [Next]_vars BY XStep
<1> QED BY <1>1, <1>2, PTL DEF XSpec, ImplementsFrameLoop, Spec

\* The host, the device and the presentation engine own the objects of a frame
\* one at a time, up to the teardown, however the X server paces it and
\* whatever calls fail, until a wait for the fence or its reset does.
THEOREM XcbOwnership ==
    XSpec => [](HostOwnsFrameObjects /\ AcquiredWhileDrawing
              /\ DrawObjectsIdleAtDestroy)
<1>1. XSpec => Spec
  BY XcbImplementsFrameLoop DEF ImplementsFrameLoop
<1>2. Spec => [](HostOwnsFrameObjects /\ AcquiredWhileDrawing
                 /\ DrawObjectsIdleAtDestroy)
  BY HostOwnership, AcquiredDrawing, TeardownOwnership, PTL
<1> QED BY <1>1, <1>2

\* As long as only submissions and presentations have failed, each draw is
\* into an image lent to the program that the engine no longer reads.
THEOREM XcbDraws == XSpec => []DrawsLentImage
<1>1. XSpec => Spec
  BY XcbImplementsFrameLoop DEF ImplementsFrameLoop
<1> QED BY <1>1, DrawOwnership

\* Until a call fails, each swapchain image is lent to the program, drawn into
\* once and handed back, one frame after the other.
THEOREM XcbImplementsSwapchain == XSpec => SwapchainSteps
<1>1. XSpec => Spec
  BY XcbImplementsFrameLoop DEF ImplementsFrameLoop
<1> QED BY <1>1, ImplementsSwapchain

=============================================================================
