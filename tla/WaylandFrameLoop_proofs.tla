---------------------- MODULE WaylandFrameLoop_proofs ----------------------
(***************************************************************************)
(* The Wayland program implements the frame loop of VkFrameLoop, whatever  *)
(* the compositor sends, whatever calls fail and for every set of images.  *)
(***************************************************************************)
EXTENDS WaylandFrameLoop, VkFrameLoop_proofs, FiniteSetTheorems

\* The events a dispatch handles can be counted, however many were read.
LEMMA HandledNat == ASSUME NEW n \in Nat PROVE Handled(n) \in Nat
<1> DEFINE H == {k \in 1..n : inbox[k].op \in {"done", "close"}}
<1>1. IsFiniteSet(1..n) BY FS_Interval
<1>2. H \subseteq 1..n OBVIOUS
<1>3. IsFiniteSet(H) BY <1>1, <1>2, FS_Subset
<1>4. Cardinality(H) \in Nat BY <1>3, FS_CardinalityType
<1> QED BY <1>4 DEF Handled

\* Each step of the program is one of the frame loop, or none of its business:
\* a configure, a ping, or a step of the compositor.
LEMMA WStep == [WNext]_wvars => [Next]_vars
<1> SUFFICES ASSUME [WNext]_wvars PROVE [Next]_vars
  OBVIOUS
<1>1. CASE CreateWindow
  BY <1>1 DEF CreateWindow, Next, Host
<1>2. CASE WSetup
  BY <1>2 DEF WSetup, Next, Host
<1>3. CASE WHostProgress
  <2>1. ASSUME NEW n \in 1..Len(inbox), ReadEvents(n) PROVE [Next]_vars
    <3>1. Handled(n) \in 0..MaxEvents
      BY <2>1, HandledNat, MaxEventsAssumption DEF ReadEvents
    <3>2. Dispatch(Handled(n))
      BY <2>1 DEF ReadEvents
    <3> QED BY <3>1, <3>2 DEF Next, Host
  <2>2. CASE ReadFails
    BY <2>2 DEF ReadFails, Next, Host
  <2>3. CASE OnFrame
    BY <2>3 DEF OnFrame, Next, Host, HostProgress
  <2>4. CASE OnClose
    BY <2>4 DEF OnClose, Next, Host, HostProgress
  <2>5. CASE OnOther
    BY <2>5 DEF OnOther
  <2>6. CASE WLoopTest
    BY <2>6 DEF WLoopTest, Next, Host, HostProgress
  <2>7. CASE (Render \/ Destroy \/ DestroyUnwaited) /\ UNCHANGED windowVars
    BY <2>7 DEF Next, Host, HostProgress
  <2> QED BY <1>3, <2>1, <2>2, <2>3, <2>4, <2>5, <2>6, <2>7 DEF WHostProgress
<1>4. CASE WEnvironment
  BY <1>4 DEF WEnvironment, Next
<1>5. CASE Serve(Window!Compositor)
  BY <1>5 DEF Serve
<1>6. CASE WEnds
  BY <1>6 DEF WEnds, Next
<1>7. CASE UNCHANGED wvars
  BY <1>7 DEF wvars
<1> QED BY <1>1, <1>2, <1>3, <1>4, <1>5, <1>6, <1>7 DEF WNext

\* Frame, close, configure and ping may be read in any number and any order,
\* a dispatch may fail at any poll: the program stays a frame loop.
THEOREM WaylandImplementsFrameLoop == WSpec => ImplementsFrameLoop
<1>1. WInit => Init BY DEF WInit
<1>2. [WNext]_wvars => [Next]_vars BY WStep
<1> QED BY <1>1, <1>2, PTL DEF WSpec, ImplementsFrameLoop, Spec

\* The host, the device and the presentation engine own the objects of a frame
\* one at a time, up to the teardown, however the compositor paces it and
\* whatever calls fail, until a wait for the fence or its reset does.
THEOREM WaylandOwnership ==
    WSpec => [](HostOwnsFrameObjects /\ AcquiredWhileDrawing
              /\ DrawObjectsIdleAtDestroy)
<1>1. WSpec => Spec
  BY WaylandImplementsFrameLoop DEF ImplementsFrameLoop
<1>2. Spec => [](HostOwnsFrameObjects /\ AcquiredWhileDrawing
                 /\ DrawObjectsIdleAtDestroy)
  BY HostOwnership, AcquiredDrawing, TeardownOwnership, PTL
<1> QED BY <1>1, <1>2

\* As long as only submissions and presentations have failed, each draw is
\* into an image lent to the program that the engine no longer reads.
THEOREM WaylandDraws == WSpec => []DrawsLentImage
<1>1. WSpec => Spec
  BY WaylandImplementsFrameLoop DEF ImplementsFrameLoop
<1> QED BY <1>1, DrawOwnership

\* Until a call fails, each swapchain image is lent to the program, drawn into
\* once and handed back, one frame after the other.
THEOREM WaylandImplementsSwapchain == WSpec => SwapchainSteps
<1>1. WSpec => Spec
  BY WaylandImplementsFrameLoop DEF ImplementsFrameLoop
<1> QED BY <1>1, ImplementsSwapchain

-----------------------------------------------------------------------------
(***************************************************************************)
(* The window of the program.                                              *)
(***************************************************************************)

\* Each step of the program is one of the window, or leaves it alone.
LEMMA WindowStep == [WNext]_wvars => [Window!Next]_(Window!vars)
<1> SUFFICES ASSUME [WNext]_wvars PROVE [Window!Next]_(Window!vars)
  OBVIOUS
<1>1. CASE UNCHANGED <<windowVars, running>>
  BY <1>1 DEF windowVars, Window!vars
<1>2. CASE Window!Client \/ Window!Compositor
  BY <1>2 DEF Window!Next
<1>3. CASE CreateWindow
  BY <1>2, <1>3 DEF CreateWindow, Window!Client
<1>4. CASE WSetup
  BY <1>1, <1>2, <1>4 DEF WSetup, SetupFails, Window!Client
<1>5. CASE WHostProgress
  <2>1. ASSUME NEW n \in 1..Len(inbox), ReadEvents(n) PROVE Window!Client
    BY <2>1 DEF ReadEvents, Window!Client
  <2>2. CASE ReadFails \/ OnFrame \/ OnClose \/ OnOther \/ WLoopTest
    BY <1>2, <2>2 DEF ReadFails, OnFrame, OnClose, OnOther, WLoopTest, Window!Client
  <2>3. CASE (Render \/ Destroy \/ DestroyUnwaited) /\ UNCHANGED windowVars
    <3>1. running' = running
      BY <2>3 DEF Render, WaitFence, WaitFails, AcquireFails, AcquireNextImage,
         Record, RecordFails, ResetFence, ResetFails, QueueSubmit, SubmitFails,
         QueuePresent, PresentFails, Destroy, DestroyUnwaited
    <3> QED BY <1>1, <2>3, <3>1
  <2> QED BY <1>2, <1>5, <2>1, <2>2, <2>3 DEF WHostProgress
<1>6. CASE WEnvironment
  <2>1. running' = running
    BY <1>6 DEF WEnvironment, Device, Engine, GpuStart, GpuFinish, GpuPresent,
       SignalAcquired, Display, Discard, FinishReading, host
  <2> QED BY <1>1, <1>6, <2>1 DEF WEnvironment
<1>7. CASE Serve(Window!Compositor)
  BY <1>2, <1>7 DEF Serve
<1>8. CASE WEnds \/ UNCHANGED wvars
  BY <1>1, <1>8 DEF WEnds, Terminated, wvars, vars
<1> QED BY <1>3, <1>4, <1>5, <1>6, <1>7, <1>8 DEF WNext

\* Seen from the compositor the program is a client as WaylandSurface describes
\* it, whose handlers happen to take long.
THEOREM WaylandRunsWindow == WSpec => Window!Spec
<1>1. WInit => Window!Init
  BY DEF WInit
<1> QED BY <1>1, WindowStep, PTL DEF WSpec, Window!Spec

-----------------------------------------------------------------------------
(***************************************************************************)
(* What is proved of every window, of this one.  The proofs come with an   *)
(* instance of their own, whose definitions are those of Window.           *)
(***************************************************************************)
WindowProofs == INSTANCE WaylandSurface_proofs WITH
    pc <- loop, events <- inbox, bare <- {},
    running <- [s \in Surfaces |-> running],
    cbuf <- [s \in Surfaces |-> 0],
    Renderless <- {}, BufferCount <- 0,
    Attach <- FALSE, Strict <- FALSE, UnmappedFrames <- TRUE

LEMMA SameInit == Window!Init => WindowProofs!Init
  BY DEF Window!Init, WindowProofs!Init, Window!NewSurface, WindowProofs!NewSurface

LEMMA SameClient == Window!Client => WindowProofs!Client
  BY DEF Window!Client, WindowProofs!Client, Window!CreateSurface,
         WindowProofs!CreateSurface, Window!EnterLoop, WindowProofs!EnterLoop,
         Window!Poll, WindowProofs!Poll, Window!DispatchFails,
         WindowProofs!DispatchFails, Window!HandleDone, WindowProofs!HandleDone,
         Window!HandleClose, WindowProofs!HandleClose, Window!HandlerCrashes,
         WindowProofs!HandlerCrashes, Window!HandleConfigure,
         WindowProofs!HandleConfigure, Window!HandlePing, WindowProofs!HandlePing,
         Window!LoopTest, WindowProofs!LoopTest, Window!Take, WindowProofs!Take,
         Window!DrawFrame, WindowProofs!DrawFrame, Window!FrameRequests,
         WindowProofs!FrameRequests, Window!NextBuffer, WindowProofs!NextBuffer,
         Window!Req, WindowProofs!Req, Window!AttachReq, WindowProofs!AttachReq,
         Window!compositor, WindowProofs!compositor

LEMMA SameCompositor == Window!Compositor => WindowProofs!Compositor
  BY DEF Window!Compositor, WindowProofs!Compositor, Window!Process,
         WindowProofs!Process, Window!ReceiveFrame, WindowProofs!ReceiveFrame,
         Window!ReceiveAttach, WindowProofs!ReceiveAttach, Window!ReceiveCommit,
         WindowProofs!ReceiveCommit, Window!ReceiveAck, WindowProofs!ReceiveAck,
         Window!ReceivePong, WindowProofs!ReceivePong, Window!Repaint,
         WindowProofs!Repaint, Window!SendClose, WindowProofs!SendClose,
         Window!SendPing, WindowProofs!SendPing, Window!Disconnect,
         WindowProofs!Disconnect, Window!Receive, WindowProofs!Receive,
         Window!Committed, WindowProofs!Committed, Window!Event, WindowProofs!Event,
         Window!client, WindowProofs!client

LEMMA SameSpec == WSpec => WindowProofs!Spec
<1>1. [Window!Next]_(Window!vars) => [WindowProofs!Next]_(WindowProofs!vars)
  BY SameClient, SameCompositor
     DEF Window!Next, WindowProofs!Next, Window!vars, WindowProofs!vars, Window!Ended
<1> QED BY <1>1, SameInit, WaylandRunsWindow, PTL DEF Window!Spec, WindowProofs!Spec

LEMMA SameCallbacks ==
  /\ WindowProofs!CallbacksConserved => Window!CallbacksConserved
  /\ WindowProofs!OneCallback => Window!OneCallback
  BY DEF Window!CallbacksConserved, WindowProofs!CallbacksConserved,
         Window!OneCallback, WindowProofs!OneCallback, Window!Callbacks,
         WindowProofs!Callbacks, Window!Positions, WindowProofs!Positions,
         Window!Waiting, WindowProofs!Waiting, Window!Cardinality,
         WindowProofs!Cardinality, Window!IsFiniteSet, WindowProofs!IsFiniteSet

LEMMA WindowAssumptions ==
  /\ WindowProofs!SurfacesAssumption /\ WindowProofs!BuffersAssumption
  /\ WindowProofs!ModesAssumption
<1>1. WindowProofs!SurfacesAssumption
  BY WindowAssumption DEF IsFiniteSet, WindowProofs!IsFiniteSet
<1> QED BY <1>1, WindowAssumption

\* The frame callbacks are conserved although the frame handler blocks on the
\* device: while render() waits the compositor has the callback of the next
\* frame already, or has answered it.
THEOREM WaylandCallbacks == WSpec => []Window!CallbacksConserved
<1>1. WindowProofs!Spec => []WindowProofs!CallbacksConserved
  BY WindowAssumptions, WindowProofs!CallbacksAreConserved
<1> QED BY <1>1, SameSpec, SameCallbacks, PTL

\* The one window of the program has one callback at any time: no frame is
\* drawn twice for one repaint, and as long as the loop runs there is a
\* callback that will start the next.
THEOREM WaylandOneCallback == WSpec => []Window!OneCallback
<1>1. PICK a : Surfaces = {a}
  BY WindowAssumption, FS_Singleton
<1>2. WindowProofs!Spec => []WindowProofs!OneCallback
  BY <1>1, WindowAssumptions, WindowProofs!OneCallbackOfOneWindow
<1> QED BY <1>2, SameSpec, SameCallbacks, PTL

=============================================================================
