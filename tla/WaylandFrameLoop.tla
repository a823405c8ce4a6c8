-------------------------- MODULE WaylandFrameLoop --------------------------
(***************************************************************************)
(* The program of examples/wayland/triangle.c: the frame loop of           *)
(* VkFrameLoop driven by the window of WaylandSurface.  Handlers run       *)
(* inside wl_display_dispatch, and the frame handler may block there, on   *)
(* the fence or for an image; meanwhile the compositor goes on sending.    *)
(* The Vulkan driver attaches the content, not the library, and talks to   *)
(* the compositor over the same connection.                                *)
(***************************************************************************)
EXTENDS VkFrameLoop

CONSTANTS Surfaces, NoSurface, NoBuffer   \* as in WaylandSurface

\* One window, whose running flag is that of the frame loop.
ASSUME WindowAssumption == /\ IsFiniteSet(Surfaces) /\ Cardinality(Surfaces) = 1
                           /\ NoSurface \notin Surfaces /\ NoBuffer \notin Nat

\* The swapchain lives on the connection of the window: an acquire can fail.
ASSUME ConnectionAssumption == "acquire" \in Faults

VARIABLES
    loop,      \* where the dispatch loop is, pc of WaylandSurface
    inbox,     \* events on their way, events of WaylandSurface
    batch, created, slot, wire, comp, ping, killed

windowVars == <<loop, inbox, batch, created, slot, wire, comp, ping, killed>>
wvars == <<vars, windowVars>>

\* The flag is running of VkFrameLoop; no buffers of the library.  The first
\* frame is drawn in answer to a frame event, so the compositor has to send
\* one to a window that has no content yet.
Window == INSTANCE WaylandSurface WITH
    pc <- loop, events <- inbox, bare <- {},
    running <- [s \in Surfaces |-> running],
    cbuf <- [s \in Surfaces |-> 0],
    Renderless <- {}, BufferCount <- 0,
    Attach <- FALSE, Strict <- FALSE, UnmappedFrames <- TRUE

WInit == Init /\ Window!Init

\* create_wc_vk_surface: the window comes before the Vulkan device.
CreateWindow == FirstFrame /\ \E s \in Surfaces : Window!CreateSurface(s)

WSetup ==
    \/ SetupFails /\ UNCHANGED windowVars
    \/ CreateSyncObjs /\ Window!EnterLoop

\* The events of a dispatch whose handlers concern the frame loop.
Handled(n) == Cardinality({k \in 1..n : inbox[k].op \in {"done", "close"}})

ReadEvents(n) ==
    /\ Handled(n) <= MaxEvents
    /\ Dispatch(Handled(n)) /\ Window!Poll(n)

ReadFails == ConnectionLost /\ Window!DispatchFails

OnFrame == DeliverFrame /\ Window!HandleDone

\* variants: the handler overwrites its copy of the flag's pointer; it takes
\* the program down itself, whatever is still to be handled
OnCloseLocal ==
    /\ pc = "dispatch" /\ events > 0
    /\ events' = events - 1
    /\ UNCHANGED <<pc, running, syncs, fence, sems, imageIndex, target, queue,
                   gpu, engine, destroyed, failed>>
    /\ Window!HandleCloseLocal
OnCloseDestroys ==
    /\ pc = "dispatch" /\ pc' = "fence"
    /\ running' = FALSE /\ events' = 0
    /\ UNCHANGED <<syncs, fence, sems, imageIndex, target, queue, gpu, engine,
                   destroyed, failed>>
    /\ Window!HandleClose

OnClose == DeliverClose /\ Window!HandleClose

\* A configure is acknowledged, a ping answered.
OnOther ==
    /\ pc = "dispatch" /\ UNCHANGED vars
    /\ Window!HandleConfigure \/ Window!HandlePing

WLoopTest == LoopTest /\ Window!LoopTest

WHostProgress ==
    \/ (\E n \in 1..Len(inbox) : ReadEvents(n)) \/ ReadFails
    \/ OnFrame \/ OnClose \/ OnOther \/ WLoopTest
    \/ (Render \/ Destroy \/ DestroyUnwaited) /\ UNCHANGED windowVars

WEnvironment == (Device \/ Engine) /\ UNCHANGED windowVars

Serve(step) == UNCHANGED vars /\ step

\* The host waits, without a timeout, for a fence that nothing will signal:
\* the draw of a frame whose acquire failed never starts.
Hung == /\ syncs /\ pc \in {"wait", "fence"} /\ ~fence
        /\ "acquire" \in failed

WEnds == (Terminated \/ (Hung /\ UNCHANGED vars)) /\ UNCHANGED windowVars

WNext == \/ CreateWindow \/ WSetup \/ WHostProgress
         \/ WEnvironment \/ Serve(Window!Compositor) \/ WEnds

\* The host handles what it has read as far as it is not blocked; the device
\* executes what is ready, the engine shows what it is given and releases what
\* it read; the compositor as in WaylandSurface.  On a broken connection
\* nothing is shown any more, and so nothing need be lent again; reads the
\* engine has begun are the graphics card's, and end.
WFairness ==
    /\ WF_wvars(CreateWindow \/ WSetup)
    /\ WF_wvars(WHostProgress)
    /\ WF_wvars(Device /\ UNCHANGED windowVars)
    /\ WF_wvars(SignalAcquired /\ UNCHANGED windowVars)
    /\ WF_wvars(~killed /\ (\E i \in Images : Display(i)) /\ UNCHANGED windowVars)
    /\ \A i \in Images : WF_wvars(FinishReading(i) /\ UNCHANGED windowVars)
    /\ WF_wvars(Serve(Window!Process))
    /\ \A s \in Surfaces : WF_wvars(Serve(Window!Repaint(s)))

WSpec == WInit /\ [][WNext]_wvars

WFairSpec == WSpec /\ WFairness

-----------------------------------------------------------------------------
(***************************************************************************)
(* Properties.                                                             *)
(***************************************************************************)

\* What the compositor sends, and when the handlers run, adds nothing to the
\* steps of the frame loop: what holds of VkFrameLoop holds of this program.
ImplementsFrameLoop == Spec

\* The handlers of a dispatch return.  The frame handler waits, without a
\* timeout, for the device, the engine and the compositor behind it, while
\* the compositor waits for nobody: the client is stuck only behind an acquire
\* that failed unnoticed (triangle.c:79-81).
HandlersReturn == loop = "dispatch" ~> loop # "dispatch" \/ Hung

Leaving == pc \in TeardownSteps \cup {"done"}

\* Until the program leaves its loop, frames are drawn again and again: the
\* callback that paces them and the semaphores they wait for keep each other
\* going, unless an acquire fails.
WFramesGoOn == <>Leaving \/ []<>(pc = "present") \/ <>Hung

\* A window that is closed, however early, ends the program and its teardown.
\* So does a broken connection, at whatever point of a frame, unless an
\* acquire has failed by then, as on that connection it may: then the program
\* waits for ever, in render() or in uvr_vk_destory (vulkan.c:968).
WCloseEnds ==
    killed \/ (\E s \in Surfaces : comp[s].closed) ~> pc = "done" \/ Hung
=============================================================================
