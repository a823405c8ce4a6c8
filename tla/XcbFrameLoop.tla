--------------------------- MODULE XcbFrameLoop ---------------------------
(***************************************************************************)
(* The frame loop of examples/xcb/triangle.c: the render() of VkFrameLoop, *)
(* driven by uvr_xcb_window_handle_event instead of frame callbacks.  The  *)
(* function polls the connection once and never blocks; unless the event   *)
(* it finds ends the program it calls render(), event or no event.         *)
(*                                                                         *)
(* The handler overwrites its own pointer rendererRuning and not the flag  *)
(* of main, so running stays TRUE and the loop ends on the value returned. *)
(* The window is created before the device and outlives it.                *)
(***************************************************************************)
EXTENDS VkFrameLoop

CONSTANT MaxInbox   \* bound: X events received and not yet polled

ASSUME MaxInboxAssumption == MaxInbox \in Nat \ {0}

VARIABLES
    inbox,     \* X events received: "quit" (Escape, Q, delete) or "other"
    ready,     \* main has recorded the command buffer for image 0
    stage,     \* of the window: connect, screen, window, atoms, created,
               \* failed, closed or crashed
    connected, \* there is a connection to the X server
    window     \* the window exists

xwindow == <<stage, connected, window>>
xvars == <<vars, inbox, ready, xwindow>>

XInit ==
    /\ Init /\ inbox = <<>> /\ ready = FALSE
    /\ stage = "connect" /\ connected = FALSE /\ window = FALSE

(***************************************************************************)
(* uvr_xcb_window_create and uvr_xcb_destory.                              *)
(***************************************************************************)
\* error_exit_xcb_window_destroy, error_exit_xcb_window_disconnect
WindowFails ==
    /\ stage' = "failed"
    /\ window' = FALSE /\ connected' = FALSE

XConnect ==
    /\ stage = "connect" /\ pc = "create"
    /\ \/ stage' = "screen" /\ connected' = TRUE
       \/ stage' = "failed" /\ UNCHANGED connected
    /\ UNCHANGED window

\* There is a screen, and it is larger than the window.
FindScreen ==
    /\ stage = "screen"
    /\ \/ stage' = "window" /\ UNCHANGED <<connected, window>>
       \/ WindowFails

\* The window, full screen or not: the atoms for that may not be had.
MakeWindow ==
    /\ stage = "window"
    /\ \/ stage' = "atoms" /\ window' = TRUE /\ UNCHANGED connected
       \/ WindowFails

\* The replies of the X server are not looked at before they are used.
InternAtoms ==
    /\ stage = "atoms"
    /\ stage' \in {"created", "crashed"}
    /\ UNCHANGED <<connected, window>>

CreateXWindow ==
    /\ XConnect \/ FindScreen \/ MakeWindow \/ InternAtoms
    /\ UNCHANGED <<vars, inbox, ready>>

\* After uvr_vk_destory; a window that failed, or was never begun, has left
\* nothing to destroy.
DestroyXWindow ==
    /\ pc = "done" /\ stage \in {"connect", "created", "failed"}
    /\ IF stage = "created" THEN window' = FALSE /\ connected' = FALSE
                            ELSE UNCHANGED <<connected, window>>
    /\ stage' = "closed"
    /\ UNCHANGED <<vars, inbox, ready>>

(***************************************************************************)
(* The frame loop.                                                         *)
(***************************************************************************)
\* No frame is drawn before the device exists: FirstFrame stands for the call
\* that creates the instance, which may fail before the window is begun.  The
\* first draw commands are recorded at the end.
XSetup ==
    /\ \/ FirstFrame /\ UNCHANGED ready
       \/ /\ stage \in {"connect", "created", "failed"}
          /\ SetupFails /\ UNCHANGED ready
       \/ stage = "created" /\ CreateSyncObjs /\ ready' = (target' # NoImage)
    /\ UNCHANGED <<inbox, xwindow>>

\* They could not be recorded: goto exit_error, with the objects created.
FirstRecordFails ==
    /\ ~ready /\ ConnectionLost
    /\ UNCHANGED <<inbox, ready, xwindow>>

\* variant: without an event the handler returns and does not render
HandleNothingIdle ==
    /\ ready /\ inbox = <<>>
    /\ pc = "loop"
    /\ UNCHANGED xvars

\* xcb_poll_for_event returns NULL, or an event without meaning: one call of
\* render() is due before the loop is tested.
HandleNothing ==
    /\ ready /\ inbox = <<>>
    /\ Dispatch(1)
    /\ UNCHANGED <<inbox, ready, xwindow>>

HandleOther ==
    /\ ready /\ inbox # <<>> /\ Head(inbox) = "other"
    /\ Dispatch(1)
    /\ inbox' = Tail(inbox)
    /\ UNCHANGED <<ready, xwindow>>

\* variant: the loop goes by the flag only, which the handler never clears
HandleQuitUnseen ==
    /\ ready /\ inbox # <<>> /\ Head(inbox) = "quit"
    /\ Dispatch(1)
    /\ inbox' = Tail(inbox)
    /\ UNCHANGED <<ready, xwindow>>

\* variant: the handler exits without a teardown
HandleQuitExits ==
    /\ ready /\ inbox # <<>> /\ Head(inbox) = "quit"
    /\ pc = "loop" /\ pc' = "done"
    /\ inbox' = Tail(inbox)
    /\ UNCHANGED <<events, running, syncs, fence, sems, imageIndex, target,
                   queue, gpu, engine, destroyed, failed, ready, xwindow>>

\* The handler returns 0: the loop ends, a frame in flight or not.
HandleQuit ==
    /\ ready /\ inbox # <<>> /\ Head(inbox) = "quit"
    /\ ConnectionLost
    /\ inbox' = Tail(inbox)
    /\ UNCHANGED <<ready, xwindow>>

\* The rest of the host, the device and the presentation engine are those of
\* VkFrameLoop; no close is ever delivered.
XHostProgress ==
    \/ FirstRecordFails \/ HandleNothing \/ HandleOther \/ HandleQuit
    \/ /\ DeliverFrame \/ LoopTest \/ Render \/ Destroy \/ DestroyUnwaited
       /\ UNCHANGED <<inbox, ready, xwindow>>

XEnvironment == (Device \/ Engine) /\ UNCHANGED <<inbox, ready, xwindow>>

\* The user presses a key or closes the window.
SendEvent(e) ==
    /\ stage = "created" /\ Len(inbox) < MaxInbox
    /\ inbox' = Append(inbox, e)
    /\ UNCHANGED <<vars, ready, xwindow>>

XTerminated ==
    /\ stage \in {"closed", "crashed"}
    /\ UNCHANGED xvars

XNext == \/ XSetup \/ CreateXWindow \/ DestroyXWindow \/ XHostProgress \/ XEnvironment
         \/ (\E e \in {"quit", "other"} : SendEvent(e))
         \/ XTerminated

\* The host runs whenever it is not blocked, and the loop itself never waits
\* for an event; the device executes what is ready, and the engine shows what
\* it is given and releases what it read.  Nothing makes the user quit.
XFairness ==
    /\ WF_xvars(XSetup \/ CreateXWindow \/ DestroyXWindow)
    /\ WF_xvars(XHostProgress)
    /\ WF_xvars(Device /\ UNCHANGED <<inbox, ready, xwindow>>)
    /\ WF_xvars(SignalAcquired /\ UNCHANGED <<inbox, ready, xwindow>>)
    /\ WF_xvars((\E i \in Images : Display(i)) /\ UNCHANGED <<inbox, ready, xwindow>>)
    /\ \A i \in Images : WF_xvars(FinishReading(i) /\ UNCHANGED <<inbox, ready, xwindow>>)

XSpec == XInit /\ [][XNext]_xvars

XFairSpec == XSpec /\ XFairness
-----------------------------------------------------------------------------
(***************************************************************************)
(* Properties.                                                             *)
(***************************************************************************)

\* The X program is a frame loop like the other: polling, ignoring events and
\* quitting in the middle of a frame add no step that VkFrameLoop lacks, and
\* so everything that holds of its host and device holds here.
ImplementsFrameLoop == Spec

XClosed == stage = "closed" /\ ~connected /\ ~window

\* The window cannot be had, or a step of main has failed.
GivenUp == stage = "failed" \/ pc \in TeardownSteps

\* A key that quits or the closing of the window ends the program, however
\* many events came before it: every poll handles one, and every render() in
\* between returns (xcb-client.c:130-141).  It ends without a window or a
\* connection left behind, as it does when the window cannot be created and
\* when main gives up at any other step (triangle.c:131-164).
QuitEnds ==
    GivenUp \/ (ready /\ \E k \in 1..Len(inbox) : inbox[k] = "quit") ~> XClosed

\* Until then frames are drawn and presented, whether events come or not.
XFramesGoOn == (pc = "loop" /\ ready) ~> (pc = "done" \/ pc = "present")
=============================================================================
