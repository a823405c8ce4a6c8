----------------------------- MODULE ShmWindow -----------------------------
(***************************************************************************)
(* The program of examples/wayland/shm-buffer.c: it connects, creates its  *)
(* buffers and its window, runs the dispatch loop of WaylandSurface, and   *)
(* hands everything it has to uvr_wc_destroy.  Any call may fail.          *)
(***************************************************************************)
EXTENDS ShmBuffers

programVars == <<vars, coreVars, shmVars>>

ProgramInit == Init /\ CoreInit /\ ShmInit

\* The compositor announces any globals, and some of them more than once; the
\* connection may break meanwhile.
LearnGlobals ==
    /\ \E announced \in SUBSET Globals :
         \E again \in SUBSET (announced \cap Repeated) : Roundtrip(announced, again)
    /\ killed' \in BOOLEAN
    /\ UNCHANGED <<client, wire, events, bare, comp, ping>>

ConnectToCompositor ==
    /\ \/ CreateCore /\ UNCHANGED vars
       \/ LearnGlobals
    /\ UNCHANGED shmVars

(***************************************************************************)
(* uvr_wc_surface_create up to its first commit.                           *)
(***************************************************************************)
WindowObjects == {"wl_surface", "xdg_surface", "xdg_toplevel"}

\* A label of the error path, which leads to the end of the function.
FailTo(label) == IF label = "exit_error" THEN Exit ELSE Goto(label)

\* One call of the function, which makes object or fails.
CreateObject(label, object, next, failure) ==
    /\ at = label
    /\ \/ Goto(next) /\ proxies' = proxies \cup {object}
       \/ FailTo(failure) /\ UNCHANGED proxies
    /\ UNCHANGED <<held, lost, open, shmVars, vars>>

CreateWlSurface ==
    CreateObject("surface", "wl_surface", "xdg_surface", "exit_error")

\* xdg_wm_base_get_xdg_surface dereferences the xdg_wm_base it is given.
CreateXdgSurface ==
    \/ /\ "xdg_wm_base" \in held
       /\ CreateObject("xdg_surface", "xdg_surface", "xdg_toplevel",
                       "error_wl_surface")
    \/ /\ "xdg_wm_base" \notin held /\ at = "xdg_surface"
       /\ Goto("crashed")
       /\ UNCHANGED <<proxies, held, lost, open, shmVars, vars>>

CreateToplevel ==
    CreateObject("xdg_toplevel", "xdg_toplevel", "listeners", "error_xdg_surface")

\* Both listeners, the title, and the first commit and frame of the window.
CreateWindow ==
    /\ at = "listeners"
    /\ \/ /\ \E s \in Surfaces : CreateSurface(s)
          /\ Goto("window")
          /\ proxies' = proxies \cup {"wl_callback"}
          /\ held' = held \cup WindowObjects
       \/ FailTo("error_xdg_toplevel") /\ UNCHANGED <<proxies, held, vars>>
    /\ UNCHANGED <<lost, open, shmVars>>

CreateWindowObjects ==
    CreateWlSurface \/ CreateXdgSurface \/ CreateToplevel \/ CreateWindow

\* error_create_surf_*: each label destroys one object and falls through.
DestroyObject(label, object, next) ==
    /\ at = label
    /\ FailTo(next)
    /\ proxies' = proxies \ {object}
    /\ UNCHANGED <<held, lost, open, shmVars, vars>>

\* variant: the labels in the order in which the objects are created
UndoWindowParentsFirst ==
    \/ DestroyObject("error_xdg_toplevel", "wl_surface", "error_xdg_surface")
    \/ DestroyObject("error_xdg_surface", "xdg_surface", "error_wl_surface")
    \/ DestroyObject("error_wl_surface", "xdg_toplevel", "exit_error")

UndoWindow ==
    \/ DestroyObject("error_xdg_toplevel", "xdg_toplevel", "error_xdg_surface")
    \/ DestroyObject("error_xdg_surface", "xdg_surface", "error_wl_surface")
    \/ DestroyObject("error_wl_surface", "wl_surface", "exit_error")

Run == at = "window" /\ Client /\ UNCHANGED <<coreVars, shmVars>>

LeaveLoop ==
    /\ at = "window" /\ pc = "done"
    /\ Exit
    /\ UNCHANGED <<proxies, held, lost, open, shmVars, vars>>

Teardown ==
    /\ \/ DestroyProxy /\ UNCHANGED shmVars
       \/ DestroyBuffers
    /\ UNCHANGED vars

End == Finish /\ UNCHANGED <<shmVars, vars>>

Program ==
    \/ ConnectToCompositor
    \/ CreateBuffers /\ UNCHANGED vars
    \/ CreateWindowObjects \/ UndoWindow
    \/ Run \/ LeaveLoop \/ Teardown \/ End

\* The compositor, while there is a window and a connection.
Serve(step) == at = "window" /\ step /\ UNCHANGED <<coreVars, shmVars>>

ProgramEnded == at \in {"done", "crashed"} /\ UNCHANGED programVars

ProgramNext == Program \/ Serve(Compositor) \/ ProgramEnded

ProgramSpec == ProgramInit /\ [][ProgramNext]_programVars

ProgramFairness ==
    /\ WF_programVars(Program)
    /\ WF_programVars(Serve(Process))
    /\ \A s \in Surfaces : WF_programVars(Serve(Repaint(s)))

FairProgramSpec == ProgramSpec /\ ProgramFairness

-----------------------------------------------------------------------------
(***************************************************************************)
(* Properties.                                                             *)
(***************************************************************************)
Proxies == Globals \cup WindowObjects
             \cup {"wl_display", "wl_registry", "wl_shm_pool", "wl_callback"}

ProgramTypeOK ==
    /\ TypeOK
    /\ proxies \subseteq Proxies /\ held \subseteq Proxies
    /\ lost \subseteq Repeated \cap Wanted
    /\ todo \in Seq(Proxies \cup {"buffers"})
    /\ idx \in 0..BufferCount
    /\ open \subseteq 0..(BufferCount + 4) /\ fd \in open \cup {-1}
    /\ mapped \subseteq Buffers /\ wlBuffers \subseteq Buffers
    /\ shm \in [Buffers -> [shmFd : Int, data : {"null", "mapped", "failed"},
                            buffer : BOOLEAN]]
    /\ buffersHeld \in BOOLEAN

Over == at \in {"done", "crashed"}

\* Whichever call failed, the program ends with nothing left but what the
\* structures of the library do not mention: the frame callback in flight, the
\* fullscreen shell, which uvr_wc_core_interface_create does not return, and
\* the proxies lost to globals that were announced again.  The socket is
\* closed, and of the standard streams only stdin may be gone, by the cleanup
\* of uvr_wc_buffer_create when it comes upon buffers its loop had not reached.
ClientReturned ==
    at = "done" =>
        /\ proxies \subseteq {"wl_callback", "zwp_fullscreen_shell_v1"}
        /\ open \in {0..2, 1..2} /\ mapped = {} /\ wlBuffers = {}
        /\ 0 \notin open => idx < BufferCount - 1

\* Whatever the compositor offers, only a missing xdg_wm_base is fatal: every
\* other global is looked for before it is used.
MissingGlobalsCaught ==
    at = "crashed" => "wl_shm" \in held /\ "xdg_wm_base" \notin held

\* <<child, parent>>: the protocols want the child destroyed first.
Children ==
    {<<"xdg_toplevel", "xdg_surface">>, <<"xdg_surface", "wl_surface">>,
     <<"xdg_surface", "xdg_wm_base">>}
      \cup (Proxies \ {"wl_display", "wl_callback", "zwp_fullscreen_shell_v1"})
             \X {"wl_display"}

\* Nothing is destroyed before its children, in the teardown and on the way
\* back out of a creation that failed half-way.  What the structures do not
\* mention outlives the connection.
ChildrenFirst ==
    [][/\ \A pair \in Children :
            pair[2] \in proxies \ proxies' => pair[1] \notin proxies'
       /\ "wl_display" \in proxies \ proxies' => wlBuffers' = {}]_programVars

\* The window keeps being drawn until the program ends.
ShmFramesGoOn == <>Over \/ []<><<HandleDone>>_programVars

\* A close and a broken connection end the program: it runs its teardown, or
\* it has crashed on an xdg_wm_base that the compositor did not announce.
ProgramEnds == killed \/ (\E s \in Surfaces : comp[s].closed) ~> Over

(***************************************************************************)
(* What they rest on, an invariant in parts.                               *)
(***************************************************************************)
Connecting == {"connect", "registry", "roundtrip"}
Filling    == {"file", "truncate", "map", "pool", "buffer"}
Undoing    == {"error_xdg_toplevel", "error_xdg_surface", "error_wl_surface"}
Creating   == {"surface", "xdg_surface", "xdg_toplevel", "listeners"} \cup Undoing

Unmentioned == {"wl_callback", "zwp_fullscreen_shell_v1"}

\* What the program has made and put into none of its structures yet.
Fresh == CASE at \in Connecting -> {"wl_display", "wl_registry"}
           [] at \in {"buffer", "cleanup"} -> {"wl_shm_pool"}
           [] at \in {"xdg_surface", "error_wl_surface"} -> {"wl_surface"}
           [] at \in {"xdg_toplevel", "error_xdg_surface"} ->
                {"wl_surface", "xdg_surface"}
           [] at \in {"listeners", "error_xdg_toplevel"} -> WindowObjects
           [] OTHER -> {}

\* What uvr_wc_destroy has still to look at.
Left == {todo[k] : k \in 1..Len(todo)}

ProxyInv ==
    /\ at \in Connecting => held = {} /\ ~killed
    /\ at = "connect" => proxies = {}
    /\ at = "registry" => proxies = {"wl_display"}
    /\ at = "roundtrip" => proxies = {"wl_display", "wl_registry"}
    /\ at # "crashed" => proxies \subseteq held \cup Unmentioned \cup Fresh
    /\ "wl_shm_pool" \notin held
    /\ held \cap WindowObjects # {} => at \in {"window", "exit_error", "done"}

\* The socket is open until the connection is given up.
SocketInv ==
    /\ at \notin Connecting \cup {"exit_error", "done"} => "wl_display" \in held
    /\ at \in {"exit_error", "done"} /\ Socket \in open =>
         "wl_display" \in held \cap Left

\* wl_shm is looked for before the first buffer, xdg_wm_base when it is used.
GlobalsInv ==
    /\ at \in Filling \cup Creating => "wl_shm" \in held
    /\ MissingGlobalsCaught

TeardownInv ==
    at \in {"exit_error", "done"} =>
      /\ Len(todo) <= Len(DestroyOrder)
      /\ \A k \in 1..Len(todo) :
           todo[k] = DestroyOrder[k + (Len(DestroyOrder) - Len(todo))]
      /\ proxies \subseteq Left \cup Unmentioned

\* A buffer that is complete, and one without its wl_buffer.
Complete(b) == [shmFd |-> b + 4, data |-> "mapped", buffer |-> TRUE]
Mapped(b)   == [Complete(b) EXCEPT !.buffer = FALSE]

NoBuffers ==
    /\ ~buffersHeld /\ idx = 0 /\ fd = -1 /\ shm = [b \in Buffers |-> Zeroed]
    /\ open = (IF at = "connect" THEN 0..2 ELSE 0..Socket)
    /\ mapped = {} /\ wlBuffers = {}

AllBuffers ==
    /\ buffersHeld /\ idx = BufferCount /\ fd = -1
    /\ shm = [b \in Buffers |-> Complete(b)]
    /\ open = 0..(BufferCount + 3) /\ mapped = Buffers /\ wlBuffers = Buffers

\* The loop of uvr_wc_buffer_create, before the call that at names: the buffer
\* idx, its file if it is open, and its mapping.
AtBuffer(label, b, file, last) ==
    at = label => /\ shm[idx] = b
                  /\ fd = file /\ open = 0..last
                  /\ mapped = 0..(IF b.data = "mapped" THEN idx ELSE idx - 1)

LoopInv ==
    /\ ~buffersHeld /\ idx \in Buffers
    /\ \A b \in Buffers : /\ b < idx => shm[b] = Complete(b)
                          /\ b > idx => shm[b] = Zeroed
    /\ wlBuffers = 0..(idx - 1)
    /\ AtBuffer("file", Zeroed, -1, idx + 3)
    /\ AtBuffer("truncate", Zeroed, idx + 4, idx + 4)
    /\ AtBuffer("map", [Zeroed EXCEPT !.shmFd = idx + 4], -1, idx + 4)
    /\ AtBuffer("pool", Mapped(idx), -1, idx + 4)
    /\ AtBuffer("buffer", Mapped(idx), -1, idx + 4)
    /\ \/ AtBuffer("cleanup", [Zeroed EXCEPT !.shmFd = -1], -1, idx + 3)
       \/ AtBuffer("cleanup", [Mapped(idx) EXCEPT !.data = "failed"], -1, idx + 4)
       \/ AtBuffer("cleanup", Mapped(idx), -1, idx + 4)

BuffersReturned ==
    /\ open \ {Socket} \in {0..2, 1..2} /\ fd = -1 /\ mapped = {} /\ wlBuffers = {}
    /\ 0 \notin open => idx < BufferCount - 1

ShmInv ==
    /\ at \in Connecting \cup {"buffers"} => NoBuffers
    /\ at \in Filling \cup {"cleanup"} => LoopInv
    /\ at \in Creating \cup {"window"} => AllBuffers
    /\ at \in {"exit_error", "done"} =>
         IF buffersHeld /\ "buffers" \in Left THEN AllBuffers ELSE BuffersReturned
    /\ at = "done" => todo = <<>>

ProgramInv == ProxyInv /\ SocketInv /\ GlobalsInv /\ TeardownInv /\ ShmInv

=============================================================================
