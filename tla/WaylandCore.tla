---------------------------- MODULE WaylandCore ----------------------------
(***************************************************************************)
(* The connection of a Wayland client: uvr_wc_core_interface_create, the   *)
(* registry listener that binds the globals of the compositor, and         *)
(* uvr_wc_destroy, which destroys whatever the program has been given.     *)
(*                                                                         *)
(* An object is named after its interface.  It exists as long as its proxy *)
(* does; the program can destroy only what its structures hold.            *)
(***************************************************************************)
EXTENDS Integers, Sequences, FiniteSets

CONSTANTS
    Wanted,     \* iType: the globals the program asks for
    Repeated    \* those the compositor may announce more than once

Globals == {"wl_compositor", "xdg_wm_base", "wl_shm", "wl_seat",
            "zwp_fullscreen_shell_v1"}

ASSUME WantedAssumption == Wanted \subseteq Globals /\ Repeated \subseteq Globals

\* The socket gets the lowest number after the standard streams.
Socket == 3

VARIABLES
    at,        \* where the program is
    proxies,   \* the objects that exist
    held,      \* those the structures of the program point to
    lost,      \* globals bound again: nothing points to the proxy they had
    open,      \* the descriptors of the process
    todo       \* what uvr_wc_destroy has still to look at

coreVars == <<at, proxies, held, lost, open, todo>>

CoreInit ==
    /\ at = "connect" /\ proxies = {} /\ held = {} /\ lost = {}
    /\ open = 0..2 /\ todo = <<>>

\* variant: the globals before the surface
DestroyOrderCoreFirst ==
    <<"wl_seat", "wl_shm", "xdg_wm_base", "zwp_fullscreen_shell_v1",
      "wl_compositor", "xdg_toplevel", "xdg_surface", "wl_surface", "buffers",
      "wl_registry", "wl_display">>

\* The order of uvr_wc_destroy.
DestroyOrder ==
    <<"xdg_toplevel", "xdg_surface", "wl_surface", "buffers", "wl_seat",
      "wl_shm", "xdg_wm_base", "zwp_fullscreen_shell_v1", "wl_compositor",
      "wl_registry", "wl_display">>

\* goto exit_error
Exit == at' = "exit_error" /\ todo' = DestroyOrder

Goto(label) == at' = label /\ UNCHANGED todo

\* wl_display_connect
Connect ==
    /\ at = "connect"
    /\ \/ /\ proxies' = {"wl_display"} /\ open' = open \cup {Socket}
          /\ Goto("registry")
       \/ Exit /\ UNCHANGED <<proxies, open>>
    /\ UNCHANGED <<held, lost>>

\* wl_display_get_registry; the display is disconnected again if it fails.
GetRegistry ==
    /\ at = "registry"
    /\ \/ /\ proxies' = proxies \cup {"wl_registry"} /\ Goto("roundtrip")
          /\ UNCHANGED open
       \/ proxies' = proxies \ {"wl_display"} /\ open' = open \ {Socket} /\ Exit
    /\ UNCHANGED <<held, lost>>

\* What the structure that is returned holds: of the globals that have been
\* bound all but the last.
Returned(bound) ==
    {"wl_display", "wl_registry"} \cup (bound \ {"zwp_fullscreen_shell_v1"})

\* wl_display_roundtrip: the registry announces globals, some of them again,
\* and those wanted are bound whenever they are announced.  It returns the
\* number of events handled, at least one, or -1 for a connection lost on the
\* way; only 0 would be an error.  The program goes on if it has a compositor.
Roundtrip(announced, again) ==
    /\ at = "roundtrip"
    /\ proxies' = proxies \cup (announced \cap Wanted)
    /\ held' = Returned(announced \cap Wanted)
    /\ lost' = again \cap Wanted
    /\ UNCHANGED open
    /\ IF "wl_compositor" \in held' THEN Goto("buffers") ELSE Exit

CreateCore == Connect \/ GetRegistry

\* One object of uvr_wc_destroy, if the program holds it.
DestroyProxy ==
    /\ at = "exit_error" /\ todo # <<>> /\ Head(todo) # "buffers"
    /\ todo' = Tail(todo)
    /\ proxies' = proxies \ ({Head(todo)} \cap held)
    /\ open' = IF Head(todo) = "wl_display" /\ "wl_display" \in held
                 THEN open \ {Socket} ELSE open
    /\ UNCHANGED <<at, held, lost>>

Finish ==
    /\ at = "exit_error" /\ todo = <<>>
    /\ Goto("done")
    /\ UNCHANGED <<proxies, held, lost, open>>
=============================================================================
