----------------------------- MODULE KmsSession -----------------------------
(***************************************************************************)
(* The logind session and the KMS node of a program, with its virtual      *)
(* terminal in graphics mode: uvr_sd_session_create, uvr_kms_node_create   *)
(* and what destroys them again, whichever call has failed.  Every step    *)
(* changes something outside the process that has to be undone by hand:    *)
(* the terminal, the devices logind has handed out, descriptors.           *)
(*                                                                         *)
(* KmsProgram has what happens between the last step here, pc = "chain",   *)
(* and the label exit_error.                                               *)
(***************************************************************************)
EXTENDS Naturals

CONSTANTS
    Devices,    \* number of KMS devices drmGetDevices2 reports
    Faults      \* the calls that may fail

Calls == {"instance", "id", "bus", "path", "activate", "control", "devices",
          "device", "reply", "magic", "caps", "terminal", "keyboard",
          "graphics"}

\* The calls of the destruction: their failure is at most logged.
ResetCalls    == {"reset_keyboard", "reset_display"}
ReleaseCalls  == {"fstat", "release_device"}
TeardownCalls == ResetCalls \cup ReleaseCalls \cup {"release_control"}

ASSUME DevicesAssumption == Devices \in Nat \ {0}
ASSUME FaultsAssumption == Faults \subseteq Calls \cup TeardownCalls

VARIABLES
    logind,     \* built with INCLUDE_SDBUS, and uselogind set
    explicit,   \* the path of the node is given
    pc,         \* the call to be made next
    device,     \* the candidate node_create is at
    kmsfd,      \* its local descriptor: "none" is -1
    kbmode,     \* its local copy of the keyboard mode
    exposed,    \* the descriptor is master and has the client capabilities
    node,       \* struct uvr_kms_node of the program
    session,    \* struct uvr_sd_session: none, bus, or bus and path
    control,    \* logind: the session is controlled by the program
    taken,      \* logind: devices handed out
    open,       \* open descriptors
    vt,         \* the virtual terminal of stdin
    failed      \* history: the calls that have failed

mode  == <<logind, explicit>>
local == <<device, kmsfd, kbmode, exposed>>
seat  == <<control, taken>>
sessionVars == <<pc, logind, explicit, device, kmsfd, kbmode, exposed, node,
                 session, control, taken, open, vt, failed>>

\* main clears struct uvr_kms: descriptor 0 is stdin, keyboard mode 0 K_RAW.
Zeroed == [kmsFd |-> "stdin", vtfd |-> "stdin", kbmode |-> "raw"]

\* variant: kmsFd is left zero
FailedZeroFd == [kmsFd |-> "stdin", vtfd |-> "none", kbmode |-> "none"]

\* What uvr_kms_node_create returns on failure: -1 everywhere.
Failed == [kmsFd |-> "none", vtfd |-> "none", kbmode |-> "none"]

\* Where the program goes to create the node.
Create == IF explicit THEN "device" ELSE "devices"

SessionInit ==
    /\ logind \in BOOLEAN /\ explicit \in BOOLEAN
    /\ pc = "instance" /\ device = 1
    /\ kmsfd = "none" /\ kbmode = "none" /\ exposed = FALSE
    /\ node = Zeroed /\ session = "none" /\ control = FALSE /\ taken = {}
    /\ open = {"stdin"}
    /\ vt = [keyboard |-> "unicode", display |-> "text"]
    /\ failed = {}

(***************************************************************************)
(* Setup.                                                                  *)
(***************************************************************************)

\* A call succeeds, or may fail.
Failing(call)        == call \in Faults /\ failed' = failed \cup {call}
Succeeds(call, next) == pc = call /\ pc' = next /\ UNCHANGED failed
Fails(call, next)    == pc = call /\ pc' = next /\ Failing(call)

\* create_vk_instance
CreateInstance ==
    /\ \/ Succeeds("instance", IF logind THEN "id" ELSE Create)
       \/ Fails("instance", "exit_error")
    /\ UNCHANGED <<mode, local, node, session, seat, open, vt>>

\* uvr_sd_session_create: the session id, then the bus, then the path.
FindSession ==
    /\ Succeeds("id", "bus") \/ Fails("id", "exit_error")
    /\ UNCHANGED <<mode, local, node, session, seat, open, vt>>

OpenBus ==
    /\ \/ Succeeds("bus", "path") /\ session' = "bus"
       \/ Fails("bus", "exit_error") /\ UNCHANGED session
    /\ UNCHANGED <<mode, local, node, seat, open, vt>>

FindPath ==
    /\ \/ Succeeds("path", "activate") /\ session' = "path"
       \/ Fails("path", "exit_error") /\ UNCHANGED session
    /\ UNCHANGED <<mode, local, node, seat, open, vt>>

\* Both return 0 on failure, which is compared with -1: a failure goes
\* unnoticed.
Activate ==
    /\ Succeeds("activate", "control") \/ Fails("activate", "control")
    /\ UNCHANGED <<mode, local, node, session, seat, open, vt>>

TakeControl ==
    /\ \/ Succeeds("control", Create) /\ control' = TRUE
       \/ Fails("control", Create) /\ UNCHANGED control
    /\ UNCHANGED <<mode, local, node, session, taken, open, vt>>

\* drmGetDevices2
FindDevices ==
    /\ Succeeds("devices", "device") \/ Fails("devices", "free_kms_dev")
    /\ UNCHANGED <<mode, local, node, session, seat, open, vt>>

\* After open or TakeDevice: an explicit node is used as it is.
Opened == IF explicit THEN "terminal" ELSE "magic"

\* variant: one candidate too many
NextDeviceTooFar ==
    IF ~explicit /\ device <= Devices
      THEN device' = device + 1 /\ UNCHANGED pc
      ELSE pc' = "free_kms_dev" /\ UNCHANGED device

\* A candidate that cannot be opened: the next one is tried.
NextDevice ==
    IF ~explicit /\ device < Devices
      THEN device' = device + 1 /\ UNCHANGED pc
      ELSE pc' = "free_kms_dev" /\ UNCHANGED device

\* open, or TakeDevice and a copy of the descriptor in its reply.
OpenDevice ==
    /\ pc = "device"
    /\ logind => control
    /\ pc' = Opened
    /\ kmsfd' = "kms"
    /\ open' = open \cup {"kms"}
    /\ taken' = IF logind THEN taken \cup {device} ELSE taken
    /\ UNCHANGED <<mode, device, kbmode, exposed, node, session, control, vt,
                   failed>>

OpenDeviceFails ==
    /\ pc = "device"
    /\ Failing("device") \/ (logind /\ ~control /\ UNCHANGED failed)
    /\ NextDevice
    /\ UNCHANGED <<mode, kmsfd, kbmode, exposed, node, session, seat, open, vt>>

\* logind has handed the device out, and its reply cannot be read.
ReplyFails ==
    /\ pc = "device" /\ logind /\ control /\ Failing("reply")
    /\ taken' = taken \cup {device}
    /\ NextDevice
    /\ UNCHANGED <<mode, kmsfd, kbmode, exposed, node, session, control, open, vt>>

\* drmGetMagic and drmAuthMagic, then the client capabilities.
Authenticate ==
    /\ Succeeds("magic", "caps") \/ Fails("magic", "free_kms_dev")
    /\ UNCHANGED <<mode, local, node, session, seat, open, vt>>

\* variant: only the second result is looked at
SetClientCapsLast ==
    /\ \/ Succeeds("caps", "terminal") /\ exposed' \in BOOLEAN
       \/ Fails("caps", "free_kms_dev") /\ UNCHANGED exposed
    /\ UNCHANGED <<mode, device, kmsfd, kbmode, node, session, seat, open, vt>>

SetClientCaps ==
    /\ \/ Succeeds("caps", "terminal") /\ exposed' = TRUE
       \/ Fails("caps", "free_kms_dev") /\ UNCHANGED exposed
    /\ UNCHANGED <<mode, device, kmsfd, kbmode, node, session, seat, open, vt>>

\* vt_setup: the terminal is opened and switched to, the keyboard mode saved
\* and turned off, and the terminal put into graphics mode.
OpenTerminal ==
    /\ \/ Succeeds("terminal", "keyboard") /\ open' = open \cup {"vt"}
       \/ Fails("terminal", "free_kms_dev") /\ UNCHANGED open
    /\ UNCHANGED <<mode, local, node, session, seat, vt>>

DisableKeyboard ==
    /\ \/ /\ Succeeds("keyboard", "graphics")
          /\ kbmode' = vt.keyboard
          /\ vt' = [vt EXCEPT !.keyboard = "off"]
          /\ UNCHANGED open
       \/ /\ Fails("keyboard", "free_kms_dev")
          /\ open' = open \ {"vt"}
          /\ UNCHANGED <<kbmode, vt>>
    /\ UNCHANGED <<mode, device, kmsfd, exposed, node, session, seat>>

SetGraphics ==
    /\ \/ /\ Succeeds("graphics", "chain")
          /\ vt' = [vt EXCEPT !.display = "graphics"]
          /\ node' = [kmsFd |-> kmsfd, vtfd |-> "vt", kbmode |-> kbmode]
          /\ UNCHANGED open
       \/ /\ Fails("graphics", "free_kms_dev")
          /\ open' = open \ {"vt"}
          /\ UNCHANGED <<vt, node>>
    /\ UNCHANGED <<mode, local, session, seat>>

\* What fails while the device is released, at most one call.  Without logind
\* there is only close; fd is the descriptor of a device, or none.
ReleaseFaults(fd) ==
    {{}} \cup {{call} : call \in {call \in ReleaseCalls \cap Faults :
                                    logind /\ fd = "kms"}}

\* uvr_sd_session_release_device: a failing fstat ends it, a failing
\* ReleaseDevice does not.
ReleaseDevice(fd, faults) ==
    /\ open' = IF "fstat" \in faults THEN open ELSE open \ {fd}
    /\ taken' = IF faults = {} /\ fd = "kms" THEN taken \ {device} ELSE taken

\* error_free_kms_dev: uvr_kms_node_create fails.
FreeKmsDev ==
    /\ pc = "free_kms_dev"
    /\ pc' = "exit_error"
    /\ \E faults \in ReleaseFaults(kmsfd) :
          ReleaseDevice(kmsfd, faults) /\ failed' = failed \cup faults
    /\ node' = Failed
    /\ UNCHANGED <<mode, local, session, control, vt>>

(***************************************************************************)
(* exit_error.                                                             *)
(***************************************************************************)
\* vt_reset, whatever the descriptor is; neither result is looked at.
VtReset(n, faults) ==
    IF n.vtfd # "none" /\ n.kbmode # "none"
      THEN [keyboard |-> IF "reset_keyboard" \in faults THEN vt.keyboard
                                                        ELSE n.kbmode,
            display  |-> IF "reset_display" \in faults THEN vt.display ELSE "text"]
      ELSE vt

\* variant: the terminal is not reset
DestroyNodeKeepsVt ==
    /\ pc = "exit_error"
    /\ pc' = "free_session"
    /\ \E faults \in ReleaseFaults(node.kmsFd) :
          ReleaseDevice(node.kmsFd, faults) /\ failed' = failed \cup faults
    /\ UNCHANGED <<mode, local, node, session, control, vt>>

\* uvr_kms_node_destroy; uselogind of a cleared structure is false.  The
\* descriptor of the terminal stays open.
DestroyNode ==
    /\ pc = "exit_error"
    /\ pc' = "free_session"
    /\ IF node.kmsFd = "none"
         THEN UNCHANGED <<vt, open, taken, failed>>
         ELSE \E faults \in ReleaseFaults(node.kmsFd),
                 resets \in SUBSET (ResetCalls \cap Faults) :
                 /\ vt' = VtReset(node, resets)
                 /\ ReleaseDevice(node.kmsFd, faults)
                 /\ failed' = failed \cup faults \cup resets
    /\ UNCHANGED <<mode, local, node, session, control>>

\* variant: control is not given back
DestroySessionKeepsControl ==
    /\ pc = "free_session"
    /\ pc' = "done"
    /\ session' = "none"
    /\ UNCHANGED <<mode, local, node, seat, open, vt, failed>>

\* uvr_sd_session_destroy: ReleaseControl, if the session has a path; logind
\* takes the devices back with it.  A failure is only logged.
DestroySession ==
    /\ pc = "free_session"
    /\ pc' = "done"
    /\ IF session = "path"
         THEN /\ session' = "none"
              /\ \/ control' = FALSE /\ taken' = {} /\ UNCHANGED failed
                 \/ Failing("release_control") /\ UNCHANGED <<control, taken>>
         ELSE UNCHANGED <<session, control, taken, failed>>
    /\ UNCHANGED <<mode, local, node, open, vt>>

CreateNode ==
    \/ CreateInstance \/ FindSession \/ OpenBus \/ FindPath \/ Activate
    \/ TakeControl \/ FindDevices \/ OpenDevice \/ OpenDeviceFails \/ ReplyFails
    \/ Authenticate \/ SetClientCaps \/ OpenTerminal \/ DisableKeyboard
    \/ SetGraphics \/ FreeKmsDev
-----------------------------------------------------------------------------
(***************************************************************************)
(* Properties.                                                             *)
(***************************************************************************)
Descriptors == {"stdin", "kms", "vt"}
KbModes == {"unicode", "raw", "off"}

SessionTypeOK ==
    /\ logind \in BOOLEAN /\ explicit \in BOOLEAN
    /\ pc \in Calls \cup {"free_kms_dev", "chain", "buffers", "exit_error",
                      "free_session", "done"}
    /\ device \in 1..Devices
    /\ kmsfd \in {"none", "kms"}
    /\ kbmode \in KbModes \cup {"none"}
    /\ exposed \in BOOLEAN
    /\ node \in [kmsFd : Descriptors \cup {"none"}, vtfd : Descriptors \cup {"none"},
                 kbmode : KbModes \cup {"none"}]
    /\ session \in {"none", "bus", "path"}
    /\ control \in BOOLEAN
    /\ taken \subseteq 1..Devices
    /\ open \subseteq Descriptors
    /\ vt \in [keyboard : KbModes, display : {"text", "graphics"}]
    /\ failed \subseteq Faults

\* When the program ends, the terminal shows text again unless the ioctl that
\* says so fails itself.  Once uvr_kms_node_create has been called, the keyboard
\* has its mode back unless the ioctl that restores it fails, or the one that
\* enters graphics mode: kms.c:106 leaves the keyboard turned off then.
TerminalRestored ==
    pc = "done" =>
       /\ vt.display = "text" \/ "reset_display" \in failed
       /\ node # Zeroed /\ vt.keyboard # "unicode" =>
             failed \cap {"graphics", "reset_keyboard"} # {}

\* What logind and the kernel have not got back when the program ends, they
\* have not got back for a reason: control, and with it every device, because
\* ReleaseControl has failed (sd-dbus.c:113), and a device only if it had not
\* been given back on its own before; a descriptor, because fstat has
\* (sd-dbus.c:262).  No failure of another call leaves any of them.
DevicesReturned ==
    pc = "done" =>
       /\ control => "release_control" \in failed
       /\ taken # {} =>
             /\ "release_control" \in failed
             /\ failed \cap {"reply", "fstat", "release_device"} # {}
       /\ "kms" \in open => "fstat" \in failed

\* kms/main.c:60: exit_error closes descriptors the program was given, and no
\* others, once uvr_kms_node_create has been called.
StdinStaysOpen == node # Zeroed => "stdin" \in open

\* sd-dbus.h:42: uvr_sd_session_create returns -1 on failure; a node is not
\* created in a session the program does not control.
ControlBeforeDevices == logind /\ pc \in {"devices", "device"} => control
=============================================================================
