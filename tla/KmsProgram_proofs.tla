------------------------- MODULE KmsProgram_proofs -------------------------
(***************************************************************************)
(* The properties of the KMS program, for every number of devices, planes, *)
(* connectors and buffers and every choice of failing calls.  The session, *)
(* the chain and the buffers have an invariant each; Coupled says how far  *)
(* each of them has come when another one moves.                           *)
(***************************************************************************)
EXTENDS KmsProgram, TLAPS

-----------------------------------------------------------------------------
(***************************************************************************)
(* The invariants.                                                         *)
(***************************************************************************)
Whole == [kmsFd |-> "kms", vtfd |-> "vt", kbmode |-> "unicode"]

\* Before a device is open, and while it is made a node.
Opening  == {"instance", "id", "bus", "path", "activate", "control", "devices",
             "device"}
Settling == {"magic", "caps", "terminal", "keyboard", "graphics"}

\* The terminal is in graphics mode only for a node that is complete, and the
\* node has kept the mode the keyboard had.
TerminalInv ==
    /\ node \in {Zeroed, Failed, Whole}
    /\ pc \in Calls \cup {"free_kms_dev"} => node = Zeroed /\ "stdin" \in open
    /\ pc \in {"chain", "buffers"} => node = Whole
    /\ node # Zeroed => "stdin" \in open
    /\ vt.display = "graphics" => node = Whole
    /\ pc \in Calls \ {"graphics"} => vt.keyboard = "unicode"
    /\ pc = "graphics" => kbmode = "unicode"
    /\ pc = "free_kms_dev" \/ (pc = "exit_error" /\ node = Failed)
          => vt.keyboard = "unicode" \/ "graphics" \in failed
    /\ pc \in {"free_session", "done"} =>
          /\ vt.display = "text" \/ "reset_display" \in failed
          /\ node # Zeroed /\ vt.keyboard # "unicode" =>
                "graphics" \in failed \/ "reset_keyboard" \in failed

\* logind holds a device only for a session it knows, and the program has the
\* descriptor exactly from the step that opens it to the one that closes it.
OpenInv ==
    /\ taken # {} => control
    /\ control /\ pc # "done" => session = "path"
    /\ pc \in {"instance", "id", "bus", "path", "activate", "control"} => ~control
    /\ pc \in {"activate", "control"} => session = "path"
    /\ pc \in Opening => kmsfd = "none" /\ "kms" \notin open
    /\ pc \in Settling => kmsfd = "kms"
    /\ pc = "free_kms_dev" /\ "kms" \in open => kmsfd = "kms"
    /\ \/ pc \in Settling
       \/ pc \in {"chain", "buffers", "exit_error"} /\ node = Whole
       => "kms" \in open /\ (logind => control /\ device \in taken)
    /\ pc \in {"terminal", "keyboard", "graphics", "chain"} => explicit \/ exposed

\* A device that is taken is that of the descriptor, unless a call has failed
\* that would have made it so; what the end of the node and of the session
\* leaves, they leave because of a failure.
ReturnInv ==
    /\ "reply" \in failed \/ "release_device" \in failed \/ taken = {}
          \/ (taken = {device} /\ "kms" \in open)
    /\ pc = "exit_error" /\ node # Whole => "kms" \notin open \/ "fstat" \in failed
    /\ pc \in {"free_session", "done"} => "kms" \notin open \/ "fstat" \in failed
    /\ pc = "done" => ~control \/ "release_control" \in failed

DevicesInv == OpenInv /\ ReturnInv

\* The invariant of the session and the node.
SessionInv == SessionTypeOK /\ TerminalInv /\ DevicesInv

\* What the pointers to a connector and what it leads to keep allocated.
Chained == Object("connector", connector) \cup Object("encoder", encoder)
             \cup Object("crtc", crtc)

\* Each pointer is that of the present connector, or NULL.
PointersInv ==
    /\ step \in {"resources", "planes", "connector", "err_planes", "failed"} =>
          connector = 0 /\ encoder = 0 /\ crtc = 0
    /\ step \in {"encoder", "free_connector", "err_connector"} =>
          connector = i /\ encoder = 0 /\ crtc = 0
    /\ step \in {"crtc", "free_encoder"} =>
          connector = i /\ encoder = i /\ crtc = 0
    /\ step \in {"plane", "free_crtc", "created"} =>
          connector = i /\ encoder = i /\ crtc = i
    /\ step = "err_encoder" => crtc = 0
    /\ step \notin {"created", "destroyed"} => plane = 0
    /\ step \in {"encoder", "crtc", "plane", "free_connector", "free_encoder",
                 "free_crtc", "created"} => i \in 1..Connectors

\* FindPlane keeps all planes that show the framebuffer, not only its own.
Clones == {<<"plane", p>> : p \in {p \in 1..Planes : shows[p].fb = fb}}

\* Where the planes, and what the pointers point to, are all allocated.
Walking == {"connector", "encoder", "crtc", "plane", "free_connector",
            "free_encoder", "free_crtc", "err_encoder", "err_connector"}

\* What is allocated is what the pointers point to, and nothing has been freed
\* that was not.
HeapInv ==
    /\ ~badFree
    /\ step \in {"resources", "failed"} => heap = {}
    /\ step = "planes" => heap = Resources
    /\ step \in Walking => heap = Resources \cup PlaneObjects \cup Chained
    /\ step = "err_planes" =>
          Resources \subseteq heap /\ heap \subseteq Resources \cup PlaneObjects
    /\ step = "created" =>
          /\ plane \in 1..Planes /\ ShowsCrtc(plane)
          /\ heap = Chained \cup Clones
    /\ step = "destroyed" =>
          /\ heap \subseteq Clones \ {<<"plane", plane>>}
          /\ plane = 0 => heap = {}

\* A plane for the crtc is there to be found, if all planes are exposed.
PlaneInv ==
    /\ step = "plane" /\ exposed => \E p \in 1..Planes : ShowsCrtc(p)
    /\ step = "crashed" => ~exposed

\* The invariant of the output chain.
ChainInv == ChainTypeOK /\ PointersInv /\ HeapInv /\ PlaneInv

\* The array of struct uvr_buffer_object.
Objects == [handle : 0..MaxHandle, planeCount : PlaneCounts \cup {0},
            dmaBufFds : SUBSET Nat, fbid : BOOLEAN]

Array == [Buffers -> Objects]

\* A buffer has a handle of its own, which is open unless it has been closed by
\* the number of a descriptor, and a framebuffer is on a buffer with a handle.
HandleInv(n) ==
    /\ n \in fbs => bois[n].fbid /\ bois[n].handle # 0
    /\ bois[n].handle # 0 =>
          /\ bois[n].handle \notin DriverHandles
          /\ bois[n].handle \in gem \/ ClosedByNumber(bois[n].handle)
          /\ \A m \in Buffers : bois[m].handle = bois[n].handle => m = n
    /\ at \in {"device", "free_device", "failed", "destroyed"} =>
          bois[n].handle = 0
    /\ at = "bo" => (bois[n].handle # 0 <=> n < b)
    /\ at \in {"device", "bo"} => bois[n].dmaBufFds = {}
    /\ at \in {"planes", "addfb", "created"} => bois[n].handle # 0
    /\ at \in {"rmfb", "destroy_bo", "close"} /\ n < b => bois[n].handle = 0

\* A handle that is open is one of the driver, or of a buffer; the driver's are
\* open unless one has been closed by the number of a descriptor.
GemInv ==
    /\ \A h \in gem : \/ gbmdev /\ h \in DriverHandles
                      \/ \E n \in Buffers : bois[n].handle = h
    /\ gbmdev => \A h \in DriverHandles \ gem : ClosedByNumber(h)

\* What has been done for the buffer the loop is at.
IndexInv ==
    /\ gbmdev <=> at \notin {"device", "failed", "destroyed"}
    /\ at = "device" => b = 1
    /\ at = "destroy_bo" => b \notin fbs
    /\ at = "close" => bois[b].handle = 0

\* The invariant of the buffers.
BuffersInv ==
    /\ BuffersTypeOK /\ bois \in Array
    /\ GemInv
    /\ \A n \in Buffers : HandleInv(n)
    /\ IndexInv

\* The chain and the buffers are made once the node is complete, and gone when
\* it goes.
Coupled ==
    /\ pc \in Calls \cup {"free_kms_dev"} => step = "resources"
    /\ step \notin {"resources", "destroyed"} => explicit \/ exposed
    /\ pc \in {"free_session", "done"} => step = "destroyed"
    /\ at \notin {"device", "failed", "destroyed"} =>
          pc \in {"buffers", "exit_error"} /\ node = Whole

\* The inductive invariant of the program.
Inv == SessionInv /\ ChainInv /\ BuffersInv /\ Coupled

-----------------------------------------------------------------------------
(***************************************************************************)
(* The session and the node.                                               *)
(***************************************************************************)
\* Nothing is open but stdin, and main has cleared the node.
LEMMA SessionStarts == SessionInit => SessionInv
<1> SUFFICES ASSUME SessionInit PROVE SessionInv
    OBVIOUS
<1> USE DevicesAssumption
    DEF SessionInit, SessionInv, SessionTypeOK, TerminalInv, DevicesInv, OpenInv,
        ReturnInv, Zeroed,
        Failed, Whole, Opening, Settling, Calls, Descriptors, KbModes
<1>1. SessionTypeOK
  <2>1. vt \in [keyboard : KbModes, display : {"text", "graphics"}] OBVIOUS
  <2>2. node \in [kmsFd : Descriptors \cup {"none"},
                 vtfd : Descriptors \cup {"none"},
                 kbmode : KbModes \cup {"none"}]
    OBVIOUS
  <2>8. failed \subseteq Faults OBVIOUS
  <2>3. taken \subseteq 1..Devices /\ open \subseteq Descriptors OBVIOUS
  <2>4. logind \in BOOLEAN /\ explicit \in BOOLEAN OBVIOUS
  <2>5. exposed \in BOOLEAN /\ control \in BOOLEAN OBVIOUS
  <2>6. device \in 1..Devices OBVIOUS
  <2>7. pc \in Calls OBVIOUS
  <2> QED BY <2>1, <2>2, <2>3, <2>4, <2>5, <2>6, <2>7, <2>8
<1>2. TerminalInv OBVIOUS
<1>3. DevicesInv OBVIOUS
<1> QED BY <1>1, <1>2, <1>3

\* The calls before a device is opened.
LEMMA SessionCreated ==
    ASSUME SessionInv,
           CreateInstance \/ FindSession \/ OpenBus \/ FindPath \/ Activate
             \/ TakeControl \/ FindDevices
    PROVE  SessionInv'
<1> USE DEF SessionInv, SessionTypeOK, TerminalInv, DevicesInv, OpenInv,
        ReturnInv, Zeroed, Failed,
        Whole, Opening, Settling, Calls, Descriptors, KbModes, Succeeds, Fails,
        Failing,
        Create, mode, local, seat
<1>1. CASE CreateInstance
  <2> USE <1>1 DEF CreateInstance
  <2>1. SessionTypeOK' OBVIOUS
  <2>2. TerminalInv' OBVIOUS
  <2>3. OpenInv' OBVIOUS
  <2>4. ReturnInv' OBVIOUS
  <2> QED BY <2>1, <2>2, <2>3, <2>4
<1>2. CASE FindSession
  <2> USE <1>2 DEF FindSession
  <2>1. SessionTypeOK' OBVIOUS
  <2>2. TerminalInv' OBVIOUS
  <2>3. OpenInv' OBVIOUS
  <2>4. ReturnInv' OBVIOUS
  <2> QED BY <2>1, <2>2, <2>3, <2>4
<1>3. CASE OpenBus
  <2> USE <1>3 DEF OpenBus
  <2>1. SessionTypeOK'
    <3>1. session' \in {"none", "bus", "path"} OBVIOUS
    <3> QED BY <3>1
  <2>2. TerminalInv' OBVIOUS
  <2>3. OpenInv' OBVIOUS
  <2>4. ReturnInv' OBVIOUS
  <2> QED BY <2>1, <2>2, <2>3, <2>4
<1>4. CASE FindPath
  <2> USE <1>4 DEF FindPath
  <2>1. SessionTypeOK' OBVIOUS
  <2>2. TerminalInv' OBVIOUS
  <2>3. OpenInv' OBVIOUS
  <2>4. ReturnInv' OBVIOUS
  <2> QED BY <2>1, <2>2, <2>3, <2>4
<1>5. CASE Activate
  <2> USE <1>5 DEF Activate
  <2>1. SessionTypeOK' OBVIOUS
  <2>2. TerminalInv' OBVIOUS
  <2>3. OpenInv' OBVIOUS
  <2>4. ReturnInv' OBVIOUS
  <2> QED BY <2>1, <2>2, <2>3, <2>4
<1>6. CASE TakeControl
  <2> USE <1>6 DEF TakeControl
  <2>1. SessionTypeOK'
    <3>1. control' \in BOOLEAN OBVIOUS
    <3> QED BY <3>1
  <2>2. TerminalInv' OBVIOUS
  <2>3. OpenInv' OBVIOUS
  <2>4. ReturnInv' OBVIOUS
  <2> QED BY <2>1, <2>2, <2>3, <2>4
<1>7. CASE FindDevices
  <2> USE <1>7 DEF FindDevices
  <2>1. SessionTypeOK' OBVIOUS
  <2>2. TerminalInv' OBVIOUS
  <2>3. OpenInv' OBVIOUS
  <2>4. ReturnInv' OBVIOUS
  <2> QED BY <2>1, <2>2, <2>3, <2>4
<1> QED BY <1>1, <1>2, <1>3, <1>4, <1>5, <1>6, <1>7

\* The search for a device that can be opened.
LEMMA DeviceOpened ==
    ASSUME SessionInv, OpenDevice \/ OpenDeviceFails \/ ReplyFails
    PROVE  SessionInv'
<1> USE DevicesAssumption
    DEF SessionInv, SessionTypeOK, TerminalInv, DevicesInv, OpenInv,
        ReturnInv, Zeroed, Failed,
        Whole, Opening, Settling, Calls, Descriptors, KbModes, Opened, NextDevice,
        Failing, mode
<1>1. CASE OpenDevice
  <2> USE <1>1 DEF OpenDevice
  <2>1. SessionTypeOK' OBVIOUS
  <2>2. TerminalInv' OBVIOUS
  <2>3. OpenInv' OBVIOUS
  <2>4. ReturnInv' OBVIOUS
  <2> QED BY <2>1, <2>2, <2>3, <2>4
<1>2. CASE OpenDeviceFails
  <2> USE <1>2 DEF OpenDeviceFails, seat
  <2>1. SessionTypeOK' OBVIOUS
  <2>2. TerminalInv' OBVIOUS
  <2>3. OpenInv' OBVIOUS
  <2>4. ReturnInv' OBVIOUS
  <2> QED BY <2>1, <2>2, <2>3, <2>4
<1>3. CASE ReplyFails
  <2> USE <1>3 DEF ReplyFails
  <2>1. SessionTypeOK' OBVIOUS
  <2>2. TerminalInv' OBVIOUS
  <2>3. OpenInv' OBVIOUS
  <2>4. ReturnInv' OBVIOUS
  <2> QED BY <2>1, <2>2, <2>3, <2>4
<1> QED BY <1>1, <1>2, <1>3

\* What the release of a device gives back, and what it leaves when it fails.
LEMMA DeviceReleased ==
    ASSUME NEW fd, NEW faults \in ReleaseFaults(fd), ReleaseDevice(fd, faults)
    PROVE  /\ faults \subseteq Faults /\ faults \subseteq ReleaseCalls
           /\ "fstat" \notin faults => open' = open \ {fd}
           /\ "fstat" \in faults => open' = open
           /\ \/ "fstat" \in faults /\ taken' = taken
              \/ "release_device" \in faults /\ taken' = taken
              \/ faults = {} /\ fd = "kms" /\ taken' = taken \ {device}
              \/ faults = {} /\ fd # "kms" /\ taken' = taken
BY DEF ReleaseFaults, ReleaseDevice, ReleaseCalls

\* The device, then the terminal, is set up, or all of it is undone.
LEMMA NodeSettled ==
    ASSUME SessionInv,
           Authenticate \/ SetClientCaps \/ OpenTerminal \/ DisableKeyboard
             \/ SetGraphics \/ FreeKmsDev
    PROVE  SessionInv'
<1> USE DEF SessionInv, SessionTypeOK, TerminalInv, DevicesInv, OpenInv,
        ReturnInv, Zeroed, Failed,
        Whole, Opening, Settling, Calls, Descriptors, KbModes, Succeeds, Fails,
        Failing,
        mode, local, seat
<1>1. CASE Authenticate
  <2> USE <1>1 DEF Authenticate
  <2>1. SessionTypeOK' OBVIOUS
  <2>2. TerminalInv' OBVIOUS
  <2>3. OpenInv' OBVIOUS
  <2>4. ReturnInv' OBVIOUS
  <2> QED BY <2>1, <2>2, <2>3, <2>4
<1>2. CASE SetClientCaps
  <2> USE <1>2 DEF SetClientCaps
  <2>1. SessionTypeOK'
    <3>1. exposed' \in BOOLEAN OBVIOUS
    <3> QED BY <3>1
  <2>2. TerminalInv' OBVIOUS
  <2>3. OpenInv' OBVIOUS
  <2>4. ReturnInv' OBVIOUS
  <2> QED BY <2>1, <2>2, <2>3, <2>4
<1>3. CASE OpenTerminal
  <2> USE <1>3 DEF OpenTerminal
  <2>1. SessionTypeOK'
    <3>1. open' \subseteq Descriptors OBVIOUS
    <3> QED BY <3>1
  <2>2. TerminalInv' OBVIOUS
  <2>3. OpenInv' OBVIOUS
  <2>4. ReturnInv' OBVIOUS
  <2> QED BY <2>1, <2>2, <2>3, <2>4
<1>4. CASE DisableKeyboard
  <2> USE <1>4 DEF DisableKeyboard
  <2>1. SessionTypeOK' OBVIOUS
  <2>2. TerminalInv' OBVIOUS
  <2>3. OpenInv' OBVIOUS
  <2>4. ReturnInv' OBVIOUS
  <2> QED BY <2>1, <2>2, <2>3, <2>4
<1>5. CASE SetGraphics
  <2> USE <1>5 DEF SetGraphics
  <2>1. SessionTypeOK' OBVIOUS
  <2>2. TerminalInv' OBVIOUS
  <2>3. OpenInv' OBVIOUS
  <2>4. ReturnInv' OBVIOUS
  <2> QED BY <2>1, <2>2, <2>3, <2>4
<1>6. CASE FreeKmsDev
  <2> USE <1>6 DEF FreeKmsDev
  <2>1. PICK faults \in ReleaseFaults(kmsfd) :
           ReleaseDevice(kmsfd, faults) /\ failed' = failed \cup faults
    OBVIOUS
  <2> HIDE DEF ReleaseCalls
  <2>2. /\ faults \subseteq Faults
        /\ "fstat" \notin faults => open' = open \ {kmsfd}
        /\ "fstat" \in faults => open' = open
        /\ \/ "fstat" \in faults /\ taken' = taken
           \/ "release_device" \in faults /\ taken' = taken
           \/ faults = {} /\ kmsfd = "kms" /\ taken' = taken \ {device}
           \/ faults = {} /\ kmsfd # "kms" /\ taken' = taken
    BY <2>1, DeviceReleased
  <2>3. open' \subseteq open /\ taken' \subseteq taken /\ failed \subseteq failed'
    BY <2>1, <2>2
  <2>4. SessionTypeOK'
    <3>1. failed' \subseteq Faults BY <2>1, <2>2
    <3> QED BY <2>3, <3>1
  <2>5. TerminalInv'
    <3>1. "stdin" \in open' BY <2>2
    <3> QED BY <2>3, <3>1
  <2>6. OpenInv' BY <2>3
  <2>7. ReturnInv'
    <3>1. "kms" \notin open' \/ "fstat" \in failed' BY <2>1, <2>2
    <3>2. "reply" \in failed' \/ "release_device" \in failed' \/ taken' = {}
            \/ (taken' = {device'} /\ "kms" \in open')
      BY <2>1, <2>2
    <3> QED BY <3>1, <3>2
  <2> QED BY <2>4, <2>5, <2>6, <2>7
<1> QED BY <1>1, <1>2, <1>3, <1>4, <1>5, <1>6

\* exit_error, and the way there once there is a node.
LEMMA SessionDestroyed ==
    ASSUME SessionInv, Continue \/ DestroyNode \/ DestroySession
    PROVE  SessionInv'
<1> USE DEF SessionInv, SessionTypeOK, TerminalInv, DevicesInv, OpenInv,
        ReturnInv, Zeroed, Failed,
        Whole, Opening, Settling, Calls, Descriptors, KbModes, mode, local, seat
<1>1. CASE Continue
  <2> USE <1>1 DEF Continue
  <2>1. SessionTypeOK' OBVIOUS
  <2>2. TerminalInv' OBVIOUS
  <2>3. OpenInv' OBVIOUS
  <2>4. ReturnInv' OBVIOUS
  <2> QED BY <2>1, <2>2, <2>3, <2>4
<1>2. CASE DestroyNode
  <2> USE <1>2 DEF DestroyNode
  <2>a. CASE node.kmsFd = "none"
    <3>0. UNCHANGED <<mode, local, vt, open, taken, failed, node, session, control>>
      BY <2>a
    <3>1. SessionTypeOK' BY ONLY <3>0, <1>2, SessionInv
      DEF DestroyNode, SessionInv, SessionTypeOK, mode, local
    <3>2. TerminalInv'
      <4>1. node = Failed /\ pc = "exit_error" /\ pc' = "free_session" BY <2>a
      <4>2. vt.display = "text" BY <4>1
      <4>3. vt.keyboard = "unicode" \/ "graphics" \in failed BY <4>1
      <4> QED BY ONLY <3>0, <4>1, <4>2, <4>3, SessionInv
          DEF SessionInv, TerminalInv, Calls, Whole, Failed, local
    <3>3. OpenInv' BY <3>0
    <3>4. ReturnInv'
      <4>1. node # Whole BY <2>a
      <4>2. pc = "exit_error" /\ pc' = "free_session" OBVIOUS
      <4>3. "kms" \notin open \/ "fstat" \in failed BY <4>1, <4>2
      <4> QED BY ONLY <3>0, <4>2, <4>3, SessionInv
          DEF SessionInv, DevicesInv, ReturnInv, local
    <3> QED BY <3>1, <3>2, <3>3, <3>4
  <2>b. CASE node.kmsFd # "none"
    <3>1. PICK faults \in ReleaseFaults(node.kmsFd),
               resets \in SUBSET (ResetCalls \cap Faults) :
             /\ vt' = VtReset(node, resets)
             /\ ReleaseDevice(node.kmsFd, faults)
             /\ failed' = failed \cup faults \cup resets
      BY <2>b
    <3> DEFINE fd == node.kmsFd
    <3>2. /\ faults \subseteq Faults
          /\ "fstat" \notin faults => open' = open \ {fd}
          /\ "fstat" \in faults => open' = open
          /\ \/ "fstat" \in faults /\ taken' = taken
             \/ "release_device" \in faults /\ taken' = taken
             \/ faults = {} /\ fd = "kms" /\ taken' = taken \ {device}
             \/ faults = {} /\ fd # "kms" /\ taken' = taken
      BY <3>1, DeviceReleased
    <3>3. /\ open' \subseteq open /\ taken' \subseteq taken
          /\ failed \subseteq failed' /\ failed' \subseteq Faults
      BY <3>1, <3>2
    <3>4. node \in {Zeroed, Whole} /\ node' = node /\ fd \in {"stdin", "kms"}
      BY <2>b
    <3>5. /\ vt' = [keyboard |-> IF "reset_keyboard" \in resets
                                   THEN vt.keyboard ELSE node.kbmode,
                    display  |-> IF "reset_display" \in resets
                                   THEN vt.display ELSE "text"]
          /\ node.kbmode \in KbModes
      BY <3>1, <3>4 DEF VtReset
    <3>6. /\ vt'.display = "text" \/ "reset_display" \in failed'
          /\ vt'.display = "text" \/ vt'.display = vt.display
          /\ node = Whole => vt'.keyboard = "unicode" \/ "reset_keyboard" \in failed'
      BY <3>1, <3>5
    <3>7. SessionTypeOK'
      <4>1. vt' \in [keyboard : KbModes, display : {"text", "graphics"}]
        BY <3>5
      <4> QED BY <3>3, <4>1
    <3>8. TerminalInv'
      <4>1. node # Zeroed => node = Whole /\ "stdin" \in open'
        BY <3>2, <3>4
      <4> QED BY <3>4, <3>6, <4>1
    <3>9. OpenInv' BY <3>3
    <3>10. ReturnInv'
      <4>1. "kms" \notin open' \/ "fstat" \in failed' BY <3>1, <3>2, <3>4
      <4>2. "reply" \in failed' \/ "release_device" \in failed' \/ taken' = {}
              \/ (taken' = {device'} /\ "kms" \in open')
        BY <3>1, <3>2, <3>4
      <4> QED BY <4>1, <4>2
    <3> QED BY <3>7, <3>8, <3>9, <3>10
  <2> QED BY <2>a, <2>b
<1>3. CASE DestroySession
  <2> USE <1>3 DEF DestroySession, Failing
  <2>0. failed \subseteq failed' /\ failed' \subseteq Faults /\ taken' \subseteq taken
    OBVIOUS
  <2>1. SessionTypeOK'
    <3>1. session' \in {"none", "bus", "path"} OBVIOUS
    <3>2. control' \in BOOLEAN /\ taken' \subseteq 1..Devices OBVIOUS
    <3> QED BY <2>0, <3>1, <3>2
  <2>2. TerminalInv' BY <2>0
  <2>3. OpenInv' OBVIOUS
  <2>4. ReturnInv'
    <3>1. ~control' \/ "release_control" \in failed' OBVIOUS
    <3>2. taken' = {} \/ taken' = taken OBVIOUS
    <3> QED BY <2>0, <3>1, <3>2
  <2> QED BY <2>1, <2>2, <2>3, <2>4
<1> QED BY <1>1, <1>2, <1>3

-----------------------------------------------------------------------------
(***************************************************************************)
(* The output chain.                                                       *)
(***************************************************************************)
\* Nothing is allocated.
LEMMA ChainStarts == ChainInit => ChainInv
<1> SUFFICES ASSUME ChainInit PROVE ChainInv
    OBVIOUS
<1> USE ChainAssumption DEF ChainInit
<1>1. ChainTypeOK
  <2>1. step \in Steps /\ badFree \in BOOLEAN BY DEF Steps
  <2>2. /\ i \in 1..(Connectors + 1)
        /\ {connector, encoder, crtc} \subseteq 0..Connectors
    OBVIOUS
  <2>3. plane \in 0..Planes OBVIOUS
  <2> QED BY <2>1, <2>2, <2>3 DEF ChainTypeOK
<1>2. PointersInv BY DEF PointersInv
<1>3. HeapInv BY DEF HeapInv, Walking
<1>4. PlaneInv BY DEF PlaneInv
<1> QED BY <1>1, <1>2, <1>3, <1>4 DEF ChainInv

\* Every call of the search, its failures, and the destruction.
LEMMA ChainStep ==
    ASSUME ChainInv, UNCHANGED exposed, CreateChain \/ DestroyChain
    PROVE  ChainInv'
<1> USE ChainAssumption
    DEF ChainInv, ChainTypeOK, PointersInv, HeapInv, PlaneInv, Steps, Kinds,
        Walking, Chained, Object, Clones, Allocate, Free, Resources,
        PlaneObjects, ShowsCrtc, pointers
<1>1. CASE GetResources
  <2> USE <1>1 DEF GetResources
  <2>1. ChainTypeOK' OBVIOUS
  <2>2. PointersInv' OBVIOUS
  <2>3. HeapInv' OBVIOUS
  <2>4. PlaneInv' OBVIOUS
  <2> QED BY <2>1, <2>2, <2>3, <2>4
<1>2. CASE GetPlanes
  <2> USE <1>2 DEF GetPlanes
  <2>1. ChainTypeOK' OBVIOUS
  <2>2. PointersInv' OBVIOUS
  <2>3. HeapInv' OBVIOUS
  <2>4. PlaneInv' OBVIOUS
  <2> QED BY <2>1, <2>2, <2>3, <2>4
<1>3. CASE GetConnector
  <2> USE <1>3 DEF GetConnector
  <2>1. ChainTypeOK' OBVIOUS
  <2>2. PointersInv' OBVIOUS
  <2>3. HeapInv' OBVIOUS
  <2>4. PlaneInv' OBVIOUS
  <2> QED BY <2>1, <2>2, <2>3, <2>4
<1>4. CASE NoConnectorLeft
  <2> USE <1>4 DEF NoConnectorLeft
  <2>1. ChainTypeOK' OBVIOUS
  <2>2. PointersInv' OBVIOUS
  <2>3. HeapInv' OBVIOUS
  <2>4. PlaneInv' OBVIOUS
  <2> QED BY <2>1, <2>2, <2>3, <2>4
<1>5. CASE GetEncoder
  <2> USE <1>5 DEF GetEncoder
  <2>1. ChainTypeOK' OBVIOUS
  <2>2. PointersInv' OBVIOUS
  <2>3. HeapInv' OBVIOUS
  <2>4. PlaneInv' OBVIOUS
  <2> QED BY <2>1, <2>2, <2>3, <2>4
<1>6. CASE GetCrtc
  <2> USE <1>6 DEF GetCrtc, ShownOn, Showing, Idle
  <2>1. ChainTypeOK' OBVIOUS
  <2>2. PointersInv' OBVIOUS
  <2>3. HeapInv' OBVIOUS
  <2>4. PlaneInv' OBVIOUS
  <2> QED BY <2>1, <2>2, <2>3, <2>4
<1>7. CASE FindPlane
  <2> USE <1>7 DEF FindPlane
  <2>1. ChainTypeOK' OBVIOUS
  <2>2. PointersInv' OBVIOUS
  <2>3. HeapInv' OBVIOUS
  <2>4. PlaneInv' OBVIOUS
  <2> QED BY <2>1, <2>2, <2>3, <2>4
<1>8. CASE NextConnector
  <2> USE <1>8 DEF NextConnector
  <2>1. ChainTypeOK' OBVIOUS
  <2>2. PointersInv' OBVIOUS
  <2>3. HeapInv' OBVIOUS
  <2>4. PlaneInv' OBVIOUS
  <2> QED BY <2>1, <2>2, <2>3, <2>4
<1>9. CASE FailChain
  <2> USE <1>9 DEF FailChain
  <2>1. ChainTypeOK' OBVIOUS
  <2>2. PointersInv' OBVIOUS
  <2>3. HeapInv'
    <3>1. CASE step = "err_encoder" BY <3>1
    <3>2. CASE step = "err_connector" BY <3>2
    <3>3. CASE step = "err_planes" BY <3>3
    <3> QED BY <3>1, <3>2, <3>3
  <2>4. PlaneInv' OBVIOUS
  <2> QED BY <2>1, <2>2, <2>3, <2>4
<1>10. CASE DestroyChain
  <2> USE <1>10 DEF DestroyChain
  <2>1. ChainTypeOK' OBVIOUS
  <2>2. PointersInv' OBVIOUS
  <2>3. HeapInv' OBVIOUS
  <2>4. PlaneInv' OBVIOUS
  <2> QED BY <2>1, <2>2, <2>3, <2>4
<1> QED BY <1>1, <1>2, <1>3, <1>4, <1>5, <1>6, <1>7, <1>8, <1>9, <1>10
    DEF CreateChain

-----------------------------------------------------------------------------
(***************************************************************************)
(* The buffers.                                                            *)
(***************************************************************************)
\* calloc: no buffer has a handle.
LEMMA BuffersStart == BuffersInit => BuffersInv
<1> SUFFICES ASSUME BuffersInit PROVE BuffersInv
    OBVIOUS
<1> USE BuffersAssumption DEF BuffersInit, Buffers
<1>1. Cleared \in Objects BY DEF Cleared, Objects
<1>2. bois \in Array BY <1>1 DEF Array
<1>3. \A n \in Buffers : HandleInv(n) BY DEF HandleInv, Cleared
<1>4. GemInv BY DEF GemInv
<1>5. b \in Buffers /\ at = "device" OBVIOUS
<1>6. gem \subseteq Handles /\ fbs \subseteq Buffers /\ dmabufs \in Nat OBVIOUS
<1>7. \A n \in Buffers : bois[n] \in Objects BY <1>2 DEF Array
<1>8. BuffersTypeOK
  <2>1. complete \in BOOLEAN /\ gbmdev \in BOOLEAN OBVIOUS
  <2> QED BY <1>5, <1>6, <1>7, <2>1 DEF BuffersTypeOK, Objects
<1> QED BY <1>2, <1>3, <1>4, <1>8 DEF BuffersInv, IndexInv

\* The array stays one when a call fills in the fields of an object, and the
\* other objects stay as they are.
LEMMA FieldsFilled ==
    ASSUME bois \in Array, NEW k \in Buffers
    PROVE  /\ \A h \in 0..MaxHandle : [bois EXCEPT ![k].handle = h] \in Array
           /\ [bois EXCEPT ![k].fbid = TRUE] \in Array
           /\ \A planes \in PlaneCounts, fds \in SUBSET Nat :
                 [bois EXCEPT ![k].planeCount = planes,
                              ![k].dmaBufFds = fds] \in Array
<1>1. bois[k] \in Objects BY DEF Array
<1>2. ASSUME NEW h \in 0..MaxHandle
      PROVE  [bois EXCEPT ![k].handle = h] \in Array
  <2>1. [bois[k] EXCEPT !.handle = h] \in Objects BY <1>1 DEF Objects
  <2> QED BY <2>1 DEF Array
<1>3. [bois EXCEPT ![k].fbid = TRUE] \in Array
  <2>1. [bois[k] EXCEPT !.fbid = TRUE] \in Objects BY <1>1 DEF Objects
  <2> QED BY <2>1 DEF Array
<1>4. ASSUME NEW planes \in PlaneCounts, NEW fds \in SUBSET Nat
      PROVE  [bois EXCEPT ![k].planeCount = planes, ![k].dmaBufFds = fds] \in Array
  <2>1. [bois[k] EXCEPT !.planeCount = planes, !.dmaBufFds = fds] \in Objects
    BY <1>1 DEF Objects
  <2> QED BY <2>1 DEF Array
<1> QED BY <1>2, <1>3, <1>4

\* As long as no buffer object has gone, no handle has been closed.
LEMMA NothingClosed ==
    ASSUME BuffersInv, at \in {"bo", "planes", "addfb", "created"}
    PROVE  /\ \A h : ~ClosedByNumber(h)
           /\ \A n \in Buffers : bois[n].handle # 0 => bois[n].handle \in gem
           /\ DriverHandles \subseteq gem
<1>1. \A h : ~ClosedByNumber(h)
  BY DEF BuffersInv, HandleInv, ClosedByNumber
<1>2. gbmdev BY DEF BuffersInv, IndexInv
<1> QED BY <1>1, <1>2 DEF BuffersInv, HandleInv, GemInv

\* Before the GBM device is created and after it is gone, the kernel has nothing
\* of the buffers.
LEMMA NothingHeld ==
    ASSUME BuffersInv, at \in {"device", "failed", "destroyed"}
    PROVE  ~gbmdev /\ gem = {} /\ fbs = {}
<1>1. ~gbmdev BY DEF BuffersInv, IndexInv
<1>2. \A n \in Buffers : bois[n].handle = 0 BY DEF BuffersInv, HandleInv
<1>3. fbs = {} BY <1>2 DEF BuffersInv, BuffersTypeOK, HandleInv
<1>4. \A h \in gem : h # 0 BY DEF BuffersInv, BuffersTypeOK, Handles
<1> QED BY <1>1, <1>2, <1>3, <1>4 DEF BuffersInv, GemInv

\* A handle that has been closed by number stays so while others are.
LEMMA StaysClosed ==
    ASSUME \A m \in Buffers :
              bois[m].handle = 0 => bois'[m].handle = 0
                                    /\ bois'[m].dmaBufFds = bois[m].dmaBufFds,
           NEW h, ClosedByNumber(h)
    PROVE  ClosedByNumber(h)'
BY DEF ClosedByNumber, Buffers

\* Every call of the creation, its failures, and the destruction.
LEMMA BuffersStep ==
    ASSUME BuffersInv, CreateBuffers \/ DestroyBuffers \/ ReleaseBuffers
    PROVE  BuffersInv'
<1>0. bois \in Array /\ b \in Buffers
  BY DEF BuffersInv, BuffersTypeOK
<1>handle. \A h \in 0..MaxHandle : [bois EXCEPT ![b].handle = h] \in Array
  BY <1>0, FieldsFilled
<1>planes. \A planes \in PlaneCounts, fds \in SUBSET Nat :
        [bois EXCEPT ![b].planeCount = planes, ![b].dmaBufFds = fds] \in Array
  BY <1>0, FieldsFilled
<1> USE BuffersAssumption
    DEF BuffersInv, BuffersTypeOK, Array, Objects, HandleInv, IndexInv, GemInv,
        Buffers, Handles, LoopDone, CleanUp
<1>1. CASE CreateDevice
  <2> USE <1>1 DEF CreateDevice
  <2>1. BuffersTypeOK' OBVIOUS
  <2>2. bois' \in Array OBVIOUS
  <2>3. gem = {} /\ fbs = {} BY NothingHeld
  <2>4. gem' = IF gbmdev' THEN DriverHandles ELSE {} BY <2>3
  <2>5. GemInv' BY <2>4
  <2>6. \A n \in Buffers : bois[n].handle = 0 /\ bois'[n] = bois[n] OBVIOUS
  <2>7. \A n \in Buffers : HandleInv(n)'
    <3>1. \A n \in Buffers : bois[n].dmaBufFds = {} OBVIOUS
    <3>2. fbs' = {} BY <2>3
    <3>3. at' \in {"bo", "failed"} /\ b' = 1 OBVIOUS
    <3> QED BY <2>6, <3>1, <3>2, <3>3
  <2>8. IndexInv' OBVIOUS
  <2> QED BY ONLY <2>1, <2>2, <2>5, <2>7, <2>8 DEF BuffersInv
<1>2. CASE CreateBo
  <2> USE <1>2 DEF CreateBo
  <2>a. CASE \E h \in Handles :
                /\ FreeHandle(h)
                /\ bois' = [bois EXCEPT ![b].handle = h]
                /\ gem' = gem \cup {h}
                /\ LoopDone("bo", "planes")
    <3>1. PICK h \in Handles :
             /\ h \notin gem
             /\ bois' = [bois EXCEPT ![b].handle = h]
             /\ gem' = gem \cup {h}
             /\ LoopDone("bo", "planes")
      BY <2>a DEF FreeHandle
    <3>2. bois' \in Array
      <4> HIDE DEF Array, Objects
      <4>1. h \in 0..MaxHandle OBVIOUS
      <4> QED BY ONLY <3>1, <4>1, <1>handle
    <3>3. BuffersTypeOK'
      <4>1. b' \in Buffers /\ gem' \subseteq Handles BY <3>1
      <4> QED BY <3>2, <4>1, <3>1
    <3>4. /\ bois'[b].handle = h /\ h # 0
          /\ bois'[b].dmaBufFds = bois[b].dmaBufFds
          /\ \A n \in Buffers : n # b => bois'[n] = bois[n]
      BY <3>1
    <3>5. GemInv'
      BY <3>1, <3>4, NothingClosed
    <3>6. \A n \in Buffers : HandleInv(n)'
      <4>1. /\ DriverHandles \subseteq gem /\ h \notin gem /\ gem' = gem \cup {h}
            /\ \A n \in Buffers : bois[n].handle \in gem \cup {0}
        BY <3>1, NothingClosed
      <4>2. \A n \in Buffers : /\ HandleInv(n) /\ (bois[n].handle # 0 <=> n < b)
                               /\ bois[n].dmaBufFds = {}
        OBVIOUS
      <4>3. /\ b \in 1..BufferCount /\ fbs' = fbs
            /\ \/ at' = "bo" /\ b' = b + 1
               \/ at' = "planes" /\ b = BufferCount
        BY <3>1
      <4>4. \A n \in Buffers : /\ bois'[n].fbid = bois[n].fbid
                               /\ bois'[n].dmaBufFds = {}
        BY <3>1, <4>2
      <4>5. \A n, m \in Buffers :
               bois'[n].handle # 0 /\ bois'[m].handle = bois'[n].handle => m = n
        BY ONLY <3>4, <4>1, <4>2 DEF HandleInv
      <4>6. \A n \in Buffers :
               /\ bois'[n].handle # 0 => bois'[n].handle \in gem' \ DriverHandles
               /\ n \in fbs => bois'[n].fbid /\ bois'[n].handle # 0
        BY ONLY <3>4, <4>1, <4>2, <4>4 DEF HandleInv
      <4>7. \A n \in Buffers : /\ at' = "bo" => (bois'[n].handle # 0 <=> n < b')
                               /\ at' = "planes" => bois'[n].handle # 0
        BY ONLY <3>4, <4>2, <4>3 DEF Buffers
      <4> QED BY ONLY <4>3, <4>4, <4>5, <4>6, <4>7 DEF HandleInv
    <3>7. IndexInv' BY <3>1
    <3> QED BY ONLY <3>2, <3>3, <3>5, <3>6, <3>7 DEF BuffersInv
  <2>b. CASE CleanUp /\ UNCHANGED <<bois, gem>>
    <3> USE <2>b
    <3>1. BuffersTypeOK' OBVIOUS
    <3>2. bois' \in Array OBVIOUS
    <3>3. GemInv' BY DEF ClosedByNumber
    <3>4. \A n \in Buffers : HandleInv(n)' BY DEF ClosedByNumber
    <3>5. IndexInv' OBVIOUS
    <3> QED BY ONLY <3>1, <3>2, <3>3, <3>4, <3>5 DEF BuffersInv
  <2> QED BY <2>a, <2>b
<1>3. CASE ExportPlanes
  <2> USE <1>3 DEF ExportPlanes
  <2>1. PICK planes \in PlaneCounts : \E exported \in 0..planes :
           bois' = [bois EXCEPT
              ![b].planeCount = planes,
              ![b].dmaBufFds = {FirstFd + dmabufs + p : p \in 0..(exported - 1)}]
    BY ONLY <1>3 DEF ExportPlanes
  <2>2. bois' \in Array
    <3> HIDE DEF Array, Objects
    <3>1. \A exported \in 0..planes :
             {FirstFd + dmabufs + p : p \in 0..(exported - 1)} \in SUBSET Nat
      OBVIOUS
    <3> QED BY ONLY <2>1, <3>1, <1>planes
  <2>3. BuffersTypeOK'
    <3>1. dmabufs' \in Nat
      BY BuffersAssumption
    <3>2. \A n \in Buffers : /\ bois'[n].handle \in 0..MaxHandle
                             /\ bois'[n].planeCount \in PlaneCounts \cup {0}
                             /\ bois'[n].dmaBufFds \subseteq Nat
                             /\ bois'[n].fbid \in BOOLEAN
      BY ONLY <2>2 DEF Array, Objects
    <3> QED BY <3>1, <3>2
  <2>4. \A n \in Buffers : /\ bois'[n].handle = bois[n].handle
                           /\ bois'[n].fbid = bois[n].fbid
    BY <2>1
  <2>a. /\ GemInv /\ DriverHandles \subseteq gem /\ UNCHANGED <<gbmdev, gem, fbs>>
        /\ \A n \in Buffers : HandleInv(n) /\ bois[n].handle \in gem \ {0}
    BY NothingClosed
  <2>b. at' = "addfb" \/ (at' = "rmfb" /\ b' = 1)
    OBVIOUS
  <2>5. GemInv'
    BY ONLY <2>4, <2>a DEF GemInv
  <2>6. \A n \in Buffers : HandleInv(n)'
    BY ONLY <2>4, <2>a, <2>b DEF HandleInv, Buffers
  <2>7. IndexInv' OBVIOUS
  <2> QED BY ONLY <2>2, <2>3, <2>5, <2>6, <2>7 DEF BuffersInv
<1>4. CASE AddFb
  <2> USE <1>4 DEF AddFb
  <2>1. bois' \in Array
    <3> HIDE DEF Array, Objects
    <3>1. CASE bois' = bois BY <3>1
    <3>2. CASE bois' = [bois EXCEPT ![b].fbid = TRUE] BY <3>2, <1>0, FieldsFilled
    <3> QED BY <3>1, <3>2
  <2>2. BuffersTypeOK'
    <3>1. b' \in Buffers /\ fbs' \subseteq Buffers OBVIOUS
    <3>2. complete' \in BOOLEAN OBVIOUS
    <3> QED BY <2>1, <3>1, <3>2
  <2>3. \A n \in Buffers : bois'[n].handle = bois[n].handle
    <3>1. CASE bois' = bois BY <3>1
    <3>2. CASE bois' = [bois EXCEPT ![b].fbid = TRUE] BY <3>2
    <3> QED BY <3>1, <3>2
  <2>4. GemInv' BY <2>3, NothingClosed
  <2>5. \A n \in Buffers : HandleInv(n)'
    <3>1. \A n \in Buffers : bois[n].handle # 0 /\ bois[n].handle \in gem'
      BY NothingClosed
    <3>2. \A n \in fbs' : bois'[n].fbid
      <4>1. CASE bois' = bois /\ fbs' = fbs BY <4>1
      <4>2. CASE bois' = [bois EXCEPT ![b].fbid = TRUE] /\ fbs' = fbs \cup {b}
        BY <4>2
      <4> QED BY <4>1, <4>2
    <3>3. at' \in {"planes", "created", "rmfb"} /\ (at' = "rmfb" => b' = 1)
      OBVIOUS
    <3> QED BY <2>3, <3>1, <3>2, <3>3
  <2>6. IndexInv' OBVIOUS
  <2> QED BY ONLY <2>1, <2>2, <2>4, <2>5, <2>6 DEF BuffersInv
<1>5. CASE DestroyBuffers
  <2> USE <1>5 DEF DestroyBuffers
  <2>1. BuffersTypeOK' OBVIOUS
  <2>2. bois' \in Array OBVIOUS
  <2>3. GemInv' BY DEF ClosedByNumber
  <2>4. \A n \in Buffers : HandleInv(n)' BY DEF ClosedByNumber
  <2>5. IndexInv' OBVIOUS
  <2> QED BY ONLY <2>1, <2>2, <2>3, <2>4, <2>5 DEF BuffersInv
<1>6. CASE RemoveFb
  <2> USE <1>6 DEF RemoveFb
  <2>1. BuffersTypeOK' OBVIOUS
  <2>2. bois' \in Array OBVIOUS
  <2>3. GemInv' BY DEF ClosedByNumber
  <2>4. \A n \in Buffers : HandleInv(n)' BY DEF ClosedByNumber
  <2>5. IndexInv' OBVIOUS
  <2> QED BY ONLY <2>1, <2>2, <2>3, <2>4, <2>5 DEF BuffersInv
<1>7. CASE DestroyBo
  <2> USE <1>7 DEF DestroyBo
  <2>1. BuffersTypeOK' OBVIOUS
  <2>2. bois' \in Array
    <3> HIDE DEF Array, Objects
    <3>1. 0 \in 0..MaxHandle /\ bois' = [bois EXCEPT ![b].handle = 0] OBVIOUS
    <3> QED BY ONLY <3>1, <1>handle
  <2>3. /\ bois'[b].handle = 0
        /\ \A n \in Buffers : bois'[n].dmaBufFds = bois[n].dmaBufFds
        /\ \A n \in Buffers : n # b => bois'[n] = bois[n]
    OBVIOUS
  <2>4. \A h : ClosedByNumber(h) => ClosedByNumber(h)'
    BY <2>3, StaysClosed
  <2>5. GemInv' BY <2>3, <2>4
  <2>6. \A n \in Buffers : HandleInv(n)' BY <2>3, <2>4
  <2>7. IndexInv' OBVIOUS
  <2> QED BY ONLY <2>1, <2>2, <2>5, <2>6, <2>7 DEF BuffersInv
<1>8. CASE CloseHandles
  <2> USE <1>8 DEF CloseHandles
  <2>1. BuffersTypeOK'
    <3>1. gem' \subseteq gem /\ gem \subseteq Handles
      BY <1>8 DEF CloseHandles
    <3>2. b' \in Buffers OBVIOUS
    <3>3. at' \in {"rmfb", "free_device"} OBVIOUS
    <3> QED BY <3>1, <3>2, <3>3
  <2>2. bois' \in Array OBVIOUS
  <2>3. \A h : ClosedByNumber(h) => ClosedByNumber(h)'
    BY DEF ClosedByNumber
  <2>4. \A h \in gem : h \notin gem' => ClosedByNumber(h)'
    BY DEF ClosedByNumber
  <2>5. GemInv' BY <2>3, <2>4
  <2>6. \A n \in Buffers : HandleInv(n)' BY <2>3, <2>4
  <2>7. IndexInv' OBVIOUS
  <2> QED BY ONLY <2>1, <2>2, <2>5, <2>6, <2>7 DEF BuffersInv
<1>9. CASE FreeDevice
  <2> USE <1>9 DEF FreeDevice
  <2>1. BuffersTypeOK' OBVIOUS
  <2>2. bois' \in Array OBVIOUS
  <2>3. GemInv' BY DEF ClosedByNumber
  <2>4. \A n \in Buffers : HandleInv(n)' BY DEF ClosedByNumber
  <2>5. IndexInv' OBVIOUS
  <2> QED BY ONLY <2>1, <2>2, <2>3, <2>4, <2>5 DEF BuffersInv
<1> QED BY <1>1, <1>2, <1>3, <1>4, <1>5, <1>6, <1>7, <1>8, <1>9
    DEF CreateBuffers, ReleaseBuffers

-----------------------------------------------------------------------------
(***************************************************************************)
(* The program: each part keeps its invariant while another one moves.     *)
(***************************************************************************)
\* A step of another part changes no variable of this one.
LEMMA SessionRests == SessionInv /\ UNCHANGED sessionVars => SessionInv'
BY DEF SessionInv, sessionVars, SessionTypeOK, TerminalInv, DevicesInv, OpenInv,
       ReturnInv

\* The same for the chain; the capabilities of the descriptor are still set
\* before the search for a chain begins.
LEMMA ChainRests ==
    ChainInv /\ UNCHANGED chainVars /\ (UNCHANGED exposed \/ step = "resources")
       => ChainInv'
BY DEF ChainInv, chainVars, ChainTypeOK, PointersInv, HeapInv, PlaneInv, Chained,
       Object, Clones, ShowsCrtc

\* The same for the buffers.
LEMMA BuffersRest == BuffersInv /\ UNCHANGED bufferVars => BuffersInv'
BY DEF BuffersInv, bufferVars, BuffersTypeOK, HandleInv, IndexInv, GemInv,
       ClosedByNumber

\* The parts together, in the beginning.
LEMMA Starts == Init => Inv
BY SessionStarts, ChainStarts, BuffersStart
   DEF Init, Inv, Coupled, SessionInit, ChainInit, BuffersInit, Calls

\* Every step of the program, whichever part takes it.
LEMMA ProgramStep == Inv /\ [Next]_vars => Inv'
<1> SUFFICES ASSUME Inv, [Next]_vars PROVE Inv'
    OBVIOUS
<1> USE DEF Inv
<1>1. CASE CreateKmsNode
  <2> USE <1>1 DEF CreateKmsNode
  <2>1. SessionInv'
    BY SessionCreated, DeviceOpened, NodeSettled DEF CreateNode
  <2>2. /\ pc \in Calls \cup {"free_kms_dev"}
        /\ pc' \notin {"buffers", "free_session", "done"}
    BY DEF CreateNode, CreateInstance, FindSession, OpenBus, FindPath, Activate,
           TakeControl, FindDevices, OpenDevice, OpenDeviceFails, ReplyFails,
           Authenticate, SetClientCaps, OpenTerminal, DisableKeyboard,
           SetGraphics, FreeKmsDev, Succeeds, Fails,
        Failing, Create, Opened, NextDevice,
           Calls
  <2>3. step = "resources" /\ at \in {"device", "failed", "destroyed"}
    BY <2>2 DEF Coupled, Calls
  <2>4. ChainInv' BY <2>3, ChainRests
  <2>5. BuffersInv' BY BuffersRest
  <2>6. Coupled' BY <2>2, <2>3 DEF Coupled, chainVars, bufferVars
  <2> QED BY <2>1, <2>4, <2>5, <2>6
<1>2. CASE FindChain
  <2> USE <1>2 DEF FindChain
  <2>1. SessionInv' BY SessionRests
  <2>2. ChainInv' BY ChainStep DEF sessionVars
  <2>3. BuffersInv' BY BuffersRest
  <2>4. explicit \/ exposed BY DEF SessionInv, DevicesInv, OpenInv
  <2>5. Coupled' BY <2>4 DEF Coupled, sessionVars, bufferVars, Calls
  <2> QED BY <2>1, <2>2, <2>3, <2>5
<1>3. CASE AllocateBuffers
  <2> USE <1>3 DEF AllocateBuffers
  <2>1. SessionInv' BY SessionRests
  <2>2. ChainInv' BY ChainRests DEF sessionVars
  <2>3. BuffersInv' BY BuffersStep
  <2>4. node = Whole BY DEF SessionInv, TerminalInv
  <2>5. Coupled' BY <2>4 DEF Coupled, sessionVars, chainVars, Calls
  <2> QED BY <2>1, <2>2, <2>3, <2>5
<1>4. CASE Continue
  <2> USE <1>4 DEF Continue
  <2>1. SessionInv' BY SessionDestroyed
  <2>2. ChainInv' BY ChainRests DEF local
  <2>3. BuffersInv' BY BuffersRest
  <2>4. Coupled' BY DEF Coupled, mode, local, chainVars, bufferVars, Calls
  <2> QED BY <2>1, <2>2, <2>3, <2>4
<1>5. CASE DestroyKmsBuffers
  <2> USE <1>5 DEF DestroyKmsBuffers
  <2>1. SessionInv' BY SessionRests
  <2>2. ChainInv' BY ChainRests DEF sessionVars
  <2>3. BuffersInv' BY BuffersStep
  <2>4. at \notin {"device", "failed", "destroyed"}
    BY DEF DestroyBuffers, ReleaseBuffers, RemoveFb, DestroyBo, CloseHandles,
           FreeDevice
  <2>5. Coupled' BY <2>4 DEF Coupled, sessionVars, chainVars, Calls
  <2> QED BY <2>1, <2>2, <2>3, <2>5
<1>6. CASE DestroyKmsNode
  <2> USE <1>6 DEF DestroyKmsNode
  <2>1. SessionInv' BY SessionDestroyed
  <2>2. ChainInv' BY ChainStep DEF DestroyNode, local
  <2>3. BuffersInv' BY BuffersRest
  <2>4. Coupled'
    BY DEF Coupled, DestroyNode, DestroyChain, mode, local, bufferVars, Calls
  <2> QED BY <2>1, <2>2, <2>3, <2>4
<1>7. CASE DestroySession /\ UNCHANGED <<chainVars, bufferVars>>
  <2> USE <1>7
  <2>1. SessionInv' BY SessionDestroyed
  <2>2. ChainInv' BY ChainRests DEF DestroySession, local
  <2>3. BuffersInv' BY BuffersRest
  <2>4. Coupled'
    BY DEF Coupled, DestroySession, mode, local, chainVars, bufferVars, Calls
  <2> QED BY <2>1, <2>2, <2>3, <2>4
<1>8. CASE UNCHANGED vars
  BY <1>8, SessionRests, ChainRests, BuffersRest
     DEF vars, sessionVars, chainVars, bufferVars, Coupled
<1> QED BY <1>1, <1>2, <1>3, <1>4, <1>5, <1>6, <1>7, <1>8 DEF Next, Destroy, Ended

\* The invariant holds in every state of the program.
THEOREM Invariance == Spec => []Inv
BY Starts, ProgramStep, PTL DEF Spec

-----------------------------------------------------------------------------
(***************************************************************************)
(* The properties.                                                         *)
(***************************************************************************)
\* The types of the whole program.
THEOREM TypeCorrect == Spec => []TypeOK
<1>1. Inv => TypeOK BY DEF Inv, SessionInv, ChainInv, BuffersInv, TypeOK
<1> QED BY <1>1, Invariance, PTL

\* The terminal shows text in the end and the keyboard has its mode back, in
\* every run but those in which one of three ioctls fails: the two of vt_reset,
\* and the one of vt_setup that comes after the keyboard is turned off.
THEOREM TerminalIsRestored == Spec => []TerminalRestored
<1>1. Inv => TerminalRestored
  BY DEF Inv, SessionInv, TerminalInv, TerminalRestored, Zeroed, Failed, Whole
<1> QED BY <1>1, Invariance, PTL

\* What logind has not got back in the end, or the kernel, it has not because a
\* call of the release has failed: no failure in the setup leaves any of it.
THEOREM DevicesAreReturned == Spec => []DevicesReturned
<1>1. Inv => DevicesReturned
  BY DEF Inv, SessionInv, DevicesInv, OpenInv, ReturnInv, DevicesReturned
<1> QED BY <1>1, Invariance, PTL

\* stdin stays open once uvr_kms_node_create has been called.
THEOREM StdinIsKept == Spec => []StdinStaysOpen
<1>1. Inv => StdinStaysOpen BY DEF Inv, SessionInv, TerminalInv, StdinStaysOpen
<1> QED BY <1>1, Invariance, PTL

\* No object of libdrm is freed twice, for any number of connectors.
THEOREM NothingFreedTwice == Spec => []FreedOnce
<1>1. Inv => FreedOnce BY DEF Inv, ChainInv, HeapInv, FreedOnce
<1> QED BY <1>1, Invariance, PTL

\* The chain that is returned is connected, and can be read.
THEOREM ChainIsConnected == Spec => []ChainConnected
<1>1. Inv => ChainConnected
  <2> SUFFICES ASSUME Inv, step = "created" PROVE ChainConnected
      BY DEF ChainConnected
  <2>1. connector = i /\ encoder = i /\ crtc = i /\ i \in 1..Connectors
    BY DEF Inv, ChainInv, PointersInv
  <2>2. heap = Chained \cup Clones /\ plane \in 1..Planes /\ ShowsCrtc(plane)
    BY DEF Inv, ChainInv, HeapInv, Walking
  <2>3. shows[plane] = [crtc |-> crtcId, fb |-> fb]
    <3>1. shows[plane] \in [crtc : Crtcs \cup {None}, fb : Fbs \cup {None}]
      BY <2>2 DEF Inv, ChainInv, ChainTypeOK, Showing, Idle
    <3> QED BY <2>2, <3>1 DEF ShowsCrtc
  <2>4. Chained \subseteq heap /\ <<"plane", plane>> \in heap
    BY <2>2 DEF Clones, ShowsCrtc
  <2>5. {<<"connector", i>>, <<"encoder", i>>, <<"crtc", i>>} \subseteq Chained
    BY <2>1, ChainAssumption DEF Chained, Object
  <2> QED BY <2>1, <2>3, <2>4, <2>5 DEF ChainConnected
<1> QED BY <1>1, Invariance, PTL

\* Only a node given by its path can lead to a crtc without a plane.
THEOREM PrimaryIsFound == Spec => []PrimaryFound
<1>1. Inv => PrimaryFound BY DEF Inv, ChainInv, PlaneInv, Coupled, PrimaryFound
<1> QED BY <1>1, Invariance, PTL

\* The only handles that are closed too early are those with the number of a
\* descriptor of a buffer that is gone, wherever the kernel puts descriptors and
\* whatever handles the driver has.
THEOREM HandlesAreKept == Spec => []BuffersKeepHandles
<1>1. Inv => BuffersKeepHandles
  BY DEF Inv, BuffersInv, HandleInv, GemInv, BuffersKeepHandles
<1> QED BY <1>1, Invariance, PTL

\* The descriptor of the node, and the device of logind behind it, outlive the
\* buffers made through it.
THEOREM NodeOutlives == Spec => []NodeOutlivesBuffers
<1>1. Inv => NodeOutlivesBuffers
  <2> SUFFICES ASSUME Inv, gbmdev \/ gem # {} \/ fbs # {}
               PROVE  NodeOutlivesBuffers
      BY DEF NodeOutlivesBuffers
  <2>1. at \notin {"device", "failed", "destroyed"} BY NothingHeld DEF Inv
  <2>2. pc \in {"buffers", "exit_error"} /\ node = Whole
    BY <2>1 DEF Inv, Coupled
  <2> QED BY <2>2
      DEF Inv, SessionInv, DevicesInv, OpenInv, NodeOutlivesBuffers
<1> QED BY <1>1, Invariance, PTL

\* In the end the kernel has nothing of the program left, and libdrm only the
\* planes that show the same framebuffer as the plane of the chain.
THEOREM DisplayIsReturned == Spec => []DisplayReturned
<1>1. Inv => DisplayReturned
  <2> SUFFICES ASSUME Inv, pc = "done" PROVE DisplayReturned
      BY DEF DisplayReturned
  <2>1. at \in {"device", "failed", "destroyed"} /\ step = "destroyed"
    BY DEF Inv, Coupled
  <2>2. ~gbmdev /\ gem = {} /\ fbs = {}
    BY <2>1, NothingHeld DEF Inv
  <2>3. heap \subseteq Clones \ {<<"plane", plane>>} /\ (plane = 0 => heap = {})
    BY <2>1 DEF Inv, ChainInv, HeapInv, Walking
  <2> QED BY <2>2, <2>3 DEF DisplayReturned, Clones
<1> QED BY <1>1, Invariance, PTL
=============================================================================
