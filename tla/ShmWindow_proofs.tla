-------------------------- MODULE ShmWindow_proofs --------------------------
(***************************************************************************)
(* Proofs about ShmWindow: what it keeps of its window, and that it gives  *)
(* back what it has taken, for any number of buffers, any globals asked    *)
(* for and announced, and whichever call fails.                            *)
(***************************************************************************)
EXTENDS ShmWindow, WaylandSurface_proofs

USE BuffersAssumption, CountAssumption, WantedAssumption

PInv == ProgramTypeOK /\ ProgramInv

-----------------------------------------------------------------------------
(***************************************************************************)
(* The steps of the program.                                               *)
(***************************************************************************)

(* What the steps of window and compositor leave alone.                    *)
Idle == UNCHANGED <<coreVars, shmVars>>

(* Every step, by the call it is.                                          *)
LEMMA ProgramSteps ==
  ASSUME [ProgramNext]_programVars
  PROVE  \/ Connect /\ UNCHANGED <<shmVars, vars>>
         \/ GetRegistry /\ UNCHANGED <<shmVars, vars>>
         \/ LearnGlobals /\ UNCHANGED shmVars
         \/ CreateBuffers /\ UNCHANGED vars
         \/ CreateWindowObjects
         \/ UndoWindow
         \/ LeaveLoop
         \/ DestroyProxy /\ UNCHANGED <<shmVars, vars>>
         \/ DestroyBuffers /\ UNCHANGED vars
         \/ Finish /\ UNCHANGED <<shmVars, vars>>
         \/ Idle /\ Next /\ at = "window"
         \/ UNCHANGED programVars
<1>1. CASE Program
  <2>1. CASE ConnectToCompositor
    BY <2>1 DEF ConnectToCompositor, CreateCore
  <2>2. CASE Run
    BY <2>2 DEF Run, Idle, Next
  <2>3. CASE Teardown
    BY <2>3 DEF Teardown
  <2>4. CASE End
    BY <2>4 DEF End
  <2> QED BY <1>1, <2>1, <2>2, <2>3, <2>4 DEF Program
<1>2. CASE Serve(Compositor)
  BY <1>2 DEF Serve, Idle, Next
<1>3. CASE ProgramEnded \/ UNCHANGED programVars
  BY <1>3 DEF ProgramEnded
<1> QED BY <1>1, <1>2, <1>3 DEF ProgramNext

(* To the window they are steps of WaylandSurface: the connection may      *)
(* break before there is a window.                                         *)
LEMMA ProgramIsWindow ==
  ASSUME TypeOK, ProxyInv, [ProgramNext]_programVars
  PROVE  [Next]_vars
<1>1. CASE LearnGlobals
  <2>1. killed = FALSE /\ killed' \in BOOLEAN
    BY <1>1 DEF LearnGlobals, Roundtrip, ProxyInv, Connecting, TypeOK
  <2>2. UNCHANGED <<client, wire, events, bare, comp, ping>>
    BY <1>1 DEF LearnGlobals
  <2>3. CASE killed'
    BY <2>1, <2>2, <2>3 DEF Next, Compositor, Disconnect
  <2>4. CASE killed' = FALSE
    BY <2>1, <2>2, <2>4 DEF vars, client
  <2> QED BY <2>1, <2>3, <2>4
<1>2. CASE CreateWindowObjects
  <2>1. ASSUME NEW label, NEW object, NEW next, NEW failure,
               CreateObject(label, object, next, failure)
        PROVE  UNCHANGED vars
    BY <2>1 DEF CreateObject
  <2>2. CASE CreateXdgSurface
    BY <2>1, <2>2 DEF CreateXdgSurface
  <2>3. CASE CreateWindow
    BY <2>3 DEF CreateWindow, Next, Client
  <2> QED BY <1>2, <2>1, <2>2, <2>3
          DEF CreateWindowObjects, CreateWlSurface, CreateToplevel
<1>3. CASE LeaveLoop
  BY <1>3 DEF LeaveLoop
<1>4. CASE UndoWindow
  BY <1>4 DEF UndoWindow, DestroyObject
<1> QED BY <1>1, <1>2, <1>3, <1>4, ProgramSteps DEF programVars

-----------------------------------------------------------------------------
(***************************************************************************)
(* The objects of the connection and of the window.                        *)
(***************************************************************************)

(* uvr_wc_destroy looks at everything once, and only at the end at the     *)
(* connection.                                                             *)
LEMMA DestroyOrderFacts ==
  /\ Len(DestroyOrder) = 11 /\ DestroyOrder \in Seq(Proxies \cup {"buffers"})
  /\ DestroyOrder[1] = "xdg_toplevel" /\ DestroyOrder[2] = "xdg_surface"
  /\ DestroyOrder[3] = "wl_surface" /\ DestroyOrder[4] = "buffers"
  /\ DestroyOrder[5] = "wl_seat" /\ DestroyOrder[6] = "wl_shm"
  /\ DestroyOrder[7] = "xdg_wm_base"
  /\ DestroyOrder[8] = "zwp_fullscreen_shell_v1"
  /\ DestroyOrder[9] = "wl_compositor" /\ DestroyOrder[10] = "wl_registry"
  /\ DestroyOrder[11] = "wl_display"
<1>1. Len(DestroyOrder) = 11
  BY DEF DestroyOrder
<1>2. DestroyOrder \in Seq(Proxies \cup {"buffers"})
  BY DEF DestroyOrder, Proxies, Globals, WindowObjects
<1> QED BY <1>1, <1>2 DEF DestroyOrder

LEMMA DestroyedOnce ==
  \A j, k \in 1..11 : DestroyOrder[j] = DestroyOrder[k] => j = k
<1>1. 1..11 = {1, 2, 3, 4, 5, 6, 7, 8, 9, 10, 11}
  OBVIOUS
<1> QED BY <1>1, DestroyOrderFacts

(* What is removed, and what is added, by the calls for buffers.           *)
LEMMA BufferObjects ==
  ASSUME CreateBuffers, ProxyInv, GlobalsInv, held \subseteq Proxies,
         proxies \subseteq Proxies
  PROVE  /\ held' = held /\ lost' = lost
         /\ at \in Filling \cup {"buffers", "cleanup"}
         /\ at' \in Filling \cup {"cleanup", "surface", "exit_error"}
         /\ at' \in Filling \cup {"surface"} => "wl_shm" \in held
         /\ proxies' \subseteq held \cup Unmentioned \cup Fresh'
         /\ proxies' \subseteq Proxies
         /\ proxies \ proxies' \subseteq {"wl_shm_pool"}
         /\ at' = "exit_error" => todo' = DestroyOrder
<1> USE DEF Filling, Connecting, Creating, Fresh, Proxies, Goto, Exit, ProxyInv,
            GlobalsInv
<1>1. CASE AllocateBuffers
  BY <1>1 DEF AllocateBuffers
<1>2. CASE CreateShmFile
  BY <1>2 DEF CreateShmFile
<1>3. CASE TruncateShmFile
  BY <1>3 DEF TruncateShmFile
<1>4. CASE MapShmFile
  BY <1>4 DEF MapShmFile
<1>5. CASE CreatePool
  BY <1>5 DEF CreatePool
<1>6. CASE CreateBuffer
  BY <1>6 DEF CreateBuffer
<1>7. CASE CleanUpBuffers
  BY <1>7 DEF CleanUpBuffers
<1> QED BY <1>1, <1>2, <1>3, <1>4, <1>5, <1>6, <1>7 DEF CreateBuffers

(* The same of the calls for the window.                                   *)
LEMMA WindowCalls ==
  ASSUME CreateWindowObjects, ProxyInv, GlobalsInv, held \subseteq Proxies,
         proxies \subseteq Proxies
  PROVE  /\ at \in Creating
         /\ at' \in Creating \cup {"window", "crashed", "exit_error"}
         /\ \/ held' = held
            \/ at' = "window" /\ held' = held \cup WindowObjects
         /\ at' = "crashed" => "xdg_wm_base" \notin held /\ held' = held
         /\ at' # "crashed" => proxies' \subseteq held' \cup Unmentioned \cup Fresh'
         /\ proxies' \subseteq Proxies /\ proxies \subseteq proxies'
         /\ at' = "exit_error" => todo' = DestroyOrder
         /\ UNCHANGED <<lost, open, shmVars>>
<1>1. /\ at = "surface" => Fresh = {}
      /\ at = "xdg_surface" => Fresh = {"wl_surface"}
      /\ at = "xdg_toplevel" => Fresh = {"wl_surface", "xdg_surface"}
      /\ at = "listeners" => Fresh = WindowObjects
  BY DEF Fresh, Connecting
<1>2. /\ at' \in {"window", "exit_error"} => Fresh' = {}
      /\ at' \in {"xdg_surface", "error_wl_surface"} => Fresh' = {"wl_surface"}
      /\ at' \in {"xdg_toplevel", "error_xdg_surface"} =>
           Fresh' = {"wl_surface", "xdg_surface"}
      /\ at' \in {"listeners", "error_xdg_toplevel"} => Fresh' = WindowObjects
  BY DEF Fresh, Connecting
<1>3. at \in Creating => proxies \subseteq held \cup Unmentioned \cup Fresh
  BY DEF ProxyInv, Creating, Undoing
<1>4. WindowObjects \cup {"wl_callback"} \subseteq Proxies
  BY DEF Proxies
<1> USE DEF Creating, Undoing, Goto, Exit, FailTo, CreateObject, WindowObjects
<1>5. CASE CreateWlSurface
  BY <1>1, <1>2, <1>3, <1>4, <1>5 DEF CreateWlSurface
<1>6. CASE CreateXdgSurface
  BY <1>1, <1>2, <1>3, <1>4, <1>6 DEF CreateXdgSurface
<1>7. CASE CreateToplevel
  BY <1>1, <1>2, <1>3, <1>4, <1>7 DEF CreateToplevel
<1>8. CASE CreateWindow
  BY <1>1, <1>2, <1>3, <1>4, <1>8 DEF CreateWindow, Unmentioned
<1> QED BY <1>5, <1>6, <1>7, <1>8 DEF CreateWindowObjects

(* The way back destroys the objects one by one; those made from an object *)
(* are gone when it is its turn.                                           *)
LEMMA UndoCalls ==
  ASSUME UndoWindow, ProxyInv, proxies \subseteq Proxies
  PROVE  /\ at \in Undoing /\ at' \in Undoing \cup {"exit_error"}
         /\ proxies' \subseteq held \cup Unmentioned \cup Fresh'
         /\ proxies' \subseteq proxies
         /\ \/ proxies \ proxies' \subseteq {"xdg_toplevel"}
            \/ /\ proxies \ proxies' \subseteq {"xdg_surface"}
               /\ "xdg_toplevel" \notin proxies
            \/ /\ proxies \ proxies' \subseteq {"wl_surface"}
               /\ "xdg_surface" \notin proxies
         /\ at' = "exit_error" => todo' = DestroyOrder
         /\ at' # "exit_error" => todo' = todo
         /\ UNCHANGED <<held, lost, open, shmVars>>
<1>1. at \in Undoing
  BY DEF UndoWindow, DestroyObject, Undoing
<1>2. /\ held \cap WindowObjects = {}
      /\ proxies \subseteq held \cup Unmentioned \cup Fresh
  BY <1>1 DEF ProxyInv, Undoing
<1> USE DEF DestroyObject, FailTo, Goto, Exit, Undoing, Fresh, Connecting,
            WindowObjects, Unmentioned
<1>3. CASE DestroyObject("error_xdg_toplevel", "xdg_toplevel", "error_xdg_surface")
  BY <1>2, <1>3
<1>4. CASE DestroyObject("error_xdg_surface", "xdg_surface", "error_wl_surface")
  BY <1>2, <1>4
<1>5. CASE DestroyObject("error_wl_surface", "wl_surface", "exit_error")
  BY <1>2, <1>5
<1> QED BY <1>3, <1>4, <1>5 DEF UndoWindow

(* What there is but is not held is known; wl_shm is looked for in time.   *)
LEMMA ProxyStep ==
  ASSUME PInv, [ProgramNext]_programVars
  PROVE  /\ ProxyInv' /\ GlobalsInv'
         /\ proxies' \subseteq Proxies /\ held' \subseteq Proxies
<1>0. /\ TypeOK /\ proxies \subseteq Proxies /\ held \subseteq Proxies
      /\ ProxyInv /\ GlobalsInv /\ TeardownInv
  BY DEF PInv, ProgramTypeOK, ProgramInv
<1> USE DEF Filling, Connecting, Creating, Undoing, Fresh, Goto, Exit, GlobalsInv,
            MissingGlobalsCaught
<1>1. CASE Connect /\ UNCHANGED vars
  BY <1>0, <1>1 DEF Connect, ProxyInv, vars, Proxies
<1>2. CASE GetRegistry /\ UNCHANGED vars
  BY <1>0, <1>2 DEF GetRegistry, ProxyInv, vars, Proxies
<1>3. CASE LearnGlobals
  <2> PICK announced \in SUBSET Globals :
             \E again \in SUBSET (announced \cap Repeated) : Roundtrip(announced, again)
    BY <1>3 DEF LearnGlobals
  <2>1. /\ at' \in {"buffers", "exit_error"}
        /\ proxies' = {"wl_display", "wl_registry"} \cup (announced \cap Wanted)
        /\ held' = {"wl_display", "wl_registry"}
                     \cup ((announced \cap Wanted) \ {"zwp_fullscreen_shell_v1"})
    BY <1>0 DEF Roundtrip, Returned, ProxyInv
  <2>2. "wl_shm_pool" \notin held' /\ held' \cap WindowObjects = {}
    BY <2>1 DEF Globals, WindowObjects
  <2>3. ProxyInv'
    BY <2>1, <2>2 DEF ProxyInv, Unmentioned
  <2> QED BY <2>1, <2>3 DEF Proxies, Globals
<1>4. CASE CreateBuffers
  BY <1>0, <1>4, BufferObjects DEF ProxyInv
<1>5. CASE CreateWindowObjects
  <2>1. "wl_shm" \in held /\ at \in Creating
    BY <1>0, <1>5, WindowCalls
  <2>2. held' \subseteq Proxies /\ "wl_shm" \in held' /\ "wl_shm_pool" \notin held'
    BY <1>0, <1>5, <2>1, WindowCalls DEF ProxyInv, WindowObjects, Proxies
  <2> QED BY <1>0, <1>5, <2>1, <2>2, WindowCalls DEF ProxyInv
<1>6. CASE LeaveLoop
  BY <1>0, <1>6 DEF LeaveLoop, ProxyInv
<1>12. CASE UndoWindow
  BY <1>0, <1>12, UndoCalls DEF ProxyInv
<1>7. CASE DestroyProxy
  BY <1>0, <1>7 DEF DestroyProxy, ProxyInv
<1>8. CASE DestroyBuffers
  BY <1>0, <1>8 DEF DestroyBuffers, ProxyInv
<1>9. CASE Finish
  BY <1>0, <1>9 DEF Finish, ProxyInv
<1>10. CASE Idle /\ at = "window"
  BY <1>0, <1>10 DEF Idle, coreVars, ProxyInv
<1>11. CASE UNCHANGED programVars
  BY <1>0, <1>11 DEF programVars, coreVars, vars, ProxyInv
<1> QED BY <1>1, <1>2, <1>3, <1>4, <1>5, <1>6, <1>7, <1>8, <1>9, <1>10, <1>11,
           <1>12, ProgramSteps

(* What remains to be looked at are the last entries of DestroyOrder.      *)
LEMMA LeftOver ==
  ASSUME TeardownInv, at = "exit_error", todo \in Seq(Proxies \cup {"buffers"})
  PROVE  /\ Len(todo) \in 0..11
         /\ \A k \in 1..Len(todo) : todo[k] = DestroyOrder[k + (11 - Len(todo))]
         /\ Left = {DestroyOrder[j] : j \in (12 - Len(todo))..11}
<1>1. /\ Len(todo) \in 0..11
      /\ \A k \in 1..Len(todo) : todo[k] = DestroyOrder[k + (11 - Len(todo))]
  <2>1. Len(todo) \in Nat
    BY LenProperties
  <2>2. Len(DestroyOrder) = 11
    BY DestroyOrderFacts
  <2>3. /\ Len(todo) <= 11
        /\ \A k \in 1..Len(todo) : todo[k] = DestroyOrder[k + (11 - Len(todo))]
    BY ONLY TeardownInv, at = "exit_error", <2>2 DEF TeardownInv
  <2>4. \A n \in Nat : n <= 11 => n \in 0..11
    OBVIOUS
  <2> QED BY ONLY <2>1, <2>3, <2>4
<1>2. ASSUME NEW o \in Left PROVE \E j \in (12 - Len(todo))..11 : o = DestroyOrder[j]
  <2> PICK k \in 1..Len(todo) : o = todo[k]
    BY <1>2 DEF Left
  <2> QED BY <1>1
<1>3. ASSUME NEW j \in (12 - Len(todo))..11 PROVE DestroyOrder[j] \in Left
  <2>1. /\ j - (11 - Len(todo)) \in 1..Len(todo)
        /\ (j - (11 - Len(todo))) + (11 - Len(todo)) = j
    BY <1>1
  <2>2. todo[j - (11 - Len(todo))] = DestroyOrder[j]
    BY <1>1, <2>1
  <2> QED BY <2>1, <2>2 DEF Left
<1> QED BY <1>1, <1>2, <1>3

(* One entry is looked at, and not again.                                  *)
LEMMA LookAt ==
  ASSUME TeardownInv, at = "exit_error", todo \in Seq(Proxies \cup {"buffers"}),
         todo # <<>>, todo' = Tail(todo)
  PROVE  /\ todo' \in Seq(Proxies \cup {"buffers"})
         /\ Len(todo) \in 1..11 /\ Len(todo') = Len(todo) - 1
         /\ Head(todo) = DestroyOrder[12 - Len(todo)] /\ Head(todo) \in Left
         /\ \A k \in 1..Len(todo') : todo'[k] = DestroyOrder[k + (11 - Len(todo'))]
         /\ Left' = {DestroyOrder[j] : j \in (13 - Len(todo))..11}
         /\ Left' = Left \ {Head(todo)}
<1>1. /\ Len(todo) \in 0..11
      /\ \A k \in 1..Len(todo) : todo[k] = DestroyOrder[k + (11 - Len(todo))]
      /\ Left = {DestroyOrder[j] : j \in (12 - Len(todo))..11}
  BY LeftOver
<1>2. /\ Len(todo) \in Nat \ {0} /\ Head(todo) = todo[1]
      /\ todo' \in Seq(Proxies \cup {"buffers"}) /\ Len(todo') = Len(todo) - 1
      /\ \A k \in 1..Len(todo) - 1 : todo'[k] = todo[k + 1]
  BY TailFacts
<1>3. Len(todo) \in 1..11 /\ Len(todo') = Len(todo) - 1
  <2>1. Len(todo) \in 0..11
    BY <1>1
  <2>2. Len(todo) # 0 /\ Len(todo') = Len(todo) - 1
    BY <1>2
  <2>3. \A n \in 0..11 : n # 0 => n \in 1..11
    OBVIOUS
  <2> QED BY ONLY <2>1, <2>2, <2>3
<1>4. \A k \in 1..Len(todo') : todo'[k] = DestroyOrder[k + (11 - Len(todo'))]
  <2> TAKE k \in 1..Len(todo')
  <2>1. k + 1 \in 1..Len(todo) /\ todo'[k] = todo[k + 1]
    BY <1>2
  <2>2. (k + 1) + (11 - Len(todo)) = k + (11 - Len(todo'))
    BY <1>1, <1>2
  <2> QED BY <1>1, <2>1, <2>2
<1>5. Head(todo) = DestroyOrder[12 - Len(todo)] /\ Head(todo) \in Left
  BY <1>1, <1>2 DEF Left
<1>6. Left' = {DestroyOrder[j] : j \in (13 - Len(todo))..11}
  <2>1. ASSUME NEW o \in Left'
        PROVE  \E j \in (13 - Len(todo))..11 : o = DestroyOrder[j]
    <3> PICK k \in 1..Len(todo') : o = todo'[k]
      BY <2>1 DEF Left
    <3> QED BY <1>1, <1>2, <1>4
  <2>2. ASSUME NEW j \in (13 - Len(todo))..11 PROVE DestroyOrder[j] \in Left'
    <3>1. /\ j - (11 - Len(todo')) \in 1..Len(todo')
          /\ (j - (11 - Len(todo'))) + (11 - Len(todo')) = j
      BY <1>1, <1>2
    <3>2. todo'[j - (11 - Len(todo'))] = DestroyOrder[j]
      BY <1>4, <3>1
    <3> QED BY <3>1, <3>2 DEF Left
  <2> QED BY <2>1, <2>2
<1>7. Left' = Left \ {Head(todo)}
  <2>1. \A j \in (12 - Len(todo))..11 :
          j \in (13 - Len(todo))..11 <=> DestroyOrder[j] # DestroyOrder[12 - Len(todo)]
    <3>1. \A n \in 1..11 : \A j \in (12 - n)..11 :
            /\ j \in 1..11 /\ 12 - n \in 1..11
            /\ j \in (13 - n)..11 <=> j # 12 - n
      OBVIOUS
    <3>2. \A j \in (12 - Len(todo))..11 :
            /\ j \in 1..11 /\ 12 - Len(todo) \in 1..11
            /\ j \in (13 - Len(todo))..11 <=> j # 12 - Len(todo)
      BY ONLY <1>3, <3>1
    <3> QED BY <3>2, DestroyedOnce
  <2>2. \A j \in (13 - Len(todo))..11 : j \in (12 - Len(todo))..11
    BY <1>1, <1>2
  <2> QED BY ONLY <1>1, <1>5, <1>6, <2>1, <2>2
<1> QED BY ONLY <1>2, <1>4, <1>5, <1>6, <1>7, <1>3

(* At the start of the teardown everything is left.                        *)
LEMMA AllLeft ==
  ASSUME todo' = DestroyOrder, held' \subseteq Proxies, "wl_shm_pool" \notin held',
         proxies' \subseteq held' \cup Unmentioned
  PROVE  /\ todo' \in Seq(Proxies \cup {"buffers"}) /\ "buffers" \in Left'
         /\ Len(todo') <= Len(DestroyOrder)
         /\ \A k \in 1..Len(todo') :
              todo'[k] = DestroyOrder[k + (Len(DestroyOrder) - Len(todo'))]
         /\ proxies' \subseteq Left' \cup Unmentioned
<1>1. Left' = {DestroyOrder[k] : k \in 1..11}
  BY DestroyOrderFacts DEF Left
<1>2. /\ DestroyOrder[1] \in Left' /\ DestroyOrder[2] \in Left'
      /\ DestroyOrder[3] \in Left' /\ DestroyOrder[4] \in Left'
      /\ DestroyOrder[5] \in Left' /\ DestroyOrder[6] \in Left'
      /\ DestroyOrder[7] \in Left' /\ DestroyOrder[8] \in Left'
      /\ DestroyOrder[9] \in Left' /\ DestroyOrder[10] \in Left'
      /\ DestroyOrder[11] \in Left'
  BY <1>1
<1>3. Proxies \ {"wl_shm_pool", "wl_callback"} \subseteq Left' /\ "buffers" \in Left'
  BY <1>2, DestroyOrderFacts DEF Proxies, Globals, WindowObjects
<1> QED BY <1>3, DestroyOrderFacts DEF Unmentioned

(* The teardown has still to look at all there is and the program holds.   *)
LEMMA TeardownStep ==
  ASSUME PInv, [ProgramNext]_programVars
  PROVE  TeardownInv' /\ todo' \in Seq(Proxies \cup {"buffers"})
<1>0. /\ ProxyInv /\ GlobalsInv /\ TeardownInv /\ ShmInv
      /\ held \subseteq Proxies /\ proxies \subseteq Proxies
      /\ todo \in Seq(Proxies \cup {"buffers"})
  BY DEF PInv, ProgramTypeOK, ProgramInv
<1>1. CASE at' = "exit_error" /\ todo' = DestroyOrder
  <2>1. ProxyInv' /\ held' \subseteq Proxies
    BY ProxyStep
  <2>2. Fresh' = {}
    BY <1>1 DEF Fresh, Connecting
  <2>3. proxies' \subseteq held' \cup Unmentioned /\ "wl_shm_pool" \notin held'
    BY <1>1, <2>1, <2>2 DEF ProxyInv
  <2> QED BY <1>1, <2>1, <2>3, AllLeft DEF TeardownInv
<1>2. CASE at' \notin {"exit_error", "done"} /\ todo' = todo
  BY <1>0, <1>2 DEF TeardownInv
<1>3. CASE DestroyProxy
  <2>1. /\ at = "exit_error" /\ todo # <<>> /\ todo' = Tail(todo)
        /\ proxies' \subseteq proxies
        /\ Head(todo) \in held => Head(todo) \notin proxies'
    BY <1>3 DEF DestroyProxy
  <2>2. /\ todo' \in Seq(Proxies \cup {"buffers"})
        /\ Len(todo) \in 1..11 /\ Len(todo') = Len(todo) - 1
        /\ \A k \in 1..Len(todo') : todo'[k] = DestroyOrder[k + (11 - Len(todo'))]
        /\ Left' = Left \ {Head(todo)}
    BY <1>0, <2>1, LookAt
  <2>3. proxies \subseteq Left \cup Unmentioned /\ proxies \subseteq held \cup Unmentioned
    BY <1>0, <2>1 DEF TeardownInv, ProxyInv, Fresh, Connecting, Creating
  <2>4. proxies' \subseteq Left' \cup Unmentioned
    BY <2>1, <2>2, <2>3
  <2>5. Len(todo') <= 11
    <3>1. \A n \in 1..11 : n - 1 <= 11
      OBVIOUS
    <3> QED BY <2>2, <3>1
  <2> QED BY <2>2, <2>4, <2>5, DestroyOrderFacts DEF TeardownInv
<1>4. CASE DestroyBuffers
  <2>1. /\ at = "exit_error" /\ todo # <<>> /\ todo' = Tail(todo)
        /\ proxies' = proxies /\ Head(todo) = "buffers"
    BY <1>4 DEF DestroyBuffers
  <2>2. /\ todo' \in Seq(Proxies \cup {"buffers"})
        /\ Len(todo) \in 1..11 /\ Len(todo') = Len(todo) - 1
        /\ \A k \in 1..Len(todo') : todo'[k] = DestroyOrder[k + (11 - Len(todo'))]
        /\ Left' = Left \ {Head(todo)}
    BY <1>0, <2>1, LookAt
  <2>3. "buffers" \notin proxies
    BY <1>0 DEF Proxies, Globals, WindowObjects
  <2>4. proxies' \subseteq Left' \cup Unmentioned
    BY <1>0, <2>1, <2>2, <2>3 DEF TeardownInv
  <2>5. Len(todo') <= 11
    <3>1. \A n \in 1..11 : n - 1 <= 11
      OBVIOUS
    <3> QED BY <2>2, <3>1
  <2> QED BY <2>2, <2>4, <2>5, DestroyOrderFacts DEF TeardownInv
<1>5. CASE Finish
  BY <1>0, <1>5 DEF Finish, Goto, TeardownInv, Left
<1>6. CASE UNCHANGED programVars
  BY <1>0, <1>6 DEF programVars, coreVars, TeardownInv, Left
<1>7. \/ at' = "exit_error" /\ todo' = DestroyOrder
      \/ at' \notin {"exit_error", "done"} /\ todo' = todo
      \/ DestroyProxy \/ DestroyBuffers \/ Finish \/ UNCHANGED programVars
  <2> USE DEF Goto, Exit
  <2>1. CASE Connect \/ GetRegistry \/ LearnGlobals
    BY <2>1 DEF Connect, GetRegistry, LearnGlobals, Roundtrip
  <2>2. CASE CreateBuffers
    BY <2>2 DEF CreateBuffers, AllocateBuffers, CreateShmFile, TruncateShmFile,
                MapShmFile, CreatePool, CreateBuffer, CleanUpBuffers
  <2>3. CASE CreateWindowObjects
    BY <2>3 DEF CreateWindowObjects, CreateWlSurface, CreateXdgSurface,
                CreateToplevel, CreateWindow, CreateObject, FailTo
  <2>4. CASE LeaveLoop
    BY <2>4 DEF LeaveLoop
  <2>5. CASE Idle /\ at = "window"
    BY <2>5 DEF Idle, coreVars
  <2>6. CASE UndoWindow
    BY <2>6, <1>0, UndoCalls DEF Undoing
  <2> QED BY <2>1, <2>2, <2>3, <2>4, <2>5, <2>6, ProgramSteps
<1> QED BY <1>1, <1>2, <1>3, <1>4, <1>5, <1>6, <1>7

(* Only globals that were announced again leave a proxy behind.             *)
LEMMA LostStep ==
  ASSUME PInv, [ProgramNext]_programVars
  PROVE  lost' \subseteq Repeated \cap Wanted
<1>0. /\ lost \subseteq Repeated \cap Wanted /\ ProxyInv /\ GlobalsInv
      /\ held \subseteq Proxies /\ proxies \subseteq Proxies
  BY DEF PInv, ProgramTypeOK, ProgramInv
<1>1. CASE LearnGlobals
  BY <1>1 DEF LearnGlobals, Roundtrip
<1>2. CASE CreateBuffers
  BY <1>0, <1>2, BufferObjects
<1>3. CASE CreateWindowObjects
  BY <1>0, <1>3, WindowCalls
<1>4. CASE UndoWindow
  BY <1>0, <1>4, UndoCalls
<1>5. CASE Connect \/ GetRegistry \/ LeaveLoop \/ DestroyProxy \/ DestroyBuffers
  BY <1>0, <1>5 DEF Connect, GetRegistry, LeaveLoop, DestroyProxy, DestroyBuffers
<1>6. CASE Finish \/ Idle \/ UNCHANGED programVars
  BY <1>0, <1>6 DEF Finish, Idle, programVars, coreVars
<1> QED BY <1>1, <1>2, <1>3, <1>4, <1>5, <1>6, ProgramSteps

(* The socket: open until uvr_wc_destroy, or the failure of the second     *)
(* call, has disconnected the display.                                     *)
LEMMA SocketStep ==
  ASSUME PInv, [ProgramNext]_programVars
  PROVE  SocketInv'
<1>0. /\ ProxyInv /\ GlobalsInv /\ TeardownInv /\ SocketInv /\ ShmInv
      /\ held \subseteq Proxies /\ proxies \subseteq Proxies
      /\ todo \in Seq(Proxies \cup {"buffers"})
  BY DEF PInv, ProgramTypeOK, ProgramInv
<1> USE DEF Goto, Exit, Connecting
<1>1. todo' = DestroyOrder => "wl_display" \in Left'
  <2> SUFFICES ASSUME todo' = DestroyOrder PROVE "wl_display" \in Left'
    OBVIOUS
  <2>1. 11 \in 1..Len(todo') /\ todo'[11] = "wl_display"
    BY DestroyOrderFacts
  <2> QED BY <2>1 DEF Left
<1>2. CASE Connect \/ GetRegistry
  <2>1. at = "connect" => Socket \notin open
    BY <1>0 DEF ShmInv, NoBuffers, Socket
  <2> QED BY <1>2, <2>1 DEF Connect, GetRegistry, SocketInv
<1>3. CASE LearnGlobals
  <2>1. "wl_display" \in held' /\ at' \in {"buffers", "exit_error"}
        /\ (at' = "exit_error" => todo' = DestroyOrder)
    BY <1>3 DEF LearnGlobals, Roundtrip, Returned
  <2> QED BY <1>1, <2>1 DEF SocketInv
<1>4. CASE CreateBuffers
  <2>1. /\ held' = held /\ at \in Filling \cup {"buffers", "cleanup"}
        /\ at' \in Filling \cup {"cleanup", "surface", "exit_error"}
        /\ at' = "exit_error" => todo' = DestroyOrder
    BY <1>0, <1>4, BufferObjects
  <2> QED BY <1>0, <1>1, <2>1 DEF SocketInv, Filling
<1>5. CASE CreateWindowObjects
  <2>1. /\ held \subseteq held' /\ at \in Creating
        /\ at' \in Creating \cup {"window", "crashed", "exit_error"}
        /\ at' = "exit_error" => todo' = DestroyOrder
    BY <1>0, <1>5, WindowCalls
  <2> QED BY <1>0, <1>1, <2>1 DEF SocketInv, Creating, Undoing
<1>6. CASE UndoWindow
  <2>1. /\ held' = held /\ at \in Undoing /\ at' \in Undoing \cup {"exit_error"}
        /\ at' = "exit_error" => todo' = DestroyOrder
    BY <1>0, <1>6, UndoCalls
  <2> QED BY <1>0, <1>1, <2>1 DEF SocketInv, Undoing
<1>7. CASE LeaveLoop
  BY <1>0, <1>1, <1>7 DEF LeaveLoop, SocketInv
<1>8. CASE DestroyProxy
  <2>1. /\ at = "exit_error" /\ at' = at /\ todo # <<>> /\ todo' = Tail(todo)
        /\ held' = held
        /\ open' = IF Head(todo) = "wl_display" /\ "wl_display" \in held
                     THEN open \ {Socket} ELSE open
    BY <1>8 DEF DestroyProxy
  <2>2. Left' = Left \ {Head(todo)}
    BY <1>0, <2>1, LookAt
  <2> QED BY <1>0, <2>1, <2>2 DEF SocketInv
<1>9. CASE DestroyBuffers
  <2>1. /\ at = "exit_error" /\ at' = at /\ todo # <<>> /\ todo' = Tail(todo)
        /\ held' = held /\ Head(todo) = "buffers" /\ open' \subseteq open
    BY <1>9 DEF DestroyBuffers, ReleaseAll
  <2>2. Left' = Left \ {Head(todo)}
    BY <1>0, <2>1, LookAt
  <2> QED BY <1>0, <2>1, <2>2 DEF SocketInv
<1>10. CASE Finish
  BY <1>0, <1>10 DEF Finish, SocketInv, Left
<1>11. CASE Idle \/ UNCHANGED programVars
  BY <1>0, <1>11 DEF Idle, programVars, coreVars, SocketInv, Left
<1> QED BY <1>2, <1>3, <1>4, <1>5, <1>6, <1>7, <1>8, <1>9, <1>10, <1>11,
           ProgramSteps

-----------------------------------------------------------------------------
(***************************************************************************)
(* The buffers.                                                            *)
(***************************************************************************)
ShmType ==
    /\ idx \in 0..BufferCount
    /\ open \subseteq 0..(BufferCount + 4) /\ fd \in open \cup {-1}
    /\ mapped \subseteq Buffers /\ wlBuffers \subseteq Buffers
    /\ shm \in [Buffers -> [shmFd : Int, data : {"null", "mapped", "failed"},
                            buffer : BOOLEAN]]
    /\ buffersHeld \in BOOLEAN

ShmIInv == ShmType /\ ShmInv

(* Before there are buffers, nothing has to be returned.                   *)
LEMMA NothingYet ==
  NoBuffers => BuffersReturned /\ ~buffersHeld
<1> SUFFICES ASSUME NoBuffers PROVE BuffersReturned /\ ~buffersHeld
  OBVIOUS
<1>1. 0 \in open
  BY DEF NoBuffers, Socket
<1>2. open \ {Socket} = 0..2
  BY DEF NoBuffers, Socket
<1> QED BY <1>1, <1>2 DEF NoBuffers, BuffersReturned

(* While nothing about the buffers changes, only the label matters.        *)
LEMMA ShmRests ==
  ASSUME ShmIInv, UNCHANGED <<open, shmVars>>,
         \/ at' = at /\ todo' = todo
         \/ at = "registry" /\ at' = "roundtrip"
         \/ at = "roundtrip" /\ at' = "buffers"
         \/ at \in Connecting \cup {"buffers"} /\ at' = "exit_error"
         \/ at \in Creating /\ at' \in Creating \cup {"window"}
         \/ at \in Creating \cup {"window"} /\ at' = "exit_error" /\ "buffers" \in Left'
         \/ at' = "crashed"
  PROVE  ShmIInv'
<1>1. ShmType'
  BY DEF ShmIInv, ShmType, shmVars
<1>2. /\ AllBuffers' = AllBuffers /\ BuffersReturned' = BuffersReturned
      /\ buffersHeld' = buffersHeld
      /\ (at' = "connect" <=> at = "connect") => NoBuffers' = NoBuffers
  BY DEF NoBuffers, AllBuffers, BuffersReturned, shmVars
<1>3. CASE at' = at /\ todo' = todo
  <2>1. LoopInv' = LoopInv /\ Left' = Left
    BY <1>3 DEF LoopInv, AtBuffer, Left, shmVars
  <2> QED BY <1>1, <1>2, <1>3, <2>1 DEF ShmIInv, ShmInv
<1>4. CASE \/ at = "registry" /\ at' = "roundtrip"
           \/ at = "roundtrip" /\ at' = "buffers"
           \/ at \in Connecting \cup {"buffers"} /\ at' = "exit_error"
  <2>1. (at' # "exit_error" => NoBuffers') /\ BuffersReturned' /\ ~buffersHeld'
    BY <1>2, <1>4, NothingYet DEF ShmIInv, ShmInv, Connecting
  <2> QED BY <1>1, <1>4, <2>1 DEF ShmIInv, ShmInv, Connecting, Filling, Creating,
           Undoing
<1>5. CASE at \in Creating \cup {"window"} /\ at' \in Creating \cup {"window"}
  <2>1. AllBuffers'
    BY <1>2, <1>5 DEF ShmIInv, ShmInv
  <2> QED BY <1>1, <1>5, <2>1 DEF ShmIInv, ShmInv, Connecting, Filling, Creating,
           Undoing
<1>6. CASE at \in Creating \cup {"window"} /\ at' = "exit_error" /\ "buffers" \in Left'
  <2>1. AllBuffers' /\ buffersHeld'
    BY <1>2, <1>6 DEF ShmIInv, ShmInv, AllBuffers
  <2> QED BY <1>1, <1>6, <2>1 DEF ShmIInv, ShmInv, Connecting, Filling, Creating,
           Undoing
<1>7. CASE at' = "crashed"
  BY <1>1, <1>7 DEF ShmIInv, ShmInv, Connecting, Filling, Creating,
           Undoing
<1> QED BY <1>3, <1>4, <1>5, <1>6, <1>7

(* The loop starts with the first buffer.                                  *)
LEMMA AllocateStep ==
  ASSUME ShmIInv, AllocateBuffers
  PROVE  ShmIInv'
<1>1. CASE at' = "exit_error"
  BY <1>1, ShmRests DEF AllocateBuffers, Connecting
<1>2. CASE at' = "file"
  <2>1. NoBuffers /\ UNCHANGED <<open, shmVars>> /\ at = "buffers"
    BY DEF AllocateBuffers, ShmIInv, ShmInv
  <2>2. /\ 0 \in Buffers /\ 0..(-1) = {} /\ idx = 0 /\ shm[0] = Zeroed
        /\ \A b \in Buffers : ~(b < 0) /\ shm[b] = Zeroed
    BY <2>1 DEF NoBuffers, Buffers
  <2>3. Zeroed.data = "null"
    BY DEF Zeroed
  <2>4. LoopInv'
    BY <1>2, <2>1, <2>2, <2>3 DEF LoopInv, AtBuffer, NoBuffers, Socket, shmVars
  <2>5. ShmType'
    BY <2>1 DEF ShmIInv, ShmType, shmVars
  <2> QED BY <1>2, <2>4, <2>5 DEF ShmIInv, ShmInv, Filling, Connecting, Creating,
           Undoing
<1> QED BY <1>1, <1>2 DEF AllocateBuffers, Exit, Goto

(* The descriptors come in the order of the buffers.                       *)
LEMMA Descriptor ==
  ASSUME NEW n \in 0..BufferCount, open = 0..(n + 3)
  PROVE  NewDescriptor = n + 4
<1> DEFINE P(d) == d \notin open /\ \A m \in 0..(d - 1) : m \in open
<1>1. n + 4 \in 0..(BufferCount + 4) /\ P(n + 4)
  OBVIOUS
<1>2. \A d \in 0..(BufferCount + 4) : P(d) => d = n + 4
  OBVIOUS
<1> QED BY <1>1, <1>2 DEF NewDescriptor

(* What the loop knows before each of its calls.                           *)
LEMMA InLoop ==
  ASSUME ShmIInv, at \in Filling \cup {"cleanup"}
  PROVE  /\ LoopInv /\ ~buffersHeld /\ idx \in Buffers /\ idx \in 0..BufferCount
         /\ idx \in Nat /\ idx < BufferCount
         /\ DOMAIN shm = Buffers
         /\ \A b \in Buffers : /\ b < idx => shm[b] = Complete(b)
                               /\ b > idx => shm[b] = Zeroed
  BY DEF ShmIInv, ShmType, ShmInv, LoopInv, Buffers

LEMMA CreateFileStep ==
  ASSUME ShmIInv, CreateShmFile
  PROVE  ShmIInv'
<1>0. at = "file" /\ at \in Filling
  BY DEF CreateShmFile, Filling
<1>1. /\ shm[idx] = Zeroed /\ fd = -1 /\ open = 0..(idx + 3)
      /\ mapped = 0..(idx - 1) /\ wlBuffers = 0..(idx - 1)
  BY <1>0, InLoop DEF LoopInv, AtBuffer, Zeroed
<1>2. UNCHANGED <<idx, buffersHeld, mapped, wlBuffers>>
  BY DEF CreateShmFile
<1>3. CASE at' = "truncate"
  <2>1. fd' = idx + 4 /\ open' = open \cup {fd'} /\ shm' = shm
    BY <1>0, <1>1, <1>3, InLoop, Descriptor DEF CreateShmFile, Goto
  <2>2. open' = 0..(idx + 4)
    BY <1>0, <1>1, <2>1, InLoop
  <2>3. ShmType'
    BY <1>0, <1>2, <2>1, <2>2, InLoop DEF ShmIInv, ShmType
  <2>4. LoopInv'
    BY <1>0, <1>1, <1>2, <1>3, <2>1, <2>2, InLoop DEF LoopInv, AtBuffer, Zeroed
  <2> QED BY <1>3, <2>3, <2>4 DEF ShmIInv, ShmInv, Filling, Connecting, Creating,
           Undoing
<1>4. CASE at' = "cleanup"
  <2>1. shm' = [shm EXCEPT ![idx].shmFd = -1] /\ UNCHANGED <<fd, open>>
    BY <1>4 DEF CreateShmFile, Goto
  <2>2. /\ shm'[idx] = [Zeroed EXCEPT !.shmFd = -1]
        /\ \A b \in Buffers : b # idx => shm'[b] = shm[b]
    BY <1>0, <1>1, <2>1, InLoop
  <2>3. ShmType'
    <3>1. shm' \in [Buffers -> [shmFd : Int, data : {"null", "mapped", "failed"},
                                buffer : BOOLEAN]]
      <4>1. \A d \in Int : [shm EXCEPT ![idx].shmFd = d]
              \in [Buffers -> [shmFd : Int, data : {"null", "mapped", "failed"},
                               buffer : BOOLEAN]]
        BY DEF ShmIInv, ShmType
      <4>2. -1 \in Int
        OBVIOUS
      <4> QED BY ONLY <2>1, <4>1, <4>2
    <3> QED BY <1>2, <2>1, <3>1 DEF ShmIInv, ShmType
  <2>4. \A b \in Buffers : /\ b < idx => shm'[b] = Complete(b)
                           /\ b > idx => shm'[b] = Zeroed
    BY <1>0, <2>2, InLoop DEF Buffers
  <2>5. [Zeroed EXCEPT !.shmFd = -1].data = "null"
    BY DEF Zeroed
  <2>6. LoopInv'
    BY <1>0, <1>1, <1>2, <1>4, <2>1, <2>2, <2>4, <2>5, InLoop DEF LoopInv, AtBuffer
  <2> QED BY <1>4, <2>3, <2>6 DEF ShmIInv, ShmInv, Filling, Connecting, Creating,
           Undoing
<1> QED BY <1>3, <1>4 DEF CreateShmFile, Goto

LEMMA TruncateStep ==
  ASSUME ShmIInv, TruncateShmFile
  PROVE  ShmIInv'
<1>0. at = "truncate" /\ at \in Filling
  BY DEF TruncateShmFile, Filling
<1>1. /\ shm[idx] = Zeroed /\ fd = idx + 4 /\ open = 0..(idx + 4)
      /\ mapped = 0..(idx - 1) /\ wlBuffers = 0..(idx - 1)
  BY <1>0, InLoop DEF LoopInv, AtBuffer, Zeroed
<1>2. UNCHANGED <<idx, buffersHeld, mapped, wlBuffers>> /\ fd' = -1
  BY DEF TruncateShmFile
<1>3. PICK d \in Int : /\ shm' = [shm EXCEPT ![idx].shmFd = d]
                       /\ \/ at' = "map" /\ d = idx + 4 /\ open' = open
                          \/ at' = "cleanup" /\ d = -1 /\ open' = open \ {idx + 4}
  <2>1. \/ shm' = [shm EXCEPT ![idx].shmFd = idx + 4] /\ at' = "map" /\ open' = open
        \/ /\ shm' = [shm EXCEPT ![idx].shmFd = -1] /\ at' = "cleanup"
           /\ open' = open \ {idx + 4}
    BY <1>1 DEF TruncateShmFile, Goto
  <2>2. idx + 4 \in Int /\ -1 \in Int
    BY <1>0, InLoop
  <2> QED BY <2>1, <2>2
<1>4. /\ shm'[idx] = [Zeroed EXCEPT !.shmFd = d]
      /\ \A b \in Buffers : b # idx => shm'[b] = shm[b]
  BY <1>0, <1>1, <1>3, InLoop
<1>5. shm' \in [Buffers -> [shmFd : Int, data : {"null", "mapped", "failed"},
                            buffer : BOOLEAN]]
  BY <1>3 DEF ShmIInv, ShmType
<1>6. ShmType'
  BY <1>1, <1>2, <1>3, <1>5 DEF ShmIInv, ShmType
<1>7. \A b \in Buffers : /\ b < idx => shm'[b] = Complete(b)
                         /\ b > idx => shm'[b] = Zeroed
  BY <1>0, <1>4, InLoop DEF Buffers
<1>8. [Zeroed EXCEPT !.shmFd = d].data = "null"
  BY DEF Zeroed
<1>9. CASE at' = "map"
  <2>1. LoopInv'
    BY <1>0, <1>1, <1>2, <1>3, <1>4, <1>7, <1>8, <1>9, InLoop DEF LoopInv, AtBuffer
  <2> QED BY <1>6, <1>9, <2>1 DEF ShmIInv, ShmInv, Filling, Connecting, Creating,
           Undoing
<1>10. CASE at' = "cleanup"
  <2>1. open' = 0..(idx + 3)
    <3>1. open' = 0..(idx + 4) \ {idx + 4} /\ idx \in Nat
      BY <1>0, <1>1, <1>3, <1>10, InLoop
    <3> QED BY ONLY <3>1
  <2>2. LoopInv'
    BY <1>0, <1>1, <1>2, <1>3, <1>4, <1>7, <1>8, <1>10, <2>1, InLoop
       DEF LoopInv, AtBuffer
  <2> QED BY <1>6, <1>10, <2>2 DEF ShmIInv, ShmInv, Filling, Connecting, Creating,
           Undoing
<1> QED BY <1>3, <1>9, <1>10

(* The record of a buffer, and what an assignment to a field makes of it.  *)
Record(n, d, o) == [shmFd |-> n, data |-> d, buffer |-> o]

LEMMA SetShmFd ==
  ASSUME NEW n \in Int, NEW d \in {"null", "mapped", "failed"}, NEW o \in BOOLEAN,
         NEW m \in Int
  PROVE  [Record(n, d, o) EXCEPT !.shmFd = m] = Record(m, d, o)
  BY DEF Record

LEMMA SetData ==
  ASSUME NEW n \in Int, NEW d \in {"null", "mapped", "failed"}, NEW o \in BOOLEAN,
         NEW e \in {"null", "mapped", "failed"}
  PROVE  [Record(n, d, o) EXCEPT !.data = e] = Record(n, e, o)
  BY DEF Record

LEMMA SetBuffer ==
  ASSUME NEW n \in Int, NEW d \in {"null", "mapped", "failed"}, NEW o \in BOOLEAN,
         NEW p \in BOOLEAN
  PROVE  [Record(n, d, o) EXCEPT !.buffer = p] = Record(n, d, p)
  BY DEF Record

LEMMA Records ==
  ASSUME NEW b \in Nat, NEW d \in {"null", "mapped", "failed"}
  PROVE  /\ [[Zeroed EXCEPT !.shmFd = b + 4] EXCEPT !.data = d]
              = [Mapped(b) EXCEPT !.data = d]
         /\ [Mapped(b) EXCEPT !.data = "mapped"] = Mapped(b)
<1>1. /\ b + 4 \in Int /\ 0 \in Int /\ FALSE \in BOOLEAN
      /\ "null" \in {"null", "mapped", "failed"}
      /\ "mapped" \in {"null", "mapped", "failed"}
  OBVIOUS
<1>2. Zeroed = Record(0, "null", FALSE) /\ Complete(b) = Record(b + 4, "mapped", TRUE)
  BY DEF Zeroed, Complete, Record
<1>3. [Zeroed EXCEPT !.shmFd = b + 4] = Record(b + 4, "null", FALSE)
  <2>1. [Record(0, "null", FALSE) EXCEPT !.shmFd = b + 4]
          = Record(b + 4, "null", FALSE)
    BY <1>1, SetShmFd
  <2> QED BY ONLY <1>2, <2>1, Zenon
<1>4. Mapped(b) = Record(b + 4, "mapped", FALSE)
  BY <1>1, <1>2, SetBuffer DEF Mapped
<1>5. \A e \in {"null", "mapped", "failed"} :
        [Record(b + 4, e, FALSE) EXCEPT !.data = d] = Record(b + 4, d, FALSE)
  <2> TAKE e \in {"null", "mapped", "failed"}
  <2> QED BY <1>1, SetData, Zenon
<1>6. [[Zeroed EXCEPT !.shmFd = b + 4] EXCEPT !.data = d] = Record(b + 4, d, FALSE)
  <2>1. [Record(b + 4, "null", FALSE) EXCEPT !.data = d] = Record(b + 4, d, FALSE)
    BY ONLY <1>1, <1>5, Zenon
  <2> QED BY ONLY <1>3, <2>1, Zenon
<1>7. [Mapped(b) EXCEPT !.data = d] = Record(b + 4, d, FALSE)
  <2>1. [Record(b + 4, "mapped", FALSE) EXCEPT !.data = d] = Record(b + 4, d, FALSE)
    BY ONLY <1>1, <1>5, Zenon
  <2> QED BY ONLY <1>4, <2>1, Zenon
<1>8. [Mapped(b) EXCEPT !.data = "mapped"] = Record(b + 4, "mapped", FALSE)
  BY <1>1, <1>4, SetData
<1> QED BY <1>4, <1>6, <1>7, <1>8

LEMMA MapStep ==
  ASSUME ShmIInv, MapShmFile
  PROVE  ShmIInv'
<1>0. at = "map" /\ at \in Filling
  BY DEF MapShmFile, Filling
<1>1. /\ shm[idx] = [Zeroed EXCEPT !.shmFd = idx + 4]
      /\ fd = -1 /\ open = 0..(idx + 4)
      /\ mapped = 0..(idx - 1) /\ wlBuffers = 0..(idx - 1)
  BY <1>0, InLoop DEF LoopInv, AtBuffer, Zeroed
<1>2. UNCHANGED <<idx, fd, buffersHeld, open, wlBuffers>>
  BY DEF MapShmFile
<1>3. PICK d \in {"mapped", "failed"} :
        /\ shm' = [shm EXCEPT ![idx].data = d]
        /\ \/ at' = "pool" /\ d = "mapped" /\ mapped' = mapped \cup {idx}
           \/ at' = "cleanup" /\ d = "failed" /\ mapped' = mapped
  BY DEF MapShmFile, Goto
<1>4. /\ shm'[idx] = [Mapped(idx) EXCEPT !.data = d]
      /\ \A b \in Buffers : b # idx => shm'[b] = shm[b]
  <2>1. /\ shm'[idx] = [shm[idx] EXCEPT !.data = d]
        /\ \A b \in Buffers : b # idx => shm'[b] = shm[b]
    BY <1>0, <1>3, InLoop
  <2>2. [[Zeroed EXCEPT !.shmFd = idx + 4] EXCEPT !.data = d]
          = [Mapped(idx) EXCEPT !.data = d]
    <3>1. idx \in Nat
      BY <1>0, InLoop
    <3> QED BY <1>3, <3>1, Records
  <2> QED BY <1>1, <2>1, <2>2
<1>5. shm' \in [Buffers -> [shmFd : Int, data : {"null", "mapped", "failed"},
                            buffer : BOOLEAN]]
  BY <1>3 DEF ShmIInv, ShmType
<1>6. ShmType'
  BY <1>0, <1>1, <1>2, <1>3, <1>5, InLoop DEF ShmIInv, ShmType
<1>7. \A b \in Buffers : /\ b < idx => shm'[b] = Complete(b)
                         /\ b > idx => shm'[b] = Zeroed
  BY <1>0, <1>4, InLoop DEF Buffers
<1>8. CASE at' = "pool"
  <2>1. shm'[idx] = Mapped(idx) /\ Mapped(idx).data = "mapped"
    <3>1. [Mapped(idx) EXCEPT !.data = "mapped"] = Mapped(idx)
      <4>1. idx \in Nat
        BY <1>0, InLoop
      <4> QED BY <4>1, Records
    <3>2. Mapped(idx).data = "mapped"
      BY DEF Mapped, Complete
    <3> QED BY <1>3, <1>4, <1>8, <3>1, <3>2
  <2>2. mapped' = 0..idx
    <3>1. mapped' = 0..(idx - 1) \cup {idx} /\ idx \in Nat
      BY <1>0, <1>1, <1>3, <1>8, InLoop
    <3> QED BY ONLY <3>1
  <2>3. LoopInv'
    BY <1>0, <1>1, <1>2, <1>7, <1>8, <2>1, <2>2, InLoop DEF LoopInv, AtBuffer
  <2> QED BY <1>6, <1>8, <2>3 DEF ShmIInv, ShmInv, Filling, Connecting, Creating,
           Undoing
<1>9. CASE at' = "cleanup"
  <2>1. /\ shm'[idx] = [Mapped(idx) EXCEPT !.data = "failed"] /\ mapped' = mapped
        /\ [Mapped(idx) EXCEPT !.data = "failed"].data = "failed"
    BY <1>3, <1>4, <1>9 DEF Mapped, Complete
  <2>2. LoopInv'
    BY <1>0, <1>1, <1>2, <1>7, <1>9, <2>1, InLoop DEF LoopInv, AtBuffer
  <2> QED BY <1>6, <1>9, <2>2 DEF ShmIInv, ShmInv, Filling, Connecting, Creating,
           Undoing
<1> QED BY <1>3, <1>8, <1>9

LEMMA PoolStep ==
  ASSUME ShmIInv, CreatePool
  PROVE  ShmIInv'
<1>0. at = "pool" /\ at \in Filling /\ UNCHANGED <<open, shmVars>>
  BY DEF CreatePool, Filling
<1>1. CASE at' = "crashed"
  BY <1>0, <1>1, ShmRests
<1>2. CASE at' \in {"buffer", "cleanup"}
  <2>1. /\ LoopInv /\ shm[idx] = Mapped(idx) /\ fd = -1 /\ open = 0..(idx + 4)
        /\ mapped = 0..(IF Mapped(idx).data = "mapped" THEN idx ELSE idx - 1)
    BY <1>0, InLoop DEF LoopInv, AtBuffer
  <2>2. LoopInv'
    BY <1>0, <1>2, <2>1 DEF LoopInv, AtBuffer, shmVars
  <2>3. ShmType'
    BY <1>0 DEF ShmIInv, ShmType, shmVars
  <2> QED BY <1>2, <2>2, <2>3 DEF ShmIInv, ShmInv, Filling, Connecting, Creating,
           Undoing
<1> QED BY <1>1, <1>2 DEF CreatePool, Goto

LEMMA CreateBufferStep ==
  ASSUME ShmIInv, CreateBuffer
  PROVE  ShmIInv'
<1>0. at = "buffer" /\ at \in Filling
  BY DEF CreateBuffer, Filling
<1>1. /\ shm[idx] = Mapped(idx) /\ fd = -1 /\ open = 0..(idx + 4)
      /\ mapped = 0..idx /\ wlBuffers = 0..(idx - 1)
  BY <1>0, InLoop DEF LoopInv, AtBuffer, Mapped, Complete
<1>2. UNCHANGED <<fd, open, mapped>>
  BY DEF CreateBuffer
<1>3. CASE at' = "cleanup"
  <2>1. UNCHANGED <<open, shmVars>>
    BY <1>2, <1>3 DEF CreateBuffer, Goto, shmVars
  <2>2. Mapped(idx).data = "mapped"
    BY DEF Mapped, Complete
  <2>3. LoopInv'
    BY <1>0, <1>1, <1>3, <2>1, <2>2, InLoop DEF LoopInv, AtBuffer, shmVars
  <2>4. ShmType'
    BY <2>1 DEF ShmIInv, ShmType, shmVars
  <2> QED BY <1>3, <2>3, <2>4 DEF ShmIInv, ShmInv, Filling, Connecting, Creating,
           Undoing
<1>4. CASE at' # "cleanup"
  <2>1. /\ shm' = [shm EXCEPT ![idx].buffer = TRUE]
        /\ wlBuffers' = wlBuffers \cup {idx} /\ idx' = idx + 1
        /\ at' = (IF idx' < BufferCount THEN "file" ELSE "surface")
        /\ buffersHeld' = (idx' = BufferCount)
    BY <1>4 DEF CreateBuffer, Goto
  <2>2. /\ shm'[idx] = Complete(idx)
        /\ \A b \in Buffers : b # idx => shm'[b] = shm[b]
    BY <1>0, <1>1, <2>1, InLoop DEF Mapped, Complete
  <2>3. shm' \in [Buffers -> [shmFd : Int, data : {"null", "mapped", "failed"},
                              buffer : BOOLEAN]]
    BY <2>1 DEF ShmIInv, ShmType
  <2>4. /\ idx' \in 0..BufferCount /\ idx \in Nat /\ idx \in Buffers
        /\ idx' - 1 = idx /\ idx' + 3 = idx + 4
    BY <1>0, <2>1, InLoop
  <2>5. wlBuffers' = 0..idx
    <3>1. wlBuffers' = 0..(idx - 1) \cup {idx} /\ idx \in Nat
      BY <1>0, <1>1, <2>1, InLoop
    <3> QED BY ONLY <3>1
  <2>6. ShmType'
    BY <1>2, <2>1, <2>3, <2>4 DEF ShmIInv, ShmType
  <2>7. \A b \in Buffers : /\ b < idx' => shm'[b] = Complete(b)
                           /\ b > idx' => shm'[b] = Zeroed
    BY <1>0, <2>1, <2>2, InLoop DEF Buffers
  <2>8. CASE idx' < BufferCount
    <3>1. idx' \in Buffers /\ shm'[idx'] = Zeroed /\ Zeroed.data = "null"
      <4>1. idx' \in Buffers /\ idx' > idx /\ idx' # idx
        BY <2>1, <2>4, <2>8 DEF Buffers
      <4>2. shm[idx'] = Zeroed
        BY <1>0, <4>1, InLoop
      <4> QED BY <2>2, <4>1, <4>2 DEF Zeroed
    <3>2. at' = "file" /\ ~buffersHeld'
      <4>1. idx' # BufferCount
        BY <2>4, <2>8
      <4> QED BY ONLY <2>1, <2>8, <4>1
    <3>3. LoopInv'
      BY <1>1, <1>2, <2>4, <2>5, <2>7, <3>1, <3>2 DEF LoopInv, AtBuffer
    <3> QED BY <2>6, <3>2, <3>3 DEF ShmIInv, ShmInv, Filling, Connecting, Creating,
           Undoing
  <2>9. CASE idx' = BufferCount
    <3>1. at' = "surface" /\ buffersHeld'
      <4>1. ~(idx' < BufferCount)
        BY <2>4, <2>9
      <4> QED BY ONLY <2>1, <2>9, <4>1
    <3>2. \A b \in Buffers : shm'[b] = Complete(b)
      BY <2>7, <2>9 DEF Buffers
    <3>3. shm' = [b \in Buffers |-> Complete(b)]
      BY <2>3, <3>2
    <3>4. Buffers = 0..idx /\ 0..(BufferCount + 3) = 0..(idx + 4)
      BY <2>4, <2>9 DEF Buffers
    <3>5. AllBuffers'
      BY <1>1, <1>2, <2>5, <2>9, <3>1, <3>3, <3>4 DEF AllBuffers
    <3> QED BY <2>6, <3>1, <3>5 DEF ShmIInv, ShmInv, Filling, Connecting, Creating,
           Undoing
  <2> QED BY <2>4, <2>8, <2>9
<1> QED BY <1>3, <1>4

(* The failure path closes what the loop has opened.  Of a buffer the loop *)
(* has not come to it closes descriptor 0.                                 *)
LEMMA CleanUpStep ==
  ASSUME ShmIInv, CleanUpBuffers
  PROVE  ShmIInv'
<1>0. at = "cleanup" /\ at \in Filling \cup {"cleanup"}
  BY DEF CleanUpBuffers
<1>1. /\ ReleaseAll /\ at' = "exit_error" /\ UNCHANGED <<idx, fd, shm, buffersHeld>>
  BY DEF CleanUpBuffers, Exit
<1>2. /\ idx \in Nat /\ idx \in Buffers /\ idx < BufferCount /\ ~buffersHeld
      /\ fd = -1 /\ wlBuffers = 0..(idx - 1)
  BY <1>0, InLoop DEF LoopInv, AtBuffer
<1>3. \A b \in Buffers :
        /\ b < idx => /\ shm[b].shmFd = b + 4 /\ shm[b].data = "mapped"
                      /\ shm[b].buffer
        /\ b > idx => shm[b].shmFd = 0
  BY <1>0, InLoop DEF Complete, Zeroed
<1>4. \/ shm[idx].shmFd = -1 /\ open = 0..(idx + 3)
      \/ shm[idx].shmFd = idx + 4 /\ open = 0..(idx + 4)
  BY <1>0, InLoop DEF LoopInv, AtBuffer, Zeroed, Mapped, Complete
<1>5. \/ mapped = 0..(idx - 1)
      \/ mapped = 0..idx /\ shm[idx].data = "mapped"
  BY <1>0, InLoop DEF LoopInv, AtBuffer, Zeroed, Mapped, Complete
<1> DEFINE closed == {shm[b].shmFd : b \in Buffers}
<1>6. \A b \in Buffers : shm[b].shmFd \in closed
  OBVIOUS
<1>7. \A n \in closed : \E b \in Buffers : n = shm[b].shmFd
  OBVIOUS
<1>8. open' = open \ closed
  BY <1>1 DEF ReleaseAll
<1> HIDE DEF closed
<1>9. ASSUME NEW n \in open' PROVE n \in 0..3
  <2> SUFFICES ASSUME n \notin 0..3 PROVE FALSE
    OBVIOUS
  <2>1. n \in 0..(idx + 4) /\ n \notin closed
    BY <1>2, <1>4, <1>8, <1>9
  <2>2. n - 4 \in 0..idx /\ n = (n - 4) + 4 /\ n - 4 \in Buffers
    BY <1>2, <2>1 DEF Buffers
  <2>3. CASE n - 4 < idx
    BY <1>3, <1>6, <2>1, <2>2, <2>3
  <2>4. CASE n - 4 = idx
    <3>1. n = idx + 4
      BY <2>2, <2>4
    <3>2. n \in open
      BY <1>8, <1>9
    <3>3. shm[idx].shmFd = idx + 4
      BY <1>2, <1>4, <3>1, <3>2
    <3> QED BY <1>2, <1>6, <2>1, <3>1, <3>3
  <2> QED BY <1>2, <2>2, <2>3, <2>4
<1>10. \A n \in 1..3 : n \in open'
  <2> SUFFICES ASSUME NEW n \in 1..3, n \in closed PROVE FALSE
    BY <1>2, <1>4, <1>8
  <2> PICK b \in Buffers : n = shm[b].shmFd
    BY <1>7
  <2>1. b \in Nat /\ (b < idx \/ b > idx \/ b = idx)
    BY <1>2 DEF Buffers
  <2> QED BY <1>2, <1>3, <1>4, <2>1
<1>11. open' \in {0..3, 1..3}
  <2>1. CASE 0 \in open'
    <3>1. open' = 0..3
      BY <1>9, <1>10, <2>1
    <3> QED BY <3>1
  <2>2. CASE 0 \notin open'
    <3>1. open' = 1..3
      BY <1>9, <1>10, <2>2
    <3> QED BY <3>1
  <2> QED BY <2>1, <2>2
<1>12. 0 \notin open' => idx < BufferCount - 1
  <2> SUFFICES ASSUME 0 \notin open' PROVE idx < BufferCount - 1
    OBVIOUS
  <2>1. 0 \in closed
    BY <1>2, <1>4, <1>8
  <2> PICK b \in Buffers : 0 = shm[b].shmFd
    BY <1>7, <2>1
  <2>2. b \in Nat /\ b < BufferCount /\ (b < idx \/ b > idx \/ b = idx)
    BY <1>2 DEF Buffers
  <2>3. b > idx
    BY <1>2, <1>3, <1>4, <2>2
  <2> QED BY <1>2, <2>2, <2>3
<1>13. mapped' = {}
  <2>1. \A b \in mapped : b \in Buffers /\ shm[b].data # "null"
    <3> TAKE b \in mapped
    <3>1. b \in 0..idx /\ b \in Buffers
      BY <1>2, <1>5 DEF Buffers
    <3>2. b < idx \/ b = idx
      BY <1>2, <3>1
    <3> QED BY <1>2, <1>3, <1>5, <3>1, <3>2
  <2>2. mapped' = mapped \ {b \in Buffers : shm[b].data # "null"}
    BY <1>1 DEF ReleaseAll
  <2> QED BY ONLY <2>1, <2>2
<1>14. wlBuffers' = {}
  <2>1. \A b \in wlBuffers : b \in Buffers /\ b < idx
    BY <1>2 DEF Buffers
  <2>2. wlBuffers' = wlBuffers \ {b \in Buffers : shm[b].buffer}
    BY <1>1 DEF ReleaseAll
  <2> QED BY <1>3, <2>1, <2>2
<1>15. BuffersReturned' /\ ~buffersHeld'
  <2>1. open' \ {Socket} \in {0..2, 1..2}
    BY <1>11 DEF Socket
  <2> QED BY <1>1, <1>2, <1>12, <1>13, <1>14, <2>1 DEF BuffersReturned
<1>16. ShmType'
  <2>1. open' \subseteq 0..(BufferCount + 4)
    BY <1>9
  <2> QED BY <1>1, <1>2, <1>13, <1>14, <2>1 DEF ShmIInv, ShmType
<1> QED BY <1>1, <1>15, <1>16 DEF ShmIInv, ShmInv, Connecting, Filling, Creating,
           Undoing

(* uvr_wc_destroy releases all the buffers if the program got them.        *)
LEMMA DestroyBuffersStep ==
  ASSUME ShmIInv, TeardownInv, DestroyBuffers, todo \in Seq(Proxies \cup {"buffers"})
  PROVE  ShmIInv'
<1>1. /\ at = "exit_error" /\ at' = at /\ todo # <<>> /\ Head(todo) = "buffers"
      /\ todo' = Tail(todo) /\ UNCHANGED <<idx, fd, shm, buffersHeld>>
      /\ IF buffersHeld THEN ReleaseAll ELSE UNCHANGED <<open, mapped, wlBuffers>>
  BY DEF DestroyBuffers
<1>2. "buffers" \in Left /\ "buffers" \notin Left'
  BY <1>1, LookAt
<1>3. CASE ~buffersHeld
  <2>1. BuffersReturned' /\ ShmType'
    BY <1>1, <1>3 DEF ShmIInv, ShmInv, ShmType, BuffersReturned
  <2> QED BY <1>1, <1>2, <2>1 DEF ShmIInv, ShmInv, Connecting, Filling, Creating,
           Undoing
<1>4. CASE buffersHeld
  <2>1. /\ ReleaseAll /\ fd = -1 /\ shm = [b \in Buffers |-> Complete(b)]
        /\ open = 0..(BufferCount + 3) /\ mapped = Buffers /\ wlBuffers = Buffers
    BY <1>1, <1>2, <1>4 DEF ShmIInv, ShmInv, AllBuffers
  <2>2. \A b \in Buffers : /\ shm[b].shmFd = b + 4 /\ shm[b].data = "mapped"
                           /\ shm[b].buffer
    BY <2>1 DEF Complete
  <2>3. open' = 0..3
    <3>1. {shm[b].shmFd : b \in Buffers} = {b + 4 : b \in Buffers}
      BY <2>2
    <3>2. {b + 4 : b \in Buffers} = 4..(BufferCount + 3)
      <4>1. ASSUME NEW n \in 4..(BufferCount + 3) PROVE \E b \in Buffers : n = b + 4
        <5>1. n - 4 \in Buffers /\ n = (n - 4) + 4
          BY DEF Buffers
        <5> QED BY <5>1
      <4>2. \A b \in Buffers : b + 4 \in 4..(BufferCount + 3)
        BY DEF Buffers
      <4> QED BY <4>1, <4>2
    <3>3. open' = 0..(BufferCount + 3) \ (4..(BufferCount + 3))
      BY <2>1, <3>1, <3>2 DEF ReleaseAll
    <3> QED BY <3>3
  <2>4. mapped' = {} /\ wlBuffers' = {}
    BY <2>1, <2>2 DEF ReleaseAll
  <2>5. ShmType'
    <3>1. 0..3 \subseteq 0..(BufferCount + 4)
      OBVIOUS
    <3> QED BY <1>1, <2>1, <2>3, <2>4, <3>1 DEF ShmIInv, ShmType
  <2>6. BuffersReturned'
    <3>1. 0 \in open' /\ open' \ {Socket} = 0..2
      BY <2>3 DEF Socket
    <3> QED BY <1>1, <2>1, <2>4, <3>1 DEF BuffersReturned
  <2> QED BY <1>1, <1>2, <2>5, <2>6 DEF ShmIInv, ShmInv, Connecting, Filling, Creating,
           Undoing
<1> QED BY <1>3, <1>4

(* While the program connects there are no buffers; the socket comes and,  *)
(* if there can be no registry, goes.                                      *)
LEMMA ConnectStep ==
  ASSUME ShmIInv, UNCHANGED shmVars, Connect \/ GetRegistry \/ LearnGlobals
  PROVE  ShmIInv'
<1> USE DEF Goto, Exit
<1>1. CASE open' = open
  <2>1. \/ at = "registry" /\ at' = "roundtrip"
        \/ at = "roundtrip" /\ at' = "buffers"
        \/ at \in Connecting /\ at' = "exit_error"
        \/ at = "connect" /\ at' = "registry"
    BY DEF Connect, GetRegistry, LearnGlobals, Roundtrip, Connecting
  <2>2. at = "connect" => 3 \notin open
    BY DEF ShmIInv, ShmInv, NoBuffers, Connecting
  <2>3. ~(at = "connect" /\ at' = "registry")
    BY <1>1, <2>2 DEF Connect, GetRegistry, LearnGlobals, Roundtrip, Socket
  <2> QED BY <1>1, <2>1, <2>3, ShmRests
<1>2. CASE open' = open \cup {Socket} /\ at = "connect" /\ at' = "registry"
  <2>1. NoBuffers
    BY <1>2 DEF ShmIInv, ShmInv, Connecting
  <2>2. open = 0..2 /\ open' = 0..3
    BY <1>2, <2>1 DEF NoBuffers, Socket
  <2>3. NoBuffers'
    BY <1>2, <2>1, <2>2 DEF NoBuffers, Socket, shmVars
  <2>4. ShmType'
    <3>1. 0..3 \subseteq 0..(BufferCount + 4)
      OBVIOUS
    <3> QED BY <2>1, <2>2, <3>1 DEF ShmIInv, ShmType, NoBuffers, shmVars
  <2> QED BY <1>2, <2>3, <2>4 DEF ShmIInv, ShmInv, Connecting, Filling, Creating,
             Undoing
<1>3. CASE open' = open \ {Socket} /\ at = "registry" /\ at' = "exit_error"
  <2>1. NoBuffers
    BY <1>3 DEF ShmIInv, ShmInv, Connecting
  <2>2. open = 0..3 /\ open' = 0..2
    BY <1>3, <2>1 DEF NoBuffers, Socket
  <2>3. BuffersReturned' /\ ~buffersHeld'
    <3>1. open' \ {Socket} = 0..2 /\ 0 \in open'
      BY <2>2 DEF Socket
    <3> QED BY <2>1, <3>1 DEF NoBuffers, BuffersReturned, shmVars
  <2>4. ShmType'
    <3>1. 0..2 \subseteq 0..(BufferCount + 4)
      OBVIOUS
    <3> QED BY <2>1, <2>2, <3>1 DEF ShmIInv, ShmType, NoBuffers, shmVars
  <2> QED BY <1>3, <2>3, <2>4 DEF ShmIInv, ShmInv, Connecting, Filling, Creating,
             Undoing
<1> QED BY <1>1, <1>2, <1>3 DEF Connect, GetRegistry, LearnGlobals, Roundtrip

LEMMA ShmStep ==
  ASSUME PInv, [ProgramNext]_programVars
  PROVE  ShmIInv'
<1>0. /\ ShmIInv /\ TeardownInv /\ ProxyInv /\ GlobalsInv
      /\ held \subseteq Proxies /\ proxies \subseteq Proxies
      /\ todo \in Seq(Proxies \cup {"buffers"})
  BY DEF PInv, ProgramTypeOK, ProgramInv, ShmIInv, ShmType
<1>1. CASE (Connect \/ GetRegistry \/ LearnGlobals) /\ UNCHANGED shmVars
  BY <1>0, <1>1, ConnectStep
<1>2. CASE CreateBuffers
  BY <1>0, <1>2, AllocateStep, CreateFileStep, TruncateStep, MapStep, PoolStep,
     CreateBufferStep, CleanUpStep DEF CreateBuffers
<1>3. CASE CreateWindowObjects
  <2>1. /\ at \in Creating /\ UNCHANGED <<open, shmVars>>
        /\ at' \in Creating \cup {"window", "crashed", "exit_error"}
        /\ at' = "exit_error" => todo' = DestroyOrder
    BY <1>0, <1>3, WindowCalls
  <2>2. todo' = DestroyOrder => "buffers" \in Left'
    <3> SUFFICES ASSUME todo' = DestroyOrder PROVE "buffers" \in Left'
      OBVIOUS
    <3>1. 4 \in 1..Len(todo') /\ todo'[4] = "buffers"
      BY DestroyOrderFacts
    <3> QED BY <3>1 DEF Left
  <2> QED BY <1>0, <2>1, <2>2, ShmRests
<1>4. CASE LeaveLoop
  <2>1. /\ at = "window" /\ UNCHANGED <<open, shmVars>> /\ at' = "exit_error"
        /\ todo' = DestroyOrder
    BY <1>4 DEF LeaveLoop, Exit
  <2>2. 4 \in 1..Len(todo') /\ todo'[4] = "buffers"
    BY <2>1, DestroyOrderFacts
  <2>3. "buffers" \in Left'
    BY <2>2 DEF Left
  <2> QED BY <1>0, <2>1, <2>3, ShmRests
<1>5. CASE DestroyProxy /\ UNCHANGED shmVars
  <2>1. /\ at = "exit_error" /\ at' = at /\ todo # <<>> /\ todo' = Tail(todo)
        /\ Head(todo) # "buffers"
    BY <1>5 DEF DestroyProxy
  <2>2. "buffers" \in Left' <=> "buffers" \in Left
    BY <1>0, <2>1, LookAt
  <2>3. CASE open' = open
    <3>1. /\ AllBuffers' = AllBuffers /\ BuffersReturned' = BuffersReturned
          /\ buffersHeld' = buffersHeld /\ ShmType' = ShmType
      BY <1>5, <2>3 DEF AllBuffers, BuffersReturned, shmVars, ShmType
    <3> QED BY <1>0, <2>1, <2>2, <3>1 DEF ShmIInv, ShmInv, Connecting, Filling,
               Creating, Undoing
  <2>4. CASE Head(todo) = "wl_display" /\ open' = open \ {Socket}
    <3>1. /\ Head(todo) = DestroyOrder[12 - Len(todo)] /\ Len(todo) \in 1..11
          /\ Left' = {DestroyOrder[j] : j \in (13 - Len(todo))..11}
      BY <1>0, <2>1, LookAt
    <3>2. 12 - Len(todo) = 11
      <4>1. 12 - Len(todo) \in 1..11 /\ 11 \in 1..11
        <5>1. \A n \in 1..11 : 12 - n \in 1..11 /\ 11 \in 1..11
          OBVIOUS
        <5>2. Len(todo) \in 1..11
          BY <3>1
        <5> QED BY ONLY <5>1, <5>2
      <4>2. DestroyOrder[11] = DestroyOrder[12 - Len(todo)]
        BY <2>4, <3>1, DestroyOrderFacts
      <4> QED BY <4>1, <4>2, DestroyedOnce
    <3>3. Left' = {}
      <4>1. 13 - Len(todo) = 12
        BY <3>1, <3>2
      <4> QED BY <3>1, <4>1
    <3>4. BuffersReturned
      BY <1>0, <2>1, <2>2, <3>3 DEF ShmIInv, ShmInv
    <3>5. BuffersReturned'
      <4>1. open' \ {Socket} = open \ {Socket}
        BY <2>4
      <4>2. 0 \notin open' => 0 \notin open
        BY <2>4 DEF Socket
      <4>3. idx' = idx /\ fd' = fd /\ mapped' = mapped /\ wlBuffers' = wlBuffers
        BY <1>5 DEF shmVars
      <4> QED BY <3>4, <4>1, <4>2, <4>3 DEF BuffersReturned
    <3>6. ShmType'
      <4>1. fd = -1
        BY <3>4 DEF BuffersReturned
      <4> QED BY <1>0, <1>5, <2>4, <4>1 DEF ShmIInv, ShmType, shmVars
    <3> QED BY <2>1, <2>2, <3>3, <3>5, <3>6 DEF ShmIInv, ShmInv, Connecting,
               Filling, Creating, Undoing
  <2>5. \/ open' = open
        \/ Head(todo) = "wl_display" /\ open' = open \ {Socket}
    BY <1>5 DEF DestroyProxy
  <2> QED BY <2>3, <2>4, <2>5
<1>6. CASE DestroyBuffers
  BY <1>0, <1>6, DestroyBuffersStep
<1>7. CASE Finish /\ UNCHANGED shmVars
  <2>1. at = "exit_error" /\ at' = "done" /\ todo = <<>> /\ todo' = todo
    BY <1>7 DEF Finish, Goto
  <2>2. Left = {} /\ Left' = {}
    BY <2>1 DEF Left
  <2>3. BuffersReturned' = BuffersReturned /\ ShmType' = ShmType
    BY <1>7 DEF Finish, BuffersReturned, shmVars, ShmType
  <2> QED BY <1>0, <2>1, <2>2, <2>3 DEF ShmIInv, ShmInv, Connecting, Filling, Creating,
           Undoing
<1>8. CASE Idle \/ UNCHANGED programVars
  BY <1>0, <1>8, ShmRests DEF Idle, programVars, coreVars
<1>9. CASE UndoWindow
  <2>1. /\ at \in Undoing /\ at' \in Undoing \cup {"exit_error"}
        /\ UNCHANGED <<open, shmVars>>
        /\ at' = "exit_error" => todo' = DestroyOrder
    BY <1>0, <1>9, UndoCalls
  <2>2. todo' = DestroyOrder => "buffers" \in Left'
    <3> SUFFICES ASSUME todo' = DestroyOrder PROVE "buffers" \in Left'
      OBVIOUS
    <3>1. 4 \in 1..Len(todo') /\ todo'[4] = "buffers"
      BY DestroyOrderFacts
    <3> QED BY <3>1 DEF Left
  <2> QED BY <1>0, <2>1, <2>2, ShmRests DEF Creating
<1> QED BY <1>1, <1>2, <1>3, <1>4, <1>5, <1>6, <1>7, <1>8, <1>9, ProgramSteps

-----------------------------------------------------------------------------
(***************************************************************************)
(* The theorems.                                                           *)
(***************************************************************************)

LEMMA ProgramStarts == ProgramInit => PInv
<1> SUFFICES ASSUME ProgramInit PROVE PInv
  OBVIOUS
<1>1. TypeOK /\ ~killed
  BY TypeInit DEF ProgramInit, Init
<1>2. /\ at = "connect" /\ proxies = {} /\ held = {} /\ todo = <<>>
      /\ lost = {} /\ idx = 0 /\ fd = -1 /\ shm = [b \in Buffers |-> Zeroed]
      /\ buffersHeld = FALSE /\ open = 0..2 /\ mapped = {} /\ wlBuffers = {}
  BY DEF ProgramInit, CoreInit, ShmInit
<1>3. ShmIInv
  <2>1. Zeroed \in [shmFd : Int, data : {"null", "mapped", "failed"}, buffer : BOOLEAN]
    BY DEF Zeroed
  <2>2. 0..2 \subseteq 0..(BufferCount + 4)
    OBVIOUS
  <2>3. ShmType
    <3>1. idx \in 0..BufferCount /\ fd \in open \cup {-1}
      BY <1>2
    <3>2. shm \in [Buffers -> [shmFd : Int, data : {"null", "mapped", "failed"},
                              buffer : BOOLEAN]]
      BY <1>2, <2>1
    <3> QED BY <1>2, <2>2, <3>1, <3>2 DEF ShmType
  <2>4. NoBuffers
    BY <1>2 DEF NoBuffers
  <2> QED BY <1>2, <2>3, <2>4 DEF ShmIInv, ShmInv, Connecting, Filling, Creating,
           Undoing
<1>4. ProgramTypeOK
  BY <1>1, <1>2, <1>3 DEF ProgramTypeOK, ShmIInv, ShmType
<1>5. ProxyInv /\ SocketInv /\ GlobalsInv /\ TeardownInv
  BY <1>1, <1>2 DEF ProxyInv, GlobalsInv, MissingGlobalsCaught, TeardownInv,
                    SocketInv, Connecting, Filling, Creating, Undoing
<1> QED BY <1>3, <1>4, <1>5 DEF PInv, ProgramInv, ShmIInv

LEMMA ProgramStep == PInv /\ [ProgramNext]_programVars => PInv'
<1> SUFFICES ASSUME PInv, [ProgramNext]_programVars PROVE PInv'
  OBVIOUS
<1>1. TypeOK'
  BY ProgramIsWindow, TypeStep DEF PInv, ProgramTypeOK, ProgramInv
<1>2. ProxyInv' /\ GlobalsInv' /\ proxies' \subseteq Proxies /\ held' \subseteq Proxies
  BY ProxyStep
<1>3. TeardownInv' /\ todo' \in Seq(Proxies \cup {"buffers"})
  BY TeardownStep
<1>4. ShmIInv' /\ SocketInv'
  BY ShmStep, SocketStep
<1>5. lost' \subseteq Repeated \cap Wanted
  BY LostStep
<1>6. ProgramTypeOK'
  BY <1>1, <1>2, <1>3, <1>4, <1>5 DEF ProgramTypeOK, ShmIInv, ShmType
<1> QED BY <1>2, <1>3, <1>4, <1>6 DEF PInv, ProgramInv, ShmIInv

(* The program keeps the types of its variables and its invariant, for     *)
(* every number of buffers and whatever the compositor announces.          *)
THEOREM ProgramInvariant == ProgramSpec => [](ProgramTypeOK /\ ProgramInv)
<1>1. PInv <=> ProgramTypeOK /\ ProgramInv
  BY DEF PInv
<1> QED BY <1>1, ProgramStarts, ProgramStep, PTL DEF ProgramSpec

(* The window of shm-buffer.c is a window of WaylandSurface: what has been *)
(* proved of windows holds of the program that sets one up and tears it    *)
(* down again.                                                             *)
THEOREM ProgramRunsWindow == ProgramSpec => Spec
<1>1. ProgramInit => Init
  BY DEF ProgramInit
<1>2. ProgramTypeOK /\ ProgramInv /\ [ProgramNext]_programVars => [Next]_vars
  BY ProgramIsWindow DEF ProgramTypeOK, ProgramInv
<1> QED BY <1>1, <1>2, ProgramInvariant, PTL DEF ProgramSpec, Spec

(* Whichever call fails, in the end nothing is left but what the           *)
(* structures of the library do not mention, and no descriptor but         *)
(* perhaps stdin is missing.                                               *)
THEOREM ReturnedInTheEnd == ProgramSpec => []ClientReturned
<1>1. ProgramTypeOK /\ ProgramInv => ClientReturned
  <2> SUFFICES ASSUME ProgramInv, at = "done" PROVE ClientReturned
    BY DEF ClientReturned
  <2>1. todo = <<>> /\ TeardownInv /\ ShmInv /\ SocketInv
    BY DEF ProgramInv, ShmInv
  <2>2. Left = {}
    BY <2>1 DEF Left
  <2>3. BuffersReturned /\ Socket \notin open
    BY <2>1, <2>2 DEF ShmInv, SocketInv
  <2>4. open \ {Socket} = open
    BY <2>3
  <2>5. proxies \subseteq Unmentioned
    BY <2>1, <2>2 DEF TeardownInv
  <2> QED BY <2>3, <2>4, <2>5 DEF BuffersReturned, ClientReturned, Unmentioned
<1> QED BY <1>1, ProgramInvariant, PTL

(* A global the compositor does not offer is looked for before it is used, *)
(* but for xdg_wm_base.                                                    *)
THEOREM GlobalsCaught == ProgramSpec => []MissingGlobalsCaught
<1>1. ProgramTypeOK /\ ProgramInv => MissingGlobalsCaught
  BY DEF ProgramInv, GlobalsInv
<1> QED BY <1>1, ProgramInvariant, PTL

(* What remains is destroyed in this order, the connection last.           *)
LEMMA InDestroyOrder ==
  ASSUME TeardownInv, ProxyInv, ShmInv, proxies \subseteq Proxies,
         todo \in Seq(Proxies \cup {"buffers"}), DestroyProxy, TeardownInv',
         NEW pair \in Children, pair[2] \in proxies \ proxies'
  PROVE  pair[1] \notin proxies' /\ (pair[2] = "wl_display" => wlBuffers = {})
<1>1. /\ at = "exit_error" /\ at' = at /\ todo # <<>> /\ todo' = Tail(todo)
      /\ Head(todo) = pair[2]
  BY DEF DestroyProxy
<1>2. PICK n \in 1..11 : n = 12 - Len(todo)
  <2>1. Len(todo) \in 1..11
    BY <1>1, LookAt
  <2>2. \A m \in 1..11 : 12 - m \in 1..11
    OBVIOUS
  <2> QED BY <2>1, <2>2
<1>3. /\ pair[2] = DestroyOrder[n]
      /\ Left = {DestroyOrder[j] : j \in n..11}
      /\ Left' = {DestroyOrder[j] : j \in (n + 1)..11}
  <2>1. /\ Head(todo) = DestroyOrder[12 - Len(todo)] /\ Len(todo) \in 1..11
        /\ Left' = {DestroyOrder[j] : j \in (13 - Len(todo))..11}
    BY <1>1, LookAt
  <2>2. Left = {DestroyOrder[j] : j \in (12 - Len(todo))..11}
    BY <1>1, LeftOver
  <2>3. 13 - Len(todo) = n + 1
    BY <1>2, <2>1
  <2> QED BY <1>1, <1>2, <2>1, <2>2, <2>3
<1>4. proxies' \subseteq Left' \cup Unmentioned
  BY <1>1 DEF TeardownInv
<1>5. ASSUME NEW j \in 1..11, DestroyOrder[j] \in Left' PROVE n < j
  <2> PICK i \in (n + 1)..11 : DestroyOrder[i] = DestroyOrder[j]
    BY <1>3, <1>5
  <2>1. i = j
    <3>1. i \in 1..11
      BY <1>2
    <3> QED BY <3>1, DestroyedOnce
  <2> QED BY <1>2, <2>1
<1>6. ASSUME NEW j \in 1..11, DestroyOrder[j] = pair[2] PROVE n = j
  BY <1>2, <1>3, <1>6, DestroyedOnce
<1>7. CASE pair = <<"xdg_toplevel", "xdg_surface">>
  <2>1. n = 2
    BY <1>6, <1>7, DestroyOrderFacts
  <2>2. "xdg_toplevel" \notin Left'
    BY <1>5, <2>1, DestroyOrderFacts
  <2> QED BY <1>4, <1>7, <2>2 DEF Unmentioned
<1>8. CASE pair \in {<<"xdg_surface", "wl_surface">>, <<"xdg_surface", "xdg_wm_base">>}
  <2>1. n \in {3, 7}
    BY <1>6, <1>8, DestroyOrderFacts
  <2>2. "xdg_surface" \notin Left'
    BY <1>5, <2>1, DestroyOrderFacts
  <2> QED BY <1>4, <1>8, <2>2 DEF Unmentioned
<1>9. CASE /\ pair[1] \notin Unmentioned
           /\ pair[2] = "wl_display"
  <2>1. n = 11
    BY <1>6, <1>9, DestroyOrderFacts
  <2>2. Left' = {}
    BY <1>3, <2>1
  <2>3. Left = {"wl_display"}
    BY <1>3, <2>1, DestroyOrderFacts
  <2>4. "buffers" \notin Left
    BY <2>3
  <2>5. wlBuffers = {}
    BY <1>1, <2>4 DEF ShmInv, BuffersReturned
  <2> QED BY <1>4, <1>9, <2>2, <2>5
<1> QED BY <1>7, <1>8, <1>9 DEF Children, Unmentioned

(* Nothing is destroyed before what was made from it, whether the program  *)
(* ends, is killed or gives up half-way; the connection goes last, when    *)
(* there are no buffers any more.                                          *)
THEOREM DestroyedChildrenFirst == ProgramSpec => ChildrenFirst
<1> DEFINE Ordered ==
      /\ \A pair \in Children :
           pair[2] \in proxies \ proxies' => pair[1] \notin proxies'
      /\ "wl_display" \in proxies \ proxies' => wlBuffers' = {}
<1>1. ASSUME PInv, PInv', [ProgramNext]_programVars PROVE Ordered
  <2>0. /\ TeardownInv /\ ProxyInv /\ GlobalsInv /\ ShmInv /\ TeardownInv'
        /\ held \subseteq Proxies /\ proxies \subseteq Proxies
        /\ todo \in Seq(Proxies \cup {"buffers"})
    BY <1>1 DEF PInv, ProgramTypeOK, ProgramInv
  <2>1. CASE proxies \subseteq proxies'
    BY <2>1
  <2>2. CASE GetRegistry /\ UNCHANGED shmVars
    <3>1. proxies = {"wl_display"} /\ (proxies \subseteq proxies' \/ proxies' = {})
      BY <2>0, <2>2 DEF GetRegistry, ProxyInv
    <3>2. wlBuffers' = {}
      BY <2>0, <2>2 DEF GetRegistry, ShmInv, Connecting, NoBuffers, shmVars
    <3> QED BY <3>1, <3>2
  <2>3. CASE CreateBuffers
    <3>1. proxies \ proxies' \subseteq {"wl_shm_pool"}
      BY <2>0, <2>3, BufferObjects
    <3> QED BY <3>1 DEF Children
  <2>4. CASE CreateWindowObjects
    <3>1. proxies \subseteq proxies'
      BY <2>0, <2>4, WindowCalls
    <3> QED BY <2>1, <3>1
  <2>5. CASE DestroyProxy /\ UNCHANGED shmVars
    <3>1. \A pair \in Children : pair[2] \in proxies \ proxies' =>
            pair[1] \notin proxies' /\ (pair[2] = "wl_display" => wlBuffers = {})
      BY <2>0, <2>5, InDestroyOrder
    <3>2. <<"xdg_toplevel", "wl_display">> \in Children
      BY DEF Children, Proxies, WindowObjects
    <3>3. wlBuffers' = wlBuffers
      BY <2>5 DEF shmVars
    <3> QED BY <3>1, <3>2, <3>3
  <2>6. CASE \/ Connect \/ LearnGlobals \/ LeaveLoop \/ DestroyBuffers
             \/ Finish \/ Idle \/ UNCHANGED programVars
    <3>1. proxies \subseteq proxies'
      BY <2>0, <2>6 DEF Connect, LearnGlobals, Roundtrip, LeaveLoop, DestroyBuffers,
         Finish, Idle, programVars, coreVars, ProxyInv
    <3> QED BY <2>1, <3>1
  <2>7. CASE UndoWindow
    <3>1. /\ proxies' \subseteq proxies
          /\ \/ proxies \ proxies' \subseteq {"xdg_toplevel"}
             \/ /\ proxies \ proxies' \subseteq {"xdg_surface"}
                /\ "xdg_toplevel" \notin proxies
             \/ /\ proxies \ proxies' \subseteq {"wl_surface"}
                /\ "xdg_surface" \notin proxies
      BY <2>0, <2>7, UndoCalls
    <3> QED BY <3>1 DEF Children
  <2> QED BY <2>2, <2>3, <2>4, <2>5, <2>6, <2>7, <1>1, ProgramSteps
<1>2. PInv /\ PInv' /\ [ProgramNext]_programVars => [Ordered]_programVars
  BY <1>1
<1>3. PInv <=> ProgramTypeOK /\ ProgramInv
  BY DEF PInv
<1> QED BY <1>2, <1>3, ProgramInvariant, PTL DEF ProgramSpec, ChildrenFirst

(* The theorems about one window are theorems about this program.          *)
THEOREM ProgramFrames ==
  ASSUME NEW a, Surfaces = {a}, Renderless = {}, Attach => BufferCount >= 3
  PROVE  ProgramSpec => []OneCallback /\ DrawsOffScreen /\ FramesInOrder
  BY ProgramRunsWindow, OneCallbackOfOneWindow, DrawingOffScreen, FramesAreInOrder, PTL

=============================================================================
