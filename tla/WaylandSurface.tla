--------------------------- MODULE WaylandSurface ---------------------------
(***************************************************************************)
(* The windows of a Wayland client of the library: uvr_wc_surface_create,  *)
(* the listeners it installs, the dispatch loop of the examples, and the   *)
(* compositor behind the socket.                                           *)
(*                                                                         *)
(* Requests travel to the compositor and events to the client in order.    *)
(* The handlers run one at a time inside wl_display_dispatch; every        *)
(* handler gets the same static rinfo, which describes the surface created *)
(* last.  Frames are paced by the wl_callback that drawframe registers     *)
(* again each time.                                                        *)
(***************************************************************************)
EXTENDS Naturals, Sequences, FiniteSets

CONSTANTS
    Surfaces,       \* the surfaces the program creates
    Renderless,     \* those that may be created with renderer = NULL
    NoSurface,      \* rinfo after memset
    NoBuffer,       \* nothing attached
    BufferCount,    \* bufferCount of every surface
    Attach,         \* uvrWcWlBuffers is set: the library attaches buffers
    Strict,         \* the compositor may refuse content before ack_configure
    UnmappedFrames  \* it sends frame events to surfaces without content

ASSUME SurfacesAssumption == /\ IsFiniteSet(Surfaces) /\ NoSurface \notin Surfaces
                             /\ Renderless \subseteq Surfaces
ASSUME BuffersAssumption == BufferCount \in Nat /\ NoBuffer \notin Nat
ASSUME ModesAssumption == /\ Attach \in BOOLEAN /\ Strict \in BOOLEAN
                          /\ UnmappedFrames \in BOOLEAN
                          /\ Attach => BufferCount > 0

VARIABLES
    pc,        \* the client: create, poll, dispatch, done or crashed
    batch,     \* events of the dispatch in progress still to handle
    created,   \* surfaces created
    bare,      \* the surfaces the program creates without a renderer
    slot,      \* the surface the static rinfo describes
    cbuf,      \* *rendererCbuf of each surface
    running,   \* *rendererRuning of each surface
    wire,      \* requests on their way to the compositor
    events,    \* events on their way to the client
    comp,      \* each surface as the compositor knows it
    ping,      \* a ping waits for its pong
    killed     \* the connection is broken, by a protocol error or otherwise

client     == <<pc, batch, created, slot, cbuf, running>>
compositor == <<comp, ping, killed>>
vars == <<pc, batch, created, bare, slot, cbuf, running, wire, events, comp,
          ping, killed>>

Buffers == 0..(BufferCount - 1)

Req(op, s)   == [op |-> op, surface |-> s, buffer |-> NoBuffer]
AttachReq(s, b) == [op |-> "attach", surface |-> s, buffer |-> b]
Event(op, s) == [op |-> op, surface |-> s]

\* pending state (frames, buffer), committed state (ready, front), and the
\* state of the window: configure sent, configure acknowledged, close sent
NewSurface == [frames |-> 0, buffer |-> NoBuffer, ready |-> 0,
               front |-> NoBuffer, sent |-> FALSE, acked |-> FALSE,
               closed |-> FALSE]

Init ==
    /\ pc = "create" /\ batch = 0 /\ created = {} /\ slot = NoSurface
    /\ bare \in SUBSET Renderless
    /\ cbuf = [s \in Surfaces |-> 0]
    /\ running = [s \in Surfaces |-> TRUE]
    /\ wire = <<>> /\ events = <<>>
    /\ comp = [s \in Surfaces |-> NewSurface]
    /\ ping = FALSE /\ killed = FALSE

(***************************************************************************)
(* The client.                                                             *)
(***************************************************************************)

\* variant: the frame callback is registered for the first frame only
FrameRequestsOnce(s) ==
    IF pc = "create"
      THEN <<Req("frame", s), Req("commit", s)>>
      ELSE <<AttachReq(s, cbuf[s]), Req("commit", s)>>

\* drawframe for surface s: it registers the next frame callback and commits
\* it, renders into buffer *cbuf, attaches that buffer and commits again.
FrameRequests(s) ==
    <<Req("frame", s), Req("commit", s)>>
      \o (IF Attach THEN <<AttachReq(s, cbuf[s])>> ELSE <<>>)
      \o <<Req("commit", s)>>

\* variants: the same buffer again; no wrap-around; a buffer skipped
SameBuffer(s) == cbuf[s]
NextBufferNoWrap(s) == cbuf[s] + 1
SecondNextBuffer(s) == (cbuf[s] + 2) % BufferCount

NextBuffer(s) == IF BufferCount > 0 THEN (cbuf[s] + 1) % BufferCount ELSE cbuf[s]

DrawFrame(s, before) ==
    /\ wire' = wire \o before \o FrameRequests(s)
    /\ cbuf' = [cbuf EXCEPT ![s] = NextBuffer(s)]

\* uvr_wc_surface_create: the static rinfo is overwritten, the surface is
\* committed without content and, with a renderer, its first frame is drawn.
CreateSurface(s) ==
    /\ pc = "create" /\ s \notin created
    /\ created' = created \cup {s}
    /\ IF s \in bare
         THEN /\ slot' = NoSurface
              /\ wire' = Append(wire, Req("commit", s))
              /\ UNCHANGED cbuf
         ELSE /\ slot' = s
              /\ DrawFrame(s, <<Req("commit", s)>>)
    /\ UNCHANGED <<bare, pc, batch, running, events, compositor>>

EnterLoop ==
    /\ pc = "create" /\ created = Surfaces
    /\ pc' = "poll"
    /\ UNCHANGED <<bare, batch, created, slot, cbuf, running, wire, events,
                   compositor>>

\* wl_display_dispatch reads some of the events that have arrived.
Poll(n) ==
    /\ pc = "poll"
    /\ pc' = "dispatch"
    /\ batch' = n
    /\ UNCHANGED <<bare, created, slot, cbuf, running, wire, events, compositor>>

\* variant: the loop ignores the result of wl_display_dispatch
DispatchFailsIgnored == pc = "poll" /\ killed /\ UNCHANGED vars

\* wl_display_dispatch returns -1.
DispatchFails ==
    /\ pc = "poll" /\ killed
    /\ pc' = "done"
    /\ UNCHANGED <<bare, batch, created, slot, cbuf, running, wire, events,
                   compositor>>

Take(op) ==
    /\ pc = "dispatch" /\ batch > 0
    /\ Head(events).op = op
    /\ events' = Tail(events)
    /\ batch' = batch - 1

\* drawframe as the done listener: whatever surface the callback was for, it
\* draws the one rinfo describes.
HandleDone ==
    /\ Take("done")
    /\ slot # NoSurface
    /\ DrawFrame(slot, <<>>)
    /\ UNCHANGED <<bare, pc, created, slot, running, compositor>>

\* variant: the handler overwrites its copy of the pointer, not the flag
HandleCloseLocal ==
    /\ Take("close")
    /\ slot # NoSurface
    /\ UNCHANGED <<bare, pc, created, slot, cbuf, running, wire, compositor>>

\* xdg_toplevel_handle_close
HandleClose ==
    /\ Take("close")
    /\ slot # NoSurface
    /\ running' = [running EXCEPT ![slot] = FALSE]
    /\ UNCHANGED <<bare, pc, created, slot, cbuf, wire, compositor>>

\* Both handlers dereference what rinfo holds, NULL after memset.
HandlerCrashes ==
    /\ Take("done") \/ Take("close")
    /\ slot = NoSurface
    /\ pc' = "crashed"
    /\ UNCHANGED <<bare, created, slot, cbuf, running, wire, compositor>>

\* variant: a configure is also answered with a frame
HandleConfigureRedraws ==
    /\ Take("configure")
    /\ DrawFrame(Head(events).surface, <<Req("ack", Head(events).surface)>>)
    /\ UNCHANGED <<bare, pc, created, slot, running, compositor>>

\* xdg_surface_handle_configure
HandleConfigure ==
    /\ Take("configure")
    /\ wire' = Append(wire, Req("ack", Head(events).surface))
    /\ UNCHANGED <<bare, pc, created, slot, cbuf, running, compositor>>

\* xdg_wm_base_ping
HandlePing ==
    /\ Take("ping")
    /\ wire' = Append(wire, Req("pong", NoSurface))
    /\ UNCHANGED <<bare, pc, created, slot, cbuf, running, compositor>>

LoopTest ==
    /\ pc = "dispatch" /\ batch = 0
    /\ pc' = IF \A s \in Surfaces : running[s] THEN "poll" ELSE "done"
    /\ UNCHANGED <<bare, batch, created, slot, cbuf, running, wire, events,
                   compositor>>

Client == \/ (\E s \in Surfaces : CreateSurface(s))
          \/ EnterLoop \/ (\E n \in 1..Len(events) : Poll(n)) \/ DispatchFails
          \/ HandleDone \/ HandleClose \/ HandlerCrashes
          \/ HandleConfigure \/ HandlePing \/ LoopTest

(***************************************************************************)
(* The compositor.                                                         *)
(***************************************************************************)

\* A surface with its pending state applied.
Committed(c) ==
    [c EXCEPT !.ready  = c.ready + c.frames,
              !.frames = 0,
              !.front  = IF c.buffer = NoBuffer THEN c.front ELSE c.buffer,
              !.buffer = NoBuffer,
              !.sent   = TRUE]

Receive(op) ==
    /\ wire # <<>> /\ ~killed
    /\ Head(wire).op = op
    /\ wire' = Tail(wire)

ReceiveFrame ==
    /\ Receive("frame")
    /\ comp' = [comp EXCEPT ![Head(wire).surface].frames = @ + 1]
    /\ UNCHANGED <<bare, client, events, ping, killed>>

ReceiveAttach ==
    /\ Receive("attach")
    /\ comp' = [comp EXCEPT ![Head(wire).surface].buffer = Head(wire).buffer]
    /\ UNCHANGED <<bare, client, events, ping, killed>>

\* The first commit of a window is answered with its first configure.
ReceiveCommit ==
    /\ Receive("commit")
    /\ \E refused \in BOOLEAN :
       LET s == Head(wire).surface
           c == comp[s]
       IN  /\ refused => Strict /\ c.buffer # NoBuffer /\ ~c.acked
           /\ killed' = refused
           /\ comp' = IF refused THEN comp ELSE [comp EXCEPT ![s] = Committed(c)]
           /\ events' = IF c.sent \/ refused THEN events
                        ELSE Append(events, Event("configure", s))
    /\ UNCHANGED <<bare, client, ping>>

ReceiveAck ==
    /\ Receive("ack")
    /\ comp' = [comp EXCEPT ![Head(wire).surface].acked = TRUE]
    /\ UNCHANGED <<bare, client, events, ping, killed>>

ReceivePong ==
    /\ Receive("pong")
    /\ ping' = FALSE
    /\ UNCHANGED <<bare, client, events, comp, killed>>

\* The output is repainted: every committed frame callback is done.
Repaint(s) ==
    /\ ~killed
    /\ comp[s].ready > 0
    /\ UnmappedFrames \/ comp[s].front # NoBuffer
    /\ events' = events \o [k \in 1..comp[s].ready |-> Event("done", s)]
    /\ comp' = [comp EXCEPT ![s].ready = 0]
    /\ UNCHANGED <<bare, client, wire, ping, killed>>

\* The user closes the window of s.
SendClose(s) ==
    /\ ~killed /\ comp[s].sent /\ ~comp[s].closed
    /\ events' = Append(events, Event("close", s))
    /\ comp' = [comp EXCEPT ![s].closed = TRUE]
    /\ UNCHANGED <<bare, client, wire, ping, killed>>

SendPing ==
    /\ ~killed /\ ~ping
    /\ events' = Append(events, Event("ping", NoSurface))
    /\ ping' = TRUE
    /\ UNCHANGED <<bare, client, wire, comp, killed>>

\* The compositor goes away.
Disconnect ==
    /\ ~killed
    /\ killed' = TRUE
    /\ UNCHANGED <<bare, client, wire, events, comp, ping>>

Process == \/ ReceiveFrame \/ ReceiveAttach \/ ReceiveCommit
           \/ ReceiveAck \/ ReceivePong

Compositor == \/ Process \/ SendPing \/ Disconnect
              \/ \E s \in Surfaces : Repaint(s) \/ SendClose(s)

Ended == pc \in {"done", "crashed"} /\ UNCHANGED vars

Next == Client \/ Compositor \/ Ended

\* The client handles what it has read, the compositor reads what it is sent
\* and repaints.  Nothing makes the user close a window.
Fairness == /\ WF_vars(Client)
            /\ WF_vars(Process)
            /\ \A s \in Surfaces : WF_vars(Repaint(s))

Spec == Init /\ [][Next]_vars

FairSpec == Spec /\ Fairness

-----------------------------------------------------------------------------
(***************************************************************************)
(* Properties.                                                             *)
(***************************************************************************)
Requests ==
    [op : {"frame", "attach", "commit", "ack"}, surface : Surfaces,
     buffer : Buffers \cup {NoBuffer}]
      \cup [op : {"pong"}, surface : {NoSurface}, buffer : {NoBuffer}]

Messages ==
    [op : {"done", "close", "configure"}, surface : Surfaces]
      \cup [op : {"ping"}, surface : {NoSurface}]

SurfaceStates ==
    [frames : Nat, buffer : Buffers \cup {NoBuffer}, ready : Nat,
     front : Buffers \cup {NoBuffer}, sent : BOOLEAN, acked : BOOLEAN,
     closed : BOOLEAN]

TypeOK ==
    /\ pc \in {"create", "poll", "dispatch", "done", "crashed"}
    /\ batch \in 0..Len(events)
    /\ created \subseteq Surfaces /\ bare \subseteq Renderless
    /\ slot \in Surfaces \cup {NoSurface}
    /\ cbuf \in [Surfaces -> Buffers \cup {0}]
    /\ running \in [Surfaces -> BOOLEAN]
    /\ wire \in Seq(Requests) /\ events \in Seq(Messages)
    /\ comp \in [Surfaces -> SurfaceStates]
    /\ ping \in BOOLEAN /\ killed \in BOOLEAN

\* Where messages op for one of the surfaces in S stand in seq.
Positions(seq, op, S) ==
    {k \in 1..Len(seq) : seq[k].op = op /\ seq[k].surface \in S}

\* The frame callbacks a compositor in state c has for the surfaces in S,
\* numbered.
Waiting(c, S) == UNION {{s} \X (1..(c[s].frames + c[s].ready)) : s \in S}

\* The frame callbacks of the surfaces in S: requested, with the compositor
\* or done.
Callbacks(S) == Cardinality(Positions(wire, "frame", S))
                  + Cardinality(Waiting(comp, S))
                  + Cardinality(Positions(events, "done", S))

\* A surface being drawn has exactly one frame callback, wherever it is: none
\* and the window freezes, two and it is drawn twice per repaint.
OneCallback == \A s \in created : pc # "crashed" => Callbacks({s}) = 1

\* However the surfaces share rinfo, the callbacks never multiply.
CallbacksConserved ==
    pc # "crashed" => Callbacks(Surfaces) = Cardinality(created \ bare)

Attaches(s) == Positions(wire, "attach", {s})

\* The buffers of s the compositor shows or has been given to show.
InFlight(s) ==
    {comp[s].front, comp[s].buffer} \cup {wire[k].buffer : k \in Attaches(s)}

\* drawframe renders into a buffer that is neither on screen nor on its way
\* there.  Nobody listens to wl_buffer.release: the frame callback alone has
\* to ensure it.
DrawsOffScreen == [][HandleDone => cbuf[slot] \notin InFlight(slot)]_vars

\* The buffer that follows b.
Following(b) == (b + 1) % BufferCount

\* Frames appear in the order in which they were drawn: whenever another buffer
\* than before is shown, it is the next one of the rotation.
FramesInOrder ==
    [][\A s \in Surfaces :
         comp'[s].front # comp[s].front /\ comp[s].front # NoBuffer
           => comp'[s].front = Following(comp[s].front)]_vars

\* A protocol error or a lost connection ends the program, whatever events
\* are still to be handled: wl_display_dispatch returns -1.
KilledEnds == killed ~> pc \in {"done", "crashed"}

(***************************************************************************)
(* What the safety properties rest on, an invariant in parts.              *)
(***************************************************************************)

\* rinfo describes a surface that was created with a renderer.
SlotInv == slot # NoSurface => slot \in created \ bare

\* Content is committed at once.  Of a connection that is broken the commit
\* may be lost.
CommitOf(s) == wire # <<>> /\ wire[1].op = "commit" /\ wire[1].surface = s

Commits(s) ==
    /\ \A k \in Attaches(s) : /\ Attach /\ wire[k].buffer # NoBuffer
                              /\ k + 1 \in Positions(wire, "commit", {s})
    /\ comp[s].buffer # NoBuffer /\ ~killed => CommitOf(s)
    /\ comp[s].buffer # NoBuffer \/ comp[s].front # NoBuffer => Attach

\* The last buffer of s that has reached the compositor.
Latest(s) == IF comp[s].buffer # NoBuffer THEN comp[s].buffer ELSE comp[s].front

\* From the buffer that is shown, over those pending and on their way, to the
\* one to be drawn next each buffer of s follows the one before.
InOrder(s) ==
    /\ comp[s].buffer # NoBuffer /\ comp[s].front # NoBuffer
         => comp[s].buffer = Following(comp[s].front)
    /\ Attaches(s) = {} /\ Latest(s) # NoBuffer => cbuf[s] = Following(Latest(s))
    /\ \A k \in Attaches(s) :
         /\ (\A i \in Attaches(s) : k <= i) /\ Latest(s) # NoBuffer
              => wire[k].buffer = Following(Latest(s))
         /\ (\A i \in Attaches(s) : i <= k) => cbuf[s] = Following(wire[k].buffer)
         /\ \A j \in Attaches(s) :
              j < k /\ (\A i \in Attaches(s) : i <= j \/ k <= i)
                => wire[k].buffer = Following(wire[j].buffer)

\* Between two buffers of s there is a request for a frame callback.
Paced(s) ==
    \A k \in Attaches(s) :
      /\ \A j \in Attaches(s) : j < k =>
           \E i \in Positions(wire, "frame", {s}) : j < i /\ i < k
      /\ comp[s].buffer # NoBuffer =>
           \E i \in Positions(wire, "frame", {s}) : i < k

BuffersInv == \A s \in Surfaces : Commits(s) /\ InOrder(s) /\ Paced(s)

WindowInv == SlotInv /\ BuffersInv /\ CallbacksConserved
=============================================================================
