----------------------------- MODULE GbmBuffers -----------------------------
(***************************************************************************)
(* uvr_buffer_create and uvr_buffer_destory: buffer objects of GBM, the    *)
(* DMA-BUF descriptors of their planes, and the framebuffers the kernel    *)
(* makes of them.  Whichever step fails, what the steps before have made   *)
(* is undone.                                                              *)
(*                                                                         *)
(* GEM handles and file descriptors are numbers of two different spaces,   *)
(* and dma_buf_fds is passed where the kernel expects a handle: the model  *)
(* keeps the numbers, of the handles the driver holds on the same file     *)
(* too.                                                                    *)
(***************************************************************************)
EXTENDS Naturals

CONSTANTS
    BufferCount,    \* bufferCount
    PlaneCounts,    \* planes of a buffer object
    FirstFd,        \* the lowest descriptor the process does not use
    DriverHandles,  \* the GEM handles the driver of the GBM device has
    MaxHandle       \* bound: no greater GEM handle

\* Any descriptor may have the number of any handle.
ASSUME BuffersAssumption ==
    /\ BufferCount \in Nat \ {0}
    /\ PlaneCounts \subseteq 1..4 /\ PlaneCounts # {}
    /\ FirstFd \in Nat /\ MaxHandle \in Nat
    /\ DriverHandles \subseteq 1..MaxHandle

VARIABLES
    at,        \* what the functions are at
    b,         \* the index of their loops
    complete,  \* uvr_buffer_create has succeeded
    bois,      \* the array of struct uvr_buffer_object
    gbmdev,    \* the GBM device exists
    gem,       \* kernel: open GEM handles of the file kmsFd
    fbs,       \* kernel: buffers a framebuffer has been made of
    dmabufs    \* number of DMA-BUF descriptors open

bufferVars == <<at, b, complete, bois, gbmdev, gem, fbs, dmabufs>>

Buffers == 1..BufferCount
Handles == 1..MaxHandle

\* calloc: no buffer object and no planes.  The descriptors are 0 and not -1,
\* and are closed as handle 0, which no buffer object has: they are left out.
Cleared == [handle |-> 0, planeCount |-> 0, dmaBufFds |-> {}, fbid |-> FALSE]

BuffersInit ==
    /\ at = "device" /\ b = 1 /\ complete = FALSE
    /\ bois = [n \in Buffers |-> Cleared]
    /\ gbmdev = FALSE /\ gem = {} /\ fbs = {} /\ dmabufs = 0

\* One pass of a loop over the buffers is done.
LoopDone(again, next) ==
    IF b < BufferCount THEN b' = b + 1 /\ at' = again
                       ELSE b' = 1 /\ at' = next

\* goto exit_uvr_buffer_gbm_bo_detroy
CleanUp == at' = "rmfb" /\ b' = 1

\* gbm_create_device: the driver makes objects of its own.
CreateDevice ==
    /\ at = "device"
    /\ \/ gbmdev' = TRUE /\ gem' = gem \cup DriverHandles /\ at' = "bo"
       \/ at' = "failed" /\ UNCHANGED <<gbmdev, gem>>
    /\ UNCHANGED <<b, complete, bois, fbs, dmabufs>>

\* The kernel gives a new buffer object the lowest free handle.
FreeHandle(h) == h \notin gem /\ \A k \in Handles : k < h => k \in gem

CreateBo ==
    /\ at = "bo"
    /\ \/ \E h \in Handles :
             /\ FreeHandle(h)
             /\ bois' = [bois EXCEPT ![b].handle = h]
             /\ gem' = gem \cup {h}
             /\ LoopDone("bo", "planes")
       \/ CleanUp /\ UNCHANGED <<bois, gem>>
    /\ UNCHANGED <<complete, gbmdev, fbs, dmabufs>>

\* The planes are exported one after the other; only some of them if the
\* handle, the pitch or the descriptor of one cannot be had.
ExportPlanes ==
    /\ at = "planes"
    /\ \E planes \in PlaneCounts : \E exported \in 0..planes :
          /\ bois' = [bois EXCEPT
                ![b].planeCount = planes,
                ![b].dmaBufFds = {FirstFd + dmabufs + p : p \in 0..(exported - 1)}]
          /\ dmabufs' = dmabufs + exported
          /\ IF exported = planes THEN at' = "addfb" /\ UNCHANGED b ELSE CleanUp
    /\ UNCHANGED <<complete, gbmdev, gem, fbs>>

AddFb ==
    /\ at = "addfb"
    /\ \/ /\ bois' = [bois EXCEPT ![b].fbid = TRUE]
          /\ fbs' = fbs \cup {b}
          /\ LoopDone("planes", "created")
          /\ complete' = (b = BufferCount)
       \/ CleanUp /\ UNCHANGED <<complete, bois, fbs>>
    /\ UNCHANGED <<gbmdev, gem, dmabufs>>

CreateBuffers == CreateDevice \/ CreateBo \/ ExportPlanes \/ AddFb

\* uvr_buffer_destory; there is nothing to do after a failure.
DestroyBuffers ==
    /\ at = "created"
    /\ CleanUp
    /\ UNCHANGED <<complete, bois, gbmdev, gem, fbs, dmabufs>>

\* variant: the framebuffer is forgotten
RemoveFbNot ==
    /\ at = "rmfb"
    /\ at' = "destroy_bo"
    /\ UNCHANGED <<b, complete, bois, gbmdev, gem, fbs, dmabufs>>

\* The loop of the destruction and that of the failure are the same: the
\* framebuffer, the buffer object, then what dma_buf_fds holds.
RemoveFb ==
    /\ at = "rmfb"
    /\ at' = "destroy_bo"
    /\ fbs' = IF bois[b].fbid THEN fbs \ {b} ELSE fbs
    /\ UNCHANGED <<b, complete, bois, gbmdev, gem, dmabufs>>

DestroyBo ==
    /\ at = "destroy_bo"
    /\ at' = "close"
    /\ bois' = [bois EXCEPT ![b].handle = 0]
    /\ gem' = gem \ {bois[b].handle}
    /\ UNCHANGED <<b, complete, gbmdev, fbs, dmabufs>>

\* variant: the index is that of the next buffer
CloseHandlesOfNext ==
    /\ at = "close"
    /\ gem' = gem \ bois[IF b < BufferCount THEN b + 1 ELSE b].dmaBufFds
    /\ LoopDone("rmfb", "free_device")
    /\ UNCHANGED <<complete, bois, gbmdev, fbs, dmabufs>>

\* drmCloseBufferHandle is given the descriptors: it closes the handles of
\* the same numbers, if there are any, and the descriptors stay open.
CloseHandles ==
    /\ at = "close"
    /\ gem' = gem \ bois[b].dmaBufFds
    /\ LoopDone("rmfb", "free_device")
    /\ UNCHANGED <<complete, bois, gbmdev, fbs, dmabufs>>

\* gbm_device_destroy: the driver closes what it has.
FreeDevice ==
    /\ at = "free_device"
    /\ at' = IF complete THEN "destroyed" ELSE "failed"
    /\ gbmdev' = FALSE
    /\ gem' = gem \ DriverHandles
    /\ UNCHANGED <<b, complete, bois, fbs, dmabufs>>

ReleaseBuffers == RemoveFb \/ DestroyBo \/ CloseHandles \/ FreeDevice
-----------------------------------------------------------------------------
(***************************************************************************)
(* Properties.                                                             *)
(***************************************************************************)
BuffersTypeOK ==
    /\ at \in {"device", "bo", "planes", "addfb", "created", "rmfb",
              "destroy_bo", "close", "free_device", "failed", "destroyed"}
    /\ b \in Buffers /\ complete \in BOOLEAN /\ gbmdev \in BOOLEAN
    /\ \A n \in Buffers :
          /\ bois[n].handle \in 0..MaxHandle
          /\ bois[n].planeCount \in PlaneCounts \cup {0}
          /\ bois[n].dmaBufFds \subseteq Nat
          /\ bois[n].fbid \in BOOLEAN
    /\ gem \subseteq Handles /\ fbs \subseteq Buffers
    /\ dmabufs \in Nat

\* A handle that the destruction closes by the number of a descriptor: one of
\* the planes of a buffer object that is gone.
ClosedByNumber(h) ==
    \E m \in Buffers : bois[m].handle = 0 /\ h \in bois[m].dmaBufFds

\* While buffers are destroyed one after the other, each of those that are left
\* keeps its GEM handle, and the driver those it has, unless the handle happens
\* to have the number of a descriptor of a buffer destroyed before it
\* (buffer.c:167,190).  No buffer object goes before the framebuffer on it.
BuffersKeepHandles ==
    /\ \A n \in Buffers :
          /\ bois[n].handle \notin gem \cup {0} => ClosedByNumber(bois[n].handle)
          /\ n \in fbs => bois[n].handle # 0
    /\ gbmdev => \A h \in DriverHandles \ gem : ClosedByNumber(h)
=============================================================================
