----------------------------- MODULE ShmBuffers -----------------------------
(***************************************************************************)
(* uvr_wc_buffer_create and the part of uvr_wc_destroy that is about       *)
(* buffers: for each one a shared memory file, a mapping, a pool that      *)
(* lives only as long as it takes to make the wl_buffer.  Whichever step   *)
(* fails, the function undoes what it has done for all buffers, those it   *)
(* has not come to included: a descriptor it never had is 0, not -1.       *)
(***************************************************************************)
EXTENDS WaylandSurface, WaylandCore

ASSUME CountAssumption == BufferCount > 0

VARIABLES
    idx,        \* the index of the loop
    fd,         \* allocate_shm_file: its descriptor, before it returns it
    shm,        \* uvrwcshmbufs and uvrwcwlbufs
    buffersHeld,\* wcbuffs of the program points to them
    mapped,     \* the buffers whose file is mapped
    wlBuffers   \* the wl_buffer objects that exist

shmVars == <<idx, fd, shm, buffersHeld, mapped, wlBuffers>>

\* calloc
Zeroed == [shmFd |-> 0, data |-> "null", buffer |-> FALSE]

ShmInit ==
    /\ idx = 0 /\ fd = -1 /\ shm = [b \in Buffers |-> Zeroed]
    /\ buffersHeld = FALSE /\ mapped = {} /\ wlBuffers = {}

\* open: the lowest number that is free
NewDescriptor ==
    CHOOSE n \in 0..(BufferCount + 4) :
        n \notin open /\ \A m \in 0..(n - 1) : m \in open

\* variant: the interface is not looked for
AllocateBuffersUnchecked ==
    /\ at = "buffers"
    /\ Goto("file")
    /\ UNCHANGED <<proxies, held, lost, open, shmVars>>

\* wl_shm is bound, and the two arrays can be had.
AllocateBuffers ==
    /\ at = "buffers"
    /\ \/ "wl_shm" \in held /\ Goto("file")
       \/ Exit
    /\ UNCHANGED <<proxies, held, lost, open, shmVars>>

\* shm_open, tried again under another name while the name is taken.
CreateShmFile ==
    /\ at = "file"
    /\ \/ fd' = NewDescriptor /\ open' = open \cup {fd'} /\ Goto("truncate")
          /\ UNCHANGED shm
       \/ Goto("cleanup") /\ shm' = [shm EXCEPT ![idx].shmFd = -1]
          /\ UNCHANGED <<fd, open>>
    /\ UNCHANGED <<proxies, held, lost, idx, buffersHeld, mapped, wlBuffers>>

\* ftruncate; the file is closed if it fails.
TruncateShmFile ==
    /\ at = "truncate"
    /\ \/ shm' = [shm EXCEPT ![idx].shmFd = fd] /\ Goto("map") /\ UNCHANGED open
       \/ /\ shm' = [shm EXCEPT ![idx].shmFd = -1] /\ Goto("cleanup")
          /\ open' = open \ {fd}
    /\ fd' = -1
    /\ UNCHANGED <<proxies, held, lost, idx, buffersHeld, mapped, wlBuffers>>

\* mmap
MapShmFile ==
    /\ at = "map"
    /\ \/ /\ shm' = [shm EXCEPT ![idx].data = "mapped"] /\ Goto("pool")
          /\ mapped' = mapped \cup {idx}
       \/ /\ shm' = [shm EXCEPT ![idx].data = "failed"] /\ Goto("cleanup")
          /\ UNCHANGED mapped
    /\ UNCHANGED <<proxies, held, lost, open, idx, fd, buffersHeld, wlBuffers>>

CreatePool ==
    /\ at = "pool"
    /\ \/ "wl_shm" \in held
          /\ proxies' = proxies \cup {"wl_shm_pool"} /\ Goto("buffer")
       \/ "wl_shm" \in held /\ Goto("cleanup") /\ UNCHANGED proxies
       \/ "wl_shm" \notin held /\ Goto("crashed") /\ UNCHANGED proxies
    /\ UNCHANGED <<held, lost, open, shmVars>>

\* The buffer of the pool, which is then destroyed.
CreateBuffer ==
    /\ at = "buffer"
    /\ \/ /\ shm' = [shm EXCEPT ![idx].buffer = TRUE]
          /\ wlBuffers' = wlBuffers \cup {idx}
          /\ proxies' = proxies \ {"wl_shm_pool"}
          /\ idx' = idx + 1
          /\ Goto(IF idx' < BufferCount THEN "file" ELSE "surface")
          /\ buffersHeld' = (idx' = BufferCount)
       \/ Goto("cleanup") /\ UNCHANGED <<idx, shm, buffersHeld, proxies, wlBuffers>>
    /\ UNCHANGED <<held, lost, open, fd, mapped>>

\* variant: only the buffers before the one that failed
ReleaseEarlier ==
    /\ open' = open \ {shm[b].shmFd : b \in 0..(idx - 1)}
    /\ mapped' = mapped \ 0..(idx - 1)
    /\ wlBuffers' = wlBuffers \ 0..(idx - 1)

\* The loop that releases buffers, of the failure and of uvr_wc_destroy:
\* every descriptor that is not -1 is closed.
ReleaseAll ==
    /\ open' = open \ {shm[b].shmFd : b \in Buffers}
    /\ mapped' = mapped \ {b \in Buffers : shm[b].data # "null"}
    /\ wlBuffers' = wlBuffers \ {b \in Buffers : shm[b].buffer}

\* error_uvr_wc_create_buffer_free_objects
CleanUpBuffers ==
    /\ at = "cleanup"
    /\ Exit
    /\ ReleaseAll
    /\ proxies' = proxies \ {"wl_shm_pool"}
    /\ UNCHANGED <<held, lost, idx, fd, shm, buffersHeld>>

CreateBuffers ==
    \/ AllocateBuffers \/ CreateShmFile \/ TruncateShmFile \/ MapShmFile
    \/ CreatePool \/ CreateBuffer \/ CleanUpBuffers

\* uvr_wc_destroy, if the program has buffers.
DestroyBuffers ==
    /\ at = "exit_error" /\ todo # <<>> /\ Head(todo) = "buffers"
    /\ todo' = Tail(todo)
    /\ IF buffersHeld THEN ReleaseAll ELSE UNCHANGED <<open, mapped, wlBuffers>>
    /\ UNCHANGED <<at, proxies, held, lost, idx, fd, shm, buffersHeld>>
=============================================================================
