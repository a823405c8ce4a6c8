----------------------------- MODULE KmsProgram -----------------------------
(***************************************************************************)
(* The program of examples/kms/main.c: the session and the node            *)
(* (KmsSession), then an output chain of this node (OutputChain), buffers  *)
(* on its descriptor (GbmBuffers) and the Vulkan device; at exit_error,    *)
(* reached at once or in the end, the buffers, the chain, the node and the *)
(* session are destroyed, whatever exists of them.                         *)
(***************************************************************************)
EXTENDS OutputChain, GbmBuffers

vars == <<sessionVars, chainVars, bufferVars>>

Init == SessionInit /\ ChainInit /\ BuffersInit

\* The session and the node.
CreateKmsNode == CreateNode /\ UNCHANGED <<chainVars, bufferVars>>

FindChain ==
    /\ pc = "chain" /\ CreateChain
    /\ UNCHANGED <<sessionVars, bufferVars>>

\* create_gbm_buffers, on the way to destruction too if a call fails.
AllocateBuffers ==
    /\ pc = "buffers" /\ (CreateBuffers \/ ReleaseBuffers)
    /\ UNCHANGED <<sessionVars, chainVars>>

\* main looks at what it has got and goes on, or to exit_error; it goes there
\* whether or not create_vk_device succeeds.
Continue ==
    /\ \/ pc = "chain" /\ step = "created" /\ pc' = "buffers"
       \/ pc = "chain" /\ step = "failed" /\ pc' = "exit_error"
       \/ pc = "buffers" /\ at \in {"created", "failed"} /\ pc' = "exit_error"
    /\ UNCHANGED <<mode, local, node, session, seat, open, vt, failed,
                   chainVars, bufferVars>>

\* exit_error: the buffers first.
DestroyKmsBuffers ==
    /\ pc = "exit_error" /\ (DestroyBuffers \/ ReleaseBuffers)
    /\ UNCHANGED <<sessionVars, chainVars>>

\* variant: the node does not wait for the buffers
DestroyKmsNodeFirst ==
    /\ pc = "exit_error" /\ at # "rmfb"
    /\ DestroyChain /\ DestroyNode
    /\ UNCHANGED bufferVars

\* uvr_kms_node_destroy
DestroyKmsNode ==
    /\ at \in {"device", "failed", "destroyed"}
    /\ DestroyChain /\ DestroyNode
    /\ UNCHANGED bufferVars

Destroy ==
    \/ DestroyKmsBuffers \/ DestroyKmsNode
    \/ DestroySession /\ UNCHANGED <<chainVars, bufferVars>>

Ended == (pc = "done" \/ step = "crashed") /\ UNCHANGED vars

Next == CreateKmsNode \/ FindChain \/ AllocateBuffers \/ Continue \/ Destroy \/ Ended

Spec == Init /\ [][Next]_vars
-----------------------------------------------------------------------------
TypeOK == SessionTypeOK /\ ChainTypeOK /\ BuffersTypeOK

\* When the program ends, whichever call failed, the kernel has no handle and
\* no framebuffer of it left, and libdrm no object but the planes that show
\* the framebuffer of the chain's own plane (kms.c:404-406).
DisplayReturned ==
    pc = "done" =>
       /\ ~gbmdev /\ gem = {} /\ fbs = {}
       /\ heap \subseteq {<<"plane", p>> : p \in {p \in 1..Planes :
                                p # plane /\ plane # 0 /\ shows[p].fb = fb}}

\* Buffers, framebuffers and the GBM device are made and destroyed through
\* kmsFd: the descriptor stays open, and with logind the device taken, until
\* the last of them is gone, whichever call sends the program to exit_error.
NodeOutlivesBuffers ==
    gbmdev \/ gem # {} \/ fbs # {} =>
       "kms" \in open /\ (logind => control /\ device \in taken)
=============================================================================
