---------------------------- MODULE OutputChain ----------------------------
(***************************************************************************)
(* uvr_kms_node_display_output_chain_create: it walks the connectors for   *)
(* one that drives an active crtc, and looks for the plane that shows the  *)
(* framebuffer of this crtc.  Every object libdrm hands out has to be      *)
(* freed, by this function or by uvr_kms_node_destroy, and only once.      *)
(*                                                                         *)
(* A pointer to a connector, an encoder or a crtc is the iteration of the  *)
(* loop in which it was got; 0 is NULL.                                    *)
(***************************************************************************)
EXTENDS KmsSession

CONSTANTS
    Connectors,     \* number of connectors
    Planes,         \* number of planes
    Crtcs, Fbs,     \* ids of crtcs and of framebuffers
    None            \* id 0

ASSUME ChainAssumption ==
    /\ Connectors \in Nat \ {0} /\ Planes \in Nat \ {0}
    /\ None \notin Crtcs \cup Fbs

VARIABLES
    step,        \* the call, or the label, the function is at
    shows,       \* kernel: what each plane shows, and on which crtc
    i,           \* the index of the loop
    connector, encoder, crtc, plane,    \* the pointers
    crtcId, fb,  \* encoder->crtc_id and crtc->buffer_id
    heap,        \* objects of libdrm that are allocated
    badFree      \* an object was freed that was not allocated

pointers == <<connector, encoder, crtc, plane>>
chainVars == <<step, shows, i, connector, encoder, crtc, plane,
               crtcId, fb, heap, badFree>>

Idle == [crtc |-> None, fb |-> None]

\* A plane is off, or shows a framebuffer on a crtc.
Showing == {Idle} \cup [crtc : Crtcs, fb : Fbs]

ChainInit ==
    /\ step = "resources"
    /\ shows \in [1..Planes -> Showing]
    /\ i = 1
    /\ connector = 0 /\ encoder = 0 /\ crtc = 0 /\ plane = 0
    /\ crtcId = None /\ fb = None
    /\ heap = {} /\ badFree = FALSE

PlaneObjects == {<<"plane", p>> : p \in 1..Planes}

\* The object a pointer points to, if any.
Object(kind, pointer) == {<<kind, q>> : q \in {pointer} \ {0}}

Allocate(objects) == heap' = heap \cup objects /\ UNCHANGED badFree

Free(objects) ==
    /\ heap' = heap \ objects
    /\ badFree' = (badFree \/ ~(objects \subseteq heap))

Resources == {<<"resources", 1>>, <<"planeResources", 1>>}

\* The resources and the planes, or an error on the way to the first plane.
GetResources ==
    /\ step = "resources"
    /\ \/ step' = "planes" /\ Allocate(Resources)
       \/ step' = "failed" /\ UNCHANGED <<heap, badFree>>
    /\ UNCHANGED <<shows, i, pointers, crtcId, fb>>

GetPlanes ==
    /\ step = "planes"
    /\ \/ step' = "connector" /\ Allocate(PlaneObjects)
       \/ /\ step' = "err_planes"
          /\ \E n \in 1..Planes : Allocate({<<"plane", p>> : p \in 1..(n - 1)})
    /\ UNCHANGED <<shows, i, pointers, crtcId, fb>>

\* The next connector: with an encoder, without one, or not to be read.
GetConnector ==
    /\ step = "connector" /\ i <= Connectors
    /\ \/ /\ step' \in {"encoder", "free_connector"}
          /\ connector' = i
          /\ Allocate({<<"connector", i>>})
       \/ /\ step' = "err_planes"
          /\ connector' = 0
          /\ UNCHANGED <<heap, badFree>>
    /\ UNCHANGED <<shows, i, encoder, crtc, plane, crtcId, fb>>

NoConnectorLeft ==
    /\ step = "connector" /\ i > Connectors
    /\ step' = "err_encoder"
    /\ UNCHANGED <<shows, i, pointers, crtcId, fb, heap, badFree>>

GetEncoder ==
    /\ step = "encoder"
    /\ \/ /\ crtcId' \in Crtcs \cup {None}
          /\ step' = IF crtcId' = None THEN "free_encoder" ELSE "crtc"
          /\ encoder' = i
          /\ Allocate({<<"encoder", i>>})
       \/ /\ step' = "err_connector"
          /\ encoder' = 0
          /\ UNCHANGED <<crtcId, heap, badFree>>
    /\ UNCHANGED <<shows, i, connector, crtc, plane, fb>>

\* With DRM_CLIENT_CAP_UNIVERSAL_PLANES, which a node given by its path does not
\* have, all planes are exposed, and the primary plane of an active crtc is one of
\* them; without, it may be hidden.
ShownOn(c) == IF exposed THEN {shows[p].fb : p \in {p \in 1..Planes : shows[p].crtc = c}}
                         ELSE Fbs

\* The crtc of the encoder, active or not.
GetCrtc ==
    /\ step = "crtc"
    /\ \/ /\ fb' \in ShownOn(crtcId) \cup {None}
          /\ step' = IF fb' = None THEN "free_crtc" ELSE "plane"
          /\ crtc' = i
          /\ Allocate({<<"crtc", i>>})
       \/ /\ step' = "err_encoder"
          /\ crtc' = 0
          /\ UNCHANGED <<fb, heap, badFree>>
    /\ UNCHANGED <<shows, i, connector, encoder, plane, crtcId>>

\* variant: the framebuffer alone is compared
ShowsFramebuffer(p) == shows[p].fb = fb

ShowsCrtc(p) == shows[p].crtc = crtcId /\ shows[p].fb = fb

\* The planes of other framebuffers are freed with the resources; without
\* the plane the function looks for, plane->fb_id dereferences NULL.
FindPlane ==
    /\ step = "plane"
    /\ LET found == {p \in 1..Planes : ShowsCrtc(p)}
       IN  \/ /\ found = {} /\ step' = "crashed"
              /\ UNCHANGED <<plane, heap, badFree>>
           \/ /\ step' = "created"
              /\ plane' \in {p \in found : \A q \in found : p <= q}
              /\ Free(Resources \cup
                      {<<"plane", p>> : p \in {p \in 1..Planes : shows[p].fb # fb}})
    /\ UNCHANGED <<shows, i, connector, encoder, crtc, crtcId, fb>>

\* variant: the pointer to the encoder stays
NextConnectorKeepsEncoder ==
    /\ step \in {"free_crtc", "free_encoder", "free_connector"}
    /\ step' = "connector"
    /\ i' = i + 1
    /\ connector' = 0 /\ crtc' = 0
    /\ Free(Object("connector", connector)
            \cup (IF step = "free_connector" THEN {} ELSE Object("encoder", encoder))
            \cup (IF step = "free_crtc" THEN Object("crtc", crtc) ELSE {}))
    /\ UNCHANGED <<shows, encoder, plane, crtcId, fb>>

\* free_disp_crtc, free_disp_encoder, free_disp_connector: whatever this
\* connector led to is freed, and its pointer cleared.
NextConnector ==
    /\ step \in {"free_crtc", "free_encoder", "free_connector"}
    /\ step' = "connector"
    /\ i' = i + 1
    /\ connector' = 0
    /\ encoder' = IF step = "free_connector" THEN encoder ELSE 0
    /\ crtc' = IF step = "free_crtc" THEN 0 ELSE crtc
    /\ Free(Object("connector", connector)
            \cup (IF step = "free_connector" THEN {} ELSE Object("encoder", encoder))
            \cup (IF step = "free_crtc" THEN Object("crtc", crtc) ELSE {}))
    /\ UNCHANGED <<shows, plane, crtcId, fb>>

\* err_free_disp_encoder, err_free_disp_connector, err_free_disp_planes
FailChain ==
    /\ step \in {"err_encoder", "err_connector", "err_planes"}
    /\ step' = "failed"
    /\ Free(Resources \cup (heap \cap PlaneObjects)
            \cup (IF step = "err_encoder" THEN Object("encoder", encoder) ELSE {})
            \cup (IF step = "err_planes" THEN {} ELSE Object("connector", connector)))
    /\ connector' = 0 /\ encoder' = 0 /\ crtc' = 0 /\ plane' = 0
    /\ UNCHANGED <<shows, i, crtcId, fb>>

CreateChain ==
    \/ GetResources \/ GetPlanes \/ GetConnector \/ NoConnectorLeft \/ GetEncoder
    \/ GetCrtc \/ FindPlane \/ NextConnector \/ FailChain

\* uvr_kms_node_destroy frees the objects of the chain it is given, if any.
DestroyChain ==
    /\ step \in {"resources", "created", "failed"}
    /\ step' = "destroyed"
    /\ Free(Object("plane", plane) \cup Object("crtc", crtc)
            \cup Object("encoder", encoder) \cup Object("connector", connector))
    /\ UNCHANGED <<shows, i, pointers, crtcId, fb>>
-----------------------------------------------------------------------------
(***************************************************************************)
(* Properties.                                                             *)
(***************************************************************************)
Steps == {"resources", "planes", "connector", "encoder", "crtc", "plane",
          "free_connector", "free_encoder", "free_crtc", "err_encoder",
          "err_connector", "err_planes", "created", "failed", "crashed",
          "destroyed"}

Kinds == {"resources", "planeResources", "plane", "connector", "encoder", "crtc"}

ChainTypeOK ==
    /\ step \in Steps /\ badFree \in BOOLEAN
    /\ shows \in [1..Planes -> Showing]
    /\ i \in 1..(Connectors + 1)
    /\ {connector, encoder, crtc} \subseteq 0..Connectors
    /\ plane \in 0..Planes
    /\ crtcId \in Crtcs \cup {None} /\ fb \in Fbs \cup {None}
    /\ heap \subseteq Kinds \X (1..(Connectors + Planes))

\* No connector, encoder, crtc or plane is freed twice, however many of the
\* connectors are given up and wherever an error occurs (kms.c:412-439).
FreedOnce == ~badFree

\* The chain that is returned is connected (kms.h:127): its encoder and crtc
\* are those of its connector, its plane shows the framebuffer of this crtc,
\* and all four can still be read.
ChainConnected ==
    step = "created" =>
       /\ connector = i /\ encoder = i /\ crtc = i
       /\ shows[plane] = [crtc |-> crtcId, fb |-> fb]
       /\ {<<"connector", i>>, <<"encoder", i>>, <<"crtc", i>>,
           <<"plane", plane>>} \subseteq heap

\* A node the library has searched for itself never leads to an active crtc
\* without a plane: all its planes are exposed by then (kms.c:227), whatever
\* calls failed before.  The branch for a given node (kms.c:152) leaves this
\* out, and the function may then read plane->fb_id through NULL.
PrimaryFound == step = "crashed" => explicit
=============================================================================
