------------------------- MODULE MCWaylandFrameLoop -------------------------
(* The Wayland program for TLC: one window, a swapchain of minimal size, and *)
(* an acquire that may fail.                                                 *)
EXTENDS WaylandFrameLoop

CONSTANTS a, i0, i1    \* the surface, the images by index

One == {a}
TwoImages == {i0, i1}
AcquireFault == {"acquire"}
=============================================================================
