-------------------------- MODULE MCXcbFrameLoop --------------------------
(* XcbFrameLoop for TLC: a swapchain of the minimal size and one more image. *)
EXTENDS XcbFrameLoop

CONSTANTS i0, i1, i2    \* the images, by index

ThreeImages == {i0, i1, i2}
NoFaults == {}
=============================================================================
