--------------------------- MODULE MCVkFrameLoop ---------------------------
(* Instances of VkFrameLoop for TLC: a swapchain of minimal size, and which  *)
(* calls may fail.                                                           *)
EXTENDS VkFrameLoop

CONSTANTS i0, i1    \* the images, by index

TwoImages == {i0, i1}

NoFaults  == {}
AllFaults == {"wait", "acquire", "record", "reset", "submit", "present",
              "wait_idle"}
=============================================================================
