-------------------------- MODULE SwapchainImages --------------------------
(***************************************************************************)
(* What the frame loop of the example programs promises about the images   *)
(* of a swapchain: the presentation engine lends one image at a time, the  *)
(* device draws it once, it goes back to the engine, and only then is the  *)
(* next one drawn.  VkFrameLoop implements this specification.             *)
(***************************************************************************)
CONSTANT Images

VARIABLE status    \* whose image it is, and how far its frame has come

Init == status = [i \in Images |-> "engine"]

TypeOK == status \in [Images -> {"engine", "lent", "drawing", "drawn"}]

In(states) == {i \in Images : status[i] \in states}

Move(i, from, to) == /\ status[i] = from
                     /\ status' = [status EXCEPT ![i] = to]

\* A frame begins when the engine lends an image; the previous frame is drawn.
Lend(i) == /\ In({"lent", "drawing"}) = {}
           /\ Move(i, "engine", "lent")

\* The device draws a frame once the previous one is back with the engine.
StartDraw(i) == /\ In({"drawn"}) = {}
                /\ Move(i, "lent", "drawing")

EndDraw(i) == Move(i, "drawing", "drawn")

HandBack(i) == Move(i, "drawn", "engine")

Next == \E i \in Images : Lend(i) \/ StartDraw(i) \/ EndDraw(i) \/ HandBack(i)

Fairness == /\ WF_status(\E i \in Images : StartDraw(i))
            /\ WF_status(\E i \in Images : EndDraw(i))
            /\ WF_status(\E i \in Images : HandBack(i))

Spec == Init /\ [][Next]_status /\ Fairness
=============================================================================
