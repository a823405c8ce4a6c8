---------------------------- MODULE MCVkObjects ----------------------------
(* What drivers report, for TLC: one or two physical devices with different  *)
(* queue families, and surfaces at every boundary of the limits.             *)
EXTENDS VkObjects

Gpu(suited, families) == [suited |-> suited, families |-> families]

TwoFamilies == <<{"compute"}, {"graphics", "compute"}>>
NoGraphics  == <<{"compute"}>>

GpuLists == {<<>>, <<Gpu(FALSE, TwoFamilies)>>, <<Gpu(TRUE, NoGraphics)>>,
             <<Gpu(FALSE, NoGraphics), Gpu(TRUE, TwoFamilies)>>,
             <<Gpu(TRUE, TwoFamilies), Gpu(TRUE, NoGraphics)>>}

\* currentExtent UINT32_MAX
AnySize == -1

\* The size wanted is 2: below, within and above the limits, or dictated.
Extents == {c \in [current : {AnySize, 1, 3}, least : 1..3, most : 1..3] :
               /\ c.least <= c.most
               /\ c.current # AnySize => c.current \in c.least..c.most}

\* Unlimited, or at, just above and well above the least number of images.
Counts == {<<1, 0>>, <<2, 0>>, <<2, 2>>, <<2, 3>>, <<2, 4>>}

Caps == {[current |-> e.current, least |-> e.least, most |-> e.most,
          minCount |-> n[1], maxCount |-> n[2]] :
             e \in Extents, n \in Counts}

\* The limits of size and those of number have nothing to do with each other.
OneAtATime == {c \in Caps : \/ c.least = 2 /\ c.most = 2
                            \/ c.minCount = 2 /\ c.maxCount = 0}

AllReports ==
    {[gpus |-> gpus, caps |-> caps, formats |-> both[1], modes |-> both[2]] :
        gpus \in GpuLists, caps \in OneAtATime,
        both \in {<<<<"other", "srgb">>, <<"fifo", "mailbox">>>>,
                  <<<<"other">>, <<"fifo">>>>}}

\* An index that was never written: -1, or out of the range of the families.
AnyIndex == {-1, 7}
=============================================================================
