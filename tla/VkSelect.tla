------------------------------ MODULE VkSelect ------------------------------
(***************************************************************************)
(* What uvr_vk_phdev_create, uvr_vk_queue_create, the examples and         *)
(* uvr_vk_swapchain_create choose from what the driver reports: functions  *)
(* of the report.  Where the code leaves a variable uninitialized, the     *)
(* function yields every value the variable may have.                      *)
(*                                                                         *)
(* A size stands for a width and for a height, which are treated alike.    *)
(***************************************************************************)
EXTENDS SequencesExt

CONSTANTS
    Reports,    \* what a driver may report
    Garbage,    \* what an uninitialized index may be
    Size,       \* WIDTH, HEIGHT of the examples
    Unset       \* currentExtent: the surface takes any size

\* What Vulkan promises of a report; the code checks none of it.
ASSUME ReportsAssumption ==
    \A report \in Reports :
        /\ report.gpus \in Seq([suited : BOOLEAN, families : Seq(SUBSET STRING)])
        /\ LET caps == report.caps
           IN  /\ caps.least \in Int /\ caps.most \in Int /\ caps.least <= caps.most
               /\ caps.minCount \in Nat /\ caps.maxCount \in Nat
               /\ caps.current # Unset => caps.current \in caps.least..caps.most

ASSUME SizeAssumption == Size \in Int

\* The first physical device of the type asked for, or 0.  The type alone
\* decides: the test of the DRM node only precedes it, in the same flag.
uvr_vk_phdev_create(gpus) == SelectInSeq(gpus, LAMBDA gpu : gpu.suited)

\* With INCLUDE_KMS the first query leaves a structure that is chained to
\* itself: what the driver makes of the second is undefined.
QueriesCircularChain(gpus) == Len(gpus) > 1 /\ ~gpus[1].suited

\* variant: the first family, whatever it can do
FirstFamily(families) == {1}

\* The first family with graphics; without one the loop sets no index.
uvr_vk_queue_create(families) ==
    LET first == SelectInSeq(families, LAMBDA flags : "graphics" \in flags)
    IN  IF first # 0 THEN {first} ELSE Garbage

\* The position of the format, of the mode: the last of those that match.
Choose(list, wanted) ==
    LET last == SelectLastInSeq(list, LAMBDA item : item = wanted)
    IN  IF last # 0 THEN {last} ELSE Garbage

\* variant: the limits of the surface are not looked at
ExtentUnclamped(caps) == IF caps.current # Unset THEN caps.current ELSE Size

\* The size the surface has, or the size wanted within its limits.
Extent(caps) ==
    IF caps.current # Unset THEN caps.current
    ELSE Max({caps.least, Min({caps.most, Size})})

\* minImageCount of the swapchain; maxCount 0 means no limit.
ImageNumber(caps) ==
    IF caps.maxCount > 0 /\ caps.minCount + 1 < caps.maxCount
      THEN caps.maxCount ELSE caps.minCount + 1
=============================================================================
