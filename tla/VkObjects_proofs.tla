-------------------------- MODULE VkObjects_proofs --------------------------
(***************************************************************************)
(* Machine-checked proofs about VkObjects, for every number of swapchain   *)
(* images and everything a driver may report.                              *)
(***************************************************************************)
EXTENDS VkObjects, SequenceTheorems, WellFoundedInduction, TLAPS

-----------------------------------------------------------------------------
(***************************************************************************)
(* Lemmas: what the wrappers create and what they use.                     *)
(***************************************************************************)

\* The kinds of objects each wrapper creates, and the kinds they are made from.
KindsOf == <<{"instance"}, {"surface"}, {"device"}, {"swapchain"}, {"image_view"},
             {"vertex_code"}, {"fragment_code"}, {"vertex_module"},
             {"fragment_module"}, {"layout"}, {"render_pass"}, {"pipeline"},
             {"framebuffer"}, {"command_pool"}, {"fence", "semaphore"}>>

UsesOf == <<{}, {"instance"}, {"instance"}, {"device", "surface"},
            {"device", "swapchain"}, {}, {}, {"device"}, {"device"}, {"device"},
            {"device"},
            {"device", "layout", "render_pass", "vertex_module", "fragment_module"},
            {"device", "render_pass", "image_view"}, {"device"}, {"device"}>>

\* The objects of one kind that a wrapper creates.
LEMMA ManyObjects ==
    ASSUME NEW kind, NEW n \in Nat \ {0}, NEW uses
    PROVE  /\ Many(kind, n, uses) \in Seq(Elements(Many(kind, n, uses)))
           /\ Len(Many(kind, n, uses)) = n
           /\ \A o \in Elements(Many(kind, n, uses)) : o.kind = kind /\ o.uses = uses
           /\ \E o \in Elements(Many(kind, n, uses)) : o.kind = kind
<1> DEFINE m == Many(kind, n, uses)
<1>1. m = [i \in 1..n |-> [kind |-> kind, index |-> i, uses |-> uses]]
  BY DEF Many
<1>2. m \in Seq({[kind |-> kind, index |-> i, uses |-> uses] : i \in 1..n})
      /\ Len(m) = n
  BY <1>1
<1>3. Elements(m) = {m[k] : k \in 1..n} BY <1>2 DEF Elements
<1>4. \A k \in 1..n : m[k] = [kind |-> kind, index |-> k, uses |-> uses]
  BY <1>1
<1>4a. \A k \in 1..n : m[k].kind = kind /\ m[k].uses = uses
  <2> TAKE k \in 1..n
  <2>1. m[k] = [kind |-> kind, index |-> k, uses |-> uses] BY <1>4
  <2> QED BY ONLY <2>1
<1>4b. 1 \in 1..n OBVIOUS
<1> HIDE DEF m
<1>5. m \in Seq(Elements(m)) BY <1>2, <1>3
<1>6. \A o \in Elements(m) : o.kind = kind /\ o.uses = uses BY <1>3, <1>4a
<1>7. \E o \in Elements(m) : o.kind = kind BY <1>3, <1>4a, <1>4b
<1> QED BY <1>2, <1>5, <1>6, <1>7 DEF m

\* A sequence of objects that share their uses, among them each of the kinds.
Makes(w, kinds, uses) ==
    /\ w \in Seq(Elements(w)) /\ Len(w) \in Nat \ {0}
    /\ \A o \in Elements(w) : o.kind \in kinds /\ o.uses = uses
    /\ \A kind \in kinds : \E o \in Elements(w) : o.kind = kind

LEMMA ManyMakes ==
    ASSUME NEW kind, NEW n \in Nat \ {0}, NEW uses
    PROVE  Makes(Many(kind, n, uses), {kind}, uses)
  BY ManyObjects DEF Makes

LEMMA SyncMakes == Makes(uvr_vk_sync_obj_create, {"fence", "semaphore"}, {"device"})
<1> DEFINE f == Many("fence", 1, {"device"})
           s == Many("semaphore", 2, {"device"})
<1>0. 1 \in Nat \ {0} /\ 2 \in Nat \ {0} OBVIOUS
<1>1. Makes(f, {"fence"}, {"device"}) /\ Makes(s, {"semaphore"}, {"device"})
  BY <1>0, ManyMakes
<1>2. Len(f) = 1 /\ Len(s) = 2 BY DEF Many
<1>3. uvr_vk_sync_obj_create = f \o s BY DEF uvr_vk_sync_obj_create
<1> HIDE DEF f, s
<1> DEFINE w == f \o s
<1>4. /\ w \in Seq(Elements(f) \cup Elements(s)) /\ Len(w) = 3
      /\ w[1] = f[1] /\ w[2] = s[1] /\ w[3] = s[2]
  <2>1. f \in Seq(Elements(f) \cup Elements(s)) /\ s \in Seq(Elements(f) \cup Elements(s))
    BY <1>1 DEF Makes
  <2>2. /\ w \in Seq(Elements(f) \cup Elements(s)) /\ Len(w) = 1 + 2
        /\ \A i \in 1..3 : w[i] = IF i <= 1 THEN f[i] ELSE s[i - 1]
    <3> DEFINE T == Elements(f) \cup Elements(s)
    <3>1. f \in Seq(T) /\ s \in Seq(T) BY <2>1
    <3> HIDE DEF T
    <3>2. /\ w \in Seq(T) /\ Len(w) = Len(f) + Len(s)
          /\ \A i \in 1..(Len(f) + Len(s)) :
                w[i] = IF i <= Len(f) THEN f[i] ELSE s[i - Len(f)]
      BY <3>1, ConcatProperties
    <3> HIDE DEF w
    <3> QED BY <1>2, <3>2 DEF T
  <2> HIDE DEF w
  <2>3. 1 \in 1..3 /\ 2 \in 1..3 /\ 3 \in 1..3 OBVIOUS
  <2> QED BY <2>2, <2>3
<1>5. f[1] \in Elements(f) /\ s[1] \in Elements(s) /\ s[2] \in Elements(s)
  BY <1>2 DEF Elements
<1> HIDE DEF w
<1>6. Elements(w) = {w[1], w[2], w[3]}
  <2>1. 1..3 = {1, 2, 3} OBVIOUS
  <2> QED BY <1>4, <2>1 DEF Elements
<1>7. w \in Seq(Elements(w))
  <2>1. \A k \in 1..3 : w[k] \in Elements(w) BY <1>6
  <2>2. w = [k \in 1..3 |-> w[k]] BY <1>4
  <2> QED BY <2>1, <2>2
<1>8. Makes(w, {"fence", "semaphore"}, {"device"})
  BY <1>1, <1>2, <1>4, <1>5, <1>6, <1>7 DEF Makes
<1> QED BY <1>3, <1>8 DEF w

\* What each of the fifteen wrappers makes.
LEMMA WrapperMakes ==
    /\ Len(Wrappers) = 15
    /\ \A n \in 1..15 : Makes(Wrappers[n], KindsOf[n], UsesOf[n])
<1>1. Len(Wrappers) = 15 BY DEF Wrappers
<1>2. 1 \in Nat \ {0} OBVIOUS
<1>3. /\ Makes(Wrappers[1], KindsOf[1], UsesOf[1])
      /\ Makes(Wrappers[2], KindsOf[2], UsesOf[2])
      /\ Makes(Wrappers[3], KindsOf[3], UsesOf[3])
  BY <1>2, ManyMakes DEF Wrappers, KindsOf, UsesOf, One, uvr_vk_instance_create,
     uvr_vk_surface_create, uvr_vk_lgdev_create
<1>4. /\ Makes(Wrappers[4], KindsOf[4], UsesOf[4])
      /\ Makes(Wrappers[5], KindsOf[5], UsesOf[5])
      /\ Makes(Wrappers[6], KindsOf[6], UsesOf[6])
  BY <1>2, ManyMakes, ImageCountAssumption
     DEF Wrappers, KindsOf, UsesOf, One, uvr_vk_swapchain_create,
         uvr_vk_image_create, uvr_shader_file_load
<1>5. /\ Makes(Wrappers[7], KindsOf[7], UsesOf[7])
      /\ Makes(Wrappers[8], KindsOf[8], UsesOf[8])
      /\ Makes(Wrappers[9], KindsOf[9], UsesOf[9])
  BY <1>2, ManyMakes DEF Wrappers, KindsOf, UsesOf, One, uvr_shader_file_load,
     uvr_vk_shader_module_create
<1>6. /\ Makes(Wrappers[10], KindsOf[10], UsesOf[10])
      /\ Makes(Wrappers[11], KindsOf[11], UsesOf[11])
      /\ Makes(Wrappers[12], KindsOf[12], UsesOf[12])
  BY <1>2, ManyMakes DEF Wrappers, KindsOf, UsesOf, One, uvr_vk_pipeline_layout_create,
     uvr_vk_render_pass_create, uvr_vk_graphics_pipeline_create
<1>7. /\ Makes(Wrappers[13], KindsOf[13], UsesOf[13])
      /\ Makes(Wrappers[14], KindsOf[14], UsesOf[14])
      /\ Makes(Wrappers[15], KindsOf[15], UsesOf[15])
  BY <1>2, ManyMakes, SyncMakes, ImageCountAssumption
     DEF Wrappers, KindsOf, UsesOf, One, uvr_vk_framebuffer_create,
         uvr_vk_command_buffer_create
<1>8. \A n \in 1..15 : n \in {1, 2, 3, 4, 5, 6, 7, 8, 9, 10, 11, 12, 13, 14, 15}
  OBVIOUS
<1> QED BY <1>1, <1>3, <1>4, <1>5, <1>6, <1>7, <1>8

\* No two wrappers create objects of the same kind.
LEMMA KindsDiffer ==
    \A m, n \in 1..15 : m # n => KindsOf[m] \cap KindsOf[n] = {}
  BY DEF KindsOf

\* Each wrapper uses what earlier ones have created.
LEMMA UsesEarlier ==
    \A n \in 1..15 : \A kind \in UsesOf[n] : \E m \in 1..(n - 1) : kind \in KindsOf[m]
  BY DEF KindsOf, UsesOf

\* The teardown comes to every kind but the codes, each once, and to what an
\* object was made from after the object.
LEMMA DestroyedOnce ==
    /\ Len(DestroyOrder) = 14
    /\ \A d, e \in 1..14 : DestroyOrder[d] = DestroyOrder[e] => d = e
    /\ \A d \in 1..14 : DestroyOrder[d] \notin Code
  BY DEF DestroyOrder, Code

LEMMA DestroyedAfterUsers ==
    \A n \in 1..15 : \A kind \in KindsOf[n] :
        \/ kind \in Code /\ UsesOf[n] = {}
        \/ \E d \in 1..14 :
              /\ DestroyOrder[d] = kind
              /\ \A used \in UsesOf[n] : \E e \in (d + 1)..14 : DestroyOrder[e] = used
  BY DEF DestroyOrder, Code, KindsOf, UsesOf

-----------------------------------------------------------------------------
(***************************************************************************)
(* Lemmas: what is built, and the choices.                                 *)
(***************************************************************************)

\* What is built comes from the wrappers, and grows by a wrapper at a time.
LEMMA BuiltObjects ==
    /\ Built(0) = {}
    /\ \A n \in 0..15 : \A o \in Built(n) : \E k \in 1..n : o \in Elements(Wrappers[k])
    /\ \A n \in 0..15, k \in 1..15 : k <= n => Elements(Wrappers[k]) \subseteq Built(n)
    /\ \A n \in 0..14 : Built(n + 1) = Built(n) \cup Elements(Wrappers[n + 1])
<1>1. Built(0) = {} BY DEF Built
<1>2. \A n \in 0..15 : \A o \in Built(n) : \E k \in 1..n : o \in Elements(Wrappers[k])
  BY DEF Built
<1>3. \A n \in 0..15, k \in 1..15 : k <= n => Elements(Wrappers[k]) \subseteq Built(n)
  BY DEF Built
<1>4. \A n \in 0..14 : Built(n + 1) = Built(n) \cup Elements(Wrappers[n + 1])
  <2> TAKE n \in 0..14
  <2>1. 1..(n + 1) = 1..n \cup {n + 1} OBVIOUS
  <2> QED BY <2>1 DEF Built
<1> QED BY <1>1, <1>2, <1>3, <1>4

\* What a wrapper creates is none of what was built before.
LEMMA BuiltApart ==
    ASSUME NEW n \in 1..15
    PROVE  Built(n - 1) \cap Elements(Wrappers[n]) = {}
<1> SUFFICES ASSUME NEW o \in Built(n - 1), o \in Elements(Wrappers[n]) PROVE FALSE
  OBVIOUS
<1>1. PICK k \in 1..(n - 1) : o \in Elements(Wrappers[k]) BY BuiltObjects
<1>0. k \in 1..15 BY <1>1
<1>2. o.kind \in KindsOf[n] /\ o.kind \in KindsOf[k]
  BY <1>0, <1>1, WrapperMakes DEF Makes
<1> QED BY <1>1, <1>2, KindsDiffer

\* Everything used by what is built, or by what comes next, is built.
LEMMA BuiltUses ==
    ASSUME NEW n \in 1..15, NEW o \in Built(n - 1) \cup Elements(Wrappers[n]),
           NEW kind \in o.uses
    PROVE  \E p \in Built(n - 1) : p.kind = kind
<1>1. PICK k \in 1..n : o \in Elements(Wrappers[k])
  <2>1. CASE o \in Built(n - 1)
    <3>1. \E k \in 1..(n - 1) : o \in Elements(Wrappers[k]) BY <2>1, BuiltObjects
    <3> QED BY <3>1
  <2>2. CASE o \in Elements(Wrappers[n]) BY <2>2
  <2> QED BY <2>1, <2>2
<1>0. k \in 1..15 BY <1>1
<1>2. o.uses = UsesOf[k] BY <1>0, <1>1, WrapperMakes DEF Makes
<1>3. PICK m \in 1..(k - 1) : kind \in KindsOf[m] BY <1>0, <1>2, UsesEarlier
<1>3a. m \in 1..15 /\ m <= n - 1 /\ n - 1 \in 0..15 BY <1>1, <1>3
<1>4. PICK p \in Elements(Wrappers[m]) : p.kind = kind
  BY <1>3, <1>3a, WrapperMakes DEF Makes
<1>5. p \in Built(n - 1) BY <1>3a, <1>4, BuiltObjects
<1> QED BY <1>4, <1>5

\* What is built is of a kind the teardown comes to, or a code.
LEMMA BuiltKinds ==
    ASSUME NEW n \in 0..15, NEW o \in Built(n)
    PROVE  \/ o.kind \in Code /\ o.uses = {}
           \/ \E d \in 1..14 :
                 /\ DestroyOrder[d] = o.kind
                 /\ \A used \in o.uses : \E e \in (d + 1)..14 : DestroyOrder[e] = used
<1>1. PICK k \in 1..n : o \in Elements(Wrappers[k]) BY BuiltObjects
<1>0. k \in 1..15 BY <1>1
<1>2. o.kind \in KindsOf[k] /\ o.uses = UsesOf[k]
  BY <1>0, <1>1, WrapperMakes DEF Makes
<1> QED BY <1>0, <1>2, DestroyedAfterUsers

\* A set of numbers has a least one.
LEMMA LeastOne ==
    ASSUME NEW S \in SUBSET Nat, S # {}
    PROVE  Min(S) \in S /\ \A k \in S : Min(S) <= k
<1> DEFINE R == OpToRel(<, Nat)
<1>1. IsWellFoundedOn(R, Nat) BY NatLessThanWellFounded
<1>2. \A k, m \in Nat : k < m => <<k, m>> \in R BY DEF OpToRel
<1> HIDE DEF R
<1>3. \E m \in S : \A k \in S : <<k, m>> \notin R BY <1>1, WFMin
<1>4. \A k, m \in Nat : <<k, m>> \notin R => m <= k BY <1>2
<1>5. \E m \in S : \A k \in S : m <= k BY <1>3, <1>4
<1> QED BY <1>5 DEF Min

\* uvr_vk_phdev_create finds the first device of the type asked for.
LEMMA FirstDevice ==
    ASSUME NEW gpus \in Seq([suited : BOOLEAN, families : Seq(SUBSET STRING)]),
           uvr_vk_phdev_create(gpus) # 0
    PROVE  /\ uvr_vk_phdev_create(gpus) \in 1..Len(gpus)
           /\ gpus[uvr_vk_phdev_create(gpus)].suited
           /\ \A k \in 1..(uvr_vk_phdev_create(gpus) - 1) : ~gpus[k].suited
<1> DEFINE I == {k \in 1..Len(gpus) : gpus[k].suited}
<1>1. uvr_vk_phdev_create(gpus) = IF I # {} THEN Min(I) ELSE 0
  BY DEF uvr_vk_phdev_create, SelectInSeq
<1>2. I # {} /\ uvr_vk_phdev_create(gpus) = Min(I) BY <1>1
<1>3. I \in SUBSET Nat /\ Len(gpus) \in Nat OBVIOUS
<1>4. Min(I) \in I /\ \A k \in I : Min(I) <= k BY <1>2, <1>3, LeastOne
<1>5. PICK m \in I : m = Min(I) /\ \A k \in I : m <= k BY <1>4
<1>6. \A k \in 1..(m - 1) : k \in 1..Len(gpus) /\ k \notin I
  <2> TAKE k \in 1..(m - 1)
  <2>1. m \in 1..Len(gpus) /\ k < m /\ k \in 1..Len(gpus) BY <1>3
  <2> HIDE DEF I
  <2> QED BY <1>5, <2>1
<1> QED BY <1>2, <1>5, <1>6

\* uvr_vk_queue_create finds a family with graphics, if there is one.
LEMMA FirstGraphics ==
    ASSUME NEW families, NEW family \in uvr_vk_queue_create(families),
           NEW j \in 1..Len(families), "graphics" \in families[j]
    PROVE  "graphics" \in families[family]
<1> DEFINE I == {k \in 1..Len(families) : "graphics" \in families[k]}
<1>1. uvr_vk_queue_create(families) =
        LET first == IF I # {} THEN Min(I) ELSE 0
        IN  IF first # 0 THEN {first} ELSE Garbage
  BY DEF uvr_vk_queue_create, SelectInSeq
<1>2. I \in SUBSET Nat /\ I # {} /\ 0 \notin I OBVIOUS
<1>3. Min(I) \in I BY <1>2, LeastOne
<1>4. family = Min(I) BY <1>1, <1>2, <1>3
<1> QED BY <1>3, <1>4

\* The larger and the smaller of two numbers.
LEMMA MaxMinTwo ==
    ASSUME NEW x \in Int, NEW y \in Int
    PROVE  /\ Max({x, y}) = IF x >= y THEN x ELSE y
           /\ Min({x, y}) = IF x <= y THEN x ELSE y
  BY DEF Max, Min

\* The size chosen is within the limits, the nearest to the one wanted, and
\* there are more images than the surface needs.
LEMMA WithinLimits ==
    ASSUME NEW report \in Reports
    PROVE  LET caps == report.caps
           IN  /\ Extent(caps) \in caps.least..caps.most
               /\ IF caps.current # Unset
                    THEN Extent(caps) = caps.current
                    ELSE \A size \in caps.least..caps.most :
                            /\ ~(Size <= size /\ size < Extent(caps))
                            /\ ~(Extent(caps) < size /\ size <= Size)
               /\ ImageNumber(caps) > caps.minCount
<1> DEFINE caps == report.caps
<1>1. /\ caps.least \in Int /\ caps.most \in Int /\ caps.least <= caps.most
      /\ caps.minCount \in Nat /\ caps.maxCount \in Nat /\ Size \in Int
      /\ caps.current # Unset => caps.current \in caps.least..caps.most
  BY ReportsAssumption, SizeAssumption
<1> HIDE DEF caps
<1>2. caps.current = Unset => Extent(caps) = Max({caps.least, Min({caps.most, Size})})
  BY DEF Extent
<1>3. Min({caps.most, Size}) = IF caps.most <= Size THEN caps.most ELSE Size
  BY <1>1, MaxMinTwo
<1>4. caps.current = Unset =>
        Extent(caps) = IF caps.most <= Size THEN caps.most
                       ELSE IF caps.least >= Size THEN caps.least ELSE Size
  <2>1. CASE caps.most <= Size
    <3>1. Max({caps.least, caps.most}) = IF caps.least >= caps.most THEN caps.least
                                         ELSE caps.most
      BY <1>1, MaxMinTwo
    <3> QED BY <1>1, <1>2, <1>3, <2>1, <3>1
  <2>2. CASE ~(caps.most <= Size)
    <3>1. Max({caps.least, Size}) = IF caps.least >= Size THEN caps.least ELSE Size
      BY <1>1, MaxMinTwo
    <3> QED BY <1>1, <1>2, <1>3, <2>2, <3>1
  <2> QED BY <2>1, <2>2
<1>5. caps.current # Unset =>
        Extent(caps) = caps.current /\ Extent(caps) \in caps.least..caps.most
  BY <1>1 DEF Extent
<1>6. CASE caps.current # Unset
  <2>1. ImageNumber(caps) > caps.minCount BY <1>1 DEF ImageNumber
  <2> QED BY <1>5, <1>6, <2>1 DEF caps
<1>7. CASE caps.current = Unset
  <2>1. ImageNumber(caps) > caps.minCount BY <1>1 DEF ImageNumber
  <2>2. Extent(caps) \in caps.least..caps.most BY <1>1, <1>4, <1>7
  <2>3. \A size \in caps.least..caps.most :
           /\ ~(Size <= size /\ size < Extent(caps))
           /\ ~(Extent(caps) < size /\ size <= Size)
    BY <1>1, <1>4, <1>7
  <2> QED BY <1>7, <2>1, <2>2, <2>3 DEF caps
<1> QED BY <1>6, <1>7

\* The device is the third wrapper's, the swapchain the fourth's.
LEMMA WrappersDiffer ==
    /\ Wrappers[3] = uvr_vk_lgdev_create
    /\ Wrappers[4] = uvr_vk_swapchain_create
    /\ \A n \in 1..15 : /\ Wrappers[n] = uvr_vk_lgdev_create => n = 3
                        /\ Wrappers[n] = uvr_vk_swapchain_create => n = 4
    /\ \A n \in 1..15 : \A o \in Elements(Wrappers[n]) :
          /\ o.kind = "device" <=> n = 3
          /\ o.kind = "swapchain" <=> n = 4
<1>1. Wrappers[3] = uvr_vk_lgdev_create /\ Wrappers[4] = uvr_vk_swapchain_create
  BY DEF Wrappers
<1>2. \A n \in 1..15 : /\ "device" \in KindsOf[n] <=> n = 3
                       /\ "swapchain" \in KindsOf[n] <=> n = 4
                       /\ n = 3 => KindsOf[n] = {"device"}
                       /\ n = 4 => KindsOf[n] = {"swapchain"}
  BY DEF KindsOf
<1>3. \A n \in 1..15 : \A o \in Elements(Wrappers[n]) :
          /\ o.kind = "device" <=> n = 3
          /\ o.kind = "swapchain" <=> n = 4
  <2> TAKE n \in 1..15
  <2> TAKE o \in Elements(Wrappers[n])
  <2>1. o.kind \in KindsOf[n] BY WrapperMakes DEF Makes
  <2> QED BY <1>2, <2>1
<1>4. \A n \in 1..15 : \E o \in Elements(Wrappers[n]) : TRUE
  <2> TAKE n \in 1..15
  <2>1. Len(Wrappers[n]) \in Nat \ {0} BY WrapperMakes DEF Makes
  <2>2. 1 \in 1..Len(Wrappers[n]) BY <2>1
  <2> QED BY <2>2 DEF Elements
<1>5. \A n \in 1..15 : /\ Wrappers[n] = uvr_vk_lgdev_create => n = 3
                       /\ Wrappers[n] = uvr_vk_swapchain_create => n = 4
  BY <1>1, <1>3, <1>4
<1> QED BY <1>1, <1>3, <1>5

\* What the wrapper being run has made so far.
LEMMA MadeSoFar ==
    ASSUME TypeOK
    PROVE  /\ step \in 1..15 /\ Wrapper \in Seq(Elements(Wrapper))
           /\ Len(Wrapper) \in Nat \ {0}
           /\ made \in Seq(Elements(Wrapper)) /\ Len(made) \in 0..Len(Wrapper)
           /\ made = SubSeq(Wrapper, 1, Len(made))
           /\ Elements(made) \subseteq Elements(Wrapper)
           /\ Len(made) = Len(Wrapper) => made = Wrapper
           /\ made = <<>> => Elements(made) = {}
           /\ Wrapper = Wrappers[step]
<1>1. step \in 1..15 /\ Wrapper = Wrappers[step] BY WrapperMakes DEF TypeOK, Wrapper
<1>2. Wrapper \in Seq(Elements(Wrapper)) /\ Len(Wrapper) \in Nat \ {0}
  BY <1>1, WrapperMakes DEF Makes
<1>3. PICK n \in 0..Len(Wrapper) : made = SubSeq(Wrapper, 1, n) BY DEF TypeOK
<1>4. made \in Seq(Elements(Wrapper)) /\ Len(made) = n
  <2>1. \A i \in 1..n : Wrapper[i] \in Elements(Wrapper) BY <1>2, <1>3 DEF Elements
  <2> QED BY <1>2, <1>3, <2>1, SubSeqProperties
<1>5. Elements(made) \subseteq Elements(Wrapper)
  BY <1>4, ElementOfSeq DEF Elements
<1>6. n = Len(Wrapper) => made = Wrapper BY <1>2, <1>3, SubSeqFull
<1>7. made = <<>> => Elements(made) = {}
  <2>1. Len(<<>>) = 0 /\ 1..0 = {} BY EmptySeq
  <2> QED BY <2>1 DEF Elements
<1> QED BY <1>1, <1>2, <1>3, <1>4, <1>5, <1>6, <1>7

\* The next object created.
LEMMA MadeNext ==
    ASSUME TypeOK, Len(made) < Len(Wrapper)
    PROVE  LET o == Wrapper[Len(made) + 1]
           IN  /\ o \in Elements(Wrapper)
               /\ Append(made, o) = SubSeq(Wrapper, 1, Len(made) + 1)
               /\ Elements(Append(made, o)) = Elements(made) \cup {o}
               /\ Len(made) + 1 \in 0..Len(Wrapper)
<1> DEFINE n == Len(made)
           o == Wrapper[n + 1]
           S == Elements(Wrapper)
<1>1. /\ Wrapper \in Seq(S) /\ made \in Seq(S) /\ n \in Nat /\ Len(Wrapper) \in Nat
      /\ made = SubSeq(Wrapper, 1, n) /\ n < Len(Wrapper) /\ n + 1 \in 1..Len(Wrapper)
  BY MadeSoFar
<1>2. o \in S BY <1>1 DEF Elements
<1>3. \A i \in 1..(n + 1) : Wrapper[i] \in S BY <1>1 DEF Elements
<1>4. /\ SubSeq(Wrapper, 1, n + 1) \in Seq(S) /\ Len(SubSeq(Wrapper, 1, n + 1)) = n + 1
      /\ \A i \in 1..(n + 1) : SubSeq(Wrapper, 1, n + 1)[i] = Wrapper[i]
  <2> HIDE DEF S, n
  <2> QED BY <1>1, <1>3, SubSeqProperties
<1>5. \A i \in 1..n : made[i] = Wrapper[i]
  <2> HIDE DEF S
  <2>1. \A i \in 1..n : SubSeq(Wrapper, 1, n)[i] = Wrapper[1 + i - 1]
    <3>1. \A i \in 1..n : Wrapper[i] \in S BY <1>1, <1>3
    <3> HIDE DEF n
    <3> QED BY <1>1, <3>1, SubSeqProperties
  <2> QED BY <1>1, <2>1
<1>6. /\ Append(made, o) \in Seq(S) /\ Len(Append(made, o)) = n + 1
      /\ \A i \in 1..n : Append(made, o)[i] = made[i]
      /\ Append(made, o)[n + 1] = o
  <2> HIDE DEF S, o
  <2> QED BY <1>1, <1>2
<1> HIDE DEF S, o
<1>7. Append(made, o) = SubSeq(Wrapper, 1, n + 1)
  <2>1. \A i \in 1..(n + 1) : Append(made, o)[i] = SubSeq(Wrapper, 1, n + 1)[i]
    BY <1>1, <1>4, <1>5, <1>6 DEF o
  <2> QED BY <1>4, <1>6, <2>1, SeqEqual
<1>8. Elements(Append(made, o)) = Elements(made) \cup {o}
  <2>1. 1..(n + 1) = 1..n \cup {n + 1} BY <1>1
  <2> QED BY <1>1, <1>6, <2>1 DEF Elements
<1> QED BY <1>1, <1>2, <1>7, <1>8 DEF o, S

-----------------------------------------------------------------------------
(***************************************************************************)
(* The inductive invariant, step by step.                                  *)
(***************************************************************************)
IInv == TypeOK /\ ObjectsInv

\* The empty sequence is a beginning of every wrapper.
LEMMA MadeNothing ==
    ASSUME NEW n \in 1..15
    PROVE  \E i \in 0..Len(Wrappers[n]) : <<>> = SubSeq(Wrappers[n], 1, i)
<1>1. 0 \in 0..Len(Wrappers[n]) BY WrapperMakes DEF Makes
<1>2. <<>> = SubSeq(Wrappers[n], 1, 0) BY SubSeqEmpty
<1> QED BY <1>1, <1>2

LEMMA InitObjects == Init => IInv
<1> SUFFICES ASSUME Init PROVE IInv
  OBVIOUS
<1>1. Elements(<<>>) = {}
  <2>1. Len(<<>>) = 0 /\ 1..0 = {} BY EmptySeq
  <2> QED BY <2>1 DEF Elements
<1>2. TypeOK
  <2>1. 0 \in 0..Len(driver.gpus) BY ReportsAssumption DEF Init
  <2>2. \E n \in 0..Len(Wrapper) : made = SubSeq(Wrapper, 1, n)
    <3>1. 1 \in 1..15 OBVIOUS
    <3> QED BY <3>1, MadeNothing DEF Init, Wrapper
  <2>3. step \in 1..Len(Wrappers) BY WrapperMakes DEF Init
  <2> QED BY <2>1, <2>2, <2>3 DEF Init, TypeOK, Nothing
<1>3. AppInv BY BuiltObjects, WrapperMakes DEF Init, AppInv
<1>4. AliveInv BY <1>1 DEF Init, AliveInv
<1>5. Wrapper # uvr_vk_lgdev_create /\ Wrapper # uvr_vk_swapchain_create
  BY WrappersDiffer DEF Init, Wrapper
<1>6. ChoiceInv BY <1>5 DEF Init, ChoiceInv, Nothing, DeviceSuits, SwapchainFits, Exists
<1> QED BY <1>2, <1>3, <1>4, <1>6 DEF IInv, ObjectsInv

\* Giving up (goto exit_error) with nothing made by the wrapper being run.
LEMMA ExitObjects ==
    ASSUME IInv, Exit, made' = <<>>, alive' = app, UNCHANGED <<driver, app>>,
           DOMAIN chosen' = DOMAIN Nothing, chosen'.gpu \in 0..Len(driver.gpus),
           DeviceSuits', SwapchainFits'
    PROVE  IInv'
<1> USE DEF IInv, ObjectsInv
<1>1. pc' = "shaders" /\ step' = 1 BY DEF Exit
<1>2. Elements(<<>>) = {}
  <2>1. Len(<<>>) = 0 /\ 1..0 = {} BY EmptySeq
  <2> QED BY <2>1 DEF Elements
<1>3. TypeOK'
  <2>1. \E n \in 0..Len(Wrapper') : made' = SubSeq(Wrapper', 1, n)
    <3>1. 1 \in 1..15 /\ Wrapper' = Wrappers[1] BY <1>1 DEF Wrapper
    <3> QED BY <3>1, MadeNothing
  <2>2. step' \in 1..Len(Wrappers) BY <1>1, WrapperMakes
  <2>3. app' \cup alive' \subseteq UNION {Elements(Wrappers[k]) : k \in 1..Len(Wrappers)}
    BY DEF TypeOK
  <2> QED BY <1>1, <2>1, <2>2, <2>3 DEF TypeOK
<1>4. AppInv' BY <1>1 DEF AppInv
<1>5. AliveInv' BY <1>1, <1>2 DEF AliveInv
<1>6. ChoiceInv' BY <1>1 DEF ChoiceInv
<1> QED BY <1>3, <1>4, <1>5, <1>6

LEMMA ChooseDeviceObjects == ASSUME IInv, ChooseDevice PROVE IInv'
<1> USE DEF IInv, ObjectsInv
<1> DEFINE gpu == uvr_vk_phdev_create(driver.gpus)
<1>1. /\ pc = "choose_device" /\ UNCHANGED <<driver, made, app, alive>>
      /\ made = <<>> /\ alive = app
  <2>1. Elements(<<>>) = {}
    <3>1. Len(<<>>) = 0 /\ 1..0 = {} BY EmptySeq
    <3> QED BY <3>1 DEF Elements
  <2> QED BY <2>1 DEF ChooseDevice, AliveInv
<1>2. /\ driver.gpus \in Seq([suited : BOOLEAN, families : Seq(SUBSET STRING)])
      /\ DOMAIN chosen = DOMAIN Nothing /\ chosen.gpu \in 0..Len(driver.gpus)
      /\ DeviceSuits /\ SwapchainFits
  BY ReportsAssumption DEF TypeOK, ChoiceInv
<1>3. ASSUME gpu # 0, NEW family \in uvr_vk_queue_create(driver.gpus[gpu].families),
             chosen' = [chosen EXCEPT !.gpu = gpu, !.family = family],
             \/ family # -1 /\ pc' = "create" /\ UNCHANGED step
             \/ Exit
      PROVE  IInv'
  <2>1. /\ gpu \in 1..Len(driver.gpus) /\ driver.gpus[gpu].suited
        /\ \A k \in 1..(gpu - 1) : ~driver.gpus[k].suited
    BY <1>2, <1>3, FirstDevice
  <2> HIDE DEF gpu
  <2>2. /\ DOMAIN chosen' = DOMAIN Nothing
        /\ chosen'.gpu = gpu /\ chosen'.family = family
        /\ UNCHANGED <<chosen.extent, chosen.count>>
    BY <1>2, <1>3 DEF Nothing
  <2>3. ChoiceSuits'
    <3>1. ASSUME NEW k \in 1..Len(driver.gpus[gpu].families),
                 "graphics" \in driver.gpus[gpu].families[k]
          PROVE  "graphics" \in driver.gpus[gpu].families[family]
      BY <1>3, <3>1, FirstGraphics
    <3> QED BY <1>1, <2>1, <2>2, <3>1 DEF ChoiceSuits
  <2>4. DeviceSuits' BY <2>3 DEF DeviceSuits
  <2>5. SwapchainFits'
    BY <1>1, <1>2, <2>2 DEF SwapchainFits, ChoiceFits, Exists
  <2>6. chosen'.gpu \in 0..Len(driver.gpus) BY <2>1, <2>2
  <2>7. CASE Exit BY <1>1, <2>2, <2>4, <2>5, <2>6, <2>7, ExitObjects
  <2>8. CASE pc' = "create" /\ UNCHANGED step
    <3>1. TypeOK' BY <1>1, <2>6, <2>8 DEF TypeOK, Wrapper
    <3>2. AppInv' BY <1>1, <2>8 DEF AppInv
    <3>3. AliveInv' BY <1>1, <2>8 DEF AliveInv
    <3>4. ChoiceInv'
      BY <1>1, <2>2, <2>3, <2>4, <2>5, <2>8, MadeSoFar, WrappersDiffer
         DEF ChoiceInv, AliveInv, Wrapper
    <3> QED BY <3>1, <3>2, <3>3, <3>4
  <2> QED BY <1>3, <2>7, <2>8
<1>4. CASE Exit /\ UNCHANGED chosen
  <2>1. DeviceSuits' BY <1>1, <1>2, <1>4 DEF DeviceSuits, ChoiceSuits, Exists
  <2>2. SwapchainFits' BY <1>1, <1>2, <1>4 DEF SwapchainFits, ChoiceFits, Exists
  <2> QED BY <1>1, <1>2, <1>4, <2>1, <2>2, ExitObjects
<1>5. CASE pc' = "crashed" /\ UNCHANGED <<step, chosen>>
  <2>1. TypeOK' BY <1>1, <1>5 DEF TypeOK, Wrapper
  <2>2. AppInv' BY <1>1, <1>5 DEF AppInv
  <2>3. AliveInv' BY <1>1, <1>5 DEF AliveInv
  <2>4. ChoiceInv' BY <1>1, <1>5 DEF ChoiceInv, DeviceSuits, SwapchainFits,
                                   ChoiceSuits, ChoiceFits, Exists
  <2> QED BY <2>1, <2>2, <2>3, <2>4
<1> QED BY <1>3, <1>4, <1>5 DEF ChooseDevice

\* The wrapper at a step, before and after it.
LEMMA WrapperAt ==
    ASSUME TypeOK
    PROVE  /\ Wrapper = uvr_vk_lgdev_create <=> step = 3
           /\ Wrapper = uvr_vk_swapchain_create <=> step = 4
           /\ step' \in 1..15 =>
                 /\ Wrapper' = uvr_vk_lgdev_create <=> step' = 3
                 /\ Wrapper' = uvr_vk_swapchain_create <=> step' = 4
  BY MadeSoFar, WrappersDiffer DEF Wrapper

LEMMA ChooseSwapchainObjects == ASSUME IInv, ChooseSwapchain PROVE IInv'
<1> USE DEF IInv, ObjectsInv
<1>1. /\ pc = "choose_swapchain" /\ pc' = "create"
      /\ UNCHANGED <<driver, step, made, app, alive>> /\ made = <<>>
      /\ DOMAIN chosen = DOMAIN Nothing /\ driver \in Reports
  BY DEF ChooseSwapchain, AliveInv, ChoiceInv, TypeOK
<1>2. PICK format, mode :
        chosen' = [chosen EXCEPT !.format = format, !.mode = mode,
                                 !.extent = Extent(driver.caps),
                                 !.count = ImageNumber(driver.caps)]
  BY DEF ChooseSwapchain
<1>3. /\ DOMAIN chosen' = DOMAIN Nothing
      /\ chosen'.gpu = chosen.gpu /\ chosen'.family = chosen.family
      /\ chosen'.extent = Extent(driver.caps)
      /\ chosen'.count = ImageNumber(driver.caps)
  BY <1>1, <1>2 DEF Nothing
<1>4. ChoiceFits' BY <1>1, <1>3, WithinLimits DEF ChoiceFits
<1>5. DeviceSuits'
  <2>1. DeviceSuits BY DEF ChoiceInv
  <2> QED BY <1>1, <1>3, <2>1 DEF DeviceSuits, ChoiceSuits, Exists
<1>6. TypeOK' BY <1>1, <1>3 DEF TypeOK, Wrapper
<1>7. AppInv' BY <1>1 DEF AppInv
<1>8. AliveInv' BY <1>1 DEF AliveInv
<1>9. step' = 4 /\ step' \in 1..15 BY <1>1, WrapperAt, MadeSoFar DEF ChoiceInv
<1>10. ChoiceInv'
  BY <1>1, <1>3, <1>4, <1>5, <1>9, WrapperAt DEF ChoiceInv, SwapchainFits
<1> QED BY <1>6, <1>7, <1>8, <1>10

LEMMA CreateOneObjects == ASSUME IInv, CreateOne PROVE IInv'
<1> USE DEF IInv, ObjectsInv
<1> DEFINE o == Wrapper[Len(made) + 1]
<1>1. /\ pc = "create" /\ Len(made) < Len(Wrapper) /\ made' = Append(made, o)
      /\ alive' = alive \cup {o} /\ UNCHANGED <<driver, chosen, pc, step, app>>
      /\ step \in 1..15 /\ Wrapper = Wrappers[step] /\ UNCHANGED Wrapper
  BY MadeSoFar DEF CreateOne, Wrapper
<1>2. /\ o \in Elements(Wrapper) /\ made' = SubSeq(Wrapper, 1, Len(made) + 1)
      /\ Elements(made') = Elements(made) \cup {o}
      /\ Len(made) + 1 \in 0..Len(Wrapper)
  BY <1>1, MadeNext
<1> HIDE DEF o
<1>3. TypeOK'
  <2>1. o \in UNION {Elements(Wrappers[k]) : k \in 1..Len(Wrappers)}
    BY <1>1, <1>2, WrapperMakes
  <2>2. \E n \in 0..Len(Wrapper') : made' = SubSeq(Wrapper', 1, n)
    BY <1>1, <1>2
  <2> QED BY <1>1, <2>1, <2>2 DEF TypeOK
<1>4. AppInv' BY <1>1 DEF AppInv
<1>5. AliveInv' BY <1>1, <1>2 DEF AliveInv
<1>6. ChoiceInv'
  <2>1. UNCHANGED <<ChoiceSuits, ChoiceFits>> BY <1>1 DEF ChoiceSuits, ChoiceFits
  <2>2. o.kind = "device" => ChoiceSuits
    BY <1>1, <1>2, WrappersDiffer DEF ChoiceInv
  <2>3. o.kind = "swapchain" => ChoiceFits
    BY <1>1, <1>2, WrappersDiffer DEF ChoiceInv
  <2> QED BY <1>1, <2>1, <2>2, <2>3 DEF ChoiceInv, DeviceSuits, SwapchainFits, Exists
<1> QED BY <1>3, <1>4, <1>5, <1>6

\* Where main goes on when a wrapper has returned.
LEMMA BeforeValues ==
    ASSUME NEW n \in 1..15
    PROVE  Before(n) = IF n = 3 THEN "choose_device"
                       ELSE IF n = 4 THEN "choose_swapchain" ELSE "create"
<1>1. CASE n = 3
  BY <1>1, WrappersDiffer DEF Before
<1>2. CASE n = 4
  BY <1>2, WrappersDiffer DEF Before
<1>3. CASE n # 3 /\ n # 4
  BY <1>3, WrappersDiffer DEF Before
<1> QED BY <1>1, <1>2, <1>3

LEMMA ReturnObjects == ASSUME IInv, Return PROVE IInv'
<1> USE DEF IInv, ObjectsInv
<1>0. Elements(<<>>) = {}
  <2>1. Len(<<>>) = 0 /\ 1..0 = {} BY EmptySeq
  <2> QED BY <2>1 DEF Elements
<1>1. /\ pc = "create" /\ made = Wrapper /\ made' = <<>>
      /\ app' = app \cup Elements(Wrapper) /\ UNCHANGED <<driver, chosen, alive>>
      /\ step \in 1..15 /\ Wrapper = Wrappers[step] /\ alive = app \cup Elements(Wrapper)
      /\ app = Built(step - 1)
  BY MadeSoFar DEF Return, AliveInv, AppInv
<1>2. \/ step < 15 /\ step' = step + 1 /\ pc' = Before(step')
      \/ step = 15 /\ step' = 1 /\ pc' = "shaders"
  BY <1>1, WrapperMakes DEF Return
<1>3. step' \in 1..15 BY <1>1, <1>2
<1>4. app' = Built(step)
  <2>1. step - 1 \in 0..14 /\ (step - 1) + 1 = step BY <1>1
  <2> QED BY <1>1, <2>1, BuiltObjects
<1>5. pc' \in {"create", "choose_device", "choose_swapchain", "shaders"}
      /\ (pc' = "choose_device" => step' = 3)
      /\ (pc' = "choose_swapchain" => step' = 4)
      /\ (pc' = "create" => step' # 3 /\ step' # 4)
      /\ (pc' = "shaders" => step' = 1)
      /\ (pc' # "shaders" => step' = step + 1)
  BY <1>2, <1>3, BeforeValues
<1>6. TypeOK'
  <2>1. \E n \in 0..Len(Wrapper') : made' = SubSeq(Wrapper', 1, n)
    BY <1>1, <1>3, MadeNothing DEF Wrapper
  <2>2. app' \cup alive' \subseteq UNION {Elements(Wrappers[k]) : k \in 1..Len(Wrappers)}
    BY <1>1 DEF TypeOK
  <2> QED BY <1>1, <1>3, <1>5, <2>1, <2>2, WrapperMakes DEF TypeOK
<1>7. AppInv'
  <2>1. step \in 0..Len(Wrappers) /\ (pc' # "shaders" => step = step' - 1)
    BY <1>1, <1>5, WrapperMakes
  <2> QED BY <1>4, <1>5, <2>1 DEF AppInv
<1>8. AliveInv' BY <1>0, <1>1, <1>5 DEF AliveInv
<1>9. ChoiceInv'
  <2>1. DeviceSuits' /\ SwapchainFits'
    BY <1>1 DEF ChoiceInv, DeviceSuits, SwapchainFits, ChoiceSuits, ChoiceFits, Exists
  <2> QED BY <1>1, <1>3, <1>5, <2>1, WrapperAt DEF ChoiceInv
<1> QED BY <1>6, <1>7, <1>8, <1>9

LEMMA CreateFailsObjects == ASSUME IInv, CreateFails PROVE IInv'
<1> USE DEF IInv, ObjectsInv
<1>1. /\ pc = "create" /\ pc' = "rollback"
      /\ UNCHANGED <<driver, chosen, step, made, app, alive>>
  BY DEF CreateFails
<1>2. TypeOK' BY <1>1 DEF TypeOK, Wrapper
<1>3. AppInv' BY <1>1 DEF AppInv
<1>4. AliveInv' BY <1>1 DEF AliveInv
<1>5. ChoiceInv'
  BY <1>1 DEF ChoiceInv, DeviceSuits, SwapchainFits, ChoiceSuits, ChoiceFits, Exists
<1> QED BY <1>2, <1>3, <1>4, <1>5

LEMMA RollbackObjects == ASSUME IInv, Rollback PROVE IInv'
<1> USE DEF IInv, ObjectsInv
<1>0. Elements(<<>>) = {}
  <2>1. Len(<<>>) = 0 /\ 1..0 = {} BY EmptySeq
  <2> QED BY <2>1 DEF Elements
<1>1. /\ pc = "rollback" /\ made' = <<>> /\ alive' = alive \ Elements(made)
      /\ UNCHANGED <<driver, chosen, app>> /\ alive = app \cup Elements(made)
      /\ app = Built(step - 1) /\ step \in 1..15
      /\ Elements(made) \subseteq Elements(Wrappers[step])
  BY MadeSoFar DEF Rollback, AliveInv, AppInv
<1>2. alive' = app BY <1>1, BuiltApart
<1>3. /\ DeviceSuits' /\ SwapchainFits'
      /\ DOMAIN chosen' = DOMAIN Nothing /\ chosen'.gpu \in 0..Len(driver.gpus)
  BY <1>1 DEF ChoiceInv, DeviceSuits, SwapchainFits, ChoiceSuits, ChoiceFits, Exists,
              TypeOK
<1>4. CASE Exit BY <1>1, <1>2, <1>3, <1>4, ExitObjects
<1>5. CASE pc' = "crashed" /\ UNCHANGED step
  <2>1. TypeOK'
    <3>1. \E n \in 0..Len(Wrapper') : made' = SubSeq(Wrapper', 1, n)
      BY <1>1, <1>5, MadeNothing DEF Wrapper
    <3> QED BY <1>1, <1>2, <1>5, <3>1 DEF TypeOK
  <2>2. AppInv' BY <1>1, <1>5 DEF AppInv
  <2>3. AliveInv' BY <1>0, <1>1, <1>2, <1>5 DEF AliveInv
  <2>4. ChoiceInv' BY <1>3, <1>5 DEF ChoiceInv
  <2> QED BY <2>1, <2>2, <2>3, <2>4
<1> QED BY <1>4, <1>5 DEF Rollback

\* The kinds the teardown has still to come to, step by step.
LEMMA RemainingSteps ==
    /\ pc = "done" => Remaining = {}
    /\ pc = "destroy" => Remaining = {DestroyOrder[k] : k \in step..14}
    /\ pc \notin {"destroy", "done"} => Remaining = {DestroyOrder[k] : k \in 1..14}
  BY DestroyedOnce DEF Remaining

LEMMA DestroyShadersObjects == ASSUME IInv, DestroyShaders PROVE IInv'
<1> USE DEF IInv, ObjectsInv
<1>0. Elements(<<>>) = {}
  <2>1. Len(<<>>) = 0 /\ 1..0 = {} BY EmptySeq
  <2> QED BY <2>1 DEF Elements
<1>1. /\ pc = "shaders" /\ pc' = "destroy" /\ step = 1
      /\ alive = app /\ alive' = {o \in app : o.kind # "fragment_code"}
      /\ UNCHANGED <<driver, chosen, step, made, app>>
  BY <1>0 DEF DestroyShaders, AliveInv, Recorded
<1>2. TypeOK' BY <1>1 DEF TypeOK, Wrapper
<1>3. AppInv' BY <1>1 DEF AppInv
<1>4. alive' = {o \in app : o.kind \in Remaining' \cup {"vertex_code"}}
  <2>1. Remaining' = {DestroyOrder[k] : k \in 1..14}
    BY <1>1, DestroyedOnce DEF Remaining
  <2>2. PICK n \in 0..15 : app = Built(n) BY WrapperMakes DEF AppInv
  <2>3. \A o \in app : o.kind \in Code \/ o.kind \in Remaining'
    BY <2>1, <2>2, BuiltKinds
  <2>4. "fragment_code" \notin Remaining' BY <2>1, DestroyedOnce DEF Code
  <2> QED BY <1>1, <2>3, <2>4 DEF Code
<1>5. AliveInv' BY <1>1, <1>4, DestroyedOnce DEF AliveInv
<1>6. ChoiceInv'
  BY <1>1 DEF ChoiceInv, DeviceSuits, SwapchainFits, ChoiceSuits, ChoiceFits, Exists
<1> QED BY <1>2, <1>3, <1>5, <1>6

LEMMA DestroyKindObjects == ASSUME IInv, DestroyKind PROVE IInv'
<1> USE DEF IInv, ObjectsInv
<1>1. /\ pc = "destroy" /\ step \in 1..14 /\ made = <<>>
      /\ alive = {o \in app : o.kind \in Remaining \cup {"vertex_code"}}
      /\ alive' = {o \in alive : o.kind # DestroyOrder[step]}
      /\ UNCHANGED <<driver, chosen, made, app>>
      /\ \/ step < 14 /\ step' = step + 1 /\ pc' = pc
         \/ step = 14 /\ step' = step /\ pc' = "done"
  BY MadeSoFar, DestroyedOnce DEF DestroyKind, AliveInv, Recorded
<1>2. TypeOK'
  <2>1. step' \in 1..15 BY <1>1
  <2>2. \E n \in 0..Len(Wrapper') : made' = SubSeq(Wrapper', 1, n)
    BY <1>1, <2>1, MadeNothing DEF Wrapper
  <2> QED BY <1>1, <2>1, <2>2, WrapperMakes DEF TypeOK
<1>3. AppInv' BY <1>1 DEF AppInv
<1>4. alive' = {o \in app : o.kind \in Remaining' \cup {"vertex_code"}}
  <2>1. Remaining = {DestroyOrder[k] : k \in step..14} BY <1>1, RemainingSteps
  <2>2. Remaining' = {DestroyOrder[k] : k \in (step + 1)..14}
    BY <1>1, DestroyedOnce DEF Remaining
  <2>3. Remaining' = Remaining \ {DestroyOrder[step]}
    <3>1. step..14 = {step} \cup (step + 1)..14 /\ step \notin (step + 1)..14
      BY <1>1
    <3>2. (step + 1)..14 \subseteq 1..14 BY <1>1
    <3>3. \A k \in (step + 1)..14 : DestroyOrder[k] # DestroyOrder[step]
      BY <1>1, <3>1, <3>2, DestroyedOnce
    <3> QED BY <2>1, <2>2, <3>1, <3>3
  <2>4. DestroyOrder[step] # "vertex_code" BY <1>1, DestroyedOnce DEF Code
  <2> QED BY <1>1, <2>3, <2>4
<1>5. AliveInv' BY <1>1, <1>4, DestroyedOnce DEF AliveInv
<1>6. ChoiceInv'
  BY <1>1 DEF ChoiceInv, DeviceSuits, SwapchainFits, ChoiceSuits, ChoiceFits, Exists
<1> QED BY <1>2, <1>3, <1>5, <1>6

LEMMA NextObjects == ASSUME IInv, [Next]_vars PROVE IInv'
<1>1. CASE Ended \/ UNCHANGED vars
  <2>1. UNCHANGED <<driver, chosen, pc, step, made, app, alive>>
    BY <1>1 DEF Ended, vars
  <2> USE DEF IInv, ObjectsInv
  <2>2. TypeOK' BY <2>1 DEF TypeOK, Wrapper
  <2>3. AppInv' BY <2>1 DEF AppInv
  <2>4. AliveInv' BY <2>1 DEF AliveInv, Remaining
  <2>5. ChoiceInv' BY <2>1 DEF ChoiceInv, DeviceSuits, SwapchainFits, ChoiceSuits,
                              ChoiceFits, Exists, Wrapper
  <2> QED BY <2>2, <2>3, <2>4, <2>5
<1> QED BY <1>1, ChooseDeviceObjects, ChooseSwapchainObjects, CreateOneObjects,
           ReturnObjects, CreateFailsObjects, RollbackObjects,
           DestroyShadersObjects, DestroyKindObjects DEF Next

-----------------------------------------------------------------------------
(***************************************************************************)
(* The theorems.                                                           *)
(***************************************************************************)

\* Every variable keeps its type, and the structures, what exists and what was
\* chosen stay in step, whichever calls of the driver fail.
THEOREM ObjectsInvariant == Spec => [](TypeOK /\ ObjectsInv)
<1>1. Init => IInv BY InitObjects
<1>2. IInv /\ [Next]_vars => IInv' BY NextObjects
<1>3. IInv => TypeOK /\ ObjectsInv BY DEF IInv
<1> QED BY <1>1, <1>2, <1>3, PTL DEF Spec

\* The error labels of the wrappers (vulkan.c:421-956) and uvr_vk_destory
\* (960-1057) between them reach every Vulkan object, each once.
THEOREM LedgerHolds == Spec => []Ledger
<1>1. TypeOK /\ ObjectsInv => Ledger
  <2> SUFFICES ASSUME IInv PROVE Ledger
    BY DEF IInv
  <2> USE DEF IInv, ObjectsInv
  <2>1. PICK n \in 0..15 :
          /\ app = Built(n)
          /\ pc \in {"create", "choose_device", "choose_swapchain", "rollback"}
               => n = step - 1
    BY WrapperMakes DEF AppInv
  <2>2. step \in 1..15 /\ Elements(made) \subseteq Elements(Wrappers[step])
        /\ (pc \notin {"create", "rollback"} => Elements(made) = {})
    BY MadeSoFar DEF AliveInv
  <2>3. \A o \in app \cup Elements(made) :
          o.kind \in Code \/ \E d \in 1..14 : DestroyOrder[d] = o.kind
    <3>1. \A o \in app : o.kind \in Code \/ \E d \in 1..14 : DestroyOrder[d] = o.kind
      BY <2>1, BuiltKinds
    <3>2. \A o \in Elements(made) : o \in Built(15)
      BY <2>2, BuiltObjects
    <3> QED BY <3>1, <3>2, BuiltKinds
  <2>4. \A d \in 1..14 : DestroyOrder[d] \notin Code BY DestroyedOnce
  <2>5. Remaining \cap Code = {}
    <3>1. Remaining \subseteq {DestroyOrder[k] : k \in 1..14}
      BY <2>2, RemainingSteps
    <3> QED BY <3>1, <2>4
  <2>6. {o \in alive : o.kind \notin Code} =
          {o \in app \cup Elements(made) : o.kind \in Remaining}
    <3>1. CASE pc \in {"destroy", "done"}
      BY <2>2, <2>5, <3>1 DEF AliveInv, Code
    <3>2. CASE pc \notin {"destroy", "done"}
      BY <2>3, <2>5, <3>2, RemainingSteps DEF AliveInv
    <3> QED BY <3>1, <3>2
  <2>7. app \cap Elements(made) = {}
    <3>1. CASE pc \in {"create", "rollback"}
      BY <2>1, <2>2, <3>1, BuiltApart
    <3> QED BY <2>2, <3>1
  <2>8. pc \in {"destroy", "done"} =>
          {o.kind : o \in alive} \cap Code = {o.kind : o \in app} \cap {"vertex_code"}
    BY <2>5 DEF AliveInv, Code
  <2> QED BY <2>6, <2>7, <2>8 DEF Ledger
<1> QED BY <1>1, ObjectsInvariant, PTL

\* Nothing is destroyed before what was created from it: neither the error
\* labels of a wrapper nor the order of uvr_vk_destory break this.
THEOREM UsersDestroyedFirst == Spec => []UsersFirst
<1>1. TypeOK /\ ObjectsInv => UsersFirst
  <2> SUFFICES ASSUME IInv, NEW o \in alive, NEW kind \in o.uses
               PROVE  \E p \in alive : p.kind = kind
    BY DEF IInv, UsersFirst
  <2> USE DEF IInv, ObjectsInv
  <2>1. PICK n \in 0..15 :
          /\ app = Built(n)
          /\ pc \in {"create", "choose_device", "choose_swapchain", "rollback"}
               => n = step - 1
    BY WrapperMakes DEF AppInv
  <2>2. step \in 1..15 /\ Elements(made) \subseteq Elements(Wrappers[step])
        /\ (pc \notin {"create", "rollback"} => Elements(made) = {})
    BY MadeSoFar DEF AliveInv
  <2>3. ASSUME o \in app PROVE \E p \in app : p.kind = kind
    <3>1. PICK k \in 1..n : o \in Elements(Wrappers[k]) BY <2>1, <2>3, BuiltObjects
    <3>2. k \in 1..15 /\ k - 1 <= n /\ k - 1 \in 0..15 BY <3>1
    <3>3. PICK p \in Built(k - 1) : p.kind = kind BY <3>1, <3>2, BuiltUses
    <3>4. PICK m \in 1..(k - 1) : p \in Elements(Wrappers[m])
      BY <3>2, BuiltObjects
    <3>5. m \in 1..15 /\ m <= n BY <3>1
    <3> QED BY <2>1, <3>3, <3>4, <3>5, BuiltObjects
  <2>4. CASE pc \notin {"destroy", "done"}
    <3>1. alive = app \cup Elements(made) BY <2>4 DEF AliveInv
    <3>2. CASE o \in Elements(made)
      <4>1. pc \in {"create", "rollback"} BY <2>2, <3>2
      <4>2. app = Built(step - 1) BY <2>1, <4>1
      <4>3. \E p \in Built(step - 1) : p.kind = kind BY <2>2, <3>2, BuiltUses
      <4> QED BY <3>1, <4>2, <4>3
    <3> QED BY <2>3, <3>1, <3>2
  <2>5. CASE pc \in {"destroy", "done"}
    <3>1. alive = {p \in app : p.kind \in Remaining \cup {"vertex_code"}}
      BY <2>5 DEF AliveInv
    <3>2. PICK p \in app : p.kind = kind BY <2>3, <3>1
    <3>3. o.kind \notin Code
      <4>1. Code \cap {DestroyOrder[d] : d \in 1..14} = {} BY DestroyedOnce
      <4> QED BY <2>1, <3>1, <4>1, BuiltKinds, DestroyedOnce
    <3>4. PICK d \in 1..14 :
            /\ DestroyOrder[d] = o.kind
            /\ \A used \in o.uses : \E e \in (d + 1)..14 : DestroyOrder[e] = used
      BY <2>1, <3>1, <3>3, BuiltKinds
    <3>5. pc = "destroy" /\ step \in 1..14 /\ d >= step
      <4>1. o.kind \in Remaining BY <3>1, <3>3 DEF Code
      <4>2. pc = "destroy" BY <2>5, <4>1, RemainingSteps
      <4>3. PICK k \in step..14 : o.kind = DestroyOrder[k]
        BY <4>1, <4>2, RemainingSteps
      <4>4. k \in 1..14 BY <2>2, <4>3
      <4>5. k = d BY <3>4, <4>3, <4>4, DestroyedOnce
      <4> QED BY <2>2, <4>2, <4>3, <4>4, <4>5
    <3>6. PICK e \in (d + 1)..14 : DestroyOrder[e] = kind BY <3>4
    <3>7. kind \in Remaining
      <4>1. e \in step..14 BY <3>5, <3>6
      <4> QED BY <3>5, <3>6, <4>1, RemainingSteps
    <3> QED BY <3>1, <3>2, <3>7
  <2> QED BY <2>4, <2>5
<1> QED BY <1>1, ObjectsInvariant, PTL

\* A device is only ever created from the first physical device of the type
\* asked for and a queue family of it that can draw, if there is one.
THEOREM DeviceChoice == Spec => []DeviceSuits
<1>1. TypeOK /\ ObjectsInv => DeviceSuits BY DEF ObjectsInv, ChoiceInv
<1> QED BY <1>1, ObjectsInvariant, PTL

\* For every limit of size a driver can report and every size of the window, a
\* swapchain is only ever created with an allowed size, the nearest to the one
\* wanted unless the surface dictates it, and with more images than it needs.
THEOREM SwapchainChoice == Spec => []SwapchainFits
<1>1. TypeOK /\ ObjectsInv => SwapchainFits BY DEF ObjectsInv, ChoiceInv
<1> QED BY <1>1, ObjectsInvariant, PTL
=============================================================================
