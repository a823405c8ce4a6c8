----------------------------- MODULE VkObjects -----------------------------
(***************************************************************************)
(* The objects behind the uvr_vk_* structures, over the life of an example *)
(* program: main creates them one wrapper after the other, any call of the *)
(* driver may fail, a wrapper that fails destroys what it has made and     *)
(* returns a structure of nulls, and exit_error hands everything that was  *)
(* recorded to uvr_shader_destroy and uvr_vk_destory.  In between, main     *)
(* chooses a device, a queue and the parameters of the swapchain.          *)
(***************************************************************************)
EXTENDS VkSelect

CONSTANT ImageCount     \* images of the swapchain

ASSUME ImageCountAssumption == ImageCount \in Nat \ {0}

VARIABLES
    driver,    \* what the driver reports of devices and of the surface
    chosen,    \* what main has chosen from it
    pc,        \* create, choose_*, rollback, shaders, destroy, done, or crashed:
               \* it has crashed, or never returns from a call
    step,      \* the wrapper being run, or the kind being destroyed
    made,      \* what the wrapper being run has created, in order
    app,       \* the objects recorded in the structures of struct uvr_vk
    alive      \* the objects that exist

vars == <<driver, chosen, pc, step, made, app, alive>>

\* What the wrappers create, in order: the kind and the index of each object,
\* and the kinds of the objects passed to its create call.
Many(kind, n, uses) == [i \in 1..n |-> [kind |-> kind, index |-> i, uses |-> uses]]
One(kind, uses) == Many(kind, 1, uses)

uvr_vk_instance_create  == One("instance", {})
uvr_vk_surface_create   == One("surface", {"instance"})
uvr_vk_lgdev_create     == One("device", {"instance"})
uvr_vk_swapchain_create == One("swapchain", {"device", "surface"})
uvr_vk_image_create     == Many("image_view", ImageCount, {"device", "swapchain"})
uvr_shader_file_load(code) == One(code, {})
uvr_vk_shader_module_create(name)  == One(name, {"device"})
uvr_vk_pipeline_layout_create      == One("layout", {"device"})
uvr_vk_render_pass_create          == One("render_pass", {"device"})
uvr_vk_graphics_pipeline_create ==
    One("pipeline", {"device", "layout", "render_pass", "vertex_module",
                     "fragment_module"})
uvr_vk_framebuffer_create ==
    Many("framebuffer", ImageCount, {"device", "render_pass", "image_view"})
uvr_vk_command_buffer_create == One("command_pool", {"device"})
uvr_vk_sync_obj_create ==
    Many("fence", 1, {"device"}) \o Many("semaphore", 2, {"device"})

\* The wrappers in the order in which main calls them.
Wrappers ==
    <<uvr_vk_instance_create, uvr_vk_surface_create, uvr_vk_lgdev_create,
      uvr_vk_swapchain_create, uvr_vk_image_create,
      uvr_shader_file_load("vertex_code"), uvr_shader_file_load("fragment_code"),
      uvr_vk_shader_module_create("vertex_module"),
      uvr_vk_shader_module_create("fragment_module"),
      uvr_vk_pipeline_layout_create, uvr_vk_render_pass_create,
      uvr_vk_graphics_pipeline_create, uvr_vk_framebuffer_create,
      uvr_vk_command_buffer_create, uvr_vk_sync_obj_create>>

\* variant: the render passes before the framebuffers that use them
DestroyOrderPassFirst ==
    <<"fence", "semaphore", "command_pool", "render_pass", "framebuffer",
      "pipeline", "layout", "vertex_module", "fragment_module", "image_view",
      "swapchain", "device", "surface", "instance">>

\* uvr_vk_destory, kind by kind.
DestroyOrder ==
    <<"fence", "semaphore", "command_pool", "framebuffer", "pipeline",
      "layout", "render_pass", "vertex_module", "fragment_module",
      "image_view", "swapchain", "device", "surface", "instance">>

\* The wrappers that can still fail when their object has been created:
\* vkGetDeviceQueue, vkAllocateCommandBuffers.
FailLate == {uvr_vk_lgdev_create, uvr_vk_command_buffer_create}

\* Those whose caller reads the array before it looks for NULL.
Unchecked == {uvr_vk_image_create, uvr_vk_framebuffer_create, uvr_vk_sync_obj_create}

Elements(seq) == {seq[k] : k \in 1..Len(seq)}

Nothing == [gpu |-> 0, family |-> 0, format |-> 0, mode |-> 0, extent |-> 0,
            count |-> 0]

Init ==
    /\ driver \in Reports /\ chosen = Nothing
    /\ pc = "create" /\ step = 1 /\ made = <<>> /\ app = {} /\ alive = {}

(***************************************************************************)
(* main and the wrappers.                                                  *)
(***************************************************************************)
Wrapper == Wrappers[step]

\* What main does first when it comes to a wrapper.
Before(n) ==
    CASE Wrappers[n] = uvr_vk_lgdev_create     -> "choose_device"
      [] Wrappers[n] = uvr_vk_swapchain_create -> "choose_swapchain"
      [] OTHER                                 -> "create"

\* goto exit_error
Exit == pc' = "shaders" /\ step' = 1

\* create_vk_device up to the logical device.  The devices may not be listed.
ChooseDevice ==
    /\ pc = "choose_device"
    /\ LET gpu == uvr_vk_phdev_create(driver.gpus)
       IN  \/ /\ gpu # 0
              /\ \E family \in uvr_vk_queue_create(driver.gpus[gpu].families) :
                    /\ chosen' = [chosen EXCEPT !.gpu = gpu, !.family = family]
                    /\ IF family # -1 THEN pc' = "create" /\ UNCHANGED step
                                      ELSE Exit
           \/ Exit /\ UNCHANGED chosen
           \/ /\ QueriesCircularChain(driver.gpus)
              /\ pc' = "crashed" /\ UNCHANGED <<step, chosen>>
    /\ UNCHANGED <<driver, made, app, alive>>

\* create_vk_swapchain up to the swapchain; a list that cannot be had is empty.
ChooseSwapchain ==
    /\ pc = "choose_swapchain"
    /\ pc' = "create"
    /\ \E formats \in {<<>>, driver.formats}, modes \in {<<>>, driver.modes} :
       \E format \in Choose(formats, "srgb"), mode \in Choose(modes, "mailbox") :
          chosen' = [chosen EXCEPT !.format = format, !.mode = mode,
                                   !.extent = Extent(driver.caps),
                                   !.count = ImageNumber(driver.caps)]
    /\ UNCHANGED <<driver, step, made, app, alive>>

\* The next call of the driver succeeds.
CreateOne ==
    /\ pc = "create" /\ Len(made) < Len(Wrapper)
    /\ LET o == Wrapper[Len(made) + 1]
       IN  made' = Append(made, o) /\ alive' = alive \cup {o}
    /\ UNCHANGED <<driver, chosen, pc, step, app>>

\* variant: the count of the elements made is not reset
ReturnKeepsCount ==
    /\ pc = "create" /\ Len(made) = Len(Wrapper)
    /\ app' = app \cup Elements(made)
    /\ IF step < Len(Wrappers) THEN step' = step + 1 /\ pc' = Before(step')
                               ELSE step' = 1 /\ pc' = "shaders"
    /\ UNCHANGED <<driver, chosen, made, alive>>

\* The wrapper returns its structure, and main goes on.
Return ==
    /\ pc = "create" /\ Len(made) = Len(Wrapper)
    /\ app' = app \cup Elements(made)
    /\ made' = <<>>
    /\ IF step < Len(Wrappers) THEN step' = step + 1 /\ pc' = Before(step')
                               ELSE step' = 1 /\ pc' = "shaders"
    /\ UNCHANGED <<driver, chosen, alive>>

\* The next call fails.
CreateFails ==
    /\ pc = "create"
    /\ Len(made) < Len(Wrapper) \/ Wrapper \in FailLate
    /\ pc' = "rollback"
    /\ UNCHANGED <<driver, chosen, step, made, app, alive>>

\* variant: the label of the last array only
RollbackLastKind ==
    /\ pc = "rollback"
    /\ alive' = {o \in alive : made # <<>> => o.kind # made[Len(made)].kind}
    /\ made' = <<>>
    /\ IF Wrapper \in Unchecked THEN pc' = "crashed" /\ UNCHANGED step
                                ELSE Exit
    /\ UNCHANGED <<driver, chosen, app>>

\* The error labels of the wrapper destroy what it has made and it returns
\* nulls; the caller returns -1, or reads element 0 of a null array.
Rollback ==
    /\ pc = "rollback"
    /\ alive' = alive \ Elements(made)
    /\ made' = <<>>
    /\ IF Wrapper \in Unchecked THEN pc' = "crashed" /\ UNCHANGED step
                                ELSE Exit
    /\ UNCHANGED <<driver, chosen, app>>

Recorded(kind) == {o \in app : o.kind = kind}

\* exit_error: both codes are assigned to the same member of the structure
\* passed to uvr_shader_destroy, the fragment shader's last.
DestroyShaders ==
    /\ pc = "shaders"
    /\ pc' = "destroy"
    /\ alive' = alive \ Recorded("fragment_code")
    /\ UNCHANGED <<driver, chosen, step, made, app>>

\* The loop of uvr_vk_destory over one kind.
DestroyKind ==
    /\ pc = "destroy"
    /\ alive' = alive \ Recorded(DestroyOrder[step])
    /\ IF step < Len(DestroyOrder) THEN step' = step + 1 /\ UNCHANGED pc
                                   ELSE pc' = "done" /\ UNCHANGED step
    /\ UNCHANGED <<driver, chosen, made, app>>

Ended == pc \in {"done", "crashed"} /\ UNCHANGED vars

Next == \/ ChooseDevice \/ ChooseSwapchain \/ CreateOne \/ Return \/ CreateFails \/ Rollback
        \/ DestroyShaders \/ DestroyKind \/ Ended

Spec == Init /\ [][Next]_vars

-----------------------------------------------------------------------------
(***************************************************************************)
(* Properties.                                                             *)
(***************************************************************************)
TypeOK ==
    /\ driver \in Reports
    /\ chosen.gpu \in 0..Len(driver.gpus)
    /\ pc \in {"create", "choose_device", "choose_swapchain", "rollback",
              "shaders", "destroy", "done", "crashed"}
    /\ step \in 1..Len(Wrappers)
    /\ \E n \in 0..Len(Wrapper) : made = SubSeq(Wrapper, 1, n)
    /\ app \cup alive \subseteq UNION {Elements(Wrappers[k]) : k \in 1..Len(Wrappers)}

Code == {"vertex_code", "fragment_code"}

\* The kinds uvr_vk_destory has still to come to.
Remaining ==
    CASE pc = "destroy" -> {DestroyOrder[k] : k \in step..Len(DestroyOrder)}
      [] pc = "done"    -> {}
      [] OTHER          -> {DestroyOrder[k] : k \in 1..Len(DestroyOrder)}

\* Every Vulkan object that exists is in exactly one place: recorded in a
\* structure that uvr_vk_destory has still to go through, or made by the
\* wrapper being run.  Nothing is lost when a wrapper fails halfway, and no
\* handle of a destroyed object is kept to be destroyed again.  Of the two
\* codes passed on in one member (triangle.c:181) the first is never freed.
Ledger ==
    /\ {o \in alive : o.kind \notin Code} =
         {o \in app \cup Elements(made) : o.kind \in Remaining}
    /\ app \cap Elements(made) = {}
    /\ pc \in {"destroy", "done"} =>
          {o.kind : o \in alive} \cap Code
            = {o.kind : o \in app} \cap {"vertex_code"}

\* An object is destroyed, by a wrapper that fails or by uvr_vk_destory, only
\* when nothing that was created from it is left.
UsersFirst ==
    \A o \in alive : \A kind \in o.uses : \E p \in alive : p.kind = kind

Exists(kind) == \E o \in alive : o.kind = kind

\* What main has chosen for the device suits it.
ChoiceSuits ==
    LET gpu == driver.gpus[chosen.gpu]
    IN  /\ gpu.suited
        /\ \A k \in 1..(chosen.gpu - 1) : ~driver.gpus[k].suited
        /\ (\E k \in 1..Len(gpu.families) : "graphics" \in gpu.families[k])
             => "graphics" \in gpu.families[chosen.family]

\* A device is created only from a physical device of the type asked for, the
\* first there is, and from a queue family of that very device that can draw,
\* if it has one (vulkan.c:341-366).
DeviceSuits == Exists("device") => ChoiceSuits

\* What main has chosen for the swapchain fits the surface.
ChoiceFits ==
    LET caps == driver.caps
    IN  /\ chosen.extent \in caps.least..caps.most
        /\ IF caps.current # Unset
             THEN chosen.extent = caps.current
             ELSE \A size \in caps.least..caps.most :
                     /\ ~(Size <= size /\ size < chosen.extent)
                     /\ ~(chosen.extent < size /\ size <= Size)
        /\ chosen.count > caps.minCount

\* A swapchain is created with the size its surface dictates or else, of the
\* sizes within its limits, the nearest to the size wanted; and with more
\* images than the surface needs, so that one is left to draw into
\* (vulkan.c:510-522).  Of a greatest number it says nothing: where that equals
\* the least, vulkan.c:522 asks for one too many.
SwapchainFits == Exists("swapchain") => ChoiceFits

\* vulkan.h:400: "Minimum image count is equal to
\* VkSurfaceCapabilitiesKHR.minImageCount + 1".
ImageCountIsLeastPlusOne ==
    Exists("swapchain") => chosen.count = driver.caps.minCount + 1

-----------------------------------------------------------------------------
(***************************************************************************)
(* Why it works: the inductive invariant behind the properties.            *)
(***************************************************************************)

\* What the first n wrappers create.
Built(n) == UNION {Elements(Wrappers[k]) : k \in 1..n}

\* The structures hold what a number of whole wrappers have created: until
\* main gives up, all those before the one being run.
AppInv ==
    \E n \in 0..Len(Wrappers) :
        /\ app = Built(n)
        /\ pc \in {"create", "choose_device", "choose_swapchain", "rollback"}
             => n = step - 1

\* What exists is what is recorded and what the wrapper being run has made, up
\* to the teardown, which goes through the kinds one after the other.
AliveInv ==
    /\ pc \notin {"create", "rollback"} => made = <<>>
    /\ pc \notin {"destroy", "done"} => alive = app \cup Elements(made)
    /\ pc \in {"destroy", "done"} =>
          alive = {o \in app : o.kind \in Remaining \cup {"vertex_code"}}
    /\ pc = "shaders" => step = 1
    /\ pc = "destroy" => step <= Len(DestroyOrder)

\* A choice is made before the object that needs it is created.
ChoiceInv ==
    /\ DOMAIN chosen = DOMAIN Nothing
    /\ pc = "choose_device" => Wrapper = uvr_vk_lgdev_create
    /\ pc = "choose_swapchain" => Wrapper = uvr_vk_swapchain_create
    /\ pc = "create" /\ Wrapper = uvr_vk_lgdev_create => ChoiceSuits
    /\ pc = "create" /\ Wrapper = uvr_vk_swapchain_create => ChoiceFits
    /\ DeviceSuits /\ SwapchainFits

ObjectsInv == AppInv /\ AliveInv /\ ChoiceInv
=============================================================================
