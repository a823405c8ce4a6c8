# TLA+ verification of libunderview-renderer

libunderview-renderer is a C library of wrappers around Vulkan, Wayland, XCB,
KMS/DRM, GBM and logind, with example programs that draw a triangle or a shared
memory window with it. This directory models the parts of it that have state and
an order of things: the frame loops of the examples, the windows and shared
memory buffers of a Wayland client, the KMS program with its session, display and
buffers, and the choices the Vulkan wrappers make and the objects they create and
destroy.

The library has no threads of its own. What makes it hard is on the other side of
its calls: a device queue and a presentation engine that work on their own clock,
a compositor behind an asynchronous socket, kernel state that outlives the
process, and constructors that may fail after any of their steps.

## Inventory

| Component | State it keeps | Operations | Hard behaviour | What makes it correct |
|---|---|---|---|---|
| Frame loop (`examples/{wayland,xcb}/triangle.c`, `uvr_vk_destory`) | one fence, two semaphores, one command buffer, the current image index, the running flag | wait, acquire, record, reset, submit, present; dispatch; teardown | three actors, results ignored, destruction while the queue works | one owner at a time of each object and image; every frame ends; a close ends the program |
| Wayland windows (`src/wayland-client.c`) | the static `rinfo`, one frame callback per window, the buffer index | connect, registry, surface create; frame, close, configure and ping handlers; dispatch loop; destroy | shared static state, asynchronous requests and events, missing globals, a broken connection | exactly one callback per window; no buffer drawn while shown; everything destroyed, users first |
| Wayland shm buffers (`uvr_wc_buffer_create`, `src/utils.c`) | descriptors, mappings, `wl_buffer`s | create with cleanup, destroy | partial failure | everything made is undone, nothing else |
| XCB client (`src/xcb-client.c`) | connection, window, running flag | window create, handle event, destroy | polling loop around the frame loop, a constructor that fails | frames go on without events; a quit ends the program; no window or connection left |
| KMS node and VT (`src/kms.c`) | the device descriptor, keyboard and display mode of the VT, the output chain | create, output chain, destroy | several ioctls undone by hand, without a look at their results; objects freed from six labels | the terminal is usable afterwards; nothing freed twice |
| logind session (`src/sd-dbus.c`) | bus, session path, control, devices | create, take device, release device, destroy | a remote party, calls that fail halfway | every device goes back |
| GBM buffers (`src/buffer.c`) | buffer objects, GEM handles, DMA-BUF descriptors, framebuffers | create with cleanup, destroy | two number spaces, partial failure | handles stay open while used; everything goes back |
| Vulkan objects (`src/vulkan.c`) | the objects behind every `uvr_vk_*` structure | choice of device, queue family and swapchain; one create per type, one destroy | uninitialised results, limits of a surface, dependency order, arrays built element by element | what is chosen suits; each object destroyed once, after its users |
| Wayland server (`src/wayland-server.c`) | display, backend, renderer | create, destroy | none: a straight line | |
| Shader loader (`src/shader.c`) | a code buffer | load, compile, destroy | input and output | |
| Utilities (`src/utils.c`) | none | logging, shm file | | |

The components meet in the programs, and each program is a composed model:
`examples/wayland/triangle.c` creates a window whose `drawframe` handler calls
`render()` on Vulkan objects (WaylandFrameLoop); `examples/wayland/shm-buffer.c`
connects, creates buffers and a window and destroys it all again (ShmWindow);
`examples/xcb/triangle.c` calls the same `render()` from a polling loop
(XcbFrameLoop); `examples/kms/main.c` creates session, node, chain, buffers and
device and destroys them in another order (KmsProgram). All share state through
pointers handed over in `*_create_info` structures (`rendererCbuf`,
`rendererRuning`, `uvr_sd_session`).

## Modules

    SwapchainImages        what a frame loop promises about the swapchain images
      ^ implemented by
    VkFrameLoop            render(), dispatch loop, teardown; queue; engine
      ^ extended by        MCVkFrameLoop, VkFrameLoop_proofs
      ^ extended, and implemented, by
        XcbFrameLoop       the X program        MCXcbFrameLoop, XcbFrameLoop_proofs
        WaylandFrameLoop   the Wayland triangle program, with an instance of
                           WaylandSurface   MCWaylandFrameLoop, WaylandFrameLoop_proofs

    WaylandSurface         windows, handlers, compositor
                                        MCWaylandSurface, WaylandSurface_proofs
    WaylandCore            connection, registry, uvr_wc_destroy
      ^ both extended by
    ShmBuffers             the creation and release of shm buffers
      ^ extended by
    ShmWindow              the shared memory program  MCShmWindow, ShmWindow_proofs

    VkSelect               what is chosen from the driver's reports
      ^ extended by
    VkObjects              creation, rollback and destruction of Vulkan objects
                                                  MCVkObjects, VkObjects_proofs
    KmsSession             session, node, terminal
      ^ extended by
    OutputChain            connector -> encoder -> crtc -> plane
    GbmBuffers             buffers, handles, framebuffers
      ^ both extended by
    KmsProgram             kms/main.c          MCKmsProgram, KmsProgram_proofs

**VkFrameLoop.** `pc` is where the host thread is; one action per Vulkan call of
`render()`, in its order, each with a failing twin for the calls in `Faults`: the
wait for the fence, acquire, recording, the reset of the fence, submission and
presentation (no result is checked in the code, so a failure changes what the
next call sees and nothing else). `failed` remembers which have failed, so that a
property can say how long it holds. `queue` holds what has been submitted and not
retired, `gpu` whether its head is being executed, `img` and `reading` what the
presentation engine does with each image. `Destroy` goes through `uvr_vk_destory`
step by step, the wait for the fence and `vkDeviceWaitIdle` being guards;
`DestroyUnwaited` is the same step after a failing wait. `DeliverFrame` and
`DeliverClose` are the handlers; this module lets any mixture of them arrive in
one dispatch. WaylandFrameLoop says which mixtures really come.

**SwapchainImages** is the abstract view: an image is with the engine, lent,
being drawn or drawn, one frame at a time. `VkFrameLoop!ImageStatus` maps onto
it.

**XcbFrameLoop** adds the window and the X event queue to VkFrameLoop. `stage`
follows the creation of the instance, `uvr_xcb_window_create` through its calls
and error labels and, after `uvr_vk_destory`, `uvr_xcb_destory`. The calls of
`uvr_xcb_window_handle_event` are VkFrameLoop's actions with a guard, which is
what `ImplementsFrameLoop` states. `FirstFrame` stands for the creation of the
instance there.

**WaylandSurface.** `wire` and `events` are the two directions of the socket.
`DrawFrame` is the whole of `drawframe`: frame request, commit, render, attach,
commit, next index. `slot` is the surface the static `rinfo` describes. The
compositor applies double-buffered state at each commit, sends done events at a
repaint, and with `Strict` may refuse content that comes before the configure is
acknowledged. `Disconnect` breaks the connection at any moment: `DispatchFails`
is the -1 the program then sees.

**WaylandFrameLoop** joins the two: a dispatch reads `n` events of the window,
and the handlers of `done` and `close` are at once steps of `Window`, an instance
of WaylandSurface, and of VkFrameLoop. The frame handler blocks inside the
dispatch while device, engine and compositor go on. The images are attached by
the Vulkan driver, so the instance has no buffers of the library (`Attach =
FALSE`). The program has one window (`WindowAssumption`). Its swapchain lives on
the connection of the window, so an acquire can fail (`ConnectionAssumption`),
and on a broken connection nothing need be shown any more. `Hung` is where that
can end: a wait for a fence nobody will signal.

**WaylandCore, ShmBuffers, ShmWindow.** `proxies` are the objects that exist,
`held` those that the structures handed to `uvr_wc_destroy` mention, `todo` what
this function has still to look at. `Roundtrip` binds any subset of the globals,
and those in `Repeated` perhaps twice: `lost` has the globals whose first proxy
nothing points to any more. `open` has the numbers of the descriptors, the socket
among them, since a cleared structure holds descriptor 0 and the cleanup of
ShmBuffers closes whatever is not -1. ShmWindow puts the steps of
`uvr_wc_surface_create` between them, and its error labels, one object each
(`UndoWindow`), and hands the dispatch loop to WaylandSurface.

**VkSelect, VkObjects.** The selection functions are operators on a report of the
driver; where the code reads a variable it has not set they yield every value in
`Garbage`. Each wrapper is the sequence of objects it creates, with the kinds
each is created from. `CreateOne` is a successful driver call, `CreateFails` and
`Rollback` the error labels, `DestroyKind` one loop of `uvr_vk_destory`.

**KmsSession, OutputChain, GbmBuffers, KmsProgram.** One action per outside call,
each able to fail, in the teardown too: `fstat`, ReleaseDevice and
ReleaseControl, and the two ioctls of `vt_reset`; `failed` remembers which did.
State that survives the process (`vt`, `taken`, `control`, `open`) is apart from
the program's own (`node`, `session`). `heap` holds the libdrm objects; freeing
one that is not in it sets `badFree`. Pointers keep the iteration in which they
were set, so that a dangling one is told from a fresh one. GEM handles and
descriptors are numbers, because `buffer.c` passes the one for the other;
`DriverHandles` are those the driver of the GBM device has on the same file.
`exposed` is the result of `SetClientCaps` that the search for a plane depends
on. KmsProgram has the order in which `main` creates and destroys the parts and
the jumps to `exit_error` from each of them; the Vulkan device, which touches
none of this state, is left to VkObjects.

Definitions called "variant" are plausible mistakes in the code. They are used by
no specification: each is put in place of the operator below it to see that a
property notices.

## Runs

| Run | Question | Bounds | Distinct states |
|---|---|---|---|
| `frame_loop` | any call of `render()` and the waits of the teardown failing unnoticed: who owns what, and until which failure | 2 images, 2 events per dispatch, all of `Faults`, one failing wait or reset in `render()` | 809 157 |
| `frame_loop_teardown` | violated: is the queue empty when semaphores and swapchain are destroyed? | 2 images | |
| `xcb_loop` | is the X program the same frame loop, and that a life of images as in SwapchainImages; do frames go on; does every program end with its window gone | 3 images, 2 X events, no failing call of `render()` | 23 755 |
| `wayland_loop` | is the Wayland program the same frame loop; do blocking handlers return; do frames go on; does a close or a lost connection end it; all but for a failed acquire | 1 window, 2 images, 2 events per dispatch, acquires that fail | 158 338 |
| `shm_window` | the shared memory program from connection to teardown: callbacks, order and progress of frames, and everything returned in order whichever call fails | 1 window, 3 buffers, all globals, `wl_seat` perhaps twice, strict compositor | 88 072 |
| `window_double_buffer` | violated: are two buffers enough? | 2 buffers | |
| `two_windows` | two windows, one perhaps without renderer, a compositor that may refuse | 1 buffer each | 652 259 |
| `two_windows_callbacks` | violated: has each of two windows its own callback? | | |
| `kms` | the KMS program: terminal, devices, chain and buffers after any failure, of the teardown too | 2 devices, connectors, planes, crtcs, framebuffers and buffers; 1 or 2 planes per buffer; 4 handles of the driver, 6 in all | 716 423 |
| `kms_control` | violated: is the session controlled when devices are asked for? | 1 device | |
| `vk_objects` | are the device, the queue and the swapchain what was wanted; is each object destroyed once, users first | 3 images, 160 reports of a driver | 143 648 |
| `vk_swapchain_count` | violated: is a surface asked for its minimum plus one images? | the same | |

Deadlock is checked everywhere but in `frame_loop`: there the program may really
stop, waiting without timeout for a fence nobody will signal. In `wayland_loop`
it may as well, and `WEnds` says where (`Hung`).

Why these are enough. The swapchain has at least one image more than the
surface's minimum (usually 2), and three images are the fewest in which one is on
screen, one is drawn and one waits; this is what `xcb_loop` takes to follow the
images. The composed Wayland program is about blocking and takes two, the fewest
with which an acquire can wait for the engine. So does `frame_loop`: two images
are enough to put its failures in any order, and a stale index names the image of
the frame or the other one. (With three it has 13.8 million states, and holds as
well.) Two events per dispatch give every order of a frame and a close, in
`wayland_loop` with any number of configures and pings between them. Two X events
cover a quit behind another event. Two windows are the fewest that can take the
static `rinfo` from one another. Three buffers against two separate the rotation
that works from the one that does not, and give a failing creation a buffer
before it and one never reached behind it. Two candidates give the search for a
device a first and a last one. Two connectors give a pointer the chance to
survive an iteration; two planes and framebuffers the chance to match by half.
Two is the program's number of buffers. The numbers of the `kms` run are chosen
to collide: the buffers get the handles 4 and 6, and the descriptors begin at 5,
so that those of the first buffer have the numbers of a handle of the driver and
of the second buffer. The driver reports (`AllReports`) have one or two devices,
of the type asked for or not, with and without graphics, and surfaces below, at
and above every limit of size and of number.

No state constraint is used; the bounds that are not sizes of the system are
guards of the environment: `MaxEvents` (frame and close events one dispatch
reads), `MaxInbox` (X events not yet polled), `MaxHandle` (GEM handles) and, in
`WaitFails` and `ResetFails`, `FenceKept`: of all waits for the fence and resets
of it in `render()` one fails. The queue, which only the fence bounds, would
otherwise grow without end; and after the first such failure the code promises
nothing that a second could break.

### What the violations show

* `frame_loop_teardown`: `uvr_vk_destory` (vulkan.c:968) waits for the fence. The
  fence covers the draws and not the presentation behind the last of them, whose
  semaphore and swapchain are then destroyed; `vkDeviceWaitIdle` comes later.
* `window_double_buffer`: `drawframe` commits the new frame callback before it
  attaches the buffer just drawn, so a callback belongs to the frame before. With
  two buffers, which wclient.h:141 recommends, the next frame is rendered into
  the buffer on screen.
* `two_windows_callbacks`: `rinfo` is static; with a second surface the callback
  of the first draws the second.
* `kms_control`: `take_control` reports failure as 0, its caller looks for -1.
* `vk_swapchain_count`: vulkan.c:519 asks for the maximum where it is above the
  minimum plus one, of which vulkan.h:400 speaks.

### Deviations noted while modelling, without a run of their own

The models follow the code in all of these.

Frame loop

* wayland/triangle.c:79 and 100: a wait or a reset that fails goes unnoticed, and
  the frame objects are then used while the device uses them. The properties
  about them end there (`FenceKept`).
* wayland/triangle.c:81: after a failed acquire the draw of the frame never
  starts, and the next wait for the fence, in `render()` or in `uvr_vk_destory`
  (vulkan.c:968), never ends. A broken connection can have this effect, since the
  swapchain lives on it; `WCloseEnds` makes an exception for it (`Hung`).
* vulkan.c:968 and 1048: nor are the results of the waits of the teardown looked
  at (`DestroyUnwaited`).

Wayland

* wayland-client.c:71 and its like: a global that is announced twice overwrites
  the pointer to its first proxy, which leaks (`lost`).
* wayland-client.c:401: the first buffer is attached and committed before the
  first configure arrives; a strict compositor may refuse it. For a Vulkan window
  the first frame callback is committed on a surface without content (304): the
  program draws only with a compositor that answers it all the same, which is
  what `UnmappedFrames` says in `wayland_loop`.
* wayland-client.c:280: the close of any window clears the flag of the surface
  created last; after a surface without renderer the handlers dereference NULL
  (`HandlerCrashes`).
* wayland-client.c:125: the registry roundtrip's -1 counts as success.
* wayland-client.c:122: the registry listener keeps a pointer to a variable of
  the function that has returned. Not modelled, see below.
* wayland-client.c:220: after a failed shm buffer, the cleanup closes descriptor
  0, standard input, for the buffers that were not reached. `ClientReturned`
  allows exactly this case.
* A compositor without `xdg_wm_base` crashes `xdg_wm_base_get_xdg_surface`; the
  other globals are looked for (`MissingGlobalsCaught`).
* The fullscreen shell is bound and not returned, so that nobody can destroy it,
  and neither the frame callback in flight: `ClientReturned` allows both.

Vulkan

* wayland/triangle.c:412 and its like read element 0 of the NULL array a failed
  image, framebuffer or sync object wrapper returns (`Unchecked`); vulkan.h:489
  describes the nulled structure. vulkan.c:450 and its like allocate arrays by
  the size of a pointer, which happens to be enough on 64-bit machines.
* wayland/triangle.c:181: both shader codes are assigned to the same member, and
  the vertex code is never freed (`DestroyShaders`).
* vulkan.c:284: the tests of the DRM node and of the type share one flag and the
  type decides, so that the `kmsFd` of vulkan.h:132 chooses nothing.
* vulkan.c:269: with `INCLUDE_KMS` a structure is chained to itself after the
  first device has been asked; a second device is asked with an endless chain
  (`QueriesCircularChain`).
* vulkan.c:356: without a suitable family the index is returned uninitialised;
  the same holds for format and mode in the examples when none matches.
  `DeviceSuits` is about devices that have a suitable family.
* vulkan.c:510: the extent is clamped in a copy of the argument, and the caller
  goes on with the size it wanted. `SwapchainFits` is about the swapchain.
* vulkan.c:522: a surface whose maximum is its minimum is asked for one image
  more than that. `SwapchainFits` says that there are more than the minimum, and
  nothing of the maximum. The frame loop is proved for every number of images.

KMS

* sd-dbus.c:233: a device whose reply cannot be read stays taken until
  `ReleaseControl`. sd-dbus.c:279: a bus without a session path is not released.
* sd-dbus.c:262: when `fstat` fails, a device is neither given back nor closed;
  sd-dbus.c:113 and 269: a failing ReleaseControl or ReleaseDevice is only
  logged. `DevicesReturned` makes an exception for each.
* kms.c:126: the results of `vt_reset` are not looked at. `TerminalRestored`
  excepts the two ioctls, each for its own half.
* kms.c:106: when `KDSETMODE` fails the keyboard stays off. kms.c:459: a node
  that was never created is taken for an open one, and standard input is put into
  raw mode and closed. kms.c:461: the terminal's descriptor stays open.
* kms.c:152: a node given by its path is neither authenticated nor given the
  client capabilities; without universal planes the primary plane may not be
  listed, and `FindPlane` reaches `crashed` (kms.c:405 reads `plane->fb_id`).
* kms.c:405: planes that show the framebuffer of the chosen plane (cloned
  outputs) are not freed; `DisplayReturned` allows exactly these.
* buffer.c:167 and 190: DMA-BUF descriptors are passed to `drmCloseBufferHandle`.
  They stay open (`dmabufs` only grows), and a GEM handle of the same number is
  closed, of a buffer still in use or of the driver. `BuffersKeepHandles` says
  that no other handle is.

XCB

* xcb-client.c:97: the replies of the server are used unchecked (`InternAtoms`
  may crash). Window creation does not disconnect when `xcb_connect` reports an
  error. The handlers overwrite their pointer `rendererRuning`; the loop ends on
  the value returned.

## Fairness

* Host (`HostProgress`, `XHostProgress`, `WHostProgress`, `Client`, `Program`):
  weak. The thread runs whenever the call it is in can return; blocking calls are
  guards. `Dispatch` of VkFrameLoop is not fair, because events may never come;
  in WaylandFrameLoop it is, as soon as there is an event, and the X loop polls.
* `Device`, `SignalAcquired`, `Display`, `FinishReading`: weak. A device executes
  what is ready, an engine shows what it is given and stops reading what it has
  replaced. This is what Vulkan promises of forward progress, and the code's
  infinite timeouts rest on it. In WaylandFrameLoop `Display` is fair only until
  the connection breaks; reads that have begun are the graphics card's and end.
* `Process`, `Repaint`: weak. The compositor reads its socket and repaints.
* No failing call is ever required to happen, except as one outcome of a step.
* Setup: weak in the X and Wayland programs, whose creation calls all return,
  with or without success.
* None for users (`SendClose`, `SendEvent`), pings, protocol errors, `Disconnect`
  or the mailbox's `Discard`.

## Proofs

Every invariant and every action property a passing run checks is also a theorem,
for every value of the constants its hypotheses allow. Each proofs module belongs
to one component; those of the programs carry the results of their parts over.

| Module | Theorem | States |
|---|---|---|
| `VkFrameLoop_proofs` | `TypeCorrect` | `Spec => []TypeOK` |
| | `FaultInvariant` | `Spec => [](TypeOK /\ FaultInv)`: until a wait for the fence or its reset fails, whatever else does |
| | `HostOwnership`, `AcquiredDrawing`, `TeardownOwnership` | `HostOwnsFrameObjects`, `AcquiredWhileDrawing`, `DrawObjectsIdleAtDestroy`, up to the same failures and, for the last, that of the teardown's own wait |
| | `FrameInvariant`, `DrawOwnership` | `FrameInv` and `DrawsLentImage`, as long as only submissions and presentations fail |
| | `ImplementsSwapchain` | `Spec => SwapchainSteps`: a step of SwapchainImages until the first call fails |
| `XcbFrameLoop_proofs` | `XcbImplementsFrameLoop` | `XSpec => ImplementsFrameLoop`, for every set of calls that may fail |
| | `XcbOwnership`, `XcbDraws`, `XcbImplementsSwapchain` | the ownership invariants, `DrawsLentImage` and `SwapchainSteps` of the X program, under the conditions above |
| `WaylandFrameLoop_proofs` | `WaylandImplementsFrameLoop` | `WSpec => ImplementsFrameLoop`, for every set of calls that may fail |
| | `WaylandOwnership`, `WaylandDraws`, `WaylandImplementsSwapchain` | the same three for the Wayland program |
| | `WaylandRunsWindow` | `WSpec => Window!Spec` |
| | `WaylandCallbacks`, `WaylandOneCallback` | `CallbacksConserved` and `OneCallback` of its window |
| `WaylandSurface_proofs` | `TypeCorrect`, `WindowInvariant` | `Spec => [](TypeOK /\ WindowInv)` |
| | `FramesAreInOrder`, `CallbacksAreConserved` | `FramesInOrder` and `CallbacksConserved`, for every number of windows and buffers |
| | `OneCallbackOfOneWindow` | `OneCallback`, of one window with a renderer |
| | `DrawingOffScreen` | `DrawsOffScreen`, of one window with at least three buffers |
| `ShmWindow_proofs` | `ProgramInvariant` | `ProgramSpec => [](ProgramTypeOK /\ ProgramInv)` |
| | `ProgramRunsWindow` | `ProgramSpec => Spec` |
| | `ReturnedInTheEnd`, `GlobalsCaught`, `DestroyedChildrenFirst` | `ClientReturned`, `MissingGlobalsCaught`, `ChildrenFirst`, whatever fails, whichever globals are announced twice, and however many buffers there are |
| | `ProgramFrames` | the three results on one window, of this program |
| `VkObjects_proofs` | `ObjectsInvariant` | `Spec => [](TypeOK /\ ObjectsInv)` |
| | `LedgerHolds`, `UsersDestroyedFirst` | `Ledger`, `UsersFirst`, for every number of images |
| | `DeviceChoice`, `SwapchainChoice` | `DeviceSuits`, `SwapchainFits`, for every set of reports of a driver |
| `KmsProgram_proofs` | `Invariance` | `Spec => []Inv` of the KMS program, for every number of devices, connectors, planes and buffers and whatever calls fail |
| | `TypeCorrect`, `TerminalIsRestored`, `DevicesAreReturned`, `StdinIsKept`, `NothingFreedTwice`, `ChainIsConnected`, `PrimaryIsFound`, `HandlesAreKept`, `NodeOutlives`, `DisplayIsReturned` | the ten invariants of the run `kms` |

Assumed are the named assumptions on the constants and nothing else:
`ImagesAssumption`, `MaxEventsAssumption`, `FaultsAssumption` and
`MaxInboxAssumption` of the frame loops; `ConnectionAssumption` of the Wayland
program (an acquire can fail); `SurfacesAssumption` (finitely many windows),
`BuffersAssumption`, `ModesAssumption`, `CountAssumption`, `WantedAssumption` and
`WindowAssumption` of the Wayland modules; `ReportsAssumption`, `SizeAssumption`
and `ImageCountAssumption` of the Vulkan objects (a report has the fields and
types of the Vulkan structures); `DevicesAssumption`, `ChainAssumption` and
`BuffersAssumption` of the KMS program.

### The frame loop

`TypeOK` is inductive only with `BusyInv` (a device that executes has a draw at
the head of the queue): without it `GpuFinish` could take the tail of nothing.

None of the ownership invariants is inductive. That the host finds no draw when
it resets the fence depends on the fence being signaled only by the last draw,
which depends on there being one, which depends on the fence. `FaultInv` is that
knot, `CoreInv`, for as long as the fence is kept (`FenceKept`), in four named
parts. `SetupInv`: nothing is used before it exists. `FenceInv`: a signaled fence
means no draw in the queue and an idle image semaphore. `QueueInv`: at most one
draw, its presentation right behind it and the render semaphore signaled only for
the head, unless a presentation has failed. `ImageInv`: every queued presentation
has its own image, and the image of the frame in progress is in none of them. The
proof has one step per action, grouped by what they leave alone (control steps,
steps of `render()`, device, engine), and lemmas on what `Append` and `Tail` do
to the queue.

`ImageInv` is where failing calls come in. A failed acquire leaves the program
with the index of an earlier frame, and nothing can be said of that image; but
nothing will signal the semaphore either, so that the draw of this frame never
starts, the next `render()` never gets past its wait, and the index is never used
again. `Stalled` is that state; outside of it `ImageInv` holds, and since a
device that executes is never stalled, this is enough for all three ownership
invariants. A failed submission or presentation only takes something away that
the others do not need. A failed wait or reset is different: the next submission
finds the fence signaled or the queue not empty, and nothing is left of the knot,
nor of the three invariants, which may be false from then on.

`DrawsLentImage` also speaks of the image the command buffer was recorded for. A
failed recording leaves it with that of an earlier frame, so this property holds
until one fails, and `FrameInv` adds `DrawInv` to `FaultInv` for the time before:
a frame never stalls and its command buffer draws into the image acquired. The
theorem is not true without its condition: the engine may be reading the image of
that earlier frame.

For the refinement of SwapchainImages there is `LendInv` on top: an image that is
lent is that of the frame in progress, or on its way in the queue. With it every
action either changes the status of exactly one image as an action of
SwapchainImages does, or of none. `SwapchainSteps` is `SwapchainSpec` without its
fairness, and up to the first failing call.

The two programs are shown to implement the loop step by step: each of their
actions is one of VkFrameLoop's or leaves its variables alone. For the Wayland
program this needs that the number of frame and close events in a batch is a
natural number within `MaxEvents` (`HandledNat`), and nothing else about the
window.

### Windows

`WindowInv` has three parts, and `CallbacksConserved` is one of them.

* `SlotInv`: `rinfo` describes a surface with a renderer. It is why the frame
  handler has a callback to hand on at all.
* `BuffersInv` is about one surface and its requests on the wire. `Commits`: a
  buffer that is attached is committed by the very next request. `InOrder`: the
  buffer shown, the one pending, those on the wire and the one to be drawn next
  follow each other. `Paced`: there is a frame request between any two of them.
  All three survive the compositor reading the head of the wire and the client
  appending at its end, which is how the proof is divided.
* `CallbacksConserved` counts callbacks in three places, requests on the wire,
  pending ones at the compositor and done events. A new window brings one, and
  every other step moves one from a place to the next or none, except `Repaint`,
  which turns all that are pending for a surface into events at once. The lemmas
  on `Positions` and `Waiting` say how the three counts change.

For one window, conservation is `OneCallback`. This and `Paced` give
`DrawsOffScreen`: when a done event is handled there is no frame request on the
wire, so at most one buffer has not been shown yet; it follows the one on screen,
and with three buffers the one behind it is neither. The hypothesis of three
buffers is needed (run `window_double_buffer`), and so is that of one window
(`two_windows_callbacks`). No theorem relies on the compositor being strict.

WaylandFrameLoop and ShmWindow run this window: each of their steps is one of the
window's or leaves it alone (`WaylandRunsWindow`, `ProgramRunsWindow`), and the
theorems above are theorems about the programs.

### The shared memory program

* `ProxyInv`: what exists is held by a structure, or was made by the step being
  taken (`Fresh`), or is one of two objects nobody ever mentions. `TeardownInv`
  says the same of the teardown: what is left is still in `todo`, and `todo` is
  the rest of the order of `uvr_wc_destroy`. `ChildrenFirst` follows from that
  order; on the error path of the window, whose labels destroy one object each,
  it follows from `Fresh`, which says what is left of the window at each label.
* `SocketInv`: the socket is open until `uvr_wc_destroy` comes to the display.
* `ShmInv` follows the loop over the buffers: those before `idx` are complete,
  those after it are zeroed, and buffer `idx` is as far as the call being made.
  It fixes the numbers of the descriptors too, since the kernel takes the lowest
  free one: the file of buffer n is descriptor n + 4. Only so can one say what
  the cleanup closes: the descriptors of the buffers made, and descriptor 0 for
  the ones never reached.

### Vulkan objects

`AppInv`: what is recorded is what a prefix of the list of wrappers creates,
`Built(n)`. `AliveInv`: what exists is that and the objects of the wrapper being
run; during the teardown, the recorded objects of the kinds still to come.
`Ledger` follows because the wrappers create different objects and
`uvr_vk_destory` has every kind once in its list; `UsersFirst` because each
wrapper uses kinds of earlier wrappers only, and the list is in the opposite
order. These facts on the lists are lemmas (`BuiltUses`, `BuiltKinds`,
`DestroyedOnce`). `ChoiceInv` carries a choice from where it is made to where the
object is created from it; that the choice is good is a lemma about the operators
of VkSelect (`FirstDevice`, `FirstGraphics`, `WithinLimits`).

### The KMS program

None of its properties is inductive either: that the terminal is restored at
`done` says nothing of the way there. `Inv` has an invariant per part, and what
each says of the others' progress.

* `TerminalInv` and `DevicesInv` go through the calls in groups: before a device
  is open there is no descriptor; while it is made a node the local copy is what
  the kernel has; afterwards the node is `Whole`, with the keyboard's old mode in
  it, or `Failed`. That nothing is taken without control, and nothing controlled
  without a path, is why releasing the session as a whole is enough.
* `PointersInv` says which pointers are set at which label, `HeapInv` that what
  is allocated is exactly what they point to, besides the planes. From this
  follows that nothing is freed twice. `PlaneInv` keeps, for a crtc with a
  framebuffer, the plane that `GetCrtc` got it from.
* `TerminalRestored` and `DevicesReturned` hold with their exceptions because
  `failed` never shrinks: their invariants say of what is left over which call
  has failed.
* `HandleInv`: a buffer has a handle that nobody else has, neither another buffer
  nor the driver, and it is open unless it has the number of a descriptor of a
  buffer gone (`ClosedByNumber`). `GemInv`: what is open is the driver's or some
  buffer's. With this a new handle is new, and a destruction closes its own. No
  relation between handles and descriptors is assumed.
* `Coupled`: the chain and the buffers exist only while the node is complete. It
  is what makes the three destructions of `exit_error` independent.

`SessionRests`, `ChainRests` and `BuffersRest` say that a part keeps its
invariant while another moves; the chain needs for this that the capabilities
(`exposed`) are set before it starts.

### Only model-checked

* Liveness, which the provers cannot do under fairness: `KilledEnds`, `QuitEnds`,
  `XFramesGoOn`, `HandlersReturn`, `WFramesGoOn`, `WCloseEnds`, `ShmFramesGoOn`,
  `ProgramEnds`, and of `SwapchainSpec` the fairness.
* The five violations, which are about one instance each.

## What is not modelled

* Queue operations are retired in submission order and one swapchain serves one
  queue. A suboptimal or out-of-date swapchain (a resize) is not modelled: the
  code does not handle it.
* A compositor that reads a buffer after it was replaced; the client never looks
  at `wl_buffer.release`.
* Globals announced after the roundtrip (wayland-client.c:122): the listener then
  writes into a dead stack frame, and a model can say nothing of what follows.
* Failures whose effect Vulkan leaves open beyond the call itself (a lost device)
  and a failing `vkCreate*` of the frame loop, which VkObjects has.
* DRM nodes of physical devices: `kmsFd` (kms/main.c:187) decides nothing.
* A lost X connection: `xcb_poll_for_event` then returns NULL like "no event",
  and the program renders for ever.
* Kernel answers that contradict each other (a connector whose encoder is not
  listed), which the code does not check either.
* Wayland server wrapper (a straight line of three calls), shader compilation (a
  pure call of shaderc; loading and freeing the code are in VkObjects), logging
  (`src/utils.c`; its shared memory file is in ShmBuffers), build files: no
  behaviour of their own.

## Plan

1. Done: VkFrameLoop with its invariant proved; WaylandSurface; VkObjects;
   XcbFrameLoop with its refinement proved; the KMS modules.
2. Done: the programs as compositions. ShmWindow with registry, buffers and
   teardown; WaylandFrameLoop, in which the dispatches of the window are the
   callbacks of the frame loop; XcbFrameLoop with its window; VkSelect inside
   VkObjects; KmsProgram with every property proved.
3. Done: the invariants behind every safety property and their proofs, the
   refinement of SwapchainImages, and both Wayland programs as implementations of
   WaylandSurface.
4. Left: a safety property of the window and the connection that
   `uvr_xcb_window_create` leaves behind when it fails, which so far only
   liveness speaks of (`QuitEnds`); and the modules KmsSession, OutputChain and
   GbmBuffers as theorems of their own, apart from the program that joins them.
