# TLA+ models of ARArch

ARArch is an Android augmented reality pipeline: Kotlin code opens the cameras
and converts their images, C++ code moves the frames through an Intel TBB flow
graph of source, router, detector, tracker and render nodes.  This directory
models the parts of it in which threads share state, checks them with TLC and
proves the central invariants with TLAPS.  There is no test suite and no design
document in the repository: every definition is translated from the source, and
PROJECT.json ("map") names the lines of each.

## 1. The system

Paths: `cpp/` is `src/app/c++/`, `kt/` is `src/app/src/no/pack/drill/ararch/`.

| Component | State it keeps | Operations | Talks to |
|---|---|---|---|
| Camera session (`kt/mar/HardwareCamera.kt`, `StandardCamera.kt`, `FastCamera.kt`) | semaphore, handler thread, device, session | `startPreview`, `stopCamera`, camera2 callbacks | frame handlers |
| Frame handlers (`kt/mar/RenderScriptFrameHandler.kt`, `CPUFrameHandler.kt`) | conversion buffers, image reader | `onBufferAvailable`, `onImageAvailable` | JNI `inFlight`, `enqueue`, `clearQueue` |
| Camera queue (`cpp/src/acquisition/Camera.cc`, `cpp/src/jni.cc`) | one bounded queue per camera | `enqueue`, `dequeue_blocked`, `clear` | source node |
| `FrameInfo` (`cpp/src/acquisition/FrameInfo.cc`) | pixels, three atomic flags, number; instances are counted | construction, destruction | everybody, by `shared_ptr` |
| `Repository` (`cpp/src/Repository.cc`) | frames per camera, stereo pairs, recognised tags, faces and overlays, `must_terminate`, `initialised`, `is_rendering` | `new_frame`, `get_frame`, `delete_frame`, `clear_queued`, ... | all nodes |
| Source nodes (`TBBCameraSource.cc`) | - | pop, number and emit a frame | camera queue, repository, router |
| Router (`TBBRouter.cc`) | routes per camera | offers a frame to detector, tracker, renderer; raises the frame's flags | repository, nodes |
| Detectors (`TBBDetector.cc`) | a busy flag per camera | detect, lower the flag, delete the frame, publish results | repository |
| Tracker (`TBBTracker.cc`) | - | lower the flag, delete the frame | repository |
| Render node (`TBBRender.cc`, `VulkanRenderer::render`) | the gate `is_rendering`, Vulkan objects | draw, delete the frame | repository |
| `ArchVulkanRenderer::draw` | last tags, face, overlay | takes over results and draws them | repository's result maps |
| Architectures (`architecture.cc`, `Architecture.h`) | the graph, the run loop's thread | `start`, `run`, `stop` | all nodes, sensors |
| Sensors (`Sensors.cc`, `SensorData.hh`, `bounded_map.h`) | bounded maps of events | `initialize`, `process_queues`, getters | run loop |
| MAR facade, activities (`kt/mar/MAR.kt`, `ARActivity.kt`) | cameras, RenderScript contexts | start and stop with the activity's life cycle | cameras, JNI |

What makes the code hard is that nobody counts references.  A stored frame has
three flags (`isDetecting`, `isTracking`, `isRendering`); the router raises
them *after* it has handed the frame to a node, every node lowers its own and
then calls `delete_frame`, which erases the frame when all three are down.  The
number of frames alive throttles the camera, so a frame that is never deleted
costs a place for good.  The rest of the hazards are listed, each at its line
and with the properties that cover it, in PROJECT.json ("hazards").

What makes each component correct:

* repository and nodes: no frame is erased while somebody needs it, and no
  frame stays when nobody will delete it;
* camera queue: it never overflows, the newest frame always gets in;
* overlay exchange: the renderer finds what was announced and never draws from
  freed memory; nothing is freed twice or lost;
* stereo pairs: twins are deleted together and no pair is confused with another;
* camera sessions: the semaphore is never lost, callbacks of two attempts do not
  overlap, a late stop leaves a newer session alone, start and stop return;
* life cycle: after `stopMAR` the run thread ends and the sources stop numbering
  frames; what cannot come to rest is known;
* renderer: nothing that belongs to a slot, and no image, is touched under a
  draw of the device, and a call of `render` returns;
* image reader: the newest image is handed on, and a stop that has begun ends;
* sensors: at most `max` events in a map, those are the newest, and every event
  gets there.

## 2. Modules

| Module | Models | Run by |
|---|---|---|
| `FramePipeline` | one camera's frames from the image callback to the last `delete_frame` | `FramePipelineRear` |
| `FrameStore` | what the repository promises its clients, as an abstract specification | refined by `FramePipeline`, and by each half of `StereoPairs` |
| `Handover` | what a detector and a renderer owe each other about the objects they pass, as an abstract specification | refined by `FaceOverlay` and `BoxExchange` |
| `FaceOverlay` | front face detector and rear renderer sharing `faceOverlays` | `FaceOverlay`, `FaceOverlayScan` |
| `BoxExchange` | tag or face detector and the renderer, sharing a map and a newest-first queue | `BoxExchange` |
| `StereoPairs` | two joined cameras, their pairs and the deletion of twins | `StereoPairs` (by `StereoPairsMC`), `StereoPairsKeys` |
| `CameraSession` | opening, previewing and stopping cameras: UI thread, handler threads, message threads, camera service | `CameraSession`, `CameraSessionLive` |
| `Lifecycle` | `startMAR`, `run`, `stopMAR` and the activity, for the four architectures, with sources blocked in `pop` | `Lifecycle` |
| `VulkanRender` | `VulkanRenderer::render` against the graphics queue and the screen, with every error return | `VulkanRender` |
| `CPUFrames` | `CPUFrameHandler.onImageAvailable`, its image reader and its looper | `CPUFrames` |
| `Sensors` | `initialize`, `process_queues` and the bounded maps they fill | `Sensors` |
| `FramePipelineProofs`, `FaceOverlayProofs`, `BoxExchangeProofs`, `StereoPairsProofs`, `CameraSessionProofs`, `LifecycleProofs`, `VulkanRenderProofs`, `SensorsProofs` | theorems about the module they are named after (those about `CPUFrames` are the last section of `FramePipelineProofs`) | TLAPS |

How they fit: `CPUFrames` and `CameraSession` end where a frame is enqueued;
`FramePipeline` begins there and ends at `delete_frame`; its render node is one
step from `RenderBegin` to `RenderEnd`, which `VulkanRender` opens up;
`FaceOverlay` and `BoxExchange` are what detectors and `draw` exchange on the
side; `StereoPairs` is the second camera's part of the graph; `Lifecycle` starts
and stops all of it, and its run loop calls what `Sensors` models.

### FramePipeline

Seven threads of control, one program counter each: camera thread (`camPc`),
source (`srcPc`), router (`rPc`), detector (`dPc`), tracker (`tPc`), render
node (`vPc`) and `stopMAR` (`lifecycle`).  An action is the code between two
accesses to shared state; `RouteDetect` and `FlagDetecting`, for instance, are
the two halves of lines 69-73 of the router, because the detector may run
between `try_put` and the store.  Frames are their numbers; frames that still
wait in the camera queue have no number (`FrameInfo::seqno` is set by
`new_frame`), so the queue is a counter.  `repo` is the map of stored frames,
`detecting`, `tracking` and `rendering` are the frames whose flag is up.

Abstractions worth knowing:

* One camera.  `inFlight()` counts the frames of all cameras, so with two
  cameras each is throttled earlier than here; nothing else is shared between
  the two routes.
* `try_put` to a node succeeds exactly when the node is idle: the nodes have
  concurrency 1 and the policy `rejecting`.  That the edge is handed back some
  time after the body has returned is a body that ends later.
* `delete_frame` is one step.  It reads three atomic flags while it holds the
  frame's accessor; a flag raised between the reading and the erasing is in the
  same position as one raised just after, since nobody can look the frame up in
  between.
* `renderer->is_initialized()` is true, the renderer is the multi-threaded one
  and frames have pixels (the RenderScript route).
* The recognised tags and faces are data; what they become is `FaceOverlay`
  and `BoxExchange`.

What the runs show, beyond that the properties hold:

* A frame can leak in two ways only, and both are reachable: a node finishes
  with the frame before the router has raised its flag, or the render node
  discards a frame after `stopMAR` with the flag still up.  A leaked frame
  stays until the out-of-memory path clears the whole camera, and since leaked
  frames count as in flight, `queueSize` of them stop the camera.  Frame 0 is
  one of them from the start: the router skips number 0.  There is one such
  frame only: `next_seqno` makes a camera's counter on its first call, without
  counting, and that call is `addCamera`'s (`FirstSeq`), so frames are numbered
  0, 1, 2 and on.
* The throttle limits the whole pipeline: never more frames than the queue's
  size and one are alive, however stale the count was (`InFlightBound`).  So the
  queue can overflow only while the repository is empty
  (`OverflowOnlyWhenIdle`, a theorem), `Camera::enqueue` never fails, and the
  `delete_frame` of a dropped frame's number 0 meets no stored frame.
* The detector's busy flag and the `compare_exchange` on `is_rendering` decide
  nothing that the flow graph does not decide already (`GatesUncontended`).

### FrameStore

The repository as its clients see it: frames are numbered in order and no number
is given twice, a pinned frame is not erased, an erased frame does not come
back; only the clearing of a whole camera ignores the pins.  `FramePipeline`
implements it with `stored <- repo`, `next <- nextSeq` and `pinned` the frames with a flag up.
In the stereo graph each camera's half of the repository implements it too, but
with weaker pins: the first camera's frames are pinned by the detector's and the
tracker's flags only, because the deletion of a twin does not ask the renderer's,
and the second camera's by nothing, because no flag is ever raised on them.

### Handover

Objects made by one thread and shown by another, with no lock: they are made in
the order of their numbers (`Make`, or `Skip` for a frame without one), deleted
unseen by whoever has them (`Discard`), or put on the screen in exchange for the
one there, which is deleted by that (`Replace`).  Nothing else deletes what is
shown, nothing deleted is shown, and nothing is deleted twice.  `FaceOverlay`
and `BoxExchange` keep these promises in quite different ways, the first by
comparing numbers, the second by handing the boxes on; each has the refinement
mapping `Exchange` at its end.  The run `overlay` checks the first; the second is
a theorem (`BoxesImplementHandover`) and has no run of its own, as `OneOwner` and
`QueueMatchesMap` ask more of the boxes than `Handover` does.

### FaceOverlay

Two threads: the detector of the front camera (`dPc`) and `draw` on the rear
render node (`vPc`).  `linked` is the hash map's nodes, `alive` the `DetectedROI`
objects not yet deleted.  The walk of the detector over the map takes the nodes
in any order, one node per step, at most `ScanLimit` of them; deleting the
object and erasing the node are separate steps, as in the code.  Frames without
a face change nothing here, so the next number is any larger one.  Reading
`inUse` of an object that the renderer has deleted yields either value, and a
walk whose node has been erased either goes on or ends.

The two sides do not lock each other out, and the flag `inUse` between them
decides nothing.  What keeps them apart is the numbers: the detector frees only
numbers below `currentRenderOverlay - 1`, and all the renderer may still touch
is at or above `currentRenderOverlay`.  The walk itself is not safe: TLC shows
the renderer erasing the node the detector's iterator stands on
(`ScanOnLiveNode`), which the map's header forbids.

### BoxExchange

Two threads again: a detector (`dPc`) and `draw` (`vPc`), and a clock.  `boxes`
is `aprilTags` or `faceDetections`, `recent` the priority queue of numbers, and
`kind` says which of the two pairs it is; `startMAR` never asks for both in one
architecture.  The boxes of a frame are made, moved and deleted together and are
one value, the frame's number.  The clock is read where `draw` reads it, and
time passes between any two steps.  `screen` is a history variable.

What the run shows, beyond that the properties hold:

* The screen shows older tags after newer ones.  The queue hands out the newest
  number first, and what arrived before it is drawn afterwards if it is not
  older than `Fresh` by then.  The two limits together keep the step back below
  `Fresh - Hold`, 120 ms in the code.  Faces have no age limit: whatever is left
  in the queue is drawn in reverse order, however old.
* The map never shrinks to nothing: every frame without tags, and every frame
  whose tags came too late, leaves an empty entry; only boxes that still exist have a number in the queue,
  and every number in the queue an entry (`QueueMatchesMap`).
* Each of the boxes has one owner at any time, though they are deleted by hand
  in two places and moved out of the map while the detector inserts.

### StereoPairs

Two source nodes, the join (`jPc`), two instances of the router, and detector,
tracker and renderer, each with a program counter in `pc`.  A frame is a camera
and a number; `stored` is `camera_frames` with both, `pairs` is `stereoFrames`
by its key, `up[n]` the first camera's frames whose flag for node `n` is up (the
second camera's frames never get one).  `delete_frame` is modelled in three
steps, which is where it lets go of one camera's accessor before it takes the
other's: erase the frame and ask for its twin (`Erase`), erase the twin and drop
the frame's entry (`EraseTwin`), drop the twin's entry (`Unpair`).  While the
last two hold a camera's accessor nobody can look up that camera (`Locked`).

Abstractions: the tag detector and the benchmark render node, which is what
`startMAR` asks for with tags; no stop, no clearing and no throttle, which
`FramePipeline` has.  The join takes the cameras' frames in order and each camera
counts for itself from 0, so both frames of a pair have the same number: pair
`s` is the one that was joined after `s` others.  Pair 0 is joined like the
rest, but the router skips it and nobody ever looks its entries up; the
properties are about the pairs after it.

What the runs show, beyond that the properties hold:

* Two deletions from both sides of a pair, one of them by the detector for the
  second camera, leave nothing behind in either map, although the entry is
  dropped even when the twin is spared.
* The twin is erased without asking for `isRendering`.  So the detector, when it
  is done, takes a frame from a renderer that has not looked it up yet; no other
  path does (`RenderLossByTwin`).
* Keys collide.  With cameras 0 and 2 the pairs 1 and 3 have the same two keys,
  and while both are waiting `stereo_twin` answers with a frame of the camera it
  was asked about (`stereo_keys`).
* Keys come round in every run of frames: pair `n` has the keys of pair
  `n xor (Id1 xor Id2)`.  It does harm only when the two are in the repository
  together.  That this has not happened so far is the history variable `apart`,
  which `PairFirst` sets by looking for a pair that is still there, in part at
  least (`Present`), and has one of the new pair's keys (`OwnKeys`).
  `TwinsLeaveTogether`, `NoOrphanPair` and `RenderLossByTwin` are stated of the
  states up to then.  In `stereo` pair 3 takes over the keys of pair 1: after
  pair 1 has left, when everything holds, or before, where the run stops.  TLC
  shows `NoOrphanPair` and `RenderLossByTwin` broken from there on if the
  hypothesis is left out.

### CameraSession

Who runs: the UI thread (`uiPc`), in `MAR.startPreview` or `stopPreview`; one
handler thread per attempt to open a camera (`tState`, `tPc`, `inbox`), on which
the camera2 callbacks run; the message thread of each camera's RenderScript
context (`mPc`), on which frames arrive; and the camera service (`dev`, `sess`).
An attempt's number stands for its device, its session and its handler thread,
so `device[c]`, `session[c]` and `thread[c]` say which attempt the fields
`cameraDevice`, `captureSession` and `threadHandler` of `HardwareCamera` come
from.  `permits` is the semaphore `openCloseLock`, `ready` is
`MAR.isPreviewingReady`.  An action is one callback, or the part of it between
two calls that another thread can notice: `onConfigured`, for instance, is
`OnConfigured`, `StartRepeating` (from here on frames arrive), `ReportSuccess`
and `FinishSuccess`, in any of which a frame may find the camera stopping.
A frame that changes nothing is not a step; one that finds its camera stopping
calls `stopCamera` in two steps, because it waits for the handler thread first.

What is taken from outside `src/`, and marked external in the map:

* a looper delivers in order, drops what arrives after `quitSafely`, and ends;
* opening a camera takes it away from the device opened before; a device may be
  lost at any time; a session request is answered unless the thread has quit;
* `RenderScript.destroy` waits for the context's message thread, and returns at
  once when another thread destroys the context already.  It may interrupt that
  thread; `stopBackgroundThread` catches the interrupt (`FrameInterrupted`), but
  nothing relies on its coming.

Abstractions: waiting three seconds for the semaphore is `AcquireTimeout`,
possible whenever there is no permit.  `currentThreadTimeMillis`, by which
`startPreview` measures its five seconds, counts CPU time, and the loop sleeps:
`WaitTimeout` may happen and need not.  All exceptions that end in one `catch`
are one failing action.  The bound on attempts ends further openings in the way
a time-out does.  The two handlers share `isStopInit`: a camera has one handler
per session, and a new one starts with the flag down.

What the runs show, beyond that the properties hold:

* A camera can be started once per process.  `isPreviewingReady` is never
  cleared, so after a stop, or a failure, `startCameras` says "already
  previewing" (`MAR.kt:270`) and starts nothing.  What follows from it for the
  pipeline is in `Lifecycle`.
* The semaphore does not lock.  Every attempt that succeeds takes one permit and
  gives two back (`StandardCamera.kt:254`, `HardwareCamera.kt:375`), so later
  attempts find permits while one is still opening.  What keeps two attempts apart is that `startPreview` ends
  the old handler thread and waits for it (`OneHandlerThread`).
* `CreatesOnItsDevice` and `ClosesOwnSession` hold with one RenderScript context,
  or none, and fail with two, which is why the run `session` has one camera.  When the failure of the second
  camera is already destroying the first one's context, `stopPreview` on the UI
  thread does not wait for the first one's message thread; if `startPreview` had
  timed out before the first camera reported, the camera can be started again
  and the old `stopCamera` closes the new device.  It needs a wait that ended by
  CPU time, so it is noted here and not claimed as a finding.
* The liveness of `session_live` has a safety core, which is proved for any
  number of cameras and attempts (section 4).  The waits of `stopPreview` never close a ring
  (`NoWaitingRing`): the handler thread that a message thread's `stopCamera`
  joins may be reporting success, but never fails any more, so it does not get
  into `stopPreview` itself.  And a camera without a result is owed one
  (`AnswerComes`), unless `openCamera` threw or the device was lost; the silent
  return of `createCameraPreviewSession`, when there is no device, is not taken
  before the first result.
* `stopPreview` only sets a flag.  A camera of which no frame arrives between
  that and the end of `destroy` is never closed, because the next frame would
  have come through the destroyed context.

### Lifecycle

The UI thread (`ui`) with the calls of the activity, the run thread (`runPc`),
a source node and a camera thread for each camera.  Queues are numbers of
frames.  The order of `Activate` and `RaiseInitialised` is that of `run()`,
which differs: only the mono architecture raises `initialised` first, and only
`TBBMonoAndFrontArchitecture` ends in `wait_for_all`.  `reset` on a second
`startMAR` is two steps, the making of the new architecture, whose source nodes
clear the queues the old ones are still working on, and the destruction of the
old one (`DestroyArchitecture`).  Its members go in reverse order: nodes, graph,
and the `std::thread` that nobody has joined, so that `std::terminate` is called
if the graph's destructor comes back at all.  While the nodes are gone,
whoever touches one may crash or not (`TouchNode`); `alive` says which.

Abstractions: the sensors and the renderer are one step of `SetUp`; the results
of the cameras are known when `startPreview` returns (how they come about is
`CameraSession`); the multi-threaded renderer.  `TBBStereoAndFrontArchitecture`
is marked untested in the source and is modelled with the rest, as its `run()`
has the same shape.

What the run shows, beyond that the properties hold:

* A source that sits in `pop` on an empty queue when the pipeline is stopped
  stays there for the rest of the process (`StrandedForever`): the cameras have
  been told to stop first, `initialised` is down, and `startMAR` neither raises
  it again nor gets that far.  With two cameras the run thread stays with it in
  `wait_for_all`; `RunEnds` excepts that case and no other.
* `must_terminate` is never taken back and `architecture` never joined, so a
  second `startMAR` in one process ends it, or hangs the UI thread
  (`StartsOnce`).  It is reached by a surface that changes twice.

### VulkanRender

`pc` is where `render` is between two calls of the driver; `draws` are the
submissions the device is working on, `shown` the images queued for the screen,
`fence` the state of `camera_fences`.  Slots go by `current_index`, command
buffers by the acquired image, and both are kept apart here.  Every call of the
driver may fail and `render` then returns as the code does, with the fence
reset, the image kept or the slot not advanced, whichever applies.  Out of date
means `destroy(true)` and `recreate()`, which may get another number of images
and may fail before there are fences again; `current_index` survives both.

External: draws finish in the order of their submission and signal their fence;
the presentation mode is FIFO, so images come back in the order in which they
were queued; the driver has as many images as `vkGetSwapchainImagesKHR` says,
at least the three asked for.

Abstractions: the frame is found (one that is lost changes nothing);
`vkQueueWaitIdle` of the upload is waiting for `draws` to be empty.

What the run shows, beyond that the properties hold:

* A call that fails between `vkResetFences` and `vkQueueSubmit` leaves its fence
  reset.  Every later call waits for it for ever (`StuckForever`), with the
  render gate closed; the pipeline goes on without a picture.
* The two vectors indexed by `current_index` and by the image are read without a
  test.  After a rebuild that failed, or that found fewer images, `render` reads
  past the end (`pc = "undefined"`).  When `vkAcquireNextImageKHR` reports out of
  date and `recreate` works, it goes on with `index = UINT32_MAX`.
* `recreate` calls neither `record_default_commands` nor the making of the depth
  buffer: after it empty command buffers are submitted (`recorded`).
* A picture that is uploaded while a draw is in flight belongs to the frame
  after that draw (`OnePictureInFlight`): the wait at the end of an upload
  leaves at most one draw that may still sample the texture.
* An image that a failed present did not queue is lost; when all are, acquiring
  waits for ever, which `RenderReturns` excepts.  A semaphore left signalled by
  such a failure is not modelled.

### CPUFrames

One session of one camera: the camera fills the reader and posts a message for
each image, the handler thread (`pc`, `looper`) runs `onImageAvailable`.
`unclosed` counts images that were acquired and never closed.
`acquireLatestImage` needs room for two images to skip older ones, so with one
image unclosed it hands out the oldest, and with two it throws, outside of the
`try`: the application ends.  `stopCamera` runs on the thread it tells to quit;
`quitSafely` lets the messages already due be handled, and the `join` of the
thread by itself ends by the interrupt sent just before.  A loss of the camera
in the middle is `CameraSession`'s, frames once enqueued are `FramePipeline`'s.
The branch for NV21 is left out: `ImageReader` does not accept that format
(the branch reads planes of an image it has closed).  `enqueueYUV` answers TRUE
before the pipeline is initialised and keeps nothing (`EnqueueNothing`).

What the run shows, beyond that the properties hold:

* Every early return keeps its image: being throttled once makes all later
  frames late, twice ends the camera's frames, and the next message ends the
  application (`LateOnlyAfterLeak`, `DeafForever`).
* The stop on its own thread does complete (`StopCompletes`).

### Sensors

The run thread (`visit`, `pulling`, `count`: where it is in `process_queues`)
and Android, which queues events of each sensor in any order of timestamps.
`readings` is the bounded map as the set of its events, ordered by timestamp and
arrival as a multimap is.  The sensors are walked in the fixed order of a hash
map that does not change any more.

What the run shows, beyond that the properties hold:

* `count` is one for the whole walk and set back for each sensor: a busy sensor
  is left after `max_to_process + 2` events and does not keep the others from
  theirs (`EventsArrive`).
* A sensor that could not be enabled keeps the pointer to its destroyed queue
  and is asked for events all the same; `good` is written only.
* The loop of `prune` erases the element it is at and steps over the next one,
  so of several elements too many every other would be kept (`Prune`).  There is
  one too many at most, because `insert` of a range is instantiated nowhere, and
  that one is the oldest (`NewestKept`, and the lemma `PruneOne`).  Erased events
  are never freed.

## 3. Runs

| Run | Module, configuration | Asks |
|---|---|---|
| `rear` | `FramePipeline`, tag detector, renderer, queue of 2, 4 frames, 1 clearing, fair nodes | the safety properties, refinement of `FrameStore`, every stored frame leaves |
| `overlay` | `FaceOverlay`, 6 frames, walk of 3 | the safety properties of the exchange, refinement of `Handover` |
| `overlay_walk` | `FaceOverlay` | the violation described above |
| `boxes` | `BoxExchange`, tags and faces, 4 frames, 9 ticks, limits 2 and 4 | the safety properties of the exchange |
| `stereo` | `StereoPairsMC`, cameras 0 and 2, 4 frames each, 2 router instances, as long as keys are kept apart | the safety properties, refinement of `FrameStore` by each half |
| `stereo_keys` | `StereoPairs`, cameras 0 and 2, 4 frames each | the violation described above |
| `session` | `CameraSession`, 1 camera, 3 attempts, 3 starts | the safety properties |
| `session_live` | `CameraSession`, a rear and a front camera, 1 attempt, 1 start, fair threads | `startPreview` and `stopPreview` return; who owes a result, no ring of waits |
| `lifecycle` | `Lifecycle`, rear and front camera, queues of 2, 2 surfaces, fair threads | what a stop and a second start do |
| `render` | `VulkanRender`, swap chains of 3 or 4 images, 5 frames, fair device | slots and fences, texture, semaphores; calls return |
| `reader` | `CPUFrames`, room for 2 images, queue of 1, 7 images, fair handler thread | late frames, stopping |
| `sensors` | `Sensors`, 2 sensors, maps of 2, 4 events of 3 times, fair run thread | the newest are kept, all arrive |

Bounds.  Four frames and a queue of 2 let the throttle close and the queue fill
up behind a busy pipeline; the router skips the first frame, number 0, so three
are left: one for the nodes to be busy with, one with a late flag, and one that
all three nodes refuse, or that is deleted next to the leaked one.  As the camera sends finitely many frames,
`FramesLeave` is stated of the time after the last of them.  One clearing is enough because clearing
empties everything.  The other branch of the router (a front camera, without a
renderer), more frames and longer queues are left to the proofs, which hold for
all of them.  In
`FaceOverlay` six numbers let the renderer be two overlays behind while the
detector meets more entries than it looks at (`ScanLimit` is 6 in the code, 3
here, so that the limit is reached).  In `BoxExchange` the clock starts at 3 and
goes to 9, which is two holds and the step back between them; with four frames
two can wait in the queue while one is drawn and one is being inserted.  In
`StereoPairs` four frames of each camera are pair 0, which the router skips, two
pairs that its two instances can hold at once, and one that comes to the first
one's keys.  `stereo` follows a behaviour until two pairs with a key in common
are there together (`KeysKeptApart`), after which the properties say nothing;
`HalvesSpec` does, and is a theorem.  The instances of the router are
interchangeable (`RouterSymmetry`).  In
`CameraSession` three attempts are what
it takes to have a session running, a second attempt replacing it and a third
one that finds a permit too many; for liveness two cameras are needed, because
the waiting in a circle is between one camera's failure and the other's stop.
In `Lifecycle` a second surface is a second `startMAR`, after which the process
is gone or hangs; two cameras choose the architecture that waits for its sources.
In `VulkanRender` five frames use the slot of the first again, with four images
too, and a failure and a rebuild fit in between.  In `CPUFrames` four
buffers are the two that may be acquired and two that wait, and seven images let
both be kept early and more arrive.  In `Sensors` four events of three times
overfill a map of two with equal and with older timestamps.  CHECK_DEADLOCK is off because the camera
may stop delivering and the bounds end every behaviour.

Fairness.  For `FramesLeave` the run `rear` assumes weak fairness of source, router, detector, tracker
and render node: they are tasks of TBB's worker threads, which run as long as
the architecture's run loop does.  Nothing is assumed of the camera or the user.
`session_live` assumes that UI, handler and message threads run when they can and
that the service answers what it is asked (it opens a camera or reports an
error, it configures a session or refuses it); frames, losses, the user and
`WaitTimeout` are not fair.  `StartReturns` therefore has to except a camera that
gave no answer: `openCamera` threw, or the device was lost, and nobody tells
`MAR`.  `startPreview` then waits on the UI thread for five seconds of CPU time.
`lifecycle` assumes that the run thread and TBB's workers run and that a push
that has begun ends; `render` that `render` goes on when it can and the device
finishes what it was given, while no failure is owed; `reader` that the
handler thread runs; `sensors` that the run thread does.

## 4. Proofs

TLAPS proves for every value of the constants what TLC checks for these:

* `FramePipelineProofs`: type correctness, `NoOrphanFrame`,
  `ConsumersFindTheirFrame`, `EnqueueNeverFails`, `GatesUncontended`, the action
  properties `FramesInOrder`, `LeakOnlyByOvertaking`, `RenderLossWindow` and
  `LeakIsForever`, and the refinement of `FrameStore`.  The invariant `IInv` is
  needed because none of these is inductive: that a node finds its frame, say,
  depends on the frame being newer than whatever the nodes had before
  (`QueueOrder`, `RouteOrder`), on its flag being up or about to be
  (`Handover`), and on stale flags belonging to older frames only (`FlagOrder`).
  `InFlightBound` and `OverflowOnlyWhenIdle` have an invariant of their own
  (`FlightInv`): the live frames are a number and the size of a set, and a step
  that adds to one was let through by the throttle or takes from the other; the
  library's theorems on cardinality carry it for any queue size.
  The last section is about `CPUFrames`, which is upstream of the queue:
  `LateOnlyAfterLeak` and `DeafForever`, for a reader with room for more than one
  image (`FramesAssumption`; the code asks for two, and `acquireLatestImage`
  needs two to skip any).  The first is inductive once one knows that an image
  in hand is not among those kept (`HandHasRoom`): the reader then had room to
  skip to the newest, unless an earlier image was left unclosed.
* `FaceOverlayProofs`: the safety properties of `FaceOverlay`, and that `inUse`
  decides nothing and the screen never goes back.  The heart of
  `IInv` is `NumberOrder`: what is rendered, looked up, announced and detected
  are numbers in that order, and everything deleted lies below all of them.
  The refinement of `Handover` follows from it step by step: what `FreeOverlay`
  deletes is alive and not the renderer's own, and what `ReplaceLast` shows is
  alive and newer than what it replaces.  The frames without a face that
  `DetectFace` passes over are one `Skip`.
* `BoxExchangeProofs`: the properties of `BoxExchange`, for any two limits with
  `Hold < Fresh`.  `Numbering` keeps the renderer off the number the detector is
  working on, `Ownership` is exclusive ownership, and `Deadlines` says that what
  has left the renderer's hands had been shown for longer than `Hold` by the
  clock reading in use, which is what bounds the step back.  With `Ownership`
  the exchange refines `Handover`: the renderer's hands are empty when it takes
  boxes over, and boxes it finds too old are not the ones it shows.
* `CameraSessionProofs`: type correctness, `NoPermitLost`, `OneHandlerThread`,
  `NoWaitingRing` and `AnswerComes`, for any number of cameras, attempts and starts.  Only
  `Acquire` takes a permit, and `StartOpen` turns it into a device that is
  opening on a live thread.  It could be lost by the thread's being told to quit
  before the service answers, and a frame of an older session may do just that.
  `Counts` rules it out: a session with frames has reported, so its attempt has
  given back two permits for one and the count is not zero; an older session
  that has reported means `ready[c]` is set, so the UI thread is not starting
  that camera at all.  `Orders`, `Replacing`, `Phases` and `Holding` say how far
  each attempt can be and which callbacks can still be in its inbox, by which
  alone `Counts` is inductive.  The invariant was first checked by TLC, also
  with two cameras.
  A second invariant, `Succession`, says whose device and session the camera
  has: while a later attempt has opened its device, no earlier one has a session
  on a device that is still open (`Outlives`), and what the fields hold is not
  older than what a thread is about to use (`Follows`); so a CPU frame that stops
  its camera stops its own attempt (`Owns`).  It holds for any number of cameras.
  `CreatesOnItsDevice` and `ClosesOwnSession` need one thing more, which two
  RenderScript contexts can break: that a message thread stops a camera only
  while `stopPreview` is there to wait for it (`Stops`), with the handler thread
  told to quit and nothing left in its inbox that opens or configures (`Joins`,
  `Settled`).  They are proved under the hypothesis `OneContext`, that there are
  not two contexts: one camera, or any number of cameras without RenderScript.
  With two contexts TLC finds both violated.
  The last section proves what the two waits rest on, with any number of cameras
  and contexts.  `NoWaitingRing` follows from `Waiting`: the frame that began to
  stop the camera was of a session in use, whose attempt has left its opening and
  configuring behind (`StreamingSettles`), it told the latest thread to quit, and
  a thread in that state gets nothing new (`SettledAt`).  `AnswerComes` needs
  `Reporting`: before a camera's first result only the next start tells its
  thread to quit, unless it is reporting already (`Listens`), only a session
  that has reported, or is about to, can be stopped (`Reports`), so nobody takes
  the device from under `createCameraPreviewSession` (`Creates`), and each step
  of the latest attempt hands the debt on: from the service to the inbox, the
  thread, the service again, and the result (`Owes`).  Without the device the
  debt is cancelled and nobody tells `MAR`, which is the exception of
  `StartReturns`.  Both invariants were checked by TLC first.
* `StereoPairsProofs`: all properties of `StereoPairs`, for any ids, any number
  of routers and frames.  As long as `apart` holds, no two pairs that are there or
  being joined share a key (`KeysApart`), so what `stereoFrames` says of a pair
  that is there is right (`Pairing`), though other pairs have had the same keys
  before.  `PairState` says how far a pair has been taken apart and who is at it
  from which side, `Halves` in which order its frames and entries go.  That the twin can always go is
  `TwinIsFree`: only the detector deletes from the second camera's side, it has
  lowered its flag by then (`NoLateFlag`), and a number never goes to detector
  and tracker both (`Handing`).  That each half implements `FrameStore` does
  not need `apart`: `Erase` looks at the flags itself, and
  `EraseTwin` deletes from the first camera's side only what is free of
  detector and tracker, whatever `stereo_twin` has answered.
* `LifecycleProofs`: `OneFrameAfterStop`, `StartsOnce` and `StrandedForever`, for
  any number of cameras and all four architectures.  The invariant: there is one
  run thread, sources are off until it activates them, and a source that has
  numbered a frame after the stop is about to end.
* `VulkanRenderProofs`: `FenceGuardsSlot`, `OnePictureInFlight` and
  `StuckForever`, for swap chains of any lengths and any number of frames.  The
  invariant: draws in flight have slots of their own, each with its fence
  submitted, while the one `render` works on is reset.  The converse is `Owed`:
  a submitted fence has its draw, and one left reset had a call fail; so `render`
  waits, without a timeout, only for what the device still works on.
  `SemaphoreFree` has an
  invariant of its own (`Shows`), which counts: a queued present lies no more
  slots behind the current one than there are images that cannot be acquired,
  since every slot passed has queued or lost an image of its own (`Queued`).
  With an image in hand those are fewer than the slots (`RoomLeft`), so the slot
  in turn is in no queued present.
* `SensorsProofs`: `NewestKept`, for any number of sensors, events and sizes.  The
  invariant adds that the maps are finite.  The heart is a lemma on each half of
  an insertion: the loop of `prune`, in a map with one event too many, takes out
  the oldest and no other (`PruneOne`; that there is an oldest follows from the
  well-foundedness of strict inclusion on finite sets), and what goes is older than all
  that stays, and than it all that went before (`InsertKeepsNewest`).

Assumptions are the named ones about the constants (`PipelineAssumption`,
`OverlayAssumption`, `BoxAssumption`, `StereoAssumption`, `SessionAssumption`,
`LifecycleAssumption`, `RenderAssumption`, `SensorAssumption`, and
`FramesAssumption` of `CPUFrames`), which TLC evaluates on every run.

Only model-checked: the liveness properties `FramesLeave`, `StartReturns`,
`StopReturns`, `RunEnds`, `RenderReturns`, `StopCompletes` and `EventsArrive`,
because liveness under fairness is out of the prover's reach.  The two runs that
expect a violation have counterexamples instead.  Of three of them the
safety core is proved: somebody owes the result that `startPreview` waits for
(`AnswerComes`), the waits of `stopPreview` close no ring (`NoWaitingRing`), and
the fence that `render` waits for has a draw in flight (`FenceGuardsSlot`); that
threads, service and device then do what they owe is the fairness.  Every other property of a run
is a theorem, and so are `OneHandlerThread`, `DeafForever`, `LeakIsForever` and
`OverflowOnlyWhenIdle`, which no run lists.

## 5. Order of work

The plan was to go from what most of the program depends on to what surrounds
it: `FramePipeline` with `FrameStore`, `FaceOverlay`, `CameraSession`,
`BoxExchange`, `StereoPairs`, `Lifecycle`, `Sensors`, `VulkanRender`,
`CPUFrames`, each with its runs first and its proofs after them.  All of it is
done; the abstract specification `Handover` and the halves of the stereo
repository as two `FrameStore`s came last.  What a continuation would take up is
the stereo graph with a front camera, once there are devices to run it.

## 6. Not modelled

* Image conversion and drawing, statistics, the user interface and calibration
  data have no shared state to speak of.  The creation of Vulkan objects is a
  sequence of driver calls.
* `RingBuffer`, `LockFreeStack`, `Camera::drain`, `dequeue_timed`,
  `delete_all_frames`, the getters of `Sensors`, `TBBStereoCameraSourceNode`,
  `TBBDualMonoCameraSourceNode` and the C++ and emulator cameras have no caller
  in the pipeline the app builds.
* `Repository::get_frame` calls `delete_frame` for a frame without pixels while
  it holds the accessors that `delete_frame` locks (`Repository.cc:183`).  Every
  frame the two handlers enqueue has pixels, so it is not reached.
* `FaceOverlayTBBDetector` looks at six entries of the map per face: with the
  rear camera standing still the map grows with every face, and nothing bounds
  it.  There is no bound to state.
* Most of the source tree is vendored: the `apriltag` library with its generated
  tag tables, TBB, the Vulkan memory allocator, OpenCV headers.  It is taken as
  documented and modelled, where it matters, from how the code uses it.  The
  program's own code is a small part of all lines, so the share of all
  lines that the map covers is small too.
