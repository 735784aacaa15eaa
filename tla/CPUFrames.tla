----------------------------- MODULE CPUFrames ------------------------------
(***************************************************************************)
(* One camera session whose frames the CPU converts (CPUFrameHandler.kt):  *)
(* Android's ImageReader, the messages it posts to the camera's handler    *)
(* thread, and what onImageAvailable does with an image.  Whoever returns  *)
(* early keeps the image; the reader has room for two.  What becomes of a  *)
(* frame that was enqueued is module FramePipeline's; here it only counts  *)
(* as live until it is freed.                                              *)
(***************************************************************************)
EXTENDS Naturals, Sequences

CONSTANTS
    Room,           \* maxImages of ImageReader.newInstance: 2
    HandlerQueueSize, \* HardwareCamera.queueSize
    Buffers,        \* bound: buffers the reader and the camera share
    MaxImages       \* bound: images the camera makes

\* acquireLatestImage is of use with two images at least.
ASSUME FramesAssumption ==
    /\ Room \in Nat /\ Room > 1 /\ HandlerQueueSize \in Nat
    /\ Buffers \in Nat /\ MaxImages \in Nat

VARIABLES
    session,        \* the capture session is open
    made,           \* images made so far, their numbers 1, 2, ...
    ready,          \* images in the reader
    messages,       \* onImageAvailable messages on the looper's queue
    looper,         \* live, quit (drains its queue), ended; crashed: the process
    pc,             \* loop; test, convert: with an image; stop: in stopCamera
    image,          \* the image in hand, 0 for null
    unclosed,       \* images that were acquired and never closed
    behind,         \* history: a newer image was ready when this one was taken
    stopping,       \* HardwareCamera.isStopping
    live,           \* frames in flight
    delivered       \* the last image that was converted and enqueued

readerVars == <<session, made, ready, messages, looper, pc, image, unclosed, behind,
          stopping, live, delivered>>
thread == <<messages, looper, pc, image, unclosed, behind, delivered>>

ReaderTypeOK ==
    /\ session \in BOOLEAN /\ stopping \in BOOLEAN /\ behind \in BOOLEAN
    /\ made \in 0 .. MaxImages
    /\ ready \in Seq(1 .. MaxImages)
    /\ messages \in Nat
    /\ looper \in {"live", "quit", "ended", "crashed"}
    /\ pc \in {"loop", "test", "convert", "stop"}
    /\ image \in 0 .. MaxImages
    /\ unclosed \in 0 .. Room
    /\ live \in Nat
    /\ delivered \in 0 .. MaxImages

ReaderInit ==
    /\ session = TRUE /\ made = 0 /\ ready = <<>>
    /\ messages = 0 /\ looper = "live"
    /\ pc = "loop" /\ image = 0 /\ unclosed = 0 /\ behind = FALSE
    /\ stopping = FALSE
    /\ live = 0 /\ delivered = 0

-----------------------------------------------------------------------------
(* Around the handler: the camera and the reader (external), the UI thread,*)
(* the pipeline.                                                           *)

InReader == Len(ready) + unclosed + (IF image = 0 THEN 0 ELSE 1)

\* An image and its message; a looper that has quit takes no more.
CameraMakes ==
    /\ session /\ looper # "crashed"
    /\ made < MaxImages /\ InReader < Buffers
    /\ made' = made + 1
    /\ ready' = Append(ready, made + 1)
    /\ messages' = IF looper = "live" THEN messages + 1 ELSE messages
    /\ UNCHANGED <<session, looper, pc, image, unclosed, behind, stopping, live,
                   delivered>>

StopPreview ==
    /\ ~stopping /\ looper # "crashed"
    /\ stopping' = TRUE
    /\ UNCHANGED <<session, made, ready, thread, live>>

FrameFreed ==
    /\ live > 0 /\ looper # "crashed"
    /\ live' = live - 1
    /\ UNCHANGED <<session, made, ready, thread, stopping>>

-----------------------------------------------------------------------------
(* onImageAvailable, on the handler thread.                                *)

HasMessage ==
    /\ pc = "loop" /\ looper \in {"live", "quit"} /\ messages > 0
    /\ messages' = messages - 1

\* Mutant of Take: acquireNextImage.
TakeNext == image' = Head(ready) /\ ready' = Tail(ready)

\* acquireLatestImage closes the older images on its way, but needs room for a
\* second image to look at the next.
Take ==
    IF unclosed + 1 < Room
    THEN image' = ready[Len(ready)] /\ ready' = <<>>
    ELSE image' = Head(ready) /\ ready' = Tail(ready)

AcquireImage ==
    /\ HasMessage /\ unclosed < Room /\ ready # <<>>
    /\ Take
    /\ behind' = (ready' # <<>>)
    /\ pc' = "test"
    /\ UNCHANGED <<session, made, looper, unclosed, stopping, live, delivered>>

\* The images of several messages were taken by the first.
NoImage ==
    /\ HasMessage /\ unclosed < Room /\ ready = <<>>
    /\ UNCHANGED <<session, made, ready, looper, pc, image, unclosed, behind,
                   stopping, live, delivered>>

\* IllegalStateException, outside of the try: the application ends.
AcquireThrows ==
    /\ HasMessage /\ unclosed = Room
    /\ looper' = "crashed"
    /\ UNCHANGED <<session, made, ready, pc, image, unclosed, behind, stopping,
                   live, delivered>>

\* Return without closing the image.
KeepImage == pc' = "loop" /\ image' = 0 /\ unclosed' = unclosed + 1

\* Mutant of StopCamera: the looper is not told to quit.
StopCameraNoQuit ==
    /\ pc = "test" /\ stopping /\ looper = "live"
    /\ pc' = "stop"
    /\ UNCHANGED <<session, made, ready, messages, looper, image, unclosed,
                   behind, stopping, live, delivered>>

\* The first image that finds the camera stopping (not isStopInit) calls
\* stopCamera, which tells its own looper to quit (the join is interrupted by
\* the interrupt before it) ...
StopCamera ==
    /\ pc = "test" /\ stopping /\ looper = "live"
    /\ pc' = "stop" /\ looper' = "quit"
    /\ UNCHANGED <<session, made, ready, messages, image, unclosed, behind,
                   stopping, live, delivered>>

\* ... then aborts the captures, sleeps and closes the session.
Stopped ==
    /\ pc = "stop" /\ KeepImage
    /\ session' = FALSE
    /\ UNCHANGED <<made, ready, messages, looper, behind, stopping, live, delivered>>

StillStopping ==
    /\ pc = "test" /\ stopping /\ looper = "quit" /\ KeepImage
    /\ UNCHANGED <<session, made, ready, messages, looper, behind, stopping,
                   live, delivered>>

\* inFlight() > queueSize
Throttle ==
    /\ pc = "test" /\ ~stopping /\ live > HandlerQueueSize /\ KeepImage
    /\ UNCHANGED <<session, made, ready, messages, looper, behind, stopping,
                   live, delivered>>

Accept ==
    /\ pc = "test" /\ ~stopping /\ live <= HandlerQueueSize
    /\ pc' = "convert"
    /\ UNCHANGED <<session, made, ready, messages, looper, image, unclosed,
                   behind, stopping, live, delivered>>

\* Conversion; all ways out close the image.
Close == pc' = "loop" /\ image' = 0

Enqueue ==
    /\ pc = "convert" /\ Close
    /\ live' = live + 1 /\ delivered' = image
    /\ UNCHANGED <<session, made, ready, messages, looper, unclosed, behind, stopping>>

\* Not initialised yet, no data pinned, the queue fails: no frame.
EnqueueNothing ==
    /\ pc = "convert" /\ Close
    /\ UNCHANGED <<session, made, ready, messages, looper, unclosed, behind,
                   stopping, live, delivered>>

\* OutOfMemoryError: clearQueue drops all frames.
OutOfMemory ==
    /\ pc = "convert" /\ Close
    /\ live' = 0
    /\ UNCHANGED <<session, made, ready, messages, looper, unclosed, behind,
                   stopping, delivered>>

LooperEnds ==
    /\ pc = "loop" /\ looper = "quit" /\ messages = 0
    /\ looper' = "ended"
    /\ UNCHANGED <<session, made, ready, messages, pc, image, unclosed, behind,
                   stopping, live, delivered>>

HandlerThread ==
    \/ AcquireImage \/ NoImage \/ AcquireThrows
    \/ StopCamera \/ Stopped \/ StillStopping \/ Throttle \/ Accept
    \/ Enqueue \/ EnqueueNothing \/ OutOfMemory
    \/ LooperEnds

ReaderNext == CameraMakes \/ StopPreview \/ FrameFreed \/ HandlerThread

ReaderSpec == ReaderInit /\ [][ReaderNext]_readerVars

\* The handler thread runs; the camera, the user and the pipeline owe nothing.
FairReaderSpec == ReaderSpec /\ WF_readerVars(HandlerThread)

-----------------------------------------------------------------------------
(* Properties.                                                             *)

\* The frame handed on is the newest there is, until an early return has kept
\* an image: from then on frames come late, one for each message.
LateOnlyAfterLeak == (image # 0 /\ behind) => unclosed > 0

\* When as many early returns as the reader has room for have kept their
\* image, no further frame reaches the pipeline, however soon it catches up.
DeafForever ==
    [][unclosed = Room => unclosed' = Room /\ delivered' = delivered]_readerVars

\* A stop that an image has begun to act on comes to its end: the session is
\* closed and the handler thread ends or takes the application with it.
StopCompletes ==
    (pc = "stop" /\ stopping) ~> (~session /\ looper \in {"ended", "crashed"})

=============================================================================
