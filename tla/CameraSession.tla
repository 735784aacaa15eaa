---------------------------- MODULE CameraSession ----------------------------
(***************************************************************************)
(* Opening, previewing and stopping the Android cameras.  The UI thread    *)
(* runs MAR.startPreview, which starts one camera after the other and then *)
(* waits for their results, and MAR.stopPreview.  Every attempt to open a  *)
(* camera has a handler thread of its own, on which the camera service's   *)
(* callbacks run.  The frames of a running session arrive on the message   *)
(* thread of the camera's RenderScript context, or on the handler thread   *)
(* when the CPU converts them; a frame that finds its camera stopping is   *)
(* what calls stopCamera.                                                  *)
(*                                                                         *)
(* An attempt is known by its number.  It stands for the device it opens,  *)
(* the session made on that device, and its handler thread.                *)
(***************************************************************************)
EXTENDS Integers, Sequences, FiniteSets

CONSTANTS
    Cameras,            \* the cameras of the activity
    Rear,               \* those that face backward; they are started first
    UseRenderScript,    \* MAR.initialize: isRenderScript
    MaxAttempts,        \* bound: openings of one camera
    MaxStarts           \* bound: calls of MAR.startPreview

ASSUME SessionAssumption ==
    /\ IsFiniteSet(Cameras) /\ Cameras # {}
    /\ {"none", "ui"} \cap Cameras = {}
    /\ Rear \subseteq Cameras
    /\ UseRenderScript \in BOOLEAN
    /\ MaxAttempts \in Nat \ {0}
    /\ MaxStarts \in Nat

Attempts == 1 .. MaxAttempts

\* MAR.createRenderscript: a context per camera, while they are at most two.
Contexts == IF UseRenderScript THEN Cameras ELSE {}

VARIABLES
    \* UI thread: MAR.startPreview and MAR.stopPreview
    uiPc, uiCam, uiLeft, starts,
    ready,          \* MAR.isPreviewingReady
    isPreviewing,   \* MAR.isPreviewing: what startPreview returned last
    destroyer,      \* who has destroyed a camera's RenderScript context: nobody,
                    \* the UI thread, or the handler thread of some camera
    \* HardwareCamera and StandardCamera, per camera
    permits,        \* openCloseLock
    stopping, isConfigured,
    device,         \* cameraDevice: the attempt that opened it, 0 for null
    session,        \* captureSession, 0 for null
    handler,        \* the frame handler of the latest session
    isStopInit,     \* that handler has called stopCamera
    thread,         \* threadHandler: the latest attempt, 0 for null
    \* Handler threads, per camera and attempt
    tState, tPc, inbox,
    \* Message thread of the camera's context: the session whose frame it handles,
    \* the handler thread it waits for
    mPc, mAttempt, mThread,
    \* Camera service, per camera and attempt
    dev, sess

uiVars      == <<uiPc, uiCam, uiLeft, starts, isPreviewing>>
cameraVars  == <<permits, stopping, isConfigured, device, session, thread>>
handlerVars == <<handler, isStopInit>>
threadVars  == <<tState, tPc, inbox>>
messageVars == <<mPc, mAttempt, mThread>>
serviceVars == <<dev, sess>>

marVars     == <<uiVars, ready, destroyer>>
asyncVars   == <<handlerVars, threadVars, messageVars, serviceVars>>

vars == <<marVars, cameraVars, asyncVars>>

-----------------------------------------------------------------------------
(* The looper of a handler thread and the semaphore.                       *)

\* A callback reaches the thread unless its looper has been told to quit.
Post(c, k, event) ==
    inbox' = IF tState[c][k] = "live"
             THEN [inbox EXCEPT ![c][k] = Append(@, event)] ELSE inbox

\* Mutant of Quit: the interrupt alone, which a looper survives.
QuitNot(c, k) == UNCHANGED tState

\* quitSafely: what is in the inbox is still delivered.
Quit(c, k) ==
    tState' = IF k # 0 /\ tState[c][k] = "live"
              THEN [tState EXCEPT ![c][k] = "quit"] ELSE tState

\* Mutant of Joined: the thread is told to quit and not waited for.
JoinedNot(c, k) == TRUE

\* Thread.join in stopBackgroundThread returns.
Joined(c, k) == k # 0 => tState[c][k] = "ended"

\* Mutant of Release: a forgotten release.
ReleaseNot(c) == UNCHANGED permits
Release(c) == permits' = [permits EXCEPT ![c] = @ + 1]
Available(c) == permits[c] > 0

Goto(c, k, pc) == tPc' = [tPc EXCEPT ![c][k] = pc]

-----------------------------------------------------------------------------
(* UI thread: MAR.startPreview, one StandardCamera.startPreview per camera.*)

SurfaceChanged ==
    /\ uiPc = "idle" /\ starts < MaxStarts
    /\ uiPc' = "check" /\ uiLeft' = Cameras /\ starts' = starts + 1
    /\ UNCHANGED <<uiCam, isPreviewing, ready, destroyer, cameraVars, asyncVars>>

\* startCameras takes the rear cameras first.
NextCamera(c) ==
    /\ uiPc = "check" /\ c \in uiLeft
    /\ c \in Rear \/ uiLeft \cap Rear = {}
    /\ uiLeft' = uiLeft \ {c}

\* "Camera ... already previewing"
SkipCamera(c) ==
    /\ NextCamera(c) /\ ready[c] # "absent"
    /\ UNCHANGED <<uiPc, uiCam, starts, isPreviewing, ready, destroyer, cameraVars,
                   asyncVars>>

TakeCamera(c) ==
    /\ NextCamera(c) /\ ready[c] = "absent"
    /\ uiCam' = c /\ uiPc' = "begin"
    /\ UNCHANGED <<starts, isPreviewing, ready, destroyer, cameraVars, asyncVars>>

StartBegin ==
    /\ uiPc = "begin" /\ uiPc' = "acquire"
    /\ stopping' = [stopping EXCEPT ![uiCam] = FALSE]
    /\ isConfigured' = [isConfigured EXCEPT ![uiCam] = FALSE]
    /\ UNCHANGED <<uiCam, uiLeft, starts, isPreviewing, ready, destroyer, permits, device,
                   session, thread, asyncVars>>

\* tryAcquire, then the quit of the handler thread of the attempt before.
Acquire ==
    /\ uiPc = "acquire" /\ Available(uiCam)
    /\ thread[uiCam] < MaxAttempts
    /\ uiPc' = "open"
    /\ permits' = [permits EXCEPT ![uiCam] = @ - 1]
    /\ Quit(uiCam, thread[uiCam])
    /\ UNCHANGED <<uiCam, uiLeft, starts, isPreviewing, ready, destroyer, stopping,
                   isConfigured, device, session, thread, handlerVars, tPc, inbox,
                   messageVars, serviceVars>>

\* Three seconds have gone by (or the bound on attempts is reached): false,
\* which startCameras does not look at.
AcquireTimeout ==
    /\ uiPc = "acquire" /\ (permits[uiCam] = 0 \/ thread[uiCam] = MaxAttempts)
    /\ uiPc' = "check"
    /\ UNCHANGED <<uiCam, uiLeft, starts, isPreviewing, ready, destroyer, cameraVars,
                   asyncVars>>

\* The old thread has ended; a new one is started and openCamera called.
StartOpen ==
    /\ uiPc = "open" /\ Joined(uiCam, thread[uiCam])
    /\ uiPc' = "check"
    /\ thread' = [thread EXCEPT ![uiCam] = @ + 1]
    /\ tState' = [tState EXCEPT ![uiCam][thread'[uiCam]] = "live"]
    /\ dev' = [dev EXCEPT ![uiCam][thread'[uiCam]] = "opening"]
    /\ UNCHANGED <<uiCam, uiLeft, starts, isPreviewing, ready, destroyer, permits,
                   stopping, isConfigured, device, session, handlerVars, tPc, inbox,
                   messageVars, sess>>

\* openCamera throws: release, end the new thread again, false.
StartOpenThrows ==
    /\ uiPc = "open" /\ Joined(uiCam, thread[uiCam])
    /\ uiPc' = "check"
    /\ thread' = [thread EXCEPT ![uiCam] = @ + 1]
    /\ tState' = [tState EXCEPT ![uiCam][thread'[uiCam]] = "ended"]
    /\ Release(uiCam)
    /\ UNCHANGED <<uiCam, uiLeft, starts, isPreviewing, ready, destroyer, stopping,
                   isConfigured, device, session, handlerVars, tPc, inbox, messageVars,
                   serviceVars>>

StartsDone ==
    /\ uiPc = "check" /\ uiLeft = {}
    /\ uiPc' = "wait"
    /\ UNCHANGED <<uiCam, uiLeft, starts, isPreviewing, ready, destroyer, cameraVars,
                   asyncVars>>

\* The polling loop ends, all results being there ...
WaitReturn ==
    /\ uiPc = "wait" /\ \A c \in Cameras : ready[c] # "absent"
    /\ uiPc' = "idle"
    /\ isPreviewing' = (\A c \in Cameras : ready[c] = "ok")
    /\ UNCHANGED <<uiCam, uiLeft, starts, ready, destroyer, cameraVars, asyncVars>>

\* ... or because the thread has computed (not waited) for five seconds.
WaitTimeout ==
    /\ uiPc = "wait" /\ \E c \in Cameras : ready[c] = "absent"
    /\ uiPc' = "idle" /\ isPreviewing' = FALSE
    /\ UNCHANGED <<uiCam, uiLeft, starts, ready, destroyer, cameraVars, asyncVars>>

-----------------------------------------------------------------------------
(* MAR.stopPreview, called by the UI thread (the surface is destroyed, the *)
(* activity pauses, a button is pressed) and by the handler thread of a    *)
(* camera that fails.  It destroys every camera's context.                 *)

\* Mutant of ContextsJoined: destroy does not wait for the message thread.
ContextsJoinedNot(who) == TRUE

\* RenderScript.destroy joins the context's message thread; for a context that
\* somebody else has begun to destroy it returns at once.
ContextsJoined(who) == \A c \in Contexts : destroyer[c] = who => mPc[c] = "idle"

DestroyContext(who) ==
    /\ ContextsJoined(who)
    /\ \E c \in Contexts :
          /\ destroyer[c] = "none"
          /\ destroyer' = [destroyer EXCEPT ![c] = who]

ContextsDestroyed(who) ==
    /\ ContextsJoined(who)
    /\ \A c \in Contexts : destroyer[c] # "none"

StopPreview ==
    /\ uiPc = "idle" /\ uiPc' = "destroy"
    /\ stopping' = [c \in Cameras |-> TRUE]
    /\ UNCHANGED <<uiCam, uiLeft, starts, isPreviewing, ready, destroyer, permits,
                   isConfigured, device, session, thread, asyncVars>>

StopDestroy ==
    /\ uiPc = "destroy" /\ DestroyContext("ui")
    /\ UNCHANGED <<uiVars, ready, cameraVars, asyncVars>>

StopReturn ==
    /\ uiPc = "destroy" /\ ContextsDestroyed("ui")
    /\ uiPc' = "idle"
    /\ UNCHANGED <<uiCam, uiLeft, starts, isPreviewing, ready, destroyer, cameraVars,
                   asyncVars>>

\* What the thread does by itself, once MAR has been called.
UIRuns ==
    \/ StartBegin \/ Acquire \/ AcquireTimeout \/ StartOpen \/ StartOpenThrows
    \/ StartsDone \/ WaitReturn \/ StopDestroy \/ StopReturn
    \/ \E c \in Cameras : SkipCamera(c) \/ TakeCamera(c)

-----------------------------------------------------------------------------
(* Handler thread of attempt k of camera c.                                *)

Receive(c, k, event) ==
    /\ tState[c][k] \in {"live", "quit"} /\ tPc[c][k] = "loop"
    /\ inbox[c][k] # <<>> /\ Head(inbox[c][k]) = event
    /\ inbox' = [inbox EXCEPT ![c][k] = Tail(@)]

\* onOpened: then createCameraPreviewSession, on the same thread.
OnOpened(c, k) ==
    /\ Receive(c, k, "opened")
    /\ device' = [device EXCEPT ![c] = k]
    /\ Release(c)
    /\ Goto(c, k, "create")
    /\ UNCHANGED <<marVars, stopping, isConfigured, session, thread, handlerVars, tState,
                   messageVars, serviceVars>>

\* onDisconnected, onError.
OnLost(c, k) ==
    /\ Receive(c, k, "lost")
    /\ device' = [device EXCEPT ![c] = 0]
    /\ Release(c)
    /\ UNCHANGED <<marVars, stopping, isConfigured, session, thread, handlerVars, tState,
                   tPc, messageVars, serviceVars>>

\* The device can still be used: camera2 calls on it need not throw.
Usable(c, k) == k # 0 /\ dev[c][k] = "open"

\* createCameraPreviewSession makes a frame handler, the CPU's if there is no
\* context (any more), and asks for a session.
CreateSession(c, k) ==
    /\ tPc[c][k] = "create" /\ Usable(c, device[c])
    /\ handler' = [handler EXCEPT ![c] =
                      IF c \in Contexts /\ destroyer[c] = "none" THEN "renderscript" ELSE "cpu"]
    /\ isStopInit' = [isStopInit EXCEPT ![c] = FALSE]
    /\ sess' = [sess EXCEPT ![c][k] = "requested"]
    /\ Goto(c, k, "loop")
    /\ UNCHANGED <<marVars, cameraVars, tState, inbox, messageVars, dev>>

\* Mutant of ReportFailure: an error return that forgets onPreviewResult.
ReportFailureNot(c, k, next) == Goto(c, k, "loop") /\ UNCHANGED <<ready, stopping>>

\* onPreviewResult(false): the result, then MAR.stopPreview for this camera.
ReportFailure(c, k, next) ==
    /\ ready' = [ready EXCEPT ![c] = "failed"]
    /\ stopping' = [stopping EXCEPT ![c] = TRUE]
    /\ Goto(c, k, next)

\* Any of the errors of createCameraPreviewSession; that there is no device is
\* the one that is not reported.
CreateFails(c, k) ==
    /\ tPc[c][k] = "create"
    /\ IF device[c] = 0
       THEN Goto(c, k, "loop") /\ UNCHANGED <<ready, stopping>>
       ELSE ReportFailure(c, k, "createFailed")
    /\ UNCHANGED <<uiVars, destroyer, permits, isConfigured, device, session, thread,
                   handlerVars, tState, inbox, messageVars, serviceVars>>

OnConfigured(c, k) ==
    /\ Receive(c, k, "configured")
    /\ session' = [session EXCEPT ![c] = k]
    /\ Goto(c, k, "repeat")
    /\ UNCHANGED <<marVars, permits, stopping, isConfigured, device, thread, handlerVars,
                   tState, messageVars, serviceVars>>

\* setRepeatingRequest: frames begin to arrive.
StartRepeating(c, k) ==
    /\ tPc[c][k] = "repeat" /\ Usable(c, k) /\ sess[c][k] = "answered"
    /\ sess' = [sess EXCEPT ![c][k] = "repeating"]
    /\ Goto(c, k, "report")
    /\ UNCHANGED <<marVars, cameraVars, handlerVars, tState, inbox, messageVars, dev>>

RepeatFails(c, k) ==
    /\ tPc[c][k] = "repeat"
    /\ ReportFailure(c, k, "sessionFailed")
    /\ UNCHANGED <<uiVars, destroyer, permits, isConfigured, device, session, thread,
                   handlerVars, tState, inbox, messageVars, serviceVars>>

\* onPreviewResult(true), then isConfigured and the semaphore, once more.
ReportSuccess(c, k) ==
    /\ tPc[c][k] = "report"
    /\ ready' = [ready EXCEPT ![c] = "ok"]
    /\ Goto(c, k, "finish")
    /\ UNCHANGED <<uiVars, destroyer, cameraVars, handlerVars, tState, inbox, messageVars,
                   serviceVars>>

FinishSuccess(c, k) ==
    /\ tPc[c][k] = "finish"
    /\ isConfigured' = [isConfigured EXCEPT ![c] = TRUE]
    /\ Release(c)
    /\ Goto(c, k, "loop")
    /\ UNCHANGED <<marVars, stopping, device, session, thread, handlerVars, tState, inbox,
                   messageVars, serviceVars>>

OnConfigureFailed(c, k) ==
    /\ Receive(c, k, "refused")
    /\ isConfigured' = [isConfigured EXCEPT ![c] = FALSE]
    /\ ReportFailure(c, k, "sessionFailed")
    /\ UNCHANGED <<uiVars, destroyer, permits, device, session, thread, handlerVars,
                   tState, messageVars, serviceVars>>

FailureDestroy(c, k) ==
    /\ tPc[c][k] \in {"createFailed", "sessionFailed"} /\ DestroyContext(c)
    /\ UNCHANGED <<uiVars, ready, cameraVars, asyncVars>>

\* Only the failures of a session give the semaphore back; a failure to create
\* one comes after onOpened has.
FailureReturn(c, k) ==
    /\ tPc[c][k] \in {"createFailed", "sessionFailed"} /\ ContextsDestroyed(c)
    /\ isConfigured' = [isConfigured EXCEPT ![c] = FALSE]
    /\ permits' = [permits EXCEPT ![c] = IF tPc[c][k] = "sessionFailed" THEN @ + 1 ELSE @]
    /\ Goto(c, k, "loop")
    /\ UNCHANGED <<marVars, stopping, device, session, thread, handlerVars, tState, inbox,
                   messageVars, serviceVars>>

ThreadEnds(c, k) ==
    /\ tState[c][k] = "quit" /\ tPc[c][k] = "loop" /\ inbox[c][k] = <<>>
    /\ tState' = [tState EXCEPT ![c][k] = "ended"]
    /\ UNCHANGED <<marVars, cameraVars, handlerVars, tPc, inbox, messageVars, serviceVars>>

-----------------------------------------------------------------------------
(* stopCamera, called by the first frame that finds its camera stopping.   *)

Streaming(c, k) == dev[c][k] = "open" /\ sess[c][k] = "repeating"

\* On the context's message thread: quit the handler thread and wait for it.
FrameStops(c, k) ==
    /\ Streaming(c, k) /\ handler[c] = "renderscript" /\ destroyer[c] = "none"
    /\ mPc[c] = "idle" /\ stopping[c] /\ ~isStopInit[c]
    /\ mPc' = [mPc EXCEPT ![c] = "join"]
    /\ mAttempt' = [mAttempt EXCEPT ![c] = k] /\ mThread' = [mThread EXCEPT ![c] = thread[c]]
    /\ Quit(c, thread[c])
    /\ UNCHANGED <<marVars, cameraVars, handlerVars, tPc, inbox, serviceVars>>

FrameJoined(c) ==
    /\ mPc[c] = "join" /\ Joined(c, mThread[c])
    /\ mPc' = [mPc EXCEPT ![c] = "close"]
    /\ UNCHANGED <<marVars, cameraVars, handlerVars, threadVars, mAttempt, mThread,
                   serviceVars>>

\* While its context is being destroyed the message thread may be interrupted;
\* stopBackgroundThread catches that and stopCamera goes on.
FrameInterrupted(c) ==
    /\ mPc[c] = "join" /\ destroyer[c] # "none"
    /\ mPc' = [mPc EXCEPT ![c] = "close"]
    /\ UNCHANGED <<marVars, cameraVars, handlerVars, threadVars, mAttempt, mThread,
                   serviceVars>>

\* HardwareCamera.stopCamera: the session, then the device.
CloseSession(c) ==
    sess' = IF session[c] = 0 THEN sess ELSE [sess EXCEPT ![c][session[c]] = "closed"]

CloseCamera(c) ==
    /\ session' = [session EXCEPT ![c] = 0]
    /\ device' = [device EXCEPT ![c] = 0]
    /\ dev' = IF device[c] = 0 THEN dev ELSE [dev EXCEPT ![c][device[c]] = "gone"]
    /\ CloseSession(c)
    /\ isConfigured' = [isConfigured EXCEPT ![c] = FALSE]
    /\ UNCHANGED <<permits, stopping, thread>>

\* abortCaptures throws: nothing is closed, and nobody tries again.
AbortThrows(c) == session[c] # 0 /\ UNCHANGED <<cameraVars, serviceVars>>

FrameCloses(c) ==
    /\ mPc[c] = "close"
    /\ CloseCamera(c) \/ AbortThrows(c)
    /\ isStopInit' = [isStopInit EXCEPT ![c] = TRUE]
    /\ mPc' = [mPc EXCEPT ![c] = "idle"]
    /\ UNCHANGED <<marVars, handler, threadVars, mAttempt, mThread>>

\* The CPU's handler runs on the handler thread itself: that thread interrupts
\* itself, so its join throws at once.
ImageStops(c, k) ==
    /\ Streaming(c, k) /\ handler[c] = "cpu" /\ stopping[c] /\ ~isStopInit[c]
    /\ tState[c][k] \in {"live", "quit"} /\ tPc[c][k] = "loop"
    /\ Quit(c, thread[c])
    /\ Goto(c, k, "close")
    /\ UNCHANGED <<marVars, cameraVars, handlerVars, inbox, messageVars, serviceVars>>

ImageCloses(c, k) ==
    /\ tPc[c][k] = "close"
    /\ CloseCamera(c) \/ AbortThrows(c)
    /\ isStopInit' = [isStopInit EXCEPT ![c] = TRUE]
    /\ Goto(c, k, "loop")
    /\ UNCHANGED <<marVars, handler, tState, inbox, messageVars>>

HandlerThread(c, k) ==
    \/ OnOpened(c, k) \/ OnLost(c, k) \/ CreateSession(c, k) \/ CreateFails(c, k)
    \/ OnConfigured(c, k) \/ StartRepeating(c, k) \/ RepeatFails(c, k)
    \/ ReportSuccess(c, k) \/ FinishSuccess(c, k) \/ OnConfigureFailed(c, k)
    \/ FailureDestroy(c, k) \/ FailureReturn(c, k) \/ ThreadEnds(c, k) \/ ImageCloses(c, k)

MessageThread(c) == FrameJoined(c) \/ FrameCloses(c)

-----------------------------------------------------------------------------
(* The camera service, as the callbacks of src/ expect it.  Opening a      *)
(* camera again takes it away from the device opened before; a device may  *)
(* be lost at any time, and a session request is answered while the device *)
(* is there.                                                               *)

Evicted(c, k) == {j \in Attempts \ {k} : dev[c][j] = "open"}

ServiceOpens(c, k) ==
    /\ dev[c][k] = "opening"
    /\ dev' = [dev EXCEPT ![c] = [j \in Attempts |->
                  IF j = k THEN "open" ELSE IF j \in Evicted(c, k) THEN "gone" ELSE @[j]]]
    /\ inbox' = [inbox EXCEPT ![c] = [j \in Attempts |->
                    IF tState[c][j] # "live" THEN @[j]
                    ELSE IF j = k THEN Append(@[j], "opened")
                    ELSE IF j \in Evicted(c, k) THEN Append(@[j], "lost") ELSE @[j]]]
    /\ UNCHANGED <<marVars, cameraVars, handlerVars, tState, tPc, messageVars, sess>>

ServiceLoses(c, k) ==
    /\ dev[c][k] \in {"opening", "open"}
    /\ dev' = [dev EXCEPT ![c][k] = "gone"]
    /\ Post(c, k, "lost")
    /\ UNCHANGED <<marVars, cameraVars, handlerVars, tState, tPc, messageVars, sess>>

ServiceAnswers(c, k) ==
    /\ sess[c][k] = "requested"
    /\ sess' = [sess EXCEPT ![c][k] = "answered"]
    /\ \E answer \in {"configured", "refused"} :
          /\ answer = "configured" => dev[c][k] = "open"
          /\ Post(c, k, answer)
    /\ UNCHANGED <<marVars, cameraVars, handlerVars, tState, tPc, messageVars, dev>>

Service(c, k) == ServiceOpens(c, k) \/ ServiceLoses(c, k) \/ ServiceAnswers(c, k)

-----------------------------------------------------------------------------

Init ==
    /\ uiPc = "idle" /\ uiCam \in Cameras /\ uiLeft = {} /\ starts = 0
    /\ isPreviewing = FALSE
    /\ ready = [c \in Cameras |-> "absent"]
    /\ destroyer = [c \in Cameras |-> "none"]
    /\ permits = [c \in Cameras |-> 1]
    /\ stopping = [c \in Cameras |-> FALSE]
    /\ isConfigured = [c \in Cameras |-> FALSE]
    /\ device = [c \in Cameras |-> 0]
    /\ session = [c \in Cameras |-> 0]
    /\ handler = [c \in Cameras |-> "none"]
    /\ isStopInit = [c \in Cameras |-> FALSE]
    /\ thread = [c \in Cameras |-> 0]
    /\ tState = [c \in Cameras |-> [k \in Attempts |-> "none"]]
    /\ tPc = [c \in Cameras |-> [k \in Attempts |-> "loop"]]
    /\ inbox = [c \in Cameras |-> [k \in Attempts |-> <<>>]]
    /\ mPc = [c \in Cameras |-> "idle"]
    /\ mAttempt = [c \in Cameras |-> 0]
    /\ mThread = [c \in Cameras |-> 0]
    /\ dev = [c \in Cameras |-> [k \in Attempts |-> "none"]]
    /\ sess = [c \in Cameras |-> [k \in Attempts |-> "none"]]

Next ==
    \/ SurfaceChanged \/ StopPreview \/ WaitTimeout \/ UIRuns
    \/ \E c \in Cameras : MessageThread(c) \/ FrameInterrupted(c)
    \/ \E c \in Cameras, k \in Attempts :
          \/ FrameStops(c, k) \/ ImageStops(c, k)
          \/ HandlerThread(c, k) \/ Service(c, k)

Spec == Init /\ [][Next]_vars

-----------------------------------------------------------------------------

HandlerPcs == {"loop", "create", "createFailed", "repeat", "report", "finish",
               "sessionFailed", "close"}
Events == {"opened", "lost", "configured", "refused"}

UiTypes ==
    /\ uiPc \in {"idle", "check", "begin", "acquire", "open", "wait", "destroy"}
    /\ uiCam \in Cameras /\ uiLeft \subseteq Cameras /\ starts \in 0 .. MaxStarts
    /\ isPreviewing \in BOOLEAN
    /\ ready \in [Cameras -> {"absent", "ok", "failed"}]
    /\ destroyer \in [Cameras -> {"none", "ui"} \cup Cameras]

FlagTypes ==
    /\ stopping \in [Cameras -> BOOLEAN]
    /\ isConfigured \in [Cameras -> BOOLEAN]
    /\ isStopInit \in [Cameras -> BOOLEAN]

CameraTypes ==
    /\ permits \in [Cameras -> Nat]
    /\ device \in [Cameras -> 0 .. MaxAttempts]
    /\ session \in [Cameras -> 0 .. MaxAttempts]
    /\ thread \in [Cameras -> 0 .. MaxAttempts]
    /\ handler \in [Cameras -> {"none", "renderscript", "cpu"}]

ThreadTypes ==
    /\ tState \in [Cameras -> [Attempts -> {"none", "live", "quit", "ended"}]]
    /\ tPc \in [Cameras -> [Attempts -> HandlerPcs]]
    /\ inbox \in [Cameras -> [Attempts -> Seq(Events)]]

ServiceTypes ==
    /\ mPc \in [Cameras -> {"idle", "join", "close"}]
    /\ mAttempt \in [Cameras -> 0 .. MaxAttempts]
    /\ mThread \in [Cameras -> 0 .. MaxAttempts]
    /\ dev \in [Cameras -> [Attempts -> {"none", "opening", "open", "gone"}]]
    /\ sess \in [Cameras -> [Attempts -> {"none", "requested", "answered", "repeating", "closed"}]]

\* Every variable keeps its type; permits, a count, never goes below zero (the
\* fields of MAR, HardwareCamera and StandardCamera).
TypeOK == UiTypes /\ FlagTypes /\ CameraTypes /\ ThreadTypes /\ ServiceTypes

Opening(c) == uiCam = c /\ uiPc = "open"

\* Who will still give camera c's semaphore back for attempt k.
WillRelease(c, k) ==
    \/ dev[c][k] = "opening" /\ tState[c][k] = "live"
    \/ \E i \in 1 .. Len(inbox[c][k]) : inbox[c][k][i] \in {"opened", "lost"}

\* A camera whose semaphore is taken is being opened: no failure, loss or stop
\* leaves startPreview waiting for a permit that nobody will release
\* (openCloseLock in StandardCamera.startPreview and CameraCallback).
NoPermitLost ==
    \A c \in Cameras :
        permits[c] = 0 => Opening(c) \/ \E k \in Attempts : WillRelease(c, k)

\* The callbacks of two attempts to open a camera never run at the same time:
\* startPreview ends the old handler thread before it starts the new one.
OneHandlerThread ==
    \A c \in Cameras : \A j, k \in Attempts :
        tState[c][j] \in {"live", "quit"} /\ tState[c][k] \in {"live", "quit"} => j = k

\* With one camera, the null check of createCameraPreviewSession never fires:
\* between onOpened and the session request nobody takes the device away, or
\* puts in another.  With two it can: see ClosesOwnSession.
CreatesOnItsDevice ==
    \A c \in Cameras, k \in Attempts : tPc[c][k] = "create" => device[c] = k

\* stopCamera runs on a frame's thread with a look at isStopping that may be
\* stale by the time it closes: with one camera, it still never closes the
\* device or session of a later attempt than the one whose frame it handles.
\* With two cameras the other one's failure may be destroying this one's
\* context, and then stopPreview does not wait for the message thread.
ClosesOwnSession ==
    [][\A c \in Cameras :
          /\ FrameCloses(c) => {device[c], session[c]} \subseteq {0, mAttempt[c]}
          /\ \A k \in Attempts :
                ImageCloses(c, k) => {device[c], session[c]} \subseteq {0, k}]_vars

\* Threads run and the service answers; frames need not arrive, the CPU time
\* that ends the wait need not be used up, and no interrupt need come.
Fairness ==
    /\ WF_vars(UIRuns)
    /\ \A c \in Cameras : WF_vars(MessageThread(c))
    /\ \A c \in Cameras, k \in Attempts :
          /\ WF_vars(HandlerThread(c, k))
          /\ WF_vars(dev[c][k] = "opening" /\ (ServiceOpens(c, k) \/ ServiceLoses(c, k)))
          /\ WF_vars(ServiceAnswers(c, k))

FairSpec == Spec /\ Fairness

\* An attempt that ended without a result: openCamera threw or the device was
\* lost before its session was made.
NoAnswer(c) ==
    ready[c] = "absent" /\ (thread[c] = 0 \/ dev[c][thread[c]] \in {"none", "gone"})

\* Somebody will say what became of camera c: its latest thread, about to do so or
\* with a callback that leads to it, or the service, to a thread that listens.
WillAnswer(c) ==
    \E k \in Attempts :
        \/ tState[c][k] = "live" /\ (dev[c][k] = "opening" \/ sess[c][k] = "requested")
        \/ tPc[c][k] \in {"create", "repeat", "report"}
        \/ \E i \in 1 .. Len(inbox[c][k]) : inbox[c][k][i] # "lost"

\* MAR.startPreview returns: it waits for ever (the time-out counts CPU time)
\* only for a camera whose device was lost or did not open, of which nobody
\* tells MAR.
StartReturns == uiPc = "wait" ~> uiPc # "wait" \/ \E c \in Cameras : NoAnswer(c)

\* For every other camera without a result the result is on its way, whatever
\* frames of an older session stop and close meanwhile: no thread that should
\* report is told to quit before it can, or finds its device taken away by
\* somebody who does not report either (the null check of
\* createCameraPreviewSession).
AnswerComes ==
    \A c \in Cameras :
        ready[c] = "absent" /\ ~NoAnswer(c) /\ ~Opening(c) => WillAnswer(c)

\* MAR.stopPreview returns.  It waits for message threads, and these, in
\* stopCamera, for handler threads.
StopReturns == uiPc = "destroy" ~> uiPc = "idle"

\* A handler thread that a message thread waits for is not in stopPreview, where
\* it would wait for message threads itself, and will not get there: it has been
\* told to quit, and no callback that could fail is left to it.  So the waits
\* never close a ring, even while cameras that fail destroy each other's contexts.
NoWaitingRing ==
    \A c \in Cameras : mPc[c] = "join" =>
        \E k \in Attempts :
            /\ k = mThread[c] /\ tState[c][k] \in {"quit", "ended"}
            /\ tPc[c][k] \notin {"create", "createFailed", "repeat", "sessionFailed"}
            /\ \A i \in 1 .. Len(inbox[c][k]) : inbox[c][k][i] = "lost"
=============================================================================
