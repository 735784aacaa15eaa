---------------------------- MODULE FramePipeline ----------------------------
(***************************************************************************)
(* One camera's frames on their way through ARArch: the Android camera     *)
(* thread fills a bounded queue, the flow graph's source node moves frames *)
(* into the repository, the router hands each frame to a detector, a       *)
(* tracker and the render node, and whoever lets go of a frame last is     *)
(* meant to delete it (Repository::delete_frame).  Nobody counts           *)
(* references: three flags on the frame say who still needs it, and the    *)
(* router raises them AFTER it has handed the frame over.                  *)
(*                                                                         *)
(* Frames are known by their sequence number.  A frame still in the camera *)
(* queue has no number of its own (FrameInfo::seqno is 0 until new_frame), *)
(* so the queue is a number of frames.                                     *)
(***************************************************************************)
EXTENDS Integers, Sequences, FiniteSets

CONSTANTS
    QueueSize,      \* capacity of the camera queue, also the throttle's limit
    MaxFrames,      \* bound: frames the camera delivers
    MaxClears,      \* bound: times the camera thread runs out of memory
    Rendered,       \* TRUE: rear route, its frames are rendered;
                    \* FALSE: front route, no renderer and isDelete
    DetectorType    \* which detector the route has

ASSUME PipelineAssumption ==
    /\ QueueSize \in Nat \ {0}
    /\ MaxFrames \in Nat \ {0}
    /\ MaxClears \in Nat
    /\ Rendered \in BOOLEAN
    /\ DetectorType \in {"NONE", "APRILTAGS", "FACE_RECOGNITION"}

Seqs == 0 .. MaxFrames - 1

VARIABLES
    \* Camera thread (onImageAvailable, JNI enqueue, Camera::enqueue)
    camPc, captured, attempt, clears,
    queued,         \* frames in the camera's tbb::concurrent_bounded_queue
    \* Source node
    srcPc, srcSeq,
    nextSeq,        \* Repository::seqNumbers: the number of the next frame
    \* Repository: the frames stored, and those whose flag is up
    repo, detecting, tracking, rendering,
    isRendering,    \* Repository::is_rendering, the gate of the render node
    \* Router, detector, tracker and render nodes of the flow graph
    routerQ, rPc, rSeq, isDelete,
    dPc, dSeq, detBusy,
    tPc, tSeq,
    vPc, vSeq,
    lifecycle       \* how far stopMAR has got

cameraVars == <<camPc, captured, attempt, clears>>
sourceVars == <<srcPc, srcSeq, nextSeq>>
routerVars == <<rPc, rSeq, isDelete>>
detVars    == <<dPc, dSeq, detBusy>>
trkVars    == <<tPc, tSeq>>
renderVars == <<vPc, vSeq, isRendering>>

vars == <<cameraVars, queued, sourceVars, repo, detecting, tracking, rendering,
          routerQ, routerVars, detVars, trkVars, renderVars, lifecycle>>

mustTerminate == lifecycle # "run"
initialised   == lifecycle # "stopped"

-----------------------------------------------------------------------------
(* What several components share.                                          *)

InUse(s) == s \in detecting \cup tracking \cup rendering

\* Mutants of DeleteFrame: the flags ignored; isRendering forgotten, as in
\* delete_all_frames and in the stereo half of delete_frame.
DeleteFrameUnchecked(s) == repo' = repo \ {s}
DeleteFrameTwoFlags(s)  == repo' = IF s \in detecting \cup tracking THEN repo ELSE repo \ {s}

\* Repository::delete_frame: a frame leaves only when none of its flags is up.
DeleteFrame(s) == repo' = IF InUse(s) THEN repo ELSE repo \ {s}

\* The frames some stage still holds a shared_ptr to.
Held ==
    {s \in Seqs :
        \/ srcPc = "emit" /\ srcSeq = s
        \/ rPc # "idle" /\ rSeq = s
        \/ dPc \in {"work", "delete", "return"} /\ dSeq = s
        \/ tPc \in {"work", "delete"} /\ tSeq = s
        \/ vPc \in {"render", "draw", "delete"} /\ vSeq = s}

\* FrameInfo::instances(): in the queue, in the camera thread's hands, popped
\* but not numbered, stored, or held.
InFlight ==
    queued
    + (CASE camPc \in {"push", "evict", "retry"} -> 1
         [] camPc = "release"                    -> 2
         [] OTHER                                -> 0)
    + (IF srcPc = "new" THEN 1 ELSE 0)
    + Cardinality(repo \cup Held)

-----------------------------------------------------------------------------
\* addCamera calls next_seqno before there is a frame: the call makes the counter
\* and throws its number away, and the first frame is given this one.
FirstSeq == 0

Init ==
    /\ camPc = "idle" /\ captured = 0 /\ attempt = 0 /\ clears = 0
    /\ queued = 0
    /\ srcPc = "pop" /\ srcSeq = 0 /\ nextSeq = FirstSeq
    /\ repo = {} /\ detecting = {} /\ tracking = {} /\ rendering = {}
    /\ routerQ = <<>>
    /\ rPc = "idle" /\ rSeq = 0 /\ isDelete = FALSE
    /\ dPc = "idle" /\ dSeq = 0 /\ detBusy = FALSE
    /\ tPc = "idle" /\ tSeq = 0
    /\ vPc = "idle" /\ vSeq = 0 /\ isRendering = FALSE
    /\ lifecycle = "run"

-----------------------------------------------------------------------------
(* The camera thread: one handler thread per camera.                       *)

CameraUnchanged == UNCHANGED <<sourceVars, detecting, tracking, rendering, routerQ,
                               routerVars, detVars, trkVars, renderVars, lifecycle>>

\* Mutant of CameraCheck: no throttle.
CameraCheckUnthrottled ==
    /\ camPc \in {"idle", "failed"} /\ captured < MaxFrames
    /\ camPc' = "checked"
    /\ UNCHANGED <<captured, attempt, clears, queued, repo>> /\ CameraUnchanged

\* onImageAvailable: an image is dropped while too many frames are in flight.
CameraCheck ==
    /\ camPc \in {"idle", "failed"} /\ captured < MaxFrames
    /\ InFlight <= QueueSize
    /\ camPc' = "checked"
    /\ UNCHANGED <<captured, attempt, clears, queued, repo>> /\ CameraUnchanged

\* JNI enqueue: ignored once the pipeline is stopped, else a FrameInfo is made.
EnqueueCreate ==
    /\ camPc = "checked"
    /\ IF initialised
       THEN captured' = captured + 1 /\ camPc' = "push"
       ELSE captured' = captured /\ camPc' = "idle"
    /\ UNCHANGED <<attempt, clears, queued, repo>> /\ CameraUnchanged

\* Camera::enqueue: the first try_push.
EnqueuePush ==
    /\ camPc = "push"
    /\ IF queued < QueueSize
       THEN queued' = queued + 1 /\ attempt' = attempt /\ camPc' = "idle"
       ELSE queued' = queued /\ attempt' = 1 /\ camPc' = "evict"
    /\ UNCHANGED <<captured, clears, repo>> /\ CameraUnchanged

\* Mutant of EnqueueEvict: the oldest frame is looked at but not taken.
EnqueueEvictNoPop ==
    /\ camPc = "evict"
    /\ camPc' = IF queued > 0 THEN "release" ELSE "retry"
    /\ UNCHANGED <<captured, attempt, clears, queued, repo>> /\ CameraUnchanged

\* The queue is full: pop the oldest frame, unless the source node was faster.
EnqueueEvict ==
    /\ camPc = "evict"
    /\ IF queued > 0
       THEN queued' = queued - 1 /\ camPc' = "release"
       ELSE queued' = queued /\ camPc' = "retry"
    /\ UNCHANGED <<captured, attempt, clears, repo>> /\ CameraUnchanged

\* old_data.reset(), then delete_frame with the number the old frame carries:
\* it never was in the repository, so the number is 0.
EnqueueDeleteOld ==
    /\ camPc = "release"
    /\ DeleteFrame(0)
    /\ camPc' = "retry"
    /\ UNCHANGED <<captured, attempt, clears, queued>> /\ CameraUnchanged

\* The try_push inside the loop of two attempts.
EnqueueRetry ==
    /\ camPc = "retry"
    /\ IF queued < QueueSize
       THEN queued' = queued + 1 /\ attempt' = 0 /\ camPc' = "idle"
       ELSE /\ queued' = queued
            /\ IF attempt < 2
               THEN attempt' = attempt + 1 /\ camPc' = "evict"
               ELSE attempt' = 0 /\ camPc' = "failed"
    /\ UNCHANGED <<captured, clears, repo>> /\ CameraUnchanged

\* The Java heap has no room for the image: clearQueue, first Camera::clear ...
ClearCameraQueue ==
    /\ camPc = "checked" /\ clears < MaxClears
    /\ clears' = clears + 1
    /\ queued' = 0
    /\ camPc' = "clearing"
    /\ UNCHANGED <<captured, attempt, repo>> /\ CameraUnchanged

\* ... then Repository::clear_queued, which looks at no flag.
ClearRepository ==
    /\ camPc = "clearing"
    /\ repo' = {}
    /\ camPc' = "idle"
    /\ UNCHANGED <<captured, attempt, clears, queued>> /\ CameraUnchanged

-----------------------------------------------------------------------------
(* The source node: it blocks in pop, numbers the frame and emits it.      *)

SourceUnchanged == UNCHANGED <<cameraVars, detecting, tracking, rendering, routerVars, detVars,
                               trkVars, renderVars, lifecycle>>

SourcePop ==
    /\ srcPc = "pop" /\ queued > 0
    /\ queued' = queued - 1
    /\ srcPc' = "new"
    /\ UNCHANGED <<srcSeq, nextSeq, repo, routerQ>> /\ SourceUnchanged

\* Repository::next_seqno, for a counter that is there.
NextSeqno == srcSeq' = nextSeq /\ nextSeq' = nextSeq + 1

\* Repository::new_frame.
SourceNewFrame ==
    /\ srcPc = "new"
    /\ NextSeqno
    /\ repo' = repo \cup {nextSeq}
    /\ srcPc' = "emit"
    /\ UNCHANGED <<queued, routerQ>> /\ SourceUnchanged

\* The body returns ! must_terminate; on false the message is dropped and the
\* node stops.
SourceEmit ==
    /\ srcPc = "emit"
    /\ IF mustTerminate
       THEN srcPc' = "done" /\ routerQ' = routerQ
       ELSE srcPc' = "pop" /\ routerQ' = Append(routerQ, srcSeq)
    /\ UNCHANGED <<srcSeq, nextSeq, queued, repo>> /\ SourceUnchanged

-----------------------------------------------------------------------------
(* The router: a serial node with a queue in front of it.                  *)

RouterUnchanged == UNCHANGED <<cameraVars, queued, sourceVars, renderVars, lifecycle>>

\* Mutant of RouterTake: the newest frame first, as Camera::drain would give it.
RouterTakeNewest ==
    LET n == Len(routerQ)
    IN  /\ rPc = "idle" /\ n > 0
        /\ routerQ' = SubSeq(routerQ, 1, n - 1)
        /\ IF routerQ[n] # 0 /\ routerQ[n] \in repo
           THEN rPc' = "detect" /\ rSeq' = routerQ[n] /\ isDelete' = ~Rendered
           ELSE UNCHANGED routerVars
        /\ UNCHANGED <<repo, detecting, tracking, rendering, detVars, trkVars>>
        /\ RouterUnchanged

\* Frame 0 is skipped, and so is a frame that is no longer stored.
RouterTake ==
    /\ rPc = "idle" /\ routerQ # <<>>
    /\ routerQ' = Tail(routerQ)
    /\ IF Head(routerQ) # 0 /\ Head(routerQ) \in repo
       THEN rPc' = "detect" /\ rSeq' = Head(routerQ) /\ isDelete' = ~Rendered
       ELSE UNCHANGED routerVars
    /\ UNCHANGED <<repo, detecting, tracking, rendering, detVars, trkVars>>
    /\ RouterUnchanged

\* try_put to the rejecting, serial detector node, unless is_detecting().
RouteDetect ==
    /\ rPc = "detect"
    /\ IF ~detBusy /\ dPc = "idle"
       THEN dPc' = "start" /\ dSeq' = rSeq /\ isDelete' = FALSE /\ rPc' = "flagDetect"
       ELSE UNCHANGED <<dPc, dSeq, isDelete>> /\ rPc' = "track"
    /\ UNCHANGED <<routerQ, rSeq, detBusy, repo, detecting, tracking, rendering, trkVars>>
    /\ RouterUnchanged

\* The detector may have finished with the frame by now.
FlagDetecting ==
    /\ rPc = "flagDetect"
    /\ detecting' = detecting \cup {rSeq}
    /\ rPc' = "render"
    /\ UNCHANGED <<routerQ, rSeq, isDelete, repo, tracking, rendering, detVars, trkVars>>
    /\ RouterUnchanged

\* The tracker gets the frame only when the detector did not;
\* TBBNullTracker::is_tracking() is always false.
RouteTrack ==
    /\ rPc = "track"
    /\ IF tPc = "idle"
       THEN tPc' = "start" /\ tSeq' = rSeq /\ isDelete' = FALSE /\ rPc' = "flagTrack"
       ELSE UNCHANGED <<trkVars, isDelete>> /\ rPc' = "render"
    /\ UNCHANGED <<routerQ, rSeq, repo, detecting, tracking, rendering, detVars>> /\ RouterUnchanged

FlagTracking ==
    /\ rPc = "flagTrack"
    /\ tracking' = tracking \cup {rSeq}
    /\ rPc' = "render"
    /\ UNCHANGED <<routerQ, rSeq, isDelete, repo, detecting, rendering, detVars, trkVars>>
    /\ RouterUnchanged

\* Mutant of RouteRender: the frame the render node refuses is not deleted.
RouteRenderNoDelete ==
    /\ rPc = "render"
    /\ IF Rendered /\ vPc = "idle"
       THEN vPc' = "start" /\ vSeq' = rSeq /\ rPc' = "flagRender"
       ELSE UNCHANGED <<vPc, vSeq>> /\ rPc' = "idle"
    /\ UNCHANGED <<cameraVars, queued, sourceVars, repo, detecting, tracking, rendering,
                   routerQ, rSeq, isDelete, detVars, trkVars, isRendering, lifecycle>>

\* With a renderer: hand over or delete.  Without: delete if isDelete still is
\* set, that is, if neither the detector nor the tracker took the frame.
RouteRender ==
    /\ rPc = "render"
    /\ IF Rendered /\ vPc = "idle"
       THEN vPc' = "start" /\ vSeq' = rSeq /\ rPc' = "flagRender" /\ repo' = repo
       ELSE /\ UNCHANGED <<vPc, vSeq>>
            /\ rPc' = "idle"
            /\ IF Rendered \/ isDelete THEN DeleteFrame(rSeq) ELSE repo' = repo
    /\ UNCHANGED <<cameraVars, queued, sourceVars, detecting, tracking, rendering,
                   routerQ, rSeq, isDelete, detVars, trkVars, isRendering, lifecycle>>

FlagRendering ==
    /\ rPc = "flagRender"
    /\ rendering' = rendering \cup {rSeq}
    /\ rPc' = "idle"
    /\ UNCHANGED <<routerQ, rSeq, isDelete, repo, detecting, tracking, detVars, trkVars>>
    /\ RouterUnchanged

-----------------------------------------------------------------------------
(* The detector node.                                                      *)

DetUnchanged == UNCHANGED <<cameraVars, queued, sourceVars, tracking, rendering, routerQ,
                            routerVars, trkVars, renderVars, lifecycle, dSeq>>

\* get_frame, then the detector's own busy flag (the null detector has none).
DetStart ==
    /\ dPc = "start"
    /\ IF dSeq \in repo
       THEN dPc' = "work" /\ detBusy' = (DetectorType # "NONE")
       ELSE dPc' = "idle" /\ detBusy' = detBusy
    /\ UNCHANGED <<repo, detecting>> /\ DetUnchanged

\* Mutant of DetClear: the wrong frame's flag, as for camera 2 of a stereo pair.
DetClearForgotten ==
    /\ dPc = "work"
    /\ detBusy' = (DetectorType = "APRILTAGS")
    /\ dPc' = "delete"
    /\ UNCHANGED <<repo, detecting>> /\ DetUnchanged

\* Detection is over: the frame's flag goes down.  The face detectors drop
\* their busy flag before it, the tag detector only at the end.
DetClear ==
    /\ dPc = "work"
    /\ detecting' = detecting \ {dSeq}
    /\ detBusy' = (DetectorType = "APRILTAGS")
    /\ dPc' = "delete"
    /\ UNCHANGED repo /\ DetUnchanged

\* Mutant of DetDelete: the detector relies on the render node to delete.
DetDeleteForgotten ==
    /\ dPc = "delete"
    /\ dPc' = "return"
    /\ UNCHANGED <<repo, detecting, detBusy>> /\ DetUnchanged

DetDelete ==
    /\ dPc = "delete"
    /\ DeleteFrame(dSeq)
    /\ dPc' = "return"
    /\ UNCHANGED <<detecting, detBusy>> /\ DetUnchanged

DetReturn ==
    /\ dPc = "return"
    /\ detBusy' = FALSE
    /\ dPc' = "idle"
    /\ UNCHANGED <<repo, detecting>> /\ DetUnchanged

-----------------------------------------------------------------------------
(* The tracker node (TBBNullTracker, the only one startMAR asks for).      *)

TrkUnchanged == UNCHANGED <<cameraVars, queued, sourceVars, detecting, rendering, routerQ,
                            routerVars, detVars, renderVars, lifecycle, tSeq>>

TrkStart ==
    /\ tPc = "start"
    /\ tPc' = IF tSeq \in repo THEN "work" ELSE "idle"
    /\ UNCHANGED <<repo, tracking>> /\ TrkUnchanged

TrkClear ==
    /\ tPc = "work"
    /\ tracking' = tracking \ {tSeq}
    /\ tPc' = "delete"
    /\ UNCHANGED repo /\ TrkUnchanged

TrkDelete ==
    /\ tPc = "delete"
    /\ DeleteFrame(tSeq)
    /\ tPc' = "idle"
    /\ UNCHANGED tracking /\ TrkUnchanged

-----------------------------------------------------------------------------
(* The render node: TBBBenchmarkRender around VulkanRenderer::render.      *)

RenderUnchanged == UNCHANGED <<cameraVars, queued, sourceVars, detecting, tracking, routerQ,
                               routerVars, detVars, trkVars, lifecycle, vSeq>>

\* Once must_terminate is set, or while the gate is taken, the frame is deleted
\* without being looked at; its isRendering flag is left as it is.
RenderStart ==
    /\ vPc = "start"
    /\ IF mustTerminate \/ isRendering
       THEN DeleteFrame(vSeq) /\ vPc' = "idle" /\ isRendering' = isRendering
       ELSE repo' = repo /\ vPc' = "get" /\ isRendering' = TRUE
    /\ UNCHANGED rendering /\ RenderUnchanged

\* Mutant of RenderLookup: the early return forgets the gate.
RenderLookupKeepsGate ==
    /\ vPc = "get"
    /\ vPc' = IF vSeq \in repo THEN "render" ELSE "idle"
    /\ UNCHANGED <<repo, rendering, isRendering>> /\ RenderUnchanged

\* The benchmark node's own get_frame; when the frame is gone it opens the gate.
RenderLookup ==
    /\ vPc = "get"
    /\ IF vSeq \in repo
       THEN vPc' = "render" /\ isRendering' = isRendering
       ELSE vPc' = "idle" /\ isRendering' = FALSE
    /\ UNCHANGED <<repo, rendering>> /\ RenderUnchanged

\* render(): get_frame again, and the frame's flag goes down before drawing.
RenderBegin ==
    /\ vPc = "render"
    /\ rendering' = IF vSeq \in repo THEN rendering \ {vSeq} ELSE rendering
    /\ vPc' = "draw"
    /\ UNCHANGED <<repo, isRendering>> /\ RenderUnchanged

\* Drawn, failed or lost: the renderEnd guard opens the gate ...
RenderEnd ==
    /\ vPc = "draw"
    /\ isRendering' = FALSE
    /\ vPc' = "delete"
    /\ UNCHANGED <<repo, rendering>> /\ RenderUnchanged

\* ... and deletes the frame.
RenderDelete ==
    /\ vPc = "delete"
    /\ DeleteFrame(vSeq)
    /\ vPc' = "idle"
    /\ UNCHANGED <<rendering, isRendering>> /\ RenderUnchanged

-----------------------------------------------------------------------------
(* stopMAR: two stores; neither flag is ever taken back.                   *)

StopUnchanged == UNCHANGED <<cameraVars, queued, sourceVars, repo, detecting, tracking,
                             rendering, routerQ, routerVars, detVars, trkVars,
                             renderVars>>

StopTerminate == lifecycle = "run" /\ lifecycle' = "stopping" /\ StopUnchanged

StopUninitialise == lifecycle = "stopping" /\ lifecycle' = "stopped" /\ StopUnchanged

-----------------------------------------------------------------------------
Camera   == CameraCheck \/ EnqueueCreate \/ EnqueuePush \/ EnqueueEvict
            \/ EnqueueDeleteOld \/ EnqueueRetry \/ ClearCameraQueue \/ ClearRepository
Source   == SourcePop \/ SourceNewFrame \/ SourceEmit
Router   == RouterTake \/ RouteDetect \/ FlagDetecting \/ RouteTrack \/ FlagTracking
            \/ RouteRender \/ FlagRendering
Detector == DetStart \/ DetClear \/ DetDelete \/ DetReturn
Tracker  == TrkStart \/ TrkClear \/ TrkDelete
Render   == RenderStart \/ RenderLookup \/ RenderBegin \/ RenderEnd \/ RenderDelete
Stop     == StopTerminate \/ StopUninitialise

Next == Camera \/ Source \/ Router \/ Detector \/ Tracker \/ Render \/ Stop

Spec == Init /\ [][Next]_vars

\* The graph's nodes run on TBB's worker threads, which are there as long as
\* the architecture's run loop is; the camera and the user owe us nothing.
Fairness == /\ WF_vars(Source) /\ WF_vars(Router) /\ WF_vars(Detector)
            /\ WF_vars(Tracker) /\ WF_vars(Render)

FairSpec == Spec /\ Fairness

-----------------------------------------------------------------------------
(* Properties.                                                             *)

CameraTypeOK ==
    /\ camPc \in {"idle", "checked", "push", "evict", "release", "retry",
                  "failed", "clearing"}
    /\ captured \in 0 .. MaxFrames /\ attempt \in 0 .. 2 /\ clears \in 0 .. MaxClears
    /\ queued \in 0 .. QueueSize
StoreTypeOK ==
    /\ repo \subseteq Nat /\ detecting \subseteq Nat
    /\ tracking \subseteq Nat /\ rendering \subseteq Nat
    /\ isRendering \in BOOLEAN
SourceTypeOK ==
    /\ srcPc \in {"pop", "new", "emit", "done"}
    /\ srcSeq \in Nat /\ nextSeq \in Nat
    /\ routerQ \in Seq(Nat)
NodesTypeOK ==
    /\ rPc \in {"idle", "detect", "flagDetect", "track", "flagTrack",
                "render", "flagRender"}
    /\ rSeq \in Nat /\ isDelete \in BOOLEAN
    /\ dPc \in {"idle", "start", "work", "delete", "return"}
    /\ dSeq \in Nat /\ detBusy \in BOOLEAN
    /\ tPc \in {"idle", "start", "work", "delete"} /\ tSeq \in Nat
    /\ vPc \in {"idle", "start", "get", "render", "draw", "delete"} /\ vSeq \in Nat
    /\ lifecycle \in {"run", "stopping", "stopped"}
TypeOK == CameraTypeOK /\ StoreTypeOK /\ SourceTypeOK /\ NodesTypeOK

\* A flag of s is up although the node it speaks of is past lowering it: the
\* flag can never go down again, and delete_frame will always refuse s.
StaleDetecting(s) == s \in detecting /\ ~(dPc \in {"start", "work"} /\ dSeq = s)
StaleTracking(s)  == s \in tracking /\ ~(tPc \in {"start", "work"} /\ tSeq = s)
StaleRendering(s) == s \in rendering /\ ~(vPc \in {"start", "get", "render"} /\ vSeq = s)
Stale(s) == StaleDetecting(s) \/ StaleTracking(s) \/ StaleRendering(s)

\* Somebody is still going to call delete_frame for s.
WithNode(s) == \/ dPc \in {"start", "work", "delete"} /\ dSeq = s
               \/ tPc # "idle" /\ tSeq = s
               \/ vPc # "idle" /\ vSeq = s
Owned(s) == \/ \E i \in DOMAIN routerQ : routerQ[i] = s
            \/ srcPc = "emit" /\ srcSeq = s
            \/ rPc # "idle" /\ rSeq = s
            \/ WithNode(s)

\* The source node stopped with s in hand (mustTerminate in SourceEmit).
Dropped(s) == srcPc = "done" /\ srcSeq = s

\* Every stored frame is on its way to somebody who will delete it.  The only
\* frames nobody will ever delete are the first one (its number is 0, and the
\* router skips it), those whose flag was raised too late, and the one the source dropped.
NoOrphanFrame == \A s \in repo \ {0} : Owned(s) \/ Stale(s) \/ Dropped(s)

\* Router and nodes race on the flags, but as long as the camera is not
\* cleared a detector or tracker that was handed a frame finds it stored.
ConsumersFindTheirFrame ==
    clears = 0 => /\ dPc \in {"start", "work"} => dSeq \in repo
                  /\ tPc \in {"start", "work"} => tSeq \in repo

\* The only ways to leak a stored frame: the router raises its flag after the
\* node has finished with it, or the render node discards it after stopMAR.
LeakOnlyByOvertaking ==
    [][\A s \in repo \cap repo' :
          ~Stale(s) /\ Stale(s)' =>
             \/ rSeq = s /\ rPc \in {"flagDetect", "flagTrack", "flagRender"} /\ rPc' # rPc
             \/ vSeq = s /\ vPc = "start" /\ vPc' = "idle" /\ mustTerminate]_vars

\* A leaked frame is leaked for good: only the out-of-memory path frees it.
LeakIsForever ==
    [][\A s \in repo : Stale(s) => camPc = "clearing" \/ (s \in repo /\ Stale(s))']_vars

\* The render node loses a frame it was handed ("Lost render frame") only to
\* a detector or tracker that finishes before the router has set isRendering.
RenderLossWindow ==
    [][\A s \in repo \ repo' :
          vSeq = s /\ vPc \in {"start", "get", "render"} /\ camPc # "clearing" =>
             \/ vPc = "start" /\ vPc' = "idle" /\ mustTerminate
             \/ /\ rPc = "flagRender" /\ rSeq = s
                /\ \/ dPc = "delete" /\ dSeq = s
                   \/ tPc = "delete" /\ tSeq = s]_vars

\* Camera::enqueue never gives up: one producer per camera, so after a pop
\* there is room.  (On failure the JNI code would drop its references twice.)
EnqueueNeverFails == camPc # "failed"

\* inFlight() is read before the frame is made, yet the frames alive never
\* exceed the throttle's limit by more than the one being enqueued.
InFlightBound == InFlight <= QueueSize + 1

\* A corollary: the throttle counts the whole pipeline, so the queue can only
\* be full when nothing has been taken out of it, and "drop the oldest" never
\* competes with a frame that is already stored.
OverflowOnlyWhenIdle ==
    camPc = "push" /\ queued = QueueSize => repo = {} /\ Held = {} /\ srcPc # "new"

\* The detector's busy flag is only ever up while its body runs, and then the
\* flow graph refuses a second frame without it.
BusyFlagRedundant == detBusy => dPc \in {"work", "delete", "return"}

\* Repository::is_rendering is held exactly while the one render node draws.
RenderGateUncontended ==
    /\ isRendering <=> vPc \in {"get", "render", "draw"}
    /\ vPc = "start" => ~isRendering

\* "not necessary - parallelism is set to 1" (TBBDetector.cc:96): neither gate
\* ever turns a frame away that the flow graph's concurrency of 1 let through,
\* whatever exits the bodies take; in particular the compare_exchange in
\* TBBBenchmarkRender never fails.
GatesUncontended == BusyFlagRedundant /\ RenderGateUncontended

\* No node is handed a frame twice, or an older frame after a newer one.
FramesInOrder ==
    [][/\ dPc = "idle" /\ dPc' = "start" => dSeq' > dSeq
       /\ tPc = "idle" /\ tPc' = "start" => tSeq' > tSeq
       /\ vPc = "idle" /\ vPc' = "start" => vSeq' > vSeq]_vars

\* The detector, tracker and render nodes do not starve each other: when the
\* camera has sent its last frame, all that is left in the repository, but for
\* number 0, will be what has leaked, or the pipeline was stopped.
FramesLeave ==
    <>[](\A s \in Seqs \ {0} : s \in repo => Stale(s) \/ mustTerminate)

\* The repository behind the three flags is the FrameStore.
Store == INSTANCE FrameStore WITH
            stored <- repo, next <- nextSeq,
            pinned <- detecting \cup tracking \cup rendering
StoreSpec == Store!Spec

-----------------------------------------------------------------------------
(* The inductive invariant behind the proofs, in named parts.              *)

\* The camera thread between two of its steps.
CameraInv ==
    /\ camPc = "checked" => captured < MaxFrames
    /\ camPc \in {"release", "retry"} => queued < QueueSize
    /\ camPc = "clearing" => clears > 0
    /\ EnqueueNeverFails

\* Numbers wait at the router in increasing order, all above the one it has.
QueueOrder ==
    /\ \A i, j \in DOMAIN routerQ : i < j => routerQ[i] < routerQ[j]
    /\ \A i \in DOMAIN routerQ :
          /\ routerQ[i] = 0 \/ rSeq < routerQ[i]
          /\ routerQ[i] < nextSeq /\ (srcPc = "emit" => routerQ[i] < srcSeq)
    /\ srcPc = "emit" => srcSeq < nextSeq /\ (srcSeq = 0 \/ rSeq < srcSeq)

\* A node has seen the router's frame only once the router has offered it.
RouteOrder ==
    /\ rSeq = 0 \/ rSeq < nextSeq
    /\ rPc # "idle" => rSeq # 0
    /\ dSeq <= rSeq /\ tSeq <= rSeq /\ vSeq <= rSeq
    /\ rPc \in {"detect", "track", "flagTrack"} => dSeq < rSeq
    /\ rPc \in {"detect", "flagDetect", "track"} => tSeq < rSeq
    /\ rPc \notin {"idle", "flagRender"} => vSeq < rSeq
    /\ rPc = "flagDetect" => dSeq = rSeq
    /\ rPc = "flagTrack" => tSeq = rSeq
    /\ rPc = "flagRender" => vSeq = rSeq

\* A flag is raised only for frames the router has reached.
FlagOrder ==
    /\ \A s \in detecting \cup tracking :
          /\ s <= rSeq
          /\ rPc \in {"detect", "flagDetect", "track", "flagTrack"} => s < rSeq
    /\ \A s \in rendering : s <= rSeq /\ (rPc # "idle" => s < rSeq)

\* A frame a node still needs is flagged, or the router is about to flag it.
Handover ==
    /\ dPc \in {"start", "work"} =>
          dSeq # 0 /\ (dSeq \in detecting \/ (rPc = "flagDetect" /\ rSeq = dSeq))
    /\ tPc \in {"start", "work"} =>
          tSeq # 0 /\ (tSeq \in tracking \/ (rPc = "flagTrack" /\ rSeq = tSeq))
    /\ vPc \in {"start", "get", "render"} =>
          vSeq # 0 /\ (vSeq \in rendering \/ (rPc = "flagRender" /\ rSeq = vSeq))

\* The router's own frame is stored until it has been offered.
RoutedStored == clears = 0 /\ rPc \in {"detect", "track"} => rSeq \in repo

\* The router drops isDelete only after somebody else has taken the frame.
RoutedOwned ==
    /\ rPc \in {"detect", "track"} => (isDelete <=> ~Rendered)
    /\ rPc = "render" /\ ~Rendered /\ ~isDelete /\ rSeq \in repo =>
          Stale(rSeq) \/ WithNode(rSeq)

IInv == /\ TypeOK /\ CameraInv /\ BusyFlagRedundant /\ RenderGateUncontended
        /\ QueueOrder /\ RouteOrder /\ FlagOrder /\ Handover
        /\ RoutedStored /\ ConsumersFindTheirFrame
        /\ RoutedOwned /\ NoOrphanFrame

=============================================================================
