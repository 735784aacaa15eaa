----------------------------- MODULE Lifecycle -----------------------------
(***************************************************************************)
(* Starting and stopping the pipeline: the activity on the UI thread       *)
(* (ARActivity.kt, MAR.kt, jni.cc), the architecture's run thread          *)
(* (architecture.cc), the source nodes on TBB's threads and the camera     *)
(* threads that feed their queues.                                         *)
(***************************************************************************)
EXTENDS Naturals, FiniteSets

CONSTANTS
    Cameras,        \* the cameras of the activity, one source node each
    Layout,         \* which architecture make_architecture chooses for them
    QueueSize,      \* capacity of a camera's queue
    MaxOpens        \* bound: how often the activity gets a surface

ASSUME LifecycleAssumption ==
    /\ IsFiniteSet(Cameras) /\ Cameras # {}
    /\ Layout \in {"Mono", "Stereo", "MonoAndFront", "StereoAndFront"}
    /\ QueueSize \in Nat \ {0}
    /\ MaxOpens \in Nat

VARIABLES
    alive,          \* the process has neither aborted nor crashed
    ui,             \* UI thread: idle, starting, destroying the old
                    \* architecture, between the two stores of stopMAR
    opens,
    cameraOn,       \* cameras whose frames reach the frame handler
    previewing,     \* MAR.isPreviewingReady
    architecture,   \* whether `architecture' holds one
    threads,        \* calls of FlowGraphArchitecture::start that made a thread
    runPc,          \* the run thread
    mustTerminate, initialised,     \* of the Repository
    source,         \* source nodes: off, in pop, testing must_terminate, ended
    queue,          \* number of frames in each camera's queue
    cameraPc,       \* camera threads: idle, or between enqueue's test of
                    \* initialised and its push
    late            \* history: frames numbered by each source after stopMAR

lifeVars == <<ui, opens, cameraOn, previewing, architecture, threads, runPc,
              mustTerminate, initialised, source, queue, cameraPc, late>>
vars == <<alive, lifeVars>>

Results == {"unknown", "ok", "bad"}

TypeOK ==
    /\ alive \in BOOLEAN
    /\ ui \in {"idle", "startMAR", "destroy", "stopping"}
    /\ opens \in 0 .. MaxOpens
    /\ cameraOn \subseteq Cameras
    /\ previewing \in [Cameras -> Results]
    /\ architecture \in BOOLEAN
    /\ threads \in Nat
    /\ runPc \in {"none", "setup", "flag", "activate", "loop", "wait", "done"}
    /\ mustTerminate \in BOOLEAN /\ initialised \in BOOLEAN
    /\ source \in [Cameras -> {"off", "pop", "test", "ended"}]
    /\ queue \in [Cameras -> 0 .. QueueSize]
    /\ cameraPc \in [Cameras -> {"idle", "push"}]
    /\ late \in [Cameras -> Nat]

Init ==
    /\ alive = TRUE
    /\ ui = "idle" /\ opens = 0
    /\ cameraOn = {}
    /\ previewing = [c \in Cameras |-> "unknown"]
    /\ architecture = FALSE
    /\ threads = 0 /\ runPc = "none"
    /\ mustTerminate = FALSE /\ initialised = FALSE
    /\ source = [c \in Cameras |-> "off"]
    /\ queue = [c \in Cameras |-> 0]
    /\ cameraPc = [c \in Cameras |-> "idle"]
    /\ late = [c \in Cameras |-> 0]

-----------------------------------------------------------------------------
(* The UI thread.                                                          *)

\* surfaceChanged: startPreview starts the cameras that have no result yet and
\* waits for theirs; it answers from the results alone.
SurfaceChanged ==
    /\ alive /\ ui = "idle" /\ opens < MaxOpens
    /\ opens' = opens + 1
    /\ \E failed \in SUBSET {c \in Cameras : previewing[c] = "unknown"} :
          /\ previewing' = [c \in Cameras |->
                IF previewing[c] # "unknown" THEN previewing[c]
                ELSE IF c \in failed THEN "bad" ELSE "ok"]
          /\ cameraOn' = cameraOn \cup
                ({c \in Cameras : previewing[c] = "unknown"} \ failed)
    /\ ui' = IF \A c \in Cameras : previewing'[c] = "ok" THEN "startMAR" ELSE "idle"
    /\ UNCHANGED <<alive, architecture, threads, runPc, mustTerminate,
                   initialised, source, queue, cameraPc, late>>

\* startMAR returns before it makes anything: no window, no face detector, no
\* renderer.
StartRefused ==
    /\ alive /\ ui = "startMAR"
    /\ ui' = "idle"
    /\ UNCHANGED <<alive, opens, cameraOn, previewing, architecture,
                   threads, runPc, mustTerminate, initialised, source, queue,
                   cameraPc, late>>

\* Mutant of StartMAR: the old architecture is not destroyed.
StartMARKeepsOld ==
    /\ alive /\ ui = "startMAR"
    /\ queue' = [c \in Cameras |-> 0]
    /\ architecture' = TRUE
    /\ ui' = "idle" /\ threads' = threads + 1 /\ runPc' = "setup"
    /\ UNCHANGED <<alive, opens, cameraOn, previewing, mustTerminate,
                   initialised, source, cameraPc, late>>

\* startMAR: the new architecture's source nodes clear the queues; then reset
\* destroys the old one, if there is one, before start.
StartMAR ==
    /\ alive /\ ui = "startMAR"
    /\ queue' = [c \in Cameras |-> 0]
    /\ architecture' = TRUE
    /\ IF architecture
       THEN ui' = "destroy" /\ UNCHANGED <<threads, runPc>>
       ELSE ui' = "idle" /\ threads' = threads + 1 /\ runPc' = "setup"
    /\ UNCHANGED <<alive, opens, cameraOn, previewing, mustTerminate,
                   initialised, source, cameraPc, late>>

\* The old architecture's members go in reverse order: the nodes, then the
\* graph, whose destructor waits for all tasks, then the std::thread, which
\* nobody has joined: std::terminate.
DestroyArchitecture ==
    /\ alive /\ ui = "destroy"
    /\ \A c \in Cameras : source[c] \in {"off", "ended"}
    /\ alive' = FALSE
    /\ UNCHANGED lifeVars

\* surfaceDestroyed and onPause.
StopPreview ==
    /\ alive /\ ui = "idle"
    /\ cameraOn # {}
    /\ cameraOn' = {}
    /\ UNCHANGED <<alive, ui, opens, previewing, architecture, threads,
                   runPc, mustTerminate, initialised, source, queue, cameraPc,
                   late>>

\* The stop button: stopPreview and the first store of stopMAR.
StopMAR ==
    /\ alive /\ ui = "idle"
    /\ cameraOn' = {}
    /\ mustTerminate' = TRUE
    /\ ui' = "stopping"
    /\ UNCHANGED <<alive, opens, previewing, architecture, threads,
                   runPc, initialised, source, queue, cameraPc, late>>

\* The rest of stopMAR; architecture->stop stores must_terminate again.
ClearInitialised ==
    /\ alive /\ ui = "stopping"
    /\ initialised' = FALSE
    /\ ui' = "idle"
    /\ UNCHANGED <<alive, opens, cameraOn, previewing, architecture,
                   threads, runPc, mustTerminate, source, queue, cameraPc, late>>

-----------------------------------------------------------------------------
(* The run thread: run() of the four architectures.                        *)

\* While the UI thread destroys the architecture the nodes are gone already:
\* whoever touches one may crash.
NodesGone == ui = "destroy"
TouchNode == alive' \in {TRUE, ~NodesGone}

\* Edges, sensors and renderer.  Only the first of the architectures raises
\* initialised before it activates its source.
SetUp ==
    /\ alive /\ runPc = "setup"
    /\ runPc' = IF Layout = "Mono" THEN "flag" ELSE "activate"
    /\ TouchNode
    /\ UNCHANGED <<ui, opens, cameraOn, previewing, architecture, threads,
                   mustTerminate, initialised, source, queue, cameraPc, late>>

RaiseInitialised ==
    /\ alive /\ runPc = "flag"
    /\ initialised' = TRUE
    /\ runPc' = IF Layout = "Mono" THEN "activate" ELSE "loop"
    /\ UNCHANGED <<alive, ui, opens, cameraOn, previewing, architecture,
                   threads, mustTerminate, source, queue, cameraPc, late>>

Activate ==
    /\ alive /\ runPc = "activate"
    /\ source' = [c \in Cameras |-> "pop"]
    /\ runPc' = IF Layout = "Mono" THEN "loop" ELSE "flag"
    /\ TouchNode
    /\ UNCHANGED <<ui, opens, cameraOn, previewing, architecture,
                   threads, mustTerminate, initialised, queue, cameraPc, late>>

\* Mutant of LeaveLoop: the loop waits for initialised to go down as well.
LeaveLoopBoth ==
    /\ alive /\ runPc = "loop" /\ mustTerminate /\ ~initialised
    /\ runPc' = IF Layout = "MonoAndFront" THEN "wait" ELSE "done"
    /\ UNCHANGED <<alive, ui, opens, cameraOn, previewing, architecture,
                   threads, mustTerminate, initialised, source, queue, cameraPc,
                   late>>

\* The run loop polls the sensors (module Sensors) or sleeps until
\* must_terminate is up.
LeaveLoop ==
    /\ alive /\ runPc = "loop" /\ mustTerminate
    /\ runPc' = IF Layout = "MonoAndFront" THEN "wait" ELSE "done"
    /\ UNCHANGED <<alive, ui, opens, cameraOn, previewing, architecture,
                   threads, mustTerminate, initialised, source, queue, cameraPc,
                   late>>

\* graph.wait_for_all.
WaitForAll ==
    /\ alive /\ runPc = "wait"
    /\ \A c \in Cameras : source[c] = "ended"
    /\ runPc' = "done"
    /\ UNCHANGED <<alive, ui, opens, cameraOn, previewing, architecture,
                   threads, mustTerminate, initialised, source, queue, cameraPc,
                   late>>

-----------------------------------------------------------------------------
(* Source nodes and camera threads.                                        *)

\* dequeue_blocked and new_frame.
Take(c) ==
    /\ alive /\ source[c] = "pop" /\ queue[c] > 0
    /\ queue' = [queue EXCEPT ![c] = @ - 1]
    /\ source' = [source EXCEPT ![c] = "test"]
    /\ late' = [late EXCEPT ![c] = IF mustTerminate THEN @ + 1 ELSE @]
    /\ TouchNode
    /\ UNCHANGED <<ui, opens, cameraOn, previewing, architecture, threads,
                   runPc, mustTerminate, initialised, cameraPc>>

\* Mutant of TestTerminate: what is in the queue is still worked off.
TestTerminateEmpty(c) ==
    /\ alive /\ source[c] = "test"
    /\ source' = [source EXCEPT ![c] =
          IF mustTerminate /\ queue[c] = 0 THEN "ended" ELSE "pop"]
    /\ TouchNode
    /\ UNCHANGED <<ui, opens, cameraOn, previewing, architecture, threads,
                   runPc, mustTerminate, initialised, queue, cameraPc, late>>

\* return (! must_terminate): the frame goes to the router, which queues, and
\* the source runs again, or it never does.
TestTerminate(c) ==
    /\ alive /\ source[c] = "test"
    /\ source' = [source EXCEPT ![c] = IF mustTerminate THEN "ended" ELSE "pop"]
    /\ TouchNode
    /\ UNCHANGED <<ui, opens, cameraOn, previewing, architecture, threads,
                   runPc, mustTerminate, initialised, queue, cameraPc, late>>

\* enqueue does nothing before initialised is up.
FrameArrives(c) ==
    /\ alive /\ c \in cameraOn /\ cameraPc[c] = "idle" /\ initialised
    /\ cameraPc' = [cameraPc EXCEPT ![c] = "push"]
    /\ UNCHANGED <<alive, ui, opens, cameraOn, previewing, architecture,
                   threads, runPc, mustTerminate, initialised, source, queue, late>>

\* Camera::enqueue: a full queue loses its oldest frame.
Push(c) ==
    /\ alive /\ cameraPc[c] = "push"
    /\ cameraPc' = [cameraPc EXCEPT ![c] = "idle"]
    /\ queue' = [queue EXCEPT ![c] = IF @ < QueueSize THEN @ + 1 ELSE @]
    /\ UNCHANGED <<alive, ui, opens, cameraOn, previewing, architecture,
                   threads, runPc, mustTerminate, initialised, source, late>>

-----------------------------------------------------------------------------

UiThread ==
    \/ SurfaceChanged \/ StartRefused \/ StartMAR \/ DestroyArchitecture
    \/ StopPreview \/ StopMAR \/ ClearInitialised

RunThread ==
    \/ SetUp \/ RaiseInitialised \/ Activate \/ LeaveLoop \/ WaitForAll

Source(c) == Take(c) \/ TestTerminate(c)
CameraThread(c) == FrameArrives(c) \/ Push(c)

Next ==
    \/ UiThread
    \/ RunThread
    \/ \E c \in Cameras : Source(c) \/ CameraThread(c)

Spec == Init /\ [][Next]_vars

\* The run thread and TBB's worker threads run when they can, and a frame that
\* is being pushed gets there; the user and the cameras owe nothing.
FairSpec ==
    /\ Spec
    /\ WF_vars(RunThread)
    /\ \A c \in Cameras : WF_vars(Source(c)) /\ WF_vars(Push(c))

-----------------------------------------------------------------------------
(* Properties.                                                             *)

\* A source numbers at most one frame after stopMAR: it looks at must_terminate
\* after each, whatever the cameras and the queue do meanwhile.
OneFrameAfterStop == \A c \in Cameras : late[c] <= 1

\* The flags are final: the run thread raises initialised once, must_terminate
\* is never taken back.
Stopped == mustTerminate /\ ~initialised /\ runPc \in {"loop", "wait", "done"}

\* A source that is still in pop, on an empty queue, with nobody pushing.
Stranded(c) == source[c] = "pop" /\ queue[c] = 0 /\ cameraPc[c] = "idle"

\* A source that is stranded when the pipeline is stopped stays so for the rest
\* of the process: neither a new surface nor a camera wakes it, and with it the
\* wait_for_all of the run thread or of the destructor never returns.
StrandedForever ==
    [][\A c \in Cameras : Stopped /\ Stranded(c) => (Stopped /\ Stranded(c))']_vars

\* Whatever the activity does, the pipeline is started once per process: the
\* second startMAR comes back neither with an architecture nor with an error.
StartsOnce == threads <= 1

\* After stopMAR the run thread ends, unless wait_for_all waits for a source
\* that has no frame to wake up on, or the process is gone.
RunEnds ==
    (mustTerminate /\ runPc # "none") ~>
        \/ runPc = "done"
        \/ ~alive
        \/ runPc = "wait" /\ \E c \in Cameras : Stranded(c)

=============================================================================
