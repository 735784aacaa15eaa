-------------------------- MODULE LifecycleProofs ---------------------------
(***************************************************************************)
(* Theorems about Lifecycle.  That there is one run thread, which has      *)
(* activated each source at most once, carries the others.                 *)
(***************************************************************************)
EXTENDS Lifecycle, TLAPS

\* The run thread has not yet activated the sources.
BeforeActivate ==
    runPc \in {"none", "setup", "activate"} \/ (runPc = "flag" /\ Layout = "Mono")

OneThread ==
    /\ architecture <=> threads = 1
    /\ ~architecture => threads = 0 /\ runPc = "none"
    /\ ui = "destroy" => architecture

SourcesFollow ==
    /\ BeforeActivate => \A c \in Cameras : source[c] = "off"
    /\ \A c \in Cameras :
        /\ late[c] <= 1
        /\ late[c] = 1 => mustTerminate /\ source[c] \in {"test", "ended"}

IInv == TypeOK /\ OneThread /\ SourcesFollow

-----------------------------------------------------------------------------

\* Nothing runs, nothing is called.
LEMMA Initially == Init => IInv
<1> SUFFICES ASSUME Init PROVE IInv
  OBVIOUS
<1>1. TypeOK
  <2>1. 0 \in 0 .. QueueSize /\ 0 \in 0 .. MaxOpens
    BY LifecycleAssumption
  <2>2. previewing \in [Cameras -> Results] /\ cameraOn \subseteq Cameras
    BY DEF Init, Results
  <2>3. /\ source \in [Cameras -> {"off", "pop", "test", "ended"}]
        /\ queue \in [Cameras -> 0 .. QueueSize]
        /\ cameraPc \in [Cameras -> {"idle", "push"}]
        /\ late \in [Cameras -> Nat]
    BY <2>1 DEF Init
  <2> QED
    BY <2>1, <2>2, <2>3 DEF Init, TypeOK
<1>2. OneThread /\ SourcesFollow
  BY DEF Init, OneThread, SourcesFollow
<1> QED
  BY <1>1, <1>2 DEF IInv

\* Steps of the UI thread.
LEMMA UiStep ==
    ASSUME IInv, UiThread
    PROVE  IInv'
<1>1. CASE SurfaceChanged
  <2>1. opens' \in 0 .. MaxOpens
    BY <1>1, LifecycleAssumption DEF SurfaceChanged, IInv, TypeOK
  <2>2. cameraOn' \subseteq Cameras /\ previewing' \in [Cameras -> Results]
    BY <1>1 DEF SurfaceChanged, IInv, TypeOK, Results
  <2>3. ui' \in {"startMAR", "idle"}
    BY <1>1 DEF SurfaceChanged
  <2> QED
    BY <1>1, <2>1, <2>2, <2>3 DEF SurfaceChanged, IInv, TypeOK, OneThread, SourcesFollow,
       BeforeActivate
<1>2. CASE StartRefused
  BY <1>2 DEF StartRefused, IInv, TypeOK, OneThread, SourcesFollow, BeforeActivate
<1>3. CASE StartMAR
  <2>1. queue' \in [Cameras -> 0 .. QueueSize]
    BY <1>3, LifecycleAssumption DEF StartMAR
  <2>2. CASE architecture
    BY <1>3, <2>1, <2>2 DEF StartMAR, IInv, TypeOK, OneThread, SourcesFollow,
       BeforeActivate
  <2>3. CASE ~architecture
    <3>1. threads = 0 /\ threads' = 1 /\ runPc = "none" /\ runPc' = "setup" /\ ui' = "idle"
      BY <1>3, <2>3 DEF StartMAR, IInv, OneThread
    <3> QED
      BY <1>3, <2>1, <3>1 DEF StartMAR, IInv, TypeOK, OneThread, SourcesFollow,
         BeforeActivate
  <2> QED
    BY <2>2, <2>3
<1>4. CASE DestroyArchitecture
  BY <1>4 DEF DestroyArchitecture, lifeVars, IInv, TypeOK, OneThread, SourcesFollow,
     BeforeActivate
<1>5. CASE StopPreview
  BY <1>5 DEF StopPreview, IInv, TypeOK, OneThread, SourcesFollow, BeforeActivate
<1>6. CASE StopMAR
  BY <1>6 DEF StopMAR, IInv, TypeOK, OneThread, SourcesFollow, BeforeActivate
<1>7. CASE ClearInitialised
  BY <1>7 DEF ClearInitialised, IInv, TypeOK, OneThread, SourcesFollow, BeforeActivate
<1> QED
  BY <1>1, <1>2, <1>3, <1>4, <1>5, <1>6, <1>7 DEF UiThread

\* Steps of the run thread.
LEMMA RunStep ==
    ASSUME IInv, RunThread
    PROVE  IInv'
<1>0. TouchNode => alive' \in BOOLEAN
  BY DEF TouchNode
<1>1. CASE SetUp
  <2>1. Layout # "Mono" => runPc' = "activate"
    BY <1>1 DEF SetUp
  <2>2. runPc' \in {"flag", "activate"} /\ runPc = "setup"
    BY <1>1 DEF SetUp
  <2> QED
    BY <1>0, <1>1, <2>1, <2>2 DEF SetUp, IInv, TypeOK, OneThread, SourcesFollow,
       BeforeActivate
<1>2. CASE RaiseInitialised
  BY <1>2 DEF RaiseInitialised, IInv, TypeOK, OneThread, SourcesFollow, BeforeActivate
<1>3. CASE Activate
  <2>1. \A c \in Cameras : source[c] = "off" /\ late[c] # 1
    BY <1>3 DEF Activate, IInv, SourcesFollow, BeforeActivate
  <2>2. runPc' = IF Layout = "Mono" THEN "loop" ELSE "flag"
    BY <1>3 DEF Activate
  <2>3. runPc' \in {"loop", "flag"} /\ ~BeforeActivate'
    BY <2>2 DEF BeforeActivate
  <2>4. SourcesFollow'
    BY <1>3, <2>1, <2>3 DEF Activate, IInv, SourcesFollow
  <2>5. TypeOK' /\ OneThread'
    BY <1>0, <1>3, <2>3 DEF Activate, IInv, TypeOK, OneThread
  <2> QED
    BY <2>4, <2>5 DEF IInv
<1>4. CASE LeaveLoop
  BY <1>4 DEF LeaveLoop, IInv, TypeOK, OneThread, SourcesFollow, BeforeActivate
<1>5. CASE WaitForAll
  BY <1>5 DEF WaitForAll, IInv, TypeOK, OneThread, SourcesFollow, BeforeActivate
<1> QED
  BY <1>1, <1>2, <1>3, <1>4, <1>5 DEF RunThread

\* Steps of the sources and of the camera threads.
LEMMA CameraStep ==
    ASSUME IInv, NEW c \in Cameras, Source(c) \/ CameraThread(c)
    PROVE  IInv'
<1>0. TouchNode => alive' \in BOOLEAN
  BY DEF TouchNode
<1>1. CASE Take(c)
  <2>1. queue[c] \in 1 .. QueueSize /\ late[c] \in Nat /\ source[c] = "pop"
    BY <1>1, LifecycleAssumption DEF Take, IInv, TypeOK
  <2>2. late[c] = 0
    BY <2>1 DEF IInv, SourcesFollow
  <2>3. queue' \in [Cameras -> 0 .. QueueSize]
    BY <1>1, <2>1, LifecycleAssumption DEF Take, IInv, TypeOK
  <2>4. late' = [late EXCEPT ![c] = IF mustTerminate THEN 1 ELSE 0]
    BY <1>1, <2>2 DEF Take
  <2>5. TypeOK' /\ OneThread'
    BY <1>0, <1>1, <2>3, <2>4 DEF Take, IInv, TypeOK, OneThread
  <2>6. ~BeforeActivate'
    BY <1>1, <2>1 DEF Take, IInv, SourcesFollow, BeforeActivate
  <2>7. ASSUME NEW d \in Cameras
        PROVE  /\ late'[d] <= 1
               /\ late'[d] = 1 => mustTerminate' /\ source'[d] \in {"test", "ended"}
    BY <1>1, <2>4 DEF Take, IInv, TypeOK, SourcesFollow
  <2> QED
    BY <2>5, <2>6, <2>7 DEF IInv, SourcesFollow
<1>2. CASE TestTerminate(c)
  <2>1. TypeOK' /\ OneThread'
    BY <1>0, <1>2 DEF TestTerminate, IInv, TypeOK, OneThread
  <2>2. ~BeforeActivate'
    BY <1>2 DEF TestTerminate, IInv, SourcesFollow, BeforeActivate
  <2>3. ASSUME NEW d \in Cameras
        PROVE  /\ late'[d] <= 1
               /\ late'[d] = 1 => mustTerminate' /\ source'[d] \in {"test", "ended"}
    BY <1>2 DEF TestTerminate, IInv, TypeOK, SourcesFollow
  <2> QED
    BY <2>1, <2>2, <2>3 DEF IInv, SourcesFollow
<1>3. CASE FrameArrives(c)
  BY <1>3 DEF FrameArrives, IInv, TypeOK, OneThread, SourcesFollow, BeforeActivate
<1>4. CASE Push(c)
  <2>1. queue' \in [Cameras -> 0 .. QueueSize]
    BY <1>4, LifecycleAssumption DEF Push, IInv, TypeOK
  <2> QED
    BY <1>4, <2>1 DEF Push, IInv, TypeOK, OneThread, SourcesFollow, BeforeActivate
<1> QED
  BY <1>1, <1>2, <1>3, <1>4 DEF Source, CameraThread

\* A step of any thread keeps the invariant.
LEMMA Step == IInv /\ [Next]_vars => IInv'
<1> SUFFICES ASSUME IInv, [Next]_vars PROVE IInv'
  OBVIOUS
<1>1. CASE UNCHANGED vars
  BY <1>1 DEF vars, lifeVars, IInv, TypeOK, OneThread, SourcesFollow, BeforeActivate
<1>2. CASE Next
  BY <1>2, UiStep, RunStep, CameraStep DEF Next
<1> QED
  BY <1>1, <1>2

\* The invariant, for every set of cameras, layout and capacity.
THEOREM Invariance == Spec => []IInv
  BY Initially, Step, PTL DEF Spec

\* Type correctness.
THEOREM TypeCorrect == Spec => []TypeOK
<1>1. IInv => TypeOK
  BY DEF IInv
<1> QED
  BY <1>1, Invariance, PTL

\* A source numbers one frame after stopMAR at most (TBBCameraSource.cc:51).
THEOREM OneFrame == Spec => []OneFrameAfterStop
<1>1. IInv => OneFrameAfterStop
  BY DEF IInv, SourcesFollow, OneFrameAfterStop
<1> QED
  BY <1>1, Invariance, PTL

\* The pipeline starts once per process (jni.cc:550, architecture.cc:178).
THEOREM StartedOnce == Spec => []StartsOnce
<1>1. IInv => StartsOnce
  BY DEF IInv, OneThread, StartsOnce
<1> QED
  BY <1>1, Invariance, PTL

\* A source left on an empty queue at the stop stays there
\* (TBBCameraSource.cc:35).
THEOREM StrandedStays == Spec => StrandedForever
<1>1. ASSUME IInv, [Next]_vars, NEW c \in Cameras, Stopped, Stranded(c)
      PROVE  (Stopped /\ Stranded(c))'
  <2>0. /\ architecture /\ cameraPc[c] = "idle" /\ queue[c] = 0 /\ source[c] = "pop"
        /\ mustTerminate /\ ~initialised /\ runPc \in {"loop", "wait", "done"}
    BY <1>1 DEF Stopped, Stranded, IInv, OneThread
  <2>1. CASE UNCHANGED vars
    BY <2>0, <2>1 DEF vars, lifeVars, Stopped, Stranded
  <2>2. CASE UiThread
    <3>1. CASE StartMAR
      BY <2>0, <3>1 DEF StartMAR, Stopped, Stranded
    <3>2. CASE SurfaceChanged \/ StartRefused \/ StopPreview
      <4>1. UNCHANGED <<mustTerminate, initialised, runPc, source, queue, cameraPc>>
        BY <3>2 DEF SurfaceChanged, StartRefused, StopPreview
      <4> QED
        BY <2>0, <4>1 DEF Stopped, Stranded
    <3>3. CASE StopMAR \/ ClearInitialised
      <4>1. UNCHANGED <<runPc, source, queue, cameraPc>>
        BY <3>3 DEF StopMAR, ClearInitialised
      <4>2. mustTerminate' /\ ~initialised'
        <5>1. CASE StopMAR
          BY <2>0, <5>1 DEF StopMAR
        <5>2. CASE ClearInitialised
          BY <2>0, <5>2 DEF ClearInitialised
        <5> QED
          BY <3>3, <5>1, <5>2
      <4> QED
        BY <2>0, <4>1, <4>2 DEF Stopped, Stranded
    <3>4. CASE DestroyArchitecture
      BY <2>0, <3>4 DEF DestroyArchitecture, lifeVars, Stopped, Stranded
    <3> QED
      BY <2>2, <3>1, <3>2, <3>3, <3>4 DEF UiThread
  <2>3. CASE RunThread
    <3>1. CASE SetUp \/ RaiseInitialised \/ Activate
      BY <2>0, <3>1 DEF SetUp, RaiseInitialised, Activate
    <3>2. CASE LeaveLoop
      BY <2>0, <3>2 DEF LeaveLoop, Stopped, Stranded
    <3>3. CASE WaitForAll
      BY <2>0, <3>3 DEF WaitForAll, Stopped, Stranded
    <3> QED
      BY <2>3, <3>1, <3>2, <3>3 DEF RunThread
  <2>4. ASSUME NEW d \in Cameras, Source(d) \/ CameraThread(d)
        PROVE  (Stopped /\ Stranded(c))'
    <3>1. CASE Take(d)
      BY <2>0, <3>1, <1>1 DEF Take, Stopped, Stranded, IInv, TypeOK
    <3>2. CASE TestTerminate(d)
      BY <2>0, <3>2, <1>1 DEF TestTerminate, Stopped, Stranded, IInv, TypeOK
    <3>3. CASE FrameArrives(d)
      BY <2>0, <3>3 DEF FrameArrives
    <3>4. CASE Push(d)
      BY <2>0, <3>4, <1>1 DEF Push, Stopped, Stranded, IInv, TypeOK
    <3> QED
      BY <2>4, <3>1, <3>2, <3>3, <3>4 DEF Source, CameraThread
  <2> QED
    BY <1>1, <2>1, <2>2, <2>3, <2>4 DEF Next
<1>2. IInv /\ [Next]_vars => \A c \in Cameras : Stopped /\ Stranded(c) => (Stopped /\ Stranded(c))'
  BY <1>1
<1> QED
  BY <1>2, Invariance, PTL DEF Spec, StrandedForever

=============================================================================
