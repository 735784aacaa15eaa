------------------------- MODULE CameraSessionProofs -------------------------
(***************************************************************************)
(* Proofs about CameraSession for any number of cameras, attempts and      *)
(* starts: callbacks of two attempts never overlap, and a camera's         *)
(* semaphore is never lost.  The second is a matter of counting: a session *)
(* whose frames may still quit a handler thread has given back one permit  *)
(* more than it took.  Attempts then succeed each other on the camera's    *)
(* device; with one context a stop closes what its own attempt opened.     *)
(* The waits of stopPreview close no ring, and a camera without a result   *)
(* is owed one.                                                            *)
(***************************************************************************)
EXTENDS CameraSession, TLAPS

USE DEF uiVars, cameraVars, handlerVars, threadVars, messageVars, serviceVars, marVars, asyncVars,
        vars

-----------------------------------------------------------------------------
(* Inboxes as sets of callbacks.                                           *)

Callbacks(s) == {s[i] : i \in 1 .. Len(s)}

Answers == {"configured", "refused"}

\* At most one callback of E.
Once(s, E) == \A i, j \in 1 .. Len(s) : s[i] \in E /\ s[j] \in E => i = j

\* An empty inbox holds no callback.
LEMMA CallbacksEmpty ==
    Callbacks(<<>>) = {} /\ \A E : Once(<<>>, E)
BY DEF Callbacks, Once

\* A callback that arrives is added to those in the inbox.
LEMMA CallbacksAppend ==
    ASSUME NEW s \in Seq(Events), NEW e \in Events
    PROVE  /\ Append(s, e) \in Seq(Events)
           /\ Callbacks(Append(s, e)) = Callbacks(s) \cup {e}
           /\ \A E : Once(s, E) /\ (e \in E => Callbacks(s) \cap E = {}) => Once(Append(s, e), E)
<1>1. Append(s, e) \in Seq(Events) /\ Len(Append(s, e)) = Len(s) + 1
  OBVIOUS
<1>2. \A i \in 1 .. Len(s) + 1 : Append(s, e)[i] = IF i = Len(s) + 1 THEN e ELSE s[i]
  OBVIOUS
<1>3. Len(s) \in Nat
  OBVIOUS
<1>4. Callbacks(Append(s, e)) = Callbacks(s) \cup {e}
  BY <1>1, <1>2, <1>3 DEF Callbacks
<1>5. ASSUME NEW E, Once(s, E), e \in E => Callbacks(s) \cap E = {}
      PROVE  Once(Append(s, e), E)
  BY <1>1, <1>2, <1>3, <1>5 DEF Callbacks, Once
<1>. QED BY <1>1, <1>4, <1>5

\* Taking the first callback leaves the others.
LEMMA CallbacksTail ==
    ASSUME NEW s \in Seq(Events), s # <<>>
    PROVE  /\ Tail(s) \in Seq(Events)
           /\ Head(s) \in Callbacks(s)
           /\ Callbacks(s) = Callbacks(Tail(s)) \cup {Head(s)}
           /\ \A E : Once(s, E) => /\ Once(Tail(s), E)
                                   /\ Head(s) \in E => Callbacks(Tail(s)) \cap E = {}
<1>1. Tail(s) \in Seq(Events) /\ Len(s) \in Nat \ {0} /\ Len(Tail(s)) = Len(s) - 1
  OBVIOUS
<1>2. \A i \in 1 .. Len(s) - 1 : Tail(s)[i] = s[i + 1]
  OBVIOUS
<1>3. Head(s) = s[1]
  OBVIOUS
<1>4. Head(s) \in Callbacks(s)
  BY <1>1, <1>3 DEF Callbacks
<1>5. Callbacks(s) = Callbacks(Tail(s)) \cup {Head(s)}
  <2>1. \A i \in 1 .. Len(s) : i = 1 \/ i - 1 \in 1 .. Len(s) - 1
    BY <1>1
  <2>3. \A i \in 1 .. Len(s) : i = 1 \/ s[i] = Tail(s)[i - 1]
    <3>1. \A i \in 1 .. Len(s) : i - 1 \in 1 .. Len(s) - 1 => Tail(s)[i - 1] = s[(i - 1) + 1]
      BY <1>2
    <3>. QED BY <1>1, <2>1, <3>1
  <2>2. \A i \in 1 .. Len(s) - 1 : i + 1 \in 1 .. Len(s)
    BY <1>1
  <2>. QED BY <1>1, <1>2, <1>3, <2>1, <2>2, <2>3 DEF Callbacks
<1>6. ASSUME NEW E, Once(s, E)
      PROVE  Once(Tail(s), E) /\ (Head(s) \in E => Callbacks(Tail(s)) \cap E = {})
  <2>1. \A i \in 1 .. Len(s) - 1 : i + 1 \in 1 .. Len(s) /\ i + 1 # 1
    BY <1>1
  <2>2. Once(Tail(s), E)
    BY <1>1, <1>2, <1>6, <2>1 DEF Once
  <2>3. ASSUME Head(s) \in E, NEW i \in 1 .. Len(s) - 1, Tail(s)[i] \in E
        PROVE  FALSE
    BY <1>1, <1>2, <1>3, <1>6, <2>1, <2>3 DEF Once
  <2>. QED BY <1>1, <2>2, <2>3 DEF Callbacks
<1>. QED BY <1>1, <1>4, <1>5, <1>6

-----------------------------------------------------------------------------
(* The inductive invariant.                                                *)

Running(c, k) == tState[c][k] \in {"live", "quit"}

\* Only the latest attempt has a thread that runs; what is to come is untouched.
Order(c, k) ==
    /\ k > thread[c] => tState[c][k] = "none" /\ dev[c][k] = "none" /\ sess[c][k] = "none"
    /\ k < thread[c] => tState[c][k] = "ended"
    /\ ~Running(c, k) => tPc[c][k] = "loop" /\ inbox[c][k] = <<>>

\* While a camera is being opened the thread of the attempt before is ending.
Replaces(c) ==
    Opening(c) => thread[c] < MaxAttempts /\ (thread[c] # 0 => tState[c][thread[c]] # "live")

\* How far attempt k of camera c is, as its session tells, and the callbacks
\* that may still be in its inbox.
Phase(c, k) ==
    /\ dev[c][k] \in {"none", "opening"}
          => inbox[c][k] = <<>> /\ tPc[c][k] = "loop" /\ sess[c][k] = "none"
    /\ Once(inbox[c][k], {"opened"}) /\ Once(inbox[c][k], Answers)
    /\ sess[c][k] = "none" => /\ Callbacks(inbox[c][k]) \subseteq {"opened", "lost"}
                              /\ tPc[c][k] \in {"loop", "create", "createFailed"}
    /\ tPc[c][k] \in {"create", "createFailed"} => sess[c][k] = "none"
    /\ sess[c][k] = "requested" => Callbacks(inbox[c][k]) \subseteq {"lost"} /\ tPc[c][k] = "loop"
    /\ sess[c][k] = "answered" => /\ Callbacks(inbox[c][k]) \subseteq {"lost"} \cup Answers
                                  /\ tPc[c][k] \in {"loop", "repeat", "sessionFailed"}
    /\ sess[c][k] \in {"repeating", "closed"} => Callbacks(inbox[c][k]) \subseteq {"lost"}
    /\ sess[c][k] = "repeating" => tPc[c][k] \in {"loop", "report", "finish", "close"}
    /\ tPc[c][k] \in {"create", "createFailed", "repeat", "sessionFailed"}
          => Callbacks(inbox[c][k]) \subseteq {"lost"}
    /\ sess[c][k] = "repeating" /\ tPc[c][k] # "report" => ready[c] # "absent"

\* The device a camera holds has opened, the session it holds has had its answer.
Holds(c) ==
    /\ device[c] # 0 => dev[c][device[c]] \in {"open", "gone"}
    /\ session[c] # 0 => /\ sess[c][session[c]] \in {"answered", "repeating", "closed"}
                         /\ Callbacks(inbox[c][session[c]]) \subseteq {"lost"}

Starting(c) == uiCam = c /\ uiPc \in {"begin", "acquire", "open"}

\* A device that has opened has given its permit back, a session that has
\* reported another one; an older session that still runs means that the UI
\* thread is not about to open the camera again.
Count(c, k) ==
    /\ Running(c, k) /\ (tPc[c][k] # "loop" \/ sess[c][k] # "none")
          => permits[c] >= 1 \/ Opening(c)
    /\ sess[c][k] = "repeating" /\ tPc[c][k] \in {"loop", "close"} =>
          permits[c] >= 2 \/ (permits[c] >= 1 /\ (Opening(c) \/ k < thread[c]))
    /\ sess[c][k] = "repeating" /\ k < thread[c] => ~Starting(c)

\* WillRelease, by the set of callbacks.
Releasing(c, k) ==
    \/ dev[c][k] = "opening" /\ tState[c][k] = "live"
    \/ Callbacks(inbox[c][k]) \cap {"opened", "lost"} # {}

Semaphore(c) == permits[c] = 0 => Opening(c) \/ \E k \in Attempts : Releasing(c, k)

Orders     == \A c \in Cameras, k \in Attempts : Order(c, k)
Replacing  == \A c \in Cameras : Replaces(c)
Phases     == \A c \in Cameras, k \in Attempts : Phase(c, k)
Holding    == \A c \in Cameras : Holds(c)
Counts     == \A c \in Cameras, k \in Attempts : Count(c, k)
Semaphores == \A c \in Cameras : Semaphore(c)

Safe == Orders /\ Replacing /\ Phases /\ Holding /\ Counts /\ Semaphores

IInv == TypeOK /\ Safe

-----------------------------------------------------------------------------
\* The number of an attempt that was made is one of Attempts.
LEMMA AttemptNumber ==
    ASSUME NEW n \in 0 .. MaxAttempts, n # 0
    PROVE  n \in Attempts
BY SessionAssumption DEF Attempts

\* What Receive and Post do to the inbox of their own thread.
LEMMA InboxReceive ==
    ASSUME ThreadTypes, NEW c \in Cameras, NEW k \in Attempts, NEW e, Receive(c, k, e)
    PROVE  /\ inbox' \in [Cameras -> [Attempts -> Seq(Events)]]
           /\ inbox' = [inbox EXCEPT ![c][k] = Tail(inbox[c][k])]
           /\ Callbacks(inbox[c][k]) = Callbacks(inbox'[c][k]) \cup {e}
           /\ \A E : Once(inbox[c][k], E) =>
                 Once(inbox'[c][k], E) /\ (e \in E => Callbacks(inbox'[c][k]) \cap E = {})
           /\ Once(inbox[c][k], {e}) => e \notin Callbacks(inbox'[c][k])
           /\ tState[c][k] \in {"live", "quit"} /\ tPc[c][k] = "loop" /\ inbox[c][k] # <<>>
<1>. DEFINE s == inbox[c][k]
<1>1. s \in Seq(Events) /\ s # <<>> /\ Head(s) = e
  BY DEF ThreadTypes, Receive
<1>2. inbox' = [inbox EXCEPT ![c][k] = Tail(s)]
  BY DEF Receive
<1>3. inbox'[c][k] = Tail(s) /\ Tail(s) \in Seq(Events)
  <2>. HIDE DEF s
  <2>1. Tail(s) \in Seq(Events)
    BY <1>1, CallbacksTail
  <2>. QED BY <1>2, <2>1 DEF ThreadTypes
<1>4. inbox' \in [Cameras -> [Attempts -> Seq(Events)]]
  <2>. HIDE DEF s
  <2>. QED BY <1>2, <1>3 DEF ThreadTypes
<1>5. tState[c][k] \in {"live", "quit"} /\ tPc[c][k] = "loop" /\ inbox[c][k] # <<>>
  BY DEF Receive
<1>. HIDE DEF s
<1>6. /\ Callbacks(s) = Callbacks(Tail(s)) \cup {e}
      /\ \A E : Once(s, E) =>
            Once(Tail(s), E) /\ (e \in E => Callbacks(Tail(s)) \cap E = {})
  BY <1>1, CallbacksTail
<1>7. Once(s, {e}) => Callbacks(Tail(s)) \cap {e} = {}
  <2>1. e \in {e}
    OBVIOUS
  <2>. QED BY <1>6, <2>1
<1>. QED BY <1>2, <1>3, <1>4, <1>5, <1>6, <1>7 DEF s

\* Post adds the event to the inbox of a live thread.
LEMMA InboxPost ==
    ASSUME ThreadTypes, NEW c \in Cameras, NEW k \in Attempts, NEW e \in Events, Post(c, k, e)
    PROVE  /\ inbox' \in [Cameras -> [Attempts -> Seq(Events)]]
           /\ tState[c][k] # "live" => inbox' = inbox
           /\ tState[c][k] = "live" =>
                 /\ inbox' = [inbox EXCEPT ![c][k] = Append(inbox[c][k], e)]
                 /\ Callbacks(inbox'[c][k]) = Callbacks(inbox[c][k]) \cup {e}
                 /\ \A E : Once(inbox[c][k], E) /\ (e \in E => Callbacks(inbox[c][k]) \cap E = {})
                              => Once(inbox'[c][k], E)
<1>. DEFINE s == inbox[c][k]
<1>1. s \in Seq(Events)
  BY DEF ThreadTypes
<1>2. CASE tState[c][k] # "live"
  BY <1>2 DEF Post, ThreadTypes
<1>3. CASE tState[c][k] = "live"
  <2>1. inbox' = [inbox EXCEPT ![c][k] = Append(s, e)]
    BY <1>3 DEF Post
  <2>. HIDE DEF s
  <2>2. /\ Append(s, e) \in Seq(Events)
        /\ Callbacks(Append(s, e)) = Callbacks(s) \cup {e}
        /\ \A E : Once(s, E) /\ (e \in E => Callbacks(s) \cap E = {}) => Once(Append(s, e), E)
    BY <1>1, CallbacksAppend
  <2>3. inbox'[c][k] = Append(s, e) /\ inbox' \in [Cameras -> [Attempts -> Seq(Events)]]
    BY <2>1, <2>2 DEF ThreadTypes
  <2>. QED BY <1>3, <2>1, <2>2, <2>3 DEF s
<1>. QED BY <1>2, <1>3

\* No inbox has more callbacks after a callback was taken.
LEMMA ReceiveTakes ==
    ASSUME ThreadTypes, NEW c \in Cameras, NEW k \in Attempts, NEW e, Receive(c, k, e)
    PROVE  \A d \in Cameras, j \in Attempts :
              Callbacks(inbox'[d][j]) \subseteq Callbacks(inbox[d][j])
<1>1. inbox' = [inbox EXCEPT ![c][k] = Tail(inbox[c][k])]
  BY DEF Receive
<1>2. Callbacks(inbox[c][k]) = Callbacks(inbox'[c][k]) \cup {e}
  BY InboxReceive
<1>3. \A d \in Cameras, j \in Attempts : d # c \/ j # k => inbox'[d][j] = inbox[d][j]
  BY <1>1 DEF ThreadTypes
<1>. QED BY <1>2, <1>3

\* Every step keeps UiTypes.
LEMMA UiTypesStep ==
    ASSUME IInv, [Next]_vars
    PROVE  UiTypes'
<1>. USE SessionAssumption DEF IInv, TypeOK, UiTypes
<1>1. CASE SurfaceChanged
  BY <1>1 DEF SurfaceChanged
<1>2. CASE WaitTimeout
  BY <1>2 DEF WaitTimeout
<1>3. CASE StartsDone
  BY <1>3 DEF StartsDone
<1>4. CASE WaitReturn
  BY <1>4 DEF WaitReturn
<1>5. CASE StopDestroy
  BY <1>5 DEF StopDestroy, DestroyContext
<1>6. CASE StopPreview \/ StartBegin \/ Acquire \/ AcquireTimeout \/ StartOpen \/
         StartOpenThrows \/ StopReturn
  BY <1>6 DEF StopPreview, StartBegin, Acquire, Quit, Available, AcquireTimeout,
     StartOpen, Joined, StartOpenThrows, Release, StopReturn
<1>7. ASSUME NEW c \in Cameras, SkipCamera(c) \/ TakeCamera(c) \/ FrameJoined(c) \/
        FrameInterrupted(c) \/ FrameCloses(c)
     PROVE  UiTypes'
  BY <1>7 DEF SkipCamera, NextCamera, TakeCamera, FrameJoined, Joined,
     FrameInterrupted, FrameCloses, CloseCamera, CloseSession, AbortThrows
<1>8. ASSUME NEW c \in Cameras, NEW k \in Attempts, CreateFails(c, k) PROVE UiTypes'
  BY <1>8 DEF CreateFails, Goto, ReportFailure
<1>9. ASSUME NEW c \in Cameras, NEW k \in Attempts, RepeatFails(c, k) PROVE UiTypes'
  BY <1>9 DEF RepeatFails, ReportFailure, Goto
<1>10. ASSUME NEW c \in Cameras, NEW k \in Attempts, ReportSuccess(c, k) PROVE UiTypes'
  BY <1>10 DEF ReportSuccess, Goto
<1>11. ASSUME NEW c \in Cameras, NEW k \in Attempts, OnConfigureFailed(c, k) PROVE UiTypes'
  BY <1>11 DEF OnConfigureFailed, ReportFailure, Goto
<1>12. ASSUME NEW c \in Cameras, NEW k \in Attempts, FailureDestroy(c, k) PROVE UiTypes'
  BY <1>12 DEF FailureDestroy, DestroyContext
<1>13. ASSUME NEW c \in Cameras, NEW k \in Attempts, FrameStops(c, k) \/ ImageStops(c,
        k) \/ OnOpened(c, k) \/ OnLost(c, k) \/ CreateSession(c, k) \/
        OnConfigured(c, k) \/ StartRepeating(c, k) \/ FinishSuccess(c, k) \/
        FailureReturn(c, k) \/ ThreadEnds(c, k) \/ ImageCloses(c, k) \/
        ServiceOpens(c, k) \/ ServiceLoses(c, k) \/ ServiceAnswers(c, k)
     PROVE  UiTypes'
  BY <1>13 DEF FrameStops, Streaming, Quit, ImageStops, Goto, OnOpened, Release,
     OnLost, CreateSession, Usable, OnConfigured, StartRepeating,
     FinishSuccess, FailureReturn, ThreadEnds, ImageCloses, CloseCamera,
     CloseSession, AbortThrows, ServiceOpens, Evicted, ServiceLoses,
     ServiceAnswers
<1>14. CASE UNCHANGED vars
  BY <1>14
<1>. QED
  BY <1>1, <1>2, <1>3, <1>4, <1>5, <1>6, <1>7, <1>8, <1>9, <1>10, <1>11, <1>12,
     <1>13, <1>14
     DEF Next, UIRuns, MessageThread, HandlerThread, Service

\* Every step keeps FlagTypes.
LEMMA FlagTypesStep ==
    ASSUME IInv, [Next]_vars
    PROVE  FlagTypes'
<1>. USE SessionAssumption DEF IInv, TypeOK, UiTypes, FlagTypes
<1>1. CASE StopPreview
  BY <1>1 DEF StopPreview
<1>2. CASE StartBegin
  BY <1>2 DEF StartBegin
<1>3. CASE SurfaceChanged \/ WaitTimeout \/ Acquire \/ AcquireTimeout \/ StartOpen \/
         StartOpenThrows \/ StartsDone \/ WaitReturn \/ StopDestroy \/
         StopReturn
  BY <1>3 DEF SurfaceChanged, WaitTimeout, Acquire, Quit, Available,
     AcquireTimeout, StartOpen, Joined, StartOpenThrows, Release, StartsDone,
     WaitReturn, StopDestroy, DestroyContext, StopReturn
<1>4. ASSUME NEW c \in Cameras, FrameCloses(c) PROVE FlagTypes'
  BY <1>4 DEF FrameCloses, CloseCamera, CloseSession, AbortThrows
<1>5. ASSUME NEW c \in Cameras, SkipCamera(c) \/ TakeCamera(c) \/ FrameJoined(c) \/
        FrameInterrupted(c)
     PROVE  FlagTypes'
  BY <1>5 DEF SkipCamera, NextCamera, TakeCamera, FrameJoined, Joined,
     FrameInterrupted
<1>6. ASSUME NEW c \in Cameras, NEW k \in Attempts, CreateSession(c, k) PROVE FlagTypes'
  BY <1>6 DEF CreateSession, Goto, Usable
<1>7. ASSUME NEW c \in Cameras, NEW k \in Attempts, CreateFails(c, k) PROVE FlagTypes'
  BY <1>7 DEF CreateFails, Goto, ReportFailure
<1>8. ASSUME NEW c \in Cameras, NEW k \in Attempts, RepeatFails(c, k) PROVE FlagTypes'
  BY <1>8 DEF RepeatFails, ReportFailure, Goto
<1>9. ASSUME NEW c \in Cameras, NEW k \in Attempts, FinishSuccess(c, k) PROVE FlagTypes'
  BY <1>9 DEF FinishSuccess, Goto, Release
<1>10. ASSUME NEW c \in Cameras, NEW k \in Attempts, OnConfigureFailed(c, k) PROVE FlagTypes'
  BY <1>10 DEF OnConfigureFailed, ReportFailure, Goto
<1>11. ASSUME NEW c \in Cameras, NEW k \in Attempts, FailureReturn(c, k) PROVE FlagTypes'
  BY <1>11 DEF FailureReturn, Goto
<1>12. ASSUME NEW c \in Cameras, NEW k \in Attempts, ImageCloses(c, k) PROVE FlagTypes'
  BY <1>12 DEF ImageCloses, CloseCamera, CloseSession, AbortThrows, Goto
<1>13. ASSUME NEW c \in Cameras, NEW k \in Attempts, FrameStops(c, k) \/ ImageStops(c,
        k) \/ OnOpened(c, k) \/ OnLost(c, k) \/ OnConfigured(c, k) \/
        StartRepeating(c, k) \/ ReportSuccess(c, k) \/ FailureDestroy(c, k) \/
        ThreadEnds(c, k) \/ ServiceOpens(c, k) \/ ServiceLoses(c, k) \/
        ServiceAnswers(c, k)
     PROVE  FlagTypes'
  BY <1>13 DEF FrameStops, Streaming, Quit, ImageStops, Goto, OnOpened, Release,
     OnLost, OnConfigured, StartRepeating, Usable, ReportSuccess,
     FailureDestroy, DestroyContext, ThreadEnds, ServiceOpens, Evicted,
     ServiceLoses, ServiceAnswers
<1>14. CASE UNCHANGED vars
  BY <1>14
<1>. QED
  BY <1>1, <1>2, <1>3, <1>4, <1>5, <1>6, <1>7, <1>8, <1>9, <1>10, <1>11, <1>12,
     <1>13, <1>14
     DEF Next, UIRuns, MessageThread, HandlerThread, Service

\* Every step keeps CameraTypes.
LEMMA CameraTypesStep ==
    ASSUME IInv, [Next]_vars
    PROVE  CameraTypes'
<1>. USE SessionAssumption DEF IInv, TypeOK, UiTypes, CameraTypes, Attempts
<1>1. CASE Acquire
  BY <1>1 DEF Acquire, Quit, Available
<1>2. CASE StartOpen
  BY <1>2 DEF StartOpen, Safe, Replacing, Replaces, Opening
<1>3. CASE StartOpenThrows
  <2>1. thread[uiCam] + 1 \in 0 .. MaxAttempts
    BY <1>3 DEF StartOpenThrows, Safe, Replacing, Replaces, Opening
  <2>2. permits[uiCam] + 1 \in Nat
    OBVIOUS
  <2>. QED BY <1>3, <2>1, <2>2 DEF StartOpenThrows, Release
<1>4. CASE SurfaceChanged \/ StopPreview \/ WaitTimeout \/ StartBegin \/
         AcquireTimeout \/ StartsDone \/ WaitReturn \/ StopDestroy \/
         StopReturn
  BY <1>4 DEF SurfaceChanged, StopPreview, WaitTimeout, StartBegin,
     AcquireTimeout, StartsDone, WaitReturn, StopDestroy, DestroyContext,
     StopReturn
<1>5. ASSUME NEW c \in Cameras, FrameCloses(c) PROVE CameraTypes'
  BY <1>5 DEF FrameCloses, CloseCamera, CloseSession, AbortThrows
<1>6. ASSUME NEW c \in Cameras, SkipCamera(c) \/ TakeCamera(c) \/ FrameJoined(c) \/
        FrameInterrupted(c)
     PROVE  CameraTypes'
  BY <1>6 DEF SkipCamera, NextCamera, TakeCamera, FrameJoined, Joined,
     FrameInterrupted
<1>7. ASSUME NEW c \in Cameras, NEW k \in Attempts, OnOpened(c, k) PROVE CameraTypes'
  BY <1>7 DEF OnOpened, Release, Goto
<1>8. ASSUME NEW c \in Cameras, NEW k \in Attempts, OnLost(c, k) PROVE CameraTypes'
  BY <1>8 DEF OnLost, Release
<1>9. ASSUME NEW c \in Cameras, NEW k \in Attempts, CreateSession(c, k) PROVE CameraTypes'
  BY <1>9 DEF CreateSession, Goto, Usable
<1>10. ASSUME NEW c \in Cameras, NEW k \in Attempts, OnConfigured(c, k) PROVE CameraTypes'
  BY <1>10 DEF OnConfigured, Goto
<1>11. ASSUME NEW c \in Cameras, NEW k \in Attempts, FinishSuccess(c, k) PROVE CameraTypes'
  BY <1>11 DEF FinishSuccess, Goto, Release
<1>12. ASSUME NEW c \in Cameras, NEW k \in Attempts, FailureReturn(c, k) PROVE CameraTypes'
  BY <1>12 DEF FailureReturn, Goto
<1>13. ASSUME NEW c \in Cameras, NEW k \in Attempts, ImageCloses(c, k) PROVE CameraTypes'
  BY <1>13 DEF ImageCloses, CloseCamera, CloseSession, AbortThrows, Goto
<1>14. ASSUME NEW c \in Cameras, NEW k \in Attempts, FrameStops(c, k) \/ ImageStops(c,
        k) \/ CreateFails(c, k) \/ StartRepeating(c, k) \/ RepeatFails(c, k) \/
        ReportSuccess(c, k) \/ OnConfigureFailed(c, k) \/ FailureDestroy(c, k)
        \/ ThreadEnds(c, k) \/ ServiceOpens(c, k) \/ ServiceLoses(c, k) \/
        ServiceAnswers(c, k)
     PROVE  CameraTypes'
  BY <1>14 DEF FrameStops, Streaming, Quit, ImageStops, Goto, CreateFails,
     ReportFailure, StartRepeating, Usable, RepeatFails, ReportSuccess,
     OnConfigureFailed, FailureDestroy, DestroyContext, ThreadEnds,
     ServiceOpens, Evicted, ServiceLoses, ServiceAnswers
<1>15. CASE UNCHANGED vars
  BY <1>15
<1>. QED
  BY <1>1, <1>2, <1>3, <1>4, <1>5, <1>6, <1>7, <1>8, <1>9, <1>10, <1>11, <1>12,
     <1>13, <1>14, <1>15
     DEF Next, UIRuns, MessageThread, HandlerThread, Service

\* Every step keeps ThreadTypes.
LEMMA ThreadTypesStep ==
    ASSUME IInv, [Next]_vars
    PROVE  ThreadTypes'
<1>. USE SessionAssumption DEF IInv, TypeOK, UiTypes, CameraTypes, ThreadTypes,
     Attempts, HandlerPcs
<1>1. CASE Acquire
  BY <1>1 DEF Acquire, Quit, Available
<1>2. CASE StartOpen
  BY <1>2 DEF StartOpen, Joined
<1>3. CASE StartOpenThrows
  BY <1>3 DEF StartOpenThrows, Joined, Release
<1>4. CASE SurfaceChanged \/ StopPreview \/ WaitTimeout \/ StartBegin \/
         AcquireTimeout \/ StartsDone \/ WaitReturn \/ StopDestroy \/
         StopReturn
  BY <1>4 DEF SurfaceChanged, StopPreview, WaitTimeout, StartBegin,
     AcquireTimeout, StartsDone, WaitReturn, StopDestroy, DestroyContext,
     StopReturn
<1>5. ASSUME NEW c \in Cameras, SkipCamera(c) \/ TakeCamera(c) \/ FrameJoined(c) \/
        FrameInterrupted(c) \/ FrameCloses(c)
     PROVE  ThreadTypes'
  BY <1>5 DEF SkipCamera, NextCamera, TakeCamera, FrameJoined, Joined,
     FrameInterrupted, FrameCloses, CloseCamera, CloseSession, AbortThrows
<1>6. ASSUME NEW c \in Cameras, NEW k \in Attempts, FrameStops(c, k) PROVE ThreadTypes'
  BY <1>6 DEF FrameStops, Streaming, Quit
<1>7. ASSUME NEW c \in Cameras, NEW k \in Attempts, ImageStops(c, k) PROVE ThreadTypes'
  BY <1>7 DEF ImageStops, Streaming, Quit, Goto
<1>8. ASSUME NEW c \in Cameras, NEW k \in Attempts, OnOpened(c, k) PROVE ThreadTypes'
  <2>1. inbox' \in [Cameras -> [Attempts -> Seq(Events)]]
    BY <1>8, InboxReceive DEF OnOpened
  <2>2. (tState \in [Cameras -> [Attempts -> {"none", "live", "quit", "ended"}]])'
        /\ (tPc \in [Cameras -> [Attempts -> HandlerPcs]])'
    BY <1>8 DEF OnOpened, Release, Goto
  <2>. QED BY <2>1, <2>2
<1>9. ASSUME NEW c \in Cameras, NEW k \in Attempts, OnLost(c, k) PROVE ThreadTypes'
  <2>1. inbox' \in [Cameras -> [Attempts -> Seq(Events)]]
    BY <1>9, InboxReceive DEF OnLost
  <2>2. (tState \in [Cameras -> [Attempts -> {"none", "live", "quit", "ended"}]])'
        /\ (tPc \in [Cameras -> [Attempts -> HandlerPcs]])'
    BY <1>9 DEF OnLost, Release
  <2>. QED BY <2>1, <2>2
<1>10. ASSUME NEW c \in Cameras, NEW k \in Attempts, CreateSession(c, k) PROVE ThreadTypes'
  BY <1>10 DEF CreateSession, Goto, Usable
<1>11. ASSUME NEW c \in Cameras, NEW k \in Attempts, CreateFails(c, k) PROVE ThreadTypes'
  <2>1. UNCHANGED <<tState, inbox>>
    BY <1>11 DEF CreateFails
  <2>2. CASE device[c] = 0
    <3>1. tPc' = [tPc EXCEPT ![c][k] = "loop"]
      BY <1>11, <2>2 DEF CreateFails, Goto
    <3>. QED BY <2>1, <3>1
  <2>3. CASE device[c] # 0
    <3>1. tPc' = [tPc EXCEPT ![c][k] = "createFailed"]
      BY <1>11, <2>3 DEF CreateFails, Goto, ReportFailure
    <3>. QED BY <2>1, <3>1
  <2>. QED BY <2>2, <2>3
<1>12. ASSUME NEW c \in Cameras, NEW k \in Attempts, OnConfigured(c, k) PROVE ThreadTypes'
  <2>1. inbox' \in [Cameras -> [Attempts -> Seq(Events)]]
    BY <1>12, InboxReceive DEF OnConfigured
  <2>2. (tState \in [Cameras -> [Attempts -> {"none", "live", "quit", "ended"}]])'
        /\ (tPc \in [Cameras -> [Attempts -> HandlerPcs]])'
    BY <1>12 DEF OnConfigured, Goto
  <2>. QED BY <2>1, <2>2
<1>13. ASSUME NEW c \in Cameras, NEW k \in Attempts, StartRepeating(c, k) PROVE ThreadTypes'
  BY <1>13 DEF StartRepeating, Goto, Usable
<1>14. ASSUME NEW c \in Cameras, NEW k \in Attempts, RepeatFails(c, k) PROVE ThreadTypes'
  BY <1>14 DEF RepeatFails, ReportFailure, Goto
<1>15. ASSUME NEW c \in Cameras, NEW k \in Attempts, ReportSuccess(c, k) PROVE ThreadTypes'
  BY <1>15 DEF ReportSuccess, Goto
<1>16. ASSUME NEW c \in Cameras, NEW k \in Attempts, FinishSuccess(c, k) PROVE ThreadTypes'
  BY <1>16 DEF FinishSuccess, Goto, Release
<1>17. ASSUME NEW c \in Cameras, NEW k \in Attempts, OnConfigureFailed(c, k) PROVE ThreadTypes'
  <2>1. inbox' \in [Cameras -> [Attempts -> Seq(Events)]]
    BY <1>17, InboxReceive DEF OnConfigureFailed
  <2>2. (tState \in [Cameras -> [Attempts -> {"none", "live", "quit", "ended"}]])'
        /\ (tPc \in [Cameras -> [Attempts -> HandlerPcs]])'
    BY <1>17 DEF OnConfigureFailed, ReportFailure, Goto
  <2>. QED BY <2>1, <2>2
<1>18. ASSUME NEW c \in Cameras, NEW k \in Attempts, FailureReturn(c, k) PROVE ThreadTypes'
  BY <1>18 DEF FailureReturn, Goto
<1>19. ASSUME NEW c \in Cameras, NEW k \in Attempts, ThreadEnds(c, k) PROVE ThreadTypes'
  BY <1>19 DEF ThreadEnds
<1>20. ASSUME NEW c \in Cameras, NEW k \in Attempts, ImageCloses(c, k) PROVE ThreadTypes'
  BY <1>20 DEF ImageCloses, CloseCamera, CloseSession, AbortThrows, Goto
<1>21. ASSUME NEW c \in Cameras, NEW k \in Attempts, ServiceOpens(c, k) PROVE ThreadTypes'
  <2>1. "opened" \in Events /\ "lost" \in Events
    BY DEF Events
  <2>2. \A s \in Seq(Events), e \in Events : Append(s, e) \in Seq(Events)
    BY CallbacksAppend
  <2>3. \A j \in Attempts : inbox[c][j] \in Seq(Events)
    OBVIOUS
  <2>4. \A j \in Attempts : /\ Append(inbox[c][j], "opened") \in Seq(Events)
                            /\ Append(inbox[c][j], "lost") \in Seq(Events)
    BY <2>1, <2>2, <2>3
  <2>5. inbox' \in [Cameras -> [Attempts -> Seq(Events)]]
    BY <1>21, <2>3, <2>4 DEF ServiceOpens
  <2>. QED BY <1>21, <2>5 DEF ServiceOpens
<1>22. ASSUME NEW c \in Cameras, NEW k \in Attempts, ServiceLoses(c, k) PROVE ThreadTypes'
  <2>1. inbox' \in [Cameras -> [Attempts -> Seq(Events)]]
    BY <1>22, InboxPost DEF ServiceLoses, Events
  <2>. QED BY <1>22, <2>1 DEF ServiceLoses
<1>23. ASSUME NEW c \in Cameras, NEW k \in Attempts, ServiceAnswers(c, k) PROVE ThreadTypes'
  <2>. PICK answer \in {"configured", "refused"} : Post(c, k, answer)
    BY <1>23 DEF ServiceAnswers
  <2>2. answer \in Events
    BY DEF Events
  <2>3. ThreadTypes
    OBVIOUS
  <2>1. inbox' \in [Cameras -> [Attempts -> Seq(Events)]]
    <3>. HIDE DEF ThreadTypes
    <3>. QED BY <2>2, <2>3, InboxPost
  <2>. QED BY <1>23, <2>1 DEF ServiceAnswers
<1>24. ASSUME NEW c \in Cameras, NEW k \in Attempts, FailureDestroy(c, k)
     PROVE  ThreadTypes'
  BY <1>24 DEF FailureDestroy, DestroyContext
<1>25. CASE UNCHANGED vars
  BY <1>25
<1>. QED
  BY <1>1, <1>2, <1>3, <1>4, <1>5, <1>6, <1>7, <1>8, <1>9, <1>10, <1>11, <1>12,
     <1>13, <1>14, <1>15, <1>16, <1>17, <1>18, <1>19, <1>20, <1>21, <1>22,
     <1>23, <1>24, <1>25
     DEF Next, UIRuns, MessageThread, HandlerThread, Service

\* Every step keeps ServiceTypes.
LEMMA ServiceTypesStep ==
    ASSUME IInv, [Next]_vars
    PROVE  ServiceTypes'
<1>. USE SessionAssumption DEF IInv, TypeOK, UiTypes, CameraTypes,
     ServiceTypes, Attempts
<1>1. CASE StartOpen
  BY <1>1 DEF StartOpen, Joined
<1>2. CASE SurfaceChanged \/ StopPreview \/ WaitTimeout \/ StartBegin \/ Acquire \/
         AcquireTimeout \/ StartOpenThrows \/ StartsDone \/ WaitReturn \/
         StopDestroy \/ StopReturn
  BY <1>2 DEF SurfaceChanged, StopPreview, WaitTimeout, StartBegin, Acquire, Quit,
     Available, AcquireTimeout, StartOpenThrows, Joined, Release, StartsDone,
     WaitReturn, StopDestroy, DestroyContext, StopReturn
<1>3. ASSUME NEW c \in Cameras, FrameJoined(c) PROVE ServiceTypes'
  BY <1>3 DEF FrameJoined, Joined
<1>4. ASSUME NEW c \in Cameras, FrameInterrupted(c) PROVE ServiceTypes'
  BY <1>4 DEF FrameInterrupted
<1>5. ASSUME NEW c \in Cameras, FrameCloses(c) PROVE ServiceTypes'
  <2>1. CASE AbortThrows(c)
    BY <1>5, <2>1 DEF AbortThrows, FrameCloses
  <2>2. CASE CloseCamera(c)
    <3>1. /\ device[c] # 0 => device[c] \in Attempts
          /\ session[c] # 0 => session[c] \in Attempts
      <4>1. device[c] \in 0 .. MaxAttempts /\ session[c] \in 0 .. MaxAttempts
        OBVIOUS
      <4>. QED BY <4>1, AttemptNumber
    <3>2. (dev \in [Cameras -> [Attempts -> {"none", "opening", "open", "gone"}]])'
      BY <2>2, <3>1 DEF CloseCamera
    <3>3. (sess \in [Cameras -> [Attempts -> {"none", "requested", "answered", "repeating", "closed"}]])'
      BY <2>2, <3>1 DEF CloseCamera, CloseSession
    <3>4. (mPc \in [Cameras -> {"idle", "join", "close"}])' 
          /\ (mAttempt \in [Cameras -> 0 .. MaxAttempts])'
          /\ (mThread \in [Cameras -> 0 .. MaxAttempts])'
      BY <1>5 DEF FrameCloses
    <3>. QED BY <3>2, <3>3, <3>4
  <2>. QED BY <1>5, <2>1, <2>2 DEF FrameCloses
<1>6. ASSUME NEW c \in Cameras, SkipCamera(c) \/ TakeCamera(c)
     PROVE  ServiceTypes'
  BY <1>6 DEF SkipCamera, NextCamera, TakeCamera
<1>7. ASSUME NEW c \in Cameras, NEW k \in Attempts, FrameStops(c, k) PROVE ServiceTypes'
  <2>1. k \in 0 .. MaxAttempts
    OBVIOUS
  <2>. QED BY <1>7, <2>1 DEF FrameStops
<1>8. ASSUME NEW c \in Cameras, NEW k \in Attempts, CreateSession(c, k) PROVE ServiceTypes'
  BY <1>8 DEF CreateSession, Goto, Usable
<1>9. ASSUME NEW c \in Cameras, NEW k \in Attempts, StartRepeating(c, k) PROVE ServiceTypes'
  BY <1>9 DEF StartRepeating, Goto, Usable
<1>10. ASSUME NEW c \in Cameras, NEW k \in Attempts, ImageCloses(c, k) PROVE ServiceTypes'
  <2>1. CASE AbortThrows(c)
    BY <1>10, <2>1 DEF AbortThrows, ImageCloses, Goto
  <2>2. CASE CloseCamera(c)
    <3>1. /\ device[c] # 0 => device[c] \in Attempts
          /\ session[c] # 0 => session[c] \in Attempts
      <4>1. device[c] \in 0 .. MaxAttempts /\ session[c] \in 0 .. MaxAttempts
        OBVIOUS
      <4>. QED BY <4>1, AttemptNumber
    <3>2. (dev \in [Cameras -> [Attempts -> {"none", "opening", "open", "gone"}]])'
      BY <2>2, <3>1 DEF CloseCamera
    <3>3. (sess \in [Cameras -> [Attempts -> {"none", "requested", "answered", "repeating", "closed"}]])'
      BY <2>2, <3>1 DEF CloseCamera, CloseSession
    <3>4. (mPc \in [Cameras -> {"idle", "join", "close"}])' 
          /\ (mAttempt \in [Cameras -> 0 .. MaxAttempts])'
          /\ (mThread \in [Cameras -> 0 .. MaxAttempts])'
      BY <1>10 DEF ImageCloses, Goto
    <3>. QED BY <3>2, <3>3, <3>4
  <2>. QED BY <1>10, <2>1, <2>2 DEF ImageCloses
<1>11. ASSUME NEW c \in Cameras, NEW k \in Attempts, ServiceOpens(c, k) PROVE ServiceTypes'
  BY SMTT(30), <1>11 DEF ServiceOpens, Evicted
<1>12. ASSUME NEW c \in Cameras, NEW k \in Attempts, ServiceLoses(c, k) PROVE ServiceTypes'
  BY <1>12 DEF ServiceLoses
<1>13. ASSUME NEW c \in Cameras, NEW k \in Attempts, ServiceAnswers(c, k) PROVE ServiceTypes'
  BY <1>13 DEF ServiceAnswers
<1>14. ASSUME NEW c \in Cameras, NEW k \in Attempts, ImageStops(c, k) \/ OnOpened(c,
        k) \/ OnLost(c, k) \/ CreateFails(c, k) \/ OnConfigured(c, k) \/
        RepeatFails(c, k) \/ ReportSuccess(c, k) \/ FinishSuccess(c, k) \/
        OnConfigureFailed(c, k) \/ FailureDestroy(c, k) \/ FailureReturn(c, k)
        \/ ThreadEnds(c, k)
     PROVE  ServiceTypes'
  BY <1>14 DEF ImageStops, Streaming, Quit, Goto, OnOpened, Release, OnLost,
     CreateFails, ReportFailure, OnConfigured, RepeatFails, ReportSuccess,
     FinishSuccess, OnConfigureFailed, FailureDestroy, DestroyContext,
     FailureReturn, ThreadEnds
<1>15. CASE UNCHANGED vars
  BY <1>15
<1>. QED
  BY <1>1, <1>2, <1>3, <1>4, <1>5, <1>6, <1>7, <1>8, <1>9, <1>10, <1>11, <1>12,
     <1>13, <1>14, <1>15
     DEF Next, UIRuns, MessageThread, HandlerThread, Service

\* OnOpened keeps the inductive invariant.
LEMMA OnOpenedPreserves ==
    ASSUME TypeOK, Safe, NEW c \in Cameras, NEW k \in Attempts, OnOpened(c, k)
    PROVE  Safe'
<1>. USE DEF TypeOK, Safe
<1>1. /\ \A d \in Cameras, j \in Attempts :
            tPc'[d][j] = IF d = c /\ j = k THEN "create" ELSE tPc[d][j]
      /\ \A d \in Cameras, j \in Attempts :
            inbox'[d][j] = IF d = c /\ j = k THEN Tail(inbox[c][k]) ELSE inbox[d][j]
      /\ \A d \in Cameras : permits'[d] = IF d = c THEN permits[d] + 1 ELSE permits[d]
      /\ \A d \in Cameras : device'[d] = IF d = c THEN k ELSE device[d]
  BY DEF OnOpened, Receive, Release, Goto, CameraTypes, ThreadTypes
<1>2. UNCHANGED <<uiPc, uiCam, thread, tState, dev, sess, ready, session>>
  BY DEF OnOpened, Receive, Release, Goto
<1>3. /\ Running(c, k) /\ tPc[c][k] = "loop" /\ inbox[c][k] # <<>>
      /\ Callbacks(inbox[c][k]) = Callbacks(inbox'[c][k]) \cup {"opened"}
      /\ Once(inbox'[c][k], {"opened"}) /\ Once(inbox'[c][k], Answers)
      /\ "opened" \notin Callbacks(inbox'[c][k])
  <2>1. Once(inbox[c][k], {"opened"}) /\ Once(inbox[c][k], Answers)
    BY DEF Phases, Phase
  <2>2. Receive(c, k, "opened") /\ ThreadTypes
    BY DEF OnOpened
  <2>3. "opened" \notin Answers
    BY DEF Answers
  <2>. HIDE DEF TypeOK, Safe
  <2>. QED BY <2>1, <2>2, <2>3, InboxReceive DEF Running
<1>4. ASSUME NEW d \in Cameras, NEW j \in Attempts PROVE Order(d, j)'
  <2>1. Order(d, j)
    BY DEF Orders
  <2>2. /\ tPc'[d][j] = IF d = c /\ j = k THEN "create" ELSE tPc[d][j]
        /\ inbox'[d][j] = IF d = c /\ j = k THEN Tail(inbox[c][k]) ELSE inbox[d][j]
    BY <1>1
  <2>. QED
    BY <1>2, <1>3, <2>1, <2>2 DEF Order, Running
<1>5. ASSUME NEW d \in Cameras, NEW j \in Attempts PROVE Phase(d, j)'
  <2>1. Phase(d, j)
    BY DEF Phases
  <2>2. /\ tPc'[d][j] = IF d = c /\ j = k THEN "create" ELSE tPc[d][j]
        /\ inbox'[d][j] = IF d = c /\ j = k THEN Tail(inbox[c][k]) ELSE inbox[d][j]
    BY <1>1
  <2>3. "opened" \notin Answers /\ "lost" \notin Answers
    BY DEF Answers
  <2>4. sess[c][k] \in {"none", "requested", "answered", "repeating", "closed"}
    BY DEF ServiceTypes
  <2>5. CASE d = c /\ j = k
    BY <1>2, <1>3, <2>1, <2>2, <2>3, <2>4, <2>5 DEF Phase
  <2>6. CASE d # c \/ j # k
    BY <1>2, <2>1, <2>2, <2>3, <2>4, <2>6 DEF Phase
  <2>. QED BY <2>5, <2>6
<1>6. ASSUME NEW d \in Cameras PROVE Holds(d)'
  <2>1. Holds(d)
    BY DEF Holding
  <2>2. Phase(c, k)
    BY DEF Phases
  <2>3. dev[c][k] \in {"none", "opening", "open", "gone"}
        /\ session[d] \in 0 .. MaxAttempts
    BY DEF ServiceTypes, CameraTypes
  <2>4. session[d] # 0 => session[d] \in Attempts
    BY <2>3, AttemptNumber
  <2>5. session[d] # 0 => Callbacks(inbox'[d][session[d]]) \subseteq Callbacks(inbox[d][session[d]])
    BY <1>1, <1>3, <2>4
  <2>. QED
    BY <1>1, <1>2, <1>3, <2>1, <2>2, <2>3, <2>4, <2>5 DEF Holds, Phase
<1>7. ASSUME NEW d \in Cameras, NEW j \in Attempts PROVE Count(d, j)'
  <2>1. Count(d, j)
    BY DEF Counts
  <2>2. /\ tPc'[d][j] = IF d = c /\ j = k THEN "create" ELSE tPc[d][j]
        /\ permits'[d] = IF d = c THEN permits[d] + 1 ELSE permits[d]
    BY <1>1
  <2>3. Phase(c, k)
    BY DEF Phases
  <2>4. permits[d] \in Nat
    BY DEF CameraTypes
  <2>. QED
    BY <1>2, <1>3, <2>1, <2>2, <2>3, <2>4 DEF Count, Running, Opening,
       Starting, Phase
<1>8. ASSUME NEW d \in Cameras PROVE Semaphore(d)'
  <2>1. Semaphore(d)
    BY DEF Semaphores
  <2>2. permits[d] \in Nat
    BY DEF CameraTypes
  <2>3. CASE d = c
    BY <1>1, <1>2, <1>3, <2>1, <2>2, <2>3 DEF Semaphore, Releasing, Opening
  <2>4. CASE d # c
    BY <1>1, <1>2, <2>1, <2>2, <2>4 DEF Semaphore, Releasing, Opening
  <2>. QED BY <2>3, <2>4
<1>9. Replacing'
  BY <1>2 DEF Replacing, Replaces, Opening
<1>. QED
  BY <1>4, <1>5, <1>6, <1>7, <1>8, <1>9 DEF Orders, Phases, Holding, Counts,
     Semaphores

\* OnLost keeps the inductive invariant.
LEMMA OnLostPreserves ==
    ASSUME TypeOK, Safe, NEW c \in Cameras, NEW k \in Attempts, OnLost(c, k)
    PROVE  Safe'
<1>. USE DEF TypeOK, Safe
<1>1. /\ \A d \in Cameras, j \in Attempts :
            inbox'[d][j] = IF d = c /\ j = k THEN Tail(inbox[c][k]) ELSE inbox[d][j]
      /\ \A d \in Cameras : permits'[d] = IF d = c THEN permits[d] + 1 ELSE permits[d]
      /\ \A d \in Cameras : device'[d] = IF d = c THEN 0 ELSE device[d]
  BY DEF OnLost, Receive, Release, CameraTypes, ThreadTypes
<1>2. UNCHANGED <<uiPc, uiCam, thread, tState, tPc, dev, sess, ready, session>>
  BY DEF OnLost, Receive, Release
<1>3. /\ Running(c, k) /\ tPc[c][k] = "loop" /\ inbox[c][k] # <<>>
      /\ Callbacks(inbox[c][k]) = Callbacks(inbox'[c][k]) \cup {"lost"}
      /\ Once(inbox'[c][k], {"opened"}) /\ Once(inbox'[c][k], Answers)
  <2>1. Once(inbox[c][k], {"opened"}) /\ Once(inbox[c][k], Answers)
    BY DEF Phases, Phase
  <2>2. Receive(c, k, "lost") /\ ThreadTypes
    BY DEF OnLost
  <2>3. "lost" \notin Answers
    BY DEF Answers
  <2>. HIDE DEF TypeOK, Safe
  <2>. QED BY <2>1, <2>2, <2>3, InboxReceive DEF Running
<1>4. ASSUME NEW d \in Cameras, NEW j \in Attempts PROVE Order(d, j)'
  <2>1. Order(d, j)
    BY DEF Orders
  <2>2. inbox'[d][j] = IF d = c /\ j = k THEN Tail(inbox[c][k]) ELSE inbox[d][j]
    BY <1>1
  <2>. QED
    BY <1>2, <1>3, <2>1, <2>2 DEF Order, Running
<1>5. ASSUME NEW d \in Cameras, NEW j \in Attempts PROVE Phase(d, j)'
  <2>1. Phase(d, j)
    BY DEF Phases
  <2>2. inbox'[d][j] = IF d = c /\ j = k THEN Tail(inbox[c][k]) ELSE inbox[d][j]
    BY <1>1
  <2>3. "opened" \notin Answers /\ "lost" \notin Answers
    BY DEF Answers
  <2>4. sess[c][k] \in {"none", "requested", "answered", "repeating", "closed"}
    BY DEF ServiceTypes
  <2>5. CASE d = c /\ j = k
    BY <1>2, <1>3, <2>1, <2>2, <2>3, <2>4, <2>5 DEF Phase
  <2>6. CASE d # c \/ j # k
    BY <1>2, <2>1, <2>2, <2>3, <2>4, <2>6 DEF Phase
  <2>. QED BY <2>5, <2>6
<1>6. ASSUME NEW d \in Cameras PROVE Holds(d)'
  <2>1. Holds(d)
    BY DEF Holding
  <2>2. Phase(c, k)
    BY DEF Phases
  <2>3. dev[c][k] \in {"none", "opening", "open", "gone"}
        /\ session[d] \in 0 .. MaxAttempts
    BY DEF ServiceTypes, CameraTypes
  <2>4. session[d] # 0 => session[d] \in Attempts
    BY <2>3, AttemptNumber
  <2>5. session[d] # 0 => Callbacks(inbox'[d][session[d]]) \subseteq Callbacks(inbox[d][session[d]])
    BY <1>1, <1>3, <2>4
  <2>. QED
    BY <1>1, <1>2, <1>3, <2>1, <2>2, <2>3, <2>4, <2>5 DEF Holds, Phase
<1>7. ASSUME NEW d \in Cameras, NEW j \in Attempts PROVE Count(d, j)'
  <2>1. Count(d, j)
    BY DEF Counts
  <2>2. permits'[d] = IF d = c THEN permits[d] + 1 ELSE permits[d]
    BY <1>1
  <2>3. permits[d] \in Nat
    BY DEF CameraTypes
  <2>. QED
    BY <1>2, <1>3, <2>1, <2>2, <2>3 DEF Count, Running, Opening, Starting
<1>8. ASSUME NEW d \in Cameras PROVE Semaphore(d)'
  <2>1. Semaphore(d)
    BY DEF Semaphores
  <2>2. permits[d] \in Nat
    BY DEF CameraTypes
  <2>3. CASE d = c
    BY <1>1, <1>2, <1>3, <2>1, <2>2, <2>3 DEF Semaphore, Releasing, Opening
  <2>4. CASE d # c
    BY <1>1, <1>2, <2>1, <2>2, <2>4 DEF Semaphore, Releasing, Opening
  <2>. QED BY <2>3, <2>4
<1>9. Replacing'
  BY <1>2 DEF Replacing, Replaces, Opening
<1>. QED
  BY <1>4, <1>5, <1>6, <1>7, <1>8, <1>9 DEF Orders, Phases, Holding, Counts,
     Semaphores

\* OnConfigured keeps the inductive invariant.
LEMMA OnConfiguredPreserves ==
    ASSUME TypeOK, Safe, NEW c \in Cameras, NEW k \in Attempts, OnConfigured(c, k)
    PROVE  Safe'
<1>. USE DEF TypeOK, Safe
<1>1. /\ \A d \in Cameras, j \in Attempts :
            tPc'[d][j] = IF d = c /\ j = k THEN "repeat" ELSE tPc[d][j]
      /\ \A d \in Cameras, j \in Attempts :
            inbox'[d][j] = IF d = c /\ j = k THEN Tail(inbox[c][k]) ELSE inbox[d][j]
      /\ \A d \in Cameras : session'[d] = IF d = c THEN k ELSE session[d]
  BY DEF OnConfigured, Receive, Goto, CameraTypes, ThreadTypes
<1>2. UNCHANGED <<uiPc, uiCam, thread, tState, dev, sess, ready, permits, device>>
  BY DEF OnConfigured, Receive, Goto
<1>3. /\ Running(c, k) /\ tPc[c][k] = "loop" /\ inbox[c][k] # <<>>
      /\ Callbacks(inbox[c][k]) = Callbacks(inbox'[c][k]) \cup {"configured"}
      /\ Once(inbox'[c][k], {"opened"}) /\ Once(inbox'[c][k], Answers)
      /\ Callbacks(inbox'[c][k]) \cap Answers = {}
  <2>1. Once(inbox[c][k], {"opened"}) /\ Once(inbox[c][k], Answers)
    BY DEF Phases, Phase
  <2>2. Receive(c, k, "configured") /\ ThreadTypes
    BY DEF OnConfigured
  <2>3. "configured" \in Answers
    BY DEF Answers
  <2>. HIDE DEF TypeOK, Safe
  <2>. QED BY <2>1, <2>2, <2>3, InboxReceive DEF Running
<1>4. ASSUME NEW d \in Cameras, NEW j \in Attempts PROVE Order(d, j)'
  <2>1. Order(d, j)
    BY DEF Orders
  <2>2. /\ tPc'[d][j] = IF d = c /\ j = k THEN "repeat" ELSE tPc[d][j]
        /\ inbox'[d][j] = IF d = c /\ j = k THEN Tail(inbox[c][k]) ELSE inbox[d][j]
    BY <1>1
  <2>. QED
    BY <1>2, <1>3, <2>1, <2>2 DEF Order, Running
<1>5. ASSUME NEW d \in Cameras, NEW j \in Attempts PROVE Phase(d, j)'
  <2>1. Phase(d, j)
    BY DEF Phases
  <2>2. /\ tPc'[d][j] = IF d = c /\ j = k THEN "repeat" ELSE tPc[d][j]
        /\ inbox'[d][j] = IF d = c /\ j = k THEN Tail(inbox[c][k]) ELSE inbox[d][j]
    BY <1>1
  <2>3. "opened" \notin Answers /\ "lost" \notin Answers
    BY DEF Answers
  <2>4. "configured" \in Answers
    BY DEF Answers
  <2>5. sess[c][k] \in {"none", "requested", "answered", "repeating", "closed"}
    BY DEF ServiceTypes
  <2>6. CASE d = c /\ j = k
    BY <1>2, <1>3, <2>1, <2>2, <2>3, <2>4, <2>5, <2>6 DEF Phase
  <2>7. CASE d # c \/ j # k
    BY <1>2, <2>1, <2>2, <2>3, <2>4, <2>5, <2>7 DEF Phase
  <2>. QED BY <2>6, <2>7
<1>6. ASSUME NEW d \in Cameras PROVE Holds(d)'
  <2>1. Holds(d)
    BY DEF Holding
  <2>2. Phase(c, k)
    BY DEF Phases
  <2>3. dev[c][k] \in {"none", "opening", "open", "gone"}
        /\ session[d] \in 0 .. MaxAttempts
    BY DEF ServiceTypes, CameraTypes
  <2>4. session[d] # 0 => session[d] \in Attempts
    BY <2>3, AttemptNumber
  <2>5. session[d] # 0 => Callbacks(inbox'[d][session[d]]) \subseteq Callbacks(inbox[d][session[d]])
    BY <1>1, <1>3, <2>4
  <2>6. "opened" \notin Answers /\ "lost" \notin Answers
    BY DEF Answers
  <2>7. sess[c][k] \in {"none", "requested", "answered", "repeating", "closed"}
    BY DEF ServiceTypes
  <2>. QED
    BY <1>1, <1>2, <1>3, <2>1, <2>2, <2>3, <2>4, <2>5, <2>6, <2>7 DEF Holds,
       Phase, Answers
<1>7. ASSUME NEW d \in Cameras, NEW j \in Attempts PROVE Count(d, j)'
  <2>1. Count(d, j)
    BY DEF Counts
  <2>2. tPc'[d][j] = IF d = c /\ j = k THEN "repeat" ELSE tPc[d][j]
    BY <1>1
  <2>3. Phase(c, k)
    BY DEF Phases
  <2>. QED
    BY <1>2, <1>3, <2>1, <2>2, <2>3 DEF Count, Running, Opening, Starting,
       Phase
<1>8. ASSUME NEW d \in Cameras PROVE Semaphore(d)'
  <2>1. Semaphore(d)
    BY DEF Semaphores
  <2>2. "configured" \notin {"opened", "lost"}
    OBVIOUS
  <2>3. CASE d = c
    BY <1>1, <1>2, <1>3, <2>1, <2>2, <2>3 DEF Semaphore, Releasing, Opening
  <2>4. CASE d # c
    BY <1>1, <1>2, <2>1, <2>2, <2>4 DEF Semaphore, Releasing, Opening
  <2>. QED BY <2>3, <2>4
<1>9. Replacing'
  BY <1>2 DEF Replacing, Replaces, Opening
<1>. QED
  BY <1>4, <1>5, <1>6, <1>7, <1>8, <1>9 DEF Orders, Phases, Holding, Counts,
     Semaphores

\* OnConfigureFailed keeps the inductive invariant.
LEMMA OnConfigureFailedPreserves ==
    ASSUME TypeOK, Safe, NEW c \in Cameras, NEW k \in Attempts, OnConfigureFailed(c, k)
    PROVE  Safe'
<1>. USE DEF TypeOK, Safe
<1>1. /\ \A d \in Cameras, j \in Attempts :
            tPc'[d][j] = IF d = c /\ j = k THEN "sessionFailed" ELSE tPc[d][j]
      /\ \A d \in Cameras, j \in Attempts :
            inbox'[d][j] = IF d = c /\ j = k THEN Tail(inbox[c][k]) ELSE inbox[d][j]
      /\ \A d \in Cameras : ready'[d] = IF d = c THEN "failed" ELSE ready[d]
  BY DEF OnConfigureFailed, Receive, ReportFailure, Goto, ThreadTypes, UiTypes
<1>2. UNCHANGED <<uiPc, uiCam, thread, tState, dev, sess, permits, device, session>>
  BY DEF OnConfigureFailed, Receive, ReportFailure, Goto
<1>3. /\ Running(c, k) /\ tPc[c][k] = "loop" /\ inbox[c][k] # <<>>
      /\ Callbacks(inbox[c][k]) = Callbacks(inbox'[c][k]) \cup {"refused"}
      /\ Once(inbox'[c][k], {"opened"}) /\ Once(inbox'[c][k], Answers)
      /\ Callbacks(inbox'[c][k]) \cap Answers = {}
  <2>1. Once(inbox[c][k], {"opened"}) /\ Once(inbox[c][k], Answers)
    BY DEF Phases, Phase
  <2>2. Receive(c, k, "refused") /\ ThreadTypes
    BY DEF OnConfigureFailed
  <2>3. "refused" \in Answers
    BY DEF Answers
  <2>. HIDE DEF TypeOK, Safe
  <2>. QED BY <2>1, <2>2, <2>3, InboxReceive DEF Running
<1>4. ASSUME NEW d \in Cameras, NEW j \in Attempts PROVE Order(d, j)'
  <2>1. Order(d, j)
    BY DEF Orders
  <2>2. /\ tPc'[d][j] = IF d = c /\ j = k THEN "sessionFailed" ELSE tPc[d][j]
        /\ inbox'[d][j] = IF d = c /\ j = k THEN Tail(inbox[c][k]) ELSE inbox[d][j]
    BY <1>1
  <2>. QED
    BY <1>2, <1>3, <2>1, <2>2 DEF Order, Running
<1>5. ASSUME NEW d \in Cameras, NEW j \in Attempts PROVE Phase(d, j)'
  <2>1. Phase(d, j)
    BY DEF Phases
  <2>2. /\ tPc'[d][j] = IF d = c /\ j = k THEN "sessionFailed" ELSE tPc[d][j]
        /\ inbox'[d][j] = IF d = c /\ j = k THEN Tail(inbox[c][k]) ELSE inbox[d][j]
        /\ ready'[d] = IF d = c THEN "failed" ELSE ready[d]
    BY <1>1
  <2>3. "opened" \notin Answers /\ "lost" \notin Answers
    BY DEF Answers
  <2>4. "refused" \in Answers
    BY DEF Answers
  <2>5. sess[c][k] \in {"none", "requested", "answered", "repeating", "closed"}
    BY DEF ServiceTypes
  <2>6. CASE d = c /\ j = k
    BY <1>2, <1>3, <2>1, <2>2, <2>3, <2>4, <2>5, <2>6 DEF Phase
  <2>7. CASE d # c \/ j # k
    BY <1>2, <2>1, <2>2, <2>3, <2>4, <2>5, <2>7 DEF Phase
  <2>. QED BY <2>6, <2>7
<1>6. ASSUME NEW d \in Cameras PROVE Holds(d)'
  <2>1. Holds(d)
    BY DEF Holding
  <2>2. Phase(c, k)
    BY DEF Phases
  <2>3. dev[c][k] \in {"none", "opening", "open", "gone"}
        /\ session[d] \in 0 .. MaxAttempts
    BY DEF ServiceTypes, CameraTypes
  <2>4. session[d] # 0 => session[d] \in Attempts
    BY <2>3, AttemptNumber
  <2>5. session[d] # 0 => Callbacks(inbox'[d][session[d]]) \subseteq Callbacks(inbox[d][session[d]])
    BY <1>1, <1>3, <2>4
  <2>. QED
    BY <1>1, <1>2, <1>3, <2>1, <2>2, <2>3, <2>4, <2>5 DEF Holds, Phase
<1>7. ASSUME NEW d \in Cameras, NEW j \in Attempts PROVE Count(d, j)'
  <2>1. Count(d, j)
    BY DEF Counts
  <2>2. tPc'[d][j] = IF d = c /\ j = k THEN "sessionFailed" ELSE tPc[d][j]
    BY <1>1
  <2>3. Phase(c, k)
    BY DEF Phases
  <2>. QED
    BY <1>2, <1>3, <2>1, <2>2, <2>3 DEF Count, Running, Opening, Starting,
       Phase
<1>8. ASSUME NEW d \in Cameras PROVE Semaphore(d)'
  <2>1. Semaphore(d)
    BY DEF Semaphores
  <2>2. CASE d = c
    BY <1>1, <1>2, <1>3, <2>1, <2>2 DEF Semaphore, Releasing, Opening
  <2>3. CASE d # c
    BY <1>1, <1>2, <2>1, <2>3 DEF Semaphore, Releasing, Opening
  <2>. QED BY <2>2, <2>3
<1>9. Replacing'
  BY <1>2 DEF Replacing, Replaces, Opening
<1>. QED
  BY <1>4, <1>5, <1>6, <1>7, <1>8, <1>9 DEF Orders, Phases, Holding, Counts,
     Semaphores

\* CreateSession keeps the inductive invariant.
LEMMA CreateSessionPreserves ==
    ASSUME TypeOK, Safe, NEW c \in Cameras, NEW k \in Attempts, CreateSession(c, k)
    PROVE  Safe'
<1>. USE DEF TypeOK, Safe
<1>1. /\ \A d \in Cameras, j \in Attempts :
            tPc'[d][j] = IF d = c /\ j = k THEN "loop" ELSE tPc[d][j]
      /\ \A d \in Cameras, j \in Attempts :
            sess'[d][j] = IF d = c /\ j = k THEN "requested" ELSE sess[d][j]
  BY DEF CreateSession, Goto, Usable, ServiceTypes, ThreadTypes
<1>2. UNCHANGED <<uiPc, uiCam, thread, tState, inbox, dev, ready, permits, device, session>>
  BY DEF CreateSession, Goto, Usable
<1>3. tPc[c][k] = "create" /\ Running(c, k)
  BY DEF CreateSession, Orders, Order
<1>4. ASSUME NEW d \in Cameras, NEW j \in Attempts PROVE Order(d, j)'
  <2>1. Order(d, j)
    BY DEF Orders
  <2>2. /\ tPc'[d][j] = IF d = c /\ j = k THEN "loop" ELSE tPc[d][j]
        /\ sess'[d][j] = IF d = c /\ j = k THEN "requested" ELSE sess[d][j]
    BY <1>1
  <2>. QED
    BY <1>2, <1>3, <2>1, <2>2 DEF Order, Running
<1>5. ASSUME NEW d \in Cameras, NEW j \in Attempts PROVE Phase(d, j)'
  <2>1. Phase(d, j)
    BY DEF Phases
  <2>2. /\ tPc'[d][j] = IF d = c /\ j = k THEN "loop" ELSE tPc[d][j]
        /\ sess'[d][j] = IF d = c /\ j = k THEN "requested" ELSE sess[d][j]
    BY <1>1
  <2>3. "opened" \notin Answers /\ "lost" \notin Answers
    BY DEF Answers
  <2>4. CASE d = c /\ j = k
    BY <1>2, <1>3, <2>1, <2>2, <2>3, <2>4 DEF Phase
  <2>5. CASE d # c \/ j # k
    BY <1>2, <2>1, <2>2, <2>3, <2>5 DEF Phase
  <2>. QED BY <2>4, <2>5
<1>6. ASSUME NEW d \in Cameras PROVE Holds(d)'
  <2>1. Holds(d)
    BY DEF Holding
  <2>2. Phase(c, k)
    BY DEF Phases
  <2>3. session[d] # 0 => session[d] \in Attempts
    BY AttemptNumber DEF CameraTypes
  <2>. QED
    BY <1>1, <1>2, <1>3, <2>1, <2>2, <2>3 DEF Holds, Phase
<1>7. ASSUME NEW d \in Cameras, NEW j \in Attempts PROVE Count(d, j)'
  <2>1. Count(d, j)
    BY DEF Counts
  <2>2. /\ tPc'[d][j] = IF d = c /\ j = k THEN "loop" ELSE tPc[d][j]
        /\ sess'[d][j] = IF d = c /\ j = k THEN "requested" ELSE sess[d][j]
    BY <1>1
  <2>. QED
    BY <1>2, <1>3, <2>1, <2>2 DEF Count, Running, Opening, Starting
<1>8. Replacing'
  BY <1>2 DEF Replacing, Replaces, Opening
<1>9. Semaphores'
  BY <1>2 DEF Semaphores, Semaphore, Releasing, Opening
<1>. QED
  BY <1>4, <1>5, <1>6, <1>7, <1>8, <1>9 DEF Orders, Phases, Holding, Counts

\* CreateFails keeps the inductive invariant.
LEMMA CreateFailsPreserves ==
    ASSUME TypeOK, Safe, NEW c \in Cameras, NEW k \in Attempts, CreateFails(c, k)
    PROVE  Safe'
<1>. USE DEF TypeOK, Safe
<1>1. /\ \A d \in Cameras, j \in Attempts :
            tPc'[d][j] \in IF d = c /\ j = k THEN {"loop", "createFailed"} ELSE {tPc[d][j]}
      /\ \A d \in Cameras : ready'[d] \in IF d = c THEN {ready[d], "failed"} ELSE {ready[d]}
  <2>1. CASE device[c] = 0
    <3>1. tPc' = [tPc EXCEPT ![c][k] = "loop"] /\ UNCHANGED ready
      BY <2>1 DEF CreateFails, Goto
    <3>2. \A d \in Cameras, j \in Attempts :
            tPc'[d][j] = IF d = c /\ j = k THEN "loop" ELSE tPc[d][j]
      BY <3>1 DEF ThreadTypes
    <3>. QED BY <3>1, <3>2
  <2>2. CASE device[c] # 0
    <3>1. /\ tPc' = [tPc EXCEPT ![c][k] = "createFailed"]
          /\ ready' = [ready EXCEPT ![c] = "failed"]
      BY <2>2 DEF CreateFails, Goto, ReportFailure
    <3>2. \A d \in Cameras, j \in Attempts :
            tPc'[d][j] = IF d = c /\ j = k THEN "createFailed" ELSE tPc[d][j]
      BY <3>1 DEF ThreadTypes
    <3>3. \A d \in Cameras : ready'[d] = IF d = c THEN "failed" ELSE ready[d]
      BY <3>1 DEF UiTypes
    <3>. QED BY <3>2, <3>3
  <2>. QED BY <2>1, <2>2
<1>2. UNCHANGED <<uiPc, uiCam, thread, tState, inbox, dev, sess, permits, device, session>>
  BY DEF CreateFails, Goto, ReportFailure
<1>3. tPc[c][k] = "create" /\ Running(c, k)
  BY DEF CreateFails, Orders, Order
<1>4. ASSUME NEW d \in Cameras, NEW j \in Attempts PROVE Order(d, j)'
  <2>1. Order(d, j)
    BY DEF Orders
  <2>2. tPc'[d][j] \in IF d = c /\ j = k THEN {"loop", "createFailed"} ELSE {tPc[d][j]}
    BY <1>1
  <2>. QED
    BY <1>2, <1>3, <2>1, <2>2 DEF Order, Running
<1>5. ASSUME NEW d \in Cameras, NEW j \in Attempts PROVE Phase(d, j)'
  <2>1. Phase(d, j)
    BY DEF Phases
  <2>2. /\ tPc'[d][j] \in IF d = c /\ j = k THEN {"loop", "createFailed"} ELSE {tPc[d][j]}
        /\ ready'[d] \in IF d = c THEN {ready[d], "failed"} ELSE {ready[d]}
    BY <1>1
  <2>3. CASE d = c /\ j = k
    BY <1>2, <1>3, <2>1, <2>2, <2>3 DEF Phase
  <2>4. CASE d # c \/ j # k
    BY <1>2, <2>1, <2>2, <2>4 DEF Phase
  <2>. QED BY <2>3, <2>4
<1>6. ASSUME NEW d \in Cameras, NEW j \in Attempts PROVE Count(d, j)'
  <2>1. Count(d, j)
    BY DEF Counts
  <2>2. tPc'[d][j] \in IF d = c /\ j = k THEN {"loop", "createFailed"} ELSE {tPc[d][j]}
    BY <1>1
  <2>3. Phase(c, k)
    BY DEF Phases
  <2>. QED
    BY <1>2, <1>3, <2>1, <2>2, <2>3 DEF Count, Running, Opening, Starting,
       Phase
<1>7. Replacing'
  BY <1>2 DEF Replacing, Replaces, Opening
<1>8. Holding'
  BY <1>2 DEF Holding, Holds
<1>9. Semaphores'
  BY <1>2 DEF Semaphores, Semaphore, Releasing, Opening
<1>. QED
  BY <1>4, <1>5, <1>6, <1>7, <1>8, <1>9 DEF Orders, Phases, Counts

\* StartRepeating keeps the inductive invariant.
LEMMA StartRepeatingPreserves ==
    ASSUME TypeOK, Safe, NEW c \in Cameras, NEW k \in Attempts, StartRepeating(c, k)
    PROVE  Safe'
<1>. USE DEF TypeOK, Safe
<1>1. /\ \A d \in Cameras, j \in Attempts :
            tPc'[d][j] = IF d = c /\ j = k THEN "report" ELSE tPc[d][j]
      /\ \A d \in Cameras, j \in Attempts :
            sess'[d][j] = IF d = c /\ j = k THEN "repeating" ELSE sess[d][j]
  BY DEF StartRepeating, Goto, Usable, ServiceTypes, ThreadTypes
<1>2. UNCHANGED <<uiPc, uiCam, thread, tState, inbox, dev, ready, permits, device, session>>
  BY DEF StartRepeating, Goto, Usable
<1>3. tPc[c][k] = "repeat" /\ Running(c, k) /\ sess[c][k] = "answered"
  BY DEF StartRepeating, Orders, Order
<1>4. ASSUME NEW d \in Cameras, NEW j \in Attempts PROVE Order(d, j)'
  <2>1. Order(d, j)
    BY DEF Orders
  <2>2. /\ tPc'[d][j] = IF d = c /\ j = k THEN "report" ELSE tPc[d][j]
        /\ sess'[d][j] = IF d = c /\ j = k THEN "repeating" ELSE sess[d][j]
    BY <1>1
  <2>. QED
    BY <1>2, <1>3, <2>1, <2>2 DEF Order, Running
<1>5. ASSUME NEW d \in Cameras, NEW j \in Attempts PROVE Phase(d, j)'
  <2>1. Phase(d, j)
    BY DEF Phases
  <2>2. /\ tPc'[d][j] = IF d = c /\ j = k THEN "report" ELSE tPc[d][j]
        /\ sess'[d][j] = IF d = c /\ j = k THEN "repeating" ELSE sess[d][j]
    BY <1>1
  <2>3. "opened" \notin Answers /\ "lost" \notin Answers
    BY DEF Answers
  <2>4. CASE d = c /\ j = k
    BY <1>2, <1>3, <2>1, <2>2, <2>3, <2>4 DEF Phase
  <2>5. CASE d # c \/ j # k
    BY <1>2, <2>1, <2>2, <2>3, <2>5 DEF Phase
  <2>. QED BY <2>4, <2>5
<1>6. ASSUME NEW d \in Cameras PROVE Holds(d)'
  <2>1. Holds(d)
    BY DEF Holding
  <2>2. session[d] # 0 => session[d] \in Attempts
    BY AttemptNumber DEF CameraTypes
  <2>. QED
    BY <1>1, <1>2, <1>3, <2>1, <2>2 DEF Holds
<1>7. ASSUME NEW d \in Cameras, NEW j \in Attempts PROVE Count(d, j)'
  <2>1. Count(d, j)
    BY DEF Counts
  <2>2. /\ tPc'[d][j] = IF d = c /\ j = k THEN "report" ELSE tPc[d][j]
        /\ sess'[d][j] = IF d = c /\ j = k THEN "repeating" ELSE sess[d][j]
    BY <1>1
  <2>3. Order(c, k)
    BY DEF Orders
  <2>4. thread[c] \in 0 .. MaxAttempts
    BY DEF CameraTypes
  <2>. QED
    BY <1>2, <1>3, <2>1, <2>2, <2>3, <2>4 DEF Count, Running, Opening,
       Starting, Order, Attempts
<1>8. Replacing'
  BY <1>2 DEF Replacing, Replaces, Opening
<1>9. Semaphores'
  BY <1>2 DEF Semaphores, Semaphore, Releasing, Opening
<1>. QED
  BY <1>4, <1>5, <1>6, <1>7, <1>8, <1>9 DEF Orders, Phases, Holding, Counts

\* RepeatFails keeps the inductive invariant.
LEMMA RepeatFailsPreserves ==
    ASSUME TypeOK, Safe, NEW c \in Cameras, NEW k \in Attempts, RepeatFails(c, k)
    PROVE  Safe'
<1>. USE DEF TypeOK, Safe
<1>1. /\ \A d \in Cameras, j \in Attempts :
            tPc'[d][j] = IF d = c /\ j = k THEN "sessionFailed" ELSE tPc[d][j]
      /\ \A d \in Cameras : ready'[d] = IF d = c THEN "failed" ELSE ready[d]
  BY DEF RepeatFails, ReportFailure, Goto, ThreadTypes, UiTypes
<1>2. UNCHANGED <<uiPc, uiCam, thread, tState, inbox, dev, sess, permits, device, session>>
  BY DEF RepeatFails, ReportFailure, Goto
<1>3. tPc[c][k] = "repeat" /\ Running(c, k)
  BY DEF RepeatFails, Orders, Order
<1>4. ASSUME NEW d \in Cameras, NEW j \in Attempts PROVE Order(d, j)'
  <2>1. Order(d, j)
    BY DEF Orders
  <2>2. tPc'[d][j] = IF d = c /\ j = k THEN "sessionFailed" ELSE tPc[d][j]
    BY <1>1
  <2>. QED
    BY <1>2, <1>3, <2>1, <2>2 DEF Order, Running
<1>5. ASSUME NEW d \in Cameras, NEW j \in Attempts PROVE Phase(d, j)'
  <2>1. Phase(d, j)
    BY DEF Phases
  <2>2. /\ tPc'[d][j] = IF d = c /\ j = k THEN "sessionFailed" ELSE tPc[d][j]
        /\ ready'[d] = IF d = c THEN "failed" ELSE ready[d]
    BY <1>1
  <2>3. CASE d = c /\ j = k
    BY <1>2, <1>3, <2>1, <2>2, <2>3 DEF Phase
  <2>4. CASE d # c \/ j # k
    BY <1>2, <2>1, <2>2, <2>4 DEF Phase
  <2>. QED BY <2>3, <2>4
<1>6. ASSUME NEW d \in Cameras, NEW j \in Attempts PROVE Count(d, j)'
  <2>1. Count(d, j)
    BY DEF Counts
  <2>2. tPc'[d][j] = IF d = c /\ j = k THEN "sessionFailed" ELSE tPc[d][j]
    BY <1>1
  <2>3. Phase(c, k)
    BY DEF Phases
  <2>. QED
    BY <1>2, <1>3, <2>1, <2>2, <2>3 DEF Count, Running, Opening, Starting,
       Phase
<1>7. Replacing'
  BY <1>2 DEF Replacing, Replaces, Opening
<1>8. Holding'
  BY <1>2 DEF Holding, Holds
<1>9. Semaphores'
  BY <1>2 DEF Semaphores, Semaphore, Releasing, Opening
<1>. QED
  BY <1>4, <1>5, <1>6, <1>7, <1>8, <1>9 DEF Orders, Phases, Counts

\* ReportSuccess keeps the inductive invariant.
LEMMA ReportSuccessPreserves ==
    ASSUME TypeOK, Safe, NEW c \in Cameras, NEW k \in Attempts, ReportSuccess(c, k)
    PROVE  Safe'
<1>. USE DEF TypeOK, Safe
<1>1. /\ \A d \in Cameras, j \in Attempts :
            tPc'[d][j] = IF d = c /\ j = k THEN "finish" ELSE tPc[d][j]
      /\ \A d \in Cameras : ready'[d] = IF d = c THEN "ok" ELSE ready[d]
  BY DEF ReportSuccess, Goto, ThreadTypes, UiTypes
<1>2. UNCHANGED <<uiPc, uiCam, thread, tState, inbox, dev, sess, permits, device, session>>
  BY DEF ReportSuccess, Goto
<1>3. tPc[c][k] = "report" /\ Running(c, k)
  BY DEF ReportSuccess, Orders, Order
<1>4. ASSUME NEW d \in Cameras, NEW j \in Attempts PROVE Order(d, j)'
  <2>1. Order(d, j)
    BY DEF Orders
  <2>2. tPc'[d][j] = IF d = c /\ j = k THEN "finish" ELSE tPc[d][j]
    BY <1>1
  <2>. QED
    BY <1>2, <1>3, <2>1, <2>2 DEF Order, Running
<1>5. ASSUME NEW d \in Cameras, NEW j \in Attempts PROVE Phase(d, j)'
  <2>1. Phase(d, j)
    BY DEF Phases
  <2>2. /\ tPc'[d][j] = IF d = c /\ j = k THEN "finish" ELSE tPc[d][j]
        /\ ready'[d] = IF d = c THEN "ok" ELSE ready[d]
    BY <1>1
  <2>3. CASE d = c /\ j = k
    BY <1>2, <1>3, <2>1, <2>2, <2>3 DEF Phase
  <2>4. CASE d # c \/ j # k
    BY <1>2, <2>1, <2>2, <2>4 DEF Phase
  <2>. QED BY <2>3, <2>4
<1>6. ASSUME NEW d \in Cameras, NEW j \in Attempts PROVE Count(d, j)'
  <2>1. Count(d, j)
    BY DEF Counts
  <2>2. tPc'[d][j] = IF d = c /\ j = k THEN "finish" ELSE tPc[d][j]
    BY <1>1
  <2>3. Phase(c, k)
    BY DEF Phases
  <2>. QED
    BY <1>2, <1>3, <2>1, <2>2, <2>3 DEF Count, Running, Opening, Starting,
       Phase
<1>7. Replacing'
  BY <1>2 DEF Replacing, Replaces, Opening
<1>8. Holding'
  BY <1>2 DEF Holding, Holds
<1>9. Semaphores'
  BY <1>2 DEF Semaphores, Semaphore, Releasing, Opening
<1>. QED
  BY <1>4, <1>5, <1>6, <1>7, <1>8, <1>9 DEF Orders, Phases, Counts

\* FinishSuccess keeps the inductive invariant.
LEMMA FinishSuccessPreserves ==
    ASSUME TypeOK, Safe, NEW c \in Cameras, NEW k \in Attempts, FinishSuccess(c, k)
    PROVE  Safe'
<1>. USE DEF TypeOK, Safe
<1>1. /\ \A d \in Cameras, j \in Attempts :
            tPc'[d][j] = IF d = c /\ j = k THEN "loop" ELSE tPc[d][j]
      /\ \A d \in Cameras : permits'[d] = IF d = c THEN permits[d] + 1 ELSE permits[d]
  BY DEF FinishSuccess, Goto, Release, CameraTypes, ThreadTypes
<1>2. UNCHANGED <<uiPc, uiCam, thread, tState, inbox, dev, sess, ready, device, session>>
  BY DEF FinishSuccess, Goto, Release
<1>3. tPc[c][k] = "finish" /\ Running(c, k)
  BY DEF FinishSuccess, Orders, Order
<1>4. ASSUME NEW d \in Cameras, NEW j \in Attempts PROVE Order(d, j)'
  <2>1. Order(d, j)
    BY DEF Orders
  <2>2. tPc'[d][j] = IF d = c /\ j = k THEN "loop" ELSE tPc[d][j]
    BY <1>1
  <2>. QED
    BY <1>2, <1>3, <2>1, <2>2 DEF Order, Running
<1>5. ASSUME NEW d \in Cameras, NEW j \in Attempts PROVE Phase(d, j)'
  <2>1. Phase(d, j)
    BY DEF Phases
  <2>2. tPc'[d][j] = IF d = c /\ j = k THEN "loop" ELSE tPc[d][j]
    BY <1>1
  <2>3. CASE d = c /\ j = k
    BY <1>2, <1>3, <2>1, <2>2, <2>3 DEF Phase
  <2>4. CASE d # c \/ j # k
    BY <1>2, <2>1, <2>2, <2>4 DEF Phase
  <2>. QED BY <2>3, <2>4
<1>6. ASSUME NEW d \in Cameras, NEW j \in Attempts PROVE Count(d, j)'
  <2>1. Count(d, j)
    BY DEF Counts
  <2>2. /\ tPc'[d][j] = IF d = c /\ j = k THEN "loop" ELSE tPc[d][j]
        /\ permits'[d] = IF d = c THEN permits[d] + 1 ELSE permits[d]
    BY <1>1
  <2>3. permits[d] \in Nat
    BY DEF CameraTypes
  <2>4. CASE d = c /\ j = k
    <3>1. permits[d] >= 1 \/ Opening(d)
      BY <1>3, <2>1, <2>4 DEF Count
    <3>2. permits'[d] >= 1 /\ (permits'[d] >= 2 \/ Opening(d)')
      BY <1>2, <2>2, <2>3, <2>4, <3>1 DEF Opening
    <3>. QED BY <1>2, <2>1, <3>2 DEF Count, Running, Opening, Starting
  <2>5. CASE d # c \/ j # k
    BY <1>2, <2>1, <2>2, <2>3, <2>5 DEF Count, Running, Opening, Starting
  <2>. QED BY <2>4, <2>5
<1>7. ASSUME NEW d \in Cameras PROVE Semaphore(d)'
  <2>1. Semaphore(d)
    BY DEF Semaphores
  <2>2. permits[d] \in Nat
    BY DEF CameraTypes
  <2>3. CASE d = c
    BY <1>1, <1>2, <1>3, <2>1, <2>2, <2>3 DEF Semaphore, Releasing, Opening
  <2>4. CASE d # c
    BY <1>1, <1>2, <2>1, <2>2, <2>4 DEF Semaphore, Releasing, Opening
  <2>. QED BY <2>3, <2>4
<1>8. Replacing'
  BY <1>2 DEF Replacing, Replaces, Opening
<1>9. Holding'
  BY <1>2 DEF Holding, Holds
<1>. QED
  BY <1>4, <1>5, <1>6, <1>7, <1>8, <1>9 DEF Orders, Phases, Counts, Semaphores

\* FailureReturn keeps the inductive invariant.
LEMMA FailureReturnPreserves ==
    ASSUME TypeOK, Safe, NEW c \in Cameras, NEW k \in Attempts, FailureReturn(c, k)
    PROVE  Safe'
<1>. USE DEF TypeOK, Safe
<1>1. /\ \A d \in Cameras, j \in Attempts :
            tPc'[d][j] = IF d = c /\ j = k THEN "loop" ELSE tPc[d][j]
      /\ \A d \in Cameras : permits'[d] \in IF d = c THEN {permits[d], permits[d] + 1} ELSE {permits[d]}
  <2>1. \A d \in Cameras, j \in Attempts :
            tPc'[d][j] = IF d = c /\ j = k THEN "loop" ELSE tPc[d][j]
    BY DEF FailureReturn, Goto, ThreadTypes
  <2>. PICK n \in {permits[c], permits[c] + 1} : permits' = [permits EXCEPT ![c] = n]
    BY DEF FailureReturn
  <2>2. \A d \in Cameras : permits'[d] = IF d = c THEN n ELSE permits[d]
    BY DEF CameraTypes
  <2>. QED BY <2>1, <2>2
<1>2. UNCHANGED <<uiPc, uiCam, thread, tState, inbox, dev, sess, ready, device, session>>
  BY DEF FailureReturn, Goto
<1>3. tPc[c][k] \in {"createFailed", "sessionFailed"} /\ Running(c, k)
  BY DEF FailureReturn, Orders, Order
<1>4. ASSUME NEW d \in Cameras, NEW j \in Attempts PROVE Order(d, j)'
  <2>1. Order(d, j)
    BY DEF Orders
  <2>2. tPc'[d][j] = IF d = c /\ j = k THEN "loop" ELSE tPc[d][j]
    BY <1>1
  <2>. QED
    BY <1>2, <1>3, <2>1, <2>2 DEF Order, Running
<1>5. ASSUME NEW d \in Cameras, NEW j \in Attempts PROVE Phase(d, j)'
  <2>1. Phase(d, j)
    BY DEF Phases
  <2>2. tPc'[d][j] = IF d = c /\ j = k THEN "loop" ELSE tPc[d][j]
    BY <1>1
  <2>3. CASE d = c /\ j = k
    BY <1>2, <1>3, <2>1, <2>2, <2>3 DEF Phase
  <2>4. CASE d # c \/ j # k
    BY <1>2, <2>1, <2>2, <2>4 DEF Phase
  <2>. QED BY <2>3, <2>4
<1>6. ASSUME NEW d \in Cameras, NEW j \in Attempts PROVE Count(d, j)'
  <2>1. Count(d, j)
    BY DEF Counts
  <2>2. /\ tPc'[d][j] = IF d = c /\ j = k THEN "loop" ELSE tPc[d][j]
        /\ permits'[d] \in IF d = c THEN {permits[d], permits[d] + 1} ELSE {permits[d]}
    BY <1>1
  <2>3. permits[d] \in Nat
    BY DEF CameraTypes
  <2>4. Phase(c, k)
    BY DEF Phases
  <2>5. CASE d = c /\ j = k
    BY <1>2, <1>3, <2>1, <2>2, <2>3, <2>4, <2>5 DEF Count, Running, Opening,
       Starting, Phase
  <2>6. CASE d # c \/ j # k
    BY <1>2, <2>1, <2>2, <2>3, <2>4, <2>6 DEF Count, Running, Opening,
       Starting, Phase
  <2>. QED BY <2>5, <2>6
<1>7. ASSUME NEW d \in Cameras PROVE Semaphore(d)'
  <2>1. Semaphore(d)
    BY DEF Semaphores
  <2>2. permits[d] \in Nat
    BY DEF CameraTypes
  <2>3. permits'[d] \in {permits[d], permits[d] + 1}
    BY <1>1
  <2>4. permits'[d] = 0 => permits[d] = 0
    BY <2>2, <2>3
  <2>5. CASE d = c
    BY <1>1, <1>2, <1>3, <2>1, <2>2, <2>3, <2>4, <2>5 DEF Semaphore, Releasing,
       Opening
  <2>6. CASE d # c
    BY <1>1, <1>2, <2>1, <2>2, <2>3, <2>4, <2>6 DEF Semaphore, Releasing,
       Opening
  <2>. QED BY <2>5, <2>6
<1>8. Replacing'
  BY <1>2 DEF Replacing, Replaces, Opening
<1>9. Holding'
  BY <1>2 DEF Holding, Holds
<1>. QED
  BY <1>4, <1>5, <1>6, <1>7, <1>8, <1>9 DEF Orders, Phases, Counts, Semaphores

\* ThreadEnds keeps the inductive invariant.
LEMMA ThreadEndsPreserves ==
    ASSUME TypeOK, Safe, NEW c \in Cameras, NEW k \in Attempts, ThreadEnds(c, k)
    PROVE  Safe'
<1>. USE DEF TypeOK, Safe
<1>1. \A d \in Cameras, j \in Attempts :
            tState'[d][j] = IF d = c /\ j = k THEN "ended" ELSE tState[d][j]
  BY DEF ThreadEnds, ThreadTypes
<1>2. UNCHANGED <<uiPc, uiCam, thread, tPc, inbox, dev, sess, ready, permits, device, session>>
  BY DEF ThreadEnds
<1>3. tState[c][k] = "quit" /\ tPc[c][k] = "loop" /\ inbox[c][k] = <<>>
  BY DEF ThreadEnds
<1>4. ASSUME NEW d \in Cameras, NEW j \in Attempts PROVE Order(d, j)'
  <2>1. Order(d, j)
    BY DEF Orders
  <2>2. tState'[d][j] = IF d = c /\ j = k THEN "ended" ELSE tState[d][j]
    BY <1>1
  <2>. QED
    BY <1>2, <1>3, <2>1, <2>2 DEF Order, Running
<1>5. ASSUME NEW d \in Cameras PROVE Replaces(d)'
  <2>1. Replaces(d)
    BY DEF Replacing
  <2>2. thread[d] # 0 => thread[d] \in Attempts
    BY AttemptNumber DEF CameraTypes
  <2>. QED
    BY <1>1, <1>2, <1>3, <2>1, <2>2 DEF Replaces, Opening
<1>6. ASSUME NEW d \in Cameras, NEW j \in Attempts PROVE Count(d, j)'
  <2>1. Count(d, j)
    BY DEF Counts
  <2>2. tState'[d][j] = IF d = c /\ j = k THEN "ended" ELSE tState[d][j]
    BY <1>1
  <2>. QED
    BY <1>2, <1>3, <2>1, <2>2 DEF Count, Running, Opening, Starting
<1>7. ASSUME NEW d \in Cameras PROVE Semaphore(d)'
  <2>1. Semaphore(d)
    BY DEF Semaphores
  <2>2. CASE d = c
    BY <1>1, <1>2, <1>3, <2>1, <2>2 DEF Semaphore, Releasing, Opening
  <2>3. CASE d # c
    BY <1>1, <1>2, <2>1, <2>3 DEF Semaphore, Releasing, Opening
  <2>. QED BY <2>2, <2>3
<1>8. ASSUME NEW d \in Cameras, NEW j \in Attempts PROVE Phase(d, j)'
  <2>1. Phase(d, j)
    BY DEF Phases
  <2>. QED BY <1>2, <2>1 DEF Phase
<1>9. Holding'
  BY <1>2 DEF Holding, Holds
<1>. QED
  BY <1>4, <1>5, <1>6, <1>7, <1>8, <1>9 DEF Orders, Replacing, Counts,
     Semaphores, Phases

\* Steps that touch nothing of this, but for where the UI thread is.
LEMMA OtherPreserves ==
    ASSUME TypeOK, Safe,
           UNCHANGED <<uiCam, thread, tState, tPc, inbox, dev, sess, ready, permits, device, session>>,
           uiPc' = uiPc \/ (uiPc # "open" /\ uiPc' \notin {"begin", "acquire", "open"})
    PROVE  Safe'
<1>. USE DEF Safe
<1>1. ASSUME NEW d \in Cameras, NEW j \in Attempts PROVE Order(d, j)' /\ Phase(d, j)'
  <2>1. Order(d, j) /\ Phase(d, j)
    BY DEF Orders, Phases
  <2>2. Order(d, j)'
    BY <2>1 DEF Order, Running
  <2>3. Phase(d, j)'
    BY <2>1 DEF Phase
  <2>. QED BY <2>2, <2>3
<1>2. ASSUME NEW d \in Cameras PROVE Replaces(d)' /\ Holds(d)' /\ Semaphore(d)'
  <2>1. Replaces(d)'
    BY DEF Replacing, Replaces, Opening
  <2>2. Holds(d)'
    BY DEF Holding, Holds
  <2>3. Semaphore(d)'
    BY DEF Semaphores, Semaphore, Releasing, Opening
  <2>. QED BY <2>1, <2>2, <2>3
<1>3. ASSUME NEW d \in Cameras, NEW j \in Attempts PROVE Count(d, j)'
  <2>1. Count(d, j)
    BY DEF Counts
  <2>. QED BY <2>1 DEF Count, Running, Opening, Starting
<1>. QED
  BY <1>1, <1>2, <1>3 DEF Orders, Replacing, Phases, Holding, Counts, Semaphores

\* TakeCamera keeps the inductive invariant.
LEMMA TakeCameraPreserves ==
    ASSUME TypeOK, Safe, NEW c \in Cameras, TakeCamera(c)
    PROVE  Safe'
<1>. USE DEF TypeOK, Safe
<1>2. /\ uiPc' = "begin"
      /\ uiCam' = c
      /\ UNCHANGED <<thread, tState, tPc, inbox, dev, sess, ready, permits, device, session>>
  BY DEF TakeCamera, NextCamera
<1>3. uiPc = "check" /\ ready[c] = "absent"
  BY DEF TakeCamera, NextCamera
<1>4. ASSUME NEW d \in Cameras PROVE Replaces(d)'
  <2>1. Replaces(d)
    BY DEF Replacing
  <2>. QED
    BY <1>2, <1>3, <2>1 DEF Replaces, Opening
<1>5. ASSUME NEW d \in Cameras, NEW j \in Attempts PROVE Count(d, j)'
  <2>1. Count(d, j)
    BY DEF Counts
  <2>2. Order(d, j) /\ Phase(d, j)
    BY DEF Orders, Phases
  <2>. QED
    BY <1>2, <1>3, <2>1, <2>2 DEF Count, Running, Opening, Starting, Order,
       Phase
<1>6. ASSUME NEW d \in Cameras PROVE Semaphore(d)'
  <2>1. Semaphore(d)
    BY DEF Semaphores
  <2>. QED
    BY <1>2, <1>3, <2>1 DEF Semaphore, Releasing, Opening
<1>7. Orders'
  BY <1>2 DEF Orders, Order, Running
<1>8. ASSUME NEW d \in Cameras, NEW j \in Attempts PROVE Phase(d, j)'
  <2>1. Phase(d, j)
    BY DEF Phases
  <2>. QED BY <1>2, <2>1 DEF Phase
<1>9. Holding'
  BY <1>2 DEF Holding, Holds
<1>. QED
  BY <1>4, <1>5, <1>6, <1>7, <1>8, <1>9 DEF Replacing, Counts, Semaphores,
     Phases

\* StartBegin keeps the inductive invariant.
LEMMA StartBeginPreserves ==
    ASSUME TypeOK, Safe, StartBegin
    PROVE  Safe'
<1>. USE DEF TypeOK, Safe
<1>2. /\ uiPc' = "acquire"
      /\ UNCHANGED <<uiCam, thread, tState, tPc, inbox, dev, sess, ready, permits, device, session>>
  BY DEF StartBegin
<1>3. uiPc = "begin"
  BY DEF StartBegin
<1>4. ASSUME NEW d \in Cameras PROVE Replaces(d)'
  <2>1. Replaces(d)
    BY DEF Replacing
  <2>. QED
    BY <1>2, <1>3, <2>1 DEF Replaces, Opening
<1>5. ASSUME NEW d \in Cameras, NEW j \in Attempts PROVE Count(d, j)'
  <2>1. Count(d, j)
    BY DEF Counts
  <2>. QED
    BY <1>2, <1>3, <2>1 DEF Count, Running, Opening, Starting
<1>6. ASSUME NEW d \in Cameras PROVE Semaphore(d)'
  <2>1. Semaphore(d)
    BY DEF Semaphores
  <2>. QED
    BY <1>2, <1>3, <2>1 DEF Semaphore, Releasing, Opening
<1>7. Orders'
  BY <1>2 DEF Orders, Order, Running
<1>8. ASSUME NEW d \in Cameras, NEW j \in Attempts PROVE Phase(d, j)'
  <2>1. Phase(d, j)
    BY DEF Phases
  <2>. QED BY <1>2, <2>1 DEF Phase
<1>9. Holding'
  BY <1>2 DEF Holding, Holds
<1>. QED
  BY <1>4, <1>5, <1>6, <1>7, <1>8, <1>9 DEF Replacing, Counts, Semaphores,
     Phases

\* Acquire keeps the inductive invariant.
LEMMA AcquirePreserves ==
    ASSUME TypeOK, Safe, Acquire
    PROVE  Safe'
<1>. USE DEF TypeOK, Safe
<1>1. /\ \A d \in Cameras, j \in Attempts :
            tState'[d][j] = IF d = uiCam /\ j = thread[d] /\ tState[d][j] = "live" THEN "quit" ELSE tState[d][j]
      /\ \A d \in Cameras : permits'[d] = IF d = uiCam THEN permits[d] - 1 ELSE permits[d]
  <2>1. uiCam \in Cameras /\ thread[uiCam] \in 0 .. MaxAttempts
    BY DEF UiTypes, CameraTypes
  <2>2. thread[uiCam] # 0 => thread[uiCam] \in Attempts
    BY <2>1, AttemptNumber
  <2>3. 0 \notin Attempts
    BY SessionAssumption DEF Attempts
  <2>. QED BY <2>1, <2>2, <2>3 DEF Acquire, Quit, CameraTypes, ThreadTypes
<1>2. /\ uiPc' = "open"
      /\ UNCHANGED <<uiCam, thread, tPc, inbox, dev, sess, ready, device, session>>
  BY DEF Acquire, Quit, Available
<1>3. uiCam \in Cameras /\ uiPc = "acquire" /\ permits[uiCam] > 0 /\ thread[uiCam] < MaxAttempts
  BY DEF Acquire, Available, UiTypes
<1>4. ASSUME NEW d \in Cameras, NEW j \in Attempts PROVE Order(d, j)'
  <2>1. Order(d, j)
    BY DEF Orders
  <2>2. tState'[d][j] = IF d = uiCam /\ j = thread[d] /\ tState[d][j] = "live" THEN "quit" ELSE tState[d][j]
    BY <1>1
  <2>. QED
    BY <1>2, <1>3, <2>1, <2>2 DEF Order, Running
<1>5. ASSUME NEW d \in Cameras PROVE Replaces(d)'
  <2>1. Replaces(d)
    BY DEF Replacing
  <2>2. thread[d] # 0 => thread[d] \in Attempts
    BY AttemptNumber DEF CameraTypes
  <2>. QED
    BY <1>1, <1>2, <1>3, <2>1, <2>2 DEF Replaces, Opening
<1>6. ASSUME NEW d \in Cameras, NEW j \in Attempts PROVE Count(d, j)'
  <2>1. Count(d, j)
    BY DEF Counts
  <2>2. /\ tState'[d][j] = IF d = uiCam /\ j = thread[d] /\ tState[d][j] = "live" THEN "quit" ELSE tState[d][j]
        /\ permits'[d] = IF d = uiCam THEN permits[d] - 1 ELSE permits[d]
    BY <1>1
  <2>3. permits[d] \in Nat
    BY DEF CameraTypes
  <2>. QED
    BY <1>2, <1>3, <2>1, <2>2, <2>3 DEF Count, Running, Opening, Starting
<1>7. ASSUME NEW d \in Cameras PROVE Semaphore(d)'
  <2>1. Semaphore(d)
    BY DEF Semaphores
  <2>2. CASE d = uiCam
    BY <1>1, <1>2, <1>3, <2>1, <2>2 DEF Semaphore, Releasing, Opening
  <2>3. CASE d # uiCam
    BY <1>1, <1>2, <2>1, <2>3 DEF Semaphore, Releasing, Opening
  <2>. QED BY <2>2, <2>3
<1>8. ASSUME NEW d \in Cameras, NEW j \in Attempts PROVE Phase(d, j)'
  <2>1. Phase(d, j)
    BY DEF Phases
  <2>. QED BY <1>2, <2>1 DEF Phase
<1>9. Holding'
  BY <1>2 DEF Holding, Holds
<1>. QED
  BY <1>4, <1>5, <1>6, <1>7, <1>8, <1>9 DEF Orders, Replacing, Counts,
     Semaphores, Phases

\* StartOpen keeps the inductive invariant.
LEMMA StartOpenPreserves ==
    ASSUME TypeOK, Safe, StartOpen
    PROVE  Safe'
<1>. USE DEF TypeOK, Safe
<1>1. /\ \A d \in Cameras : thread'[d] = IF d = uiCam THEN thread[d] + 1 ELSE thread[d]
      /\ \A d \in Cameras, j \in Attempts :
            tState'[d][j] = IF d = uiCam /\ j = thread[d] + 1 THEN "live" ELSE tState[d][j]
      /\ \A d \in Cameras, j \in Attempts :
            dev'[d][j] = IF d = uiCam /\ j = thread[d] + 1 THEN "opening" ELSE dev[d][j]
  BY DEF StartOpen, CameraTypes, ServiceTypes, ThreadTypes, UiTypes
<1>2. /\ uiPc' = "check"
      /\ UNCHANGED <<uiCam, tPc, inbox, sess, ready, permits, device, session>>
  BY DEF StartOpen
<1>3. uiCam \in Cameras /\ uiPc = "open" /\ (thread[uiCam] # 0 => tState[uiCam][thread[uiCam]] = "ended")
  BY DEF StartOpen, Joined, UiTypes
<1>4. thread[uiCam] \in 0 .. MaxAttempts - 1 /\ thread[uiCam] + 1 \in Attempts
  <2>1. thread[uiCam] \in 0 .. MaxAttempts /\ thread[uiCam] < MaxAttempts
    BY <1>3 DEF Replacing, Replaces, Opening, CameraTypes
  <2>. QED BY <2>1, SessionAssumption DEF Attempts
<1>5. \A j \in Attempts : ~Running(uiCam, j)
  <2>1. \A j \in Attempts : Order(uiCam, j)
    BY <1>3 DEF Orders
  <2>2. \A j \in Attempts : j > thread[uiCam] \/ j < thread[uiCam] \/ (j = thread[uiCam] /\ j # 0)
    BY <1>4 DEF Attempts
  <2>. QED BY <1>3, <2>1, <2>2 DEF Order, Running
<1>6. \A j \in Attempts : sess[uiCam][j] = "repeating" => j < thread[uiCam] + 1 /\ tPc[uiCam][j] = "loop"
  <2>1. \A j \in Attempts : Order(uiCam, j)
    BY <1>3 DEF Orders
  <2>2. \A j \in Attempts : j > thread[uiCam] \/ j < thread[uiCam] + 1
    BY <1>4 DEF Attempts
  <2>. QED BY <1>5, <2>1, <2>2 DEF Order
<1>7. tState[uiCam][thread[uiCam] + 1] = "none" /\ dev[uiCam][thread[uiCam] + 1] = "none"
      /\ sess[uiCam][thread[uiCam] + 1] = "none" /\ tPc[uiCam][thread[uiCam] + 1] = "loop"
      /\ inbox[uiCam][thread[uiCam] + 1] = <<>>
  <2>1. Order(uiCam, thread[uiCam] + 1)
    BY <1>3, <1>4 DEF Orders
  <2>. QED BY <1>4, <2>1 DEF Order, Running
<1>8. ASSUME NEW d \in Cameras, NEW j \in Attempts PROVE Order(d, j)'
  <2>1. Order(d, j)
    BY DEF Orders
  <2>2. /\ thread'[d] = IF d = uiCam THEN thread[d] + 1 ELSE thread[d]
        /\ tState'[d][j] = IF d = uiCam /\ j = thread[d] + 1 THEN "live" ELSE tState[d][j]
        /\ dev'[d][j] = IF d = uiCam /\ j = thread[d] + 1 THEN "opening" ELSE dev[d][j]
    BY <1>1
  <2>3. thread[d] \in 0 .. MaxAttempts
    BY DEF CameraTypes
  <2>4. j \in Nat \ {0}
    BY SessionAssumption DEF Attempts
  <2>5. d = uiCam /\ j = thread[d] => tState[d][j] = "ended"
    BY <1>3, <2>4
  <2>6. CASE d # uiCam
    BY <1>2, <1>3, <1>4, <1>5, <1>6, <1>7, <2>1, <2>2, <2>3, <2>4, <2>5, <2>6
       DEF Order, Running
  <2>7. CASE d = uiCam /\ j = thread[d] + 1
    BY <1>2, <1>3, <1>4, <1>5, <1>6, <1>7, <2>1, <2>2, <2>3, <2>4, <2>5, <2>7
       DEF Order, Running
  <2>8. CASE d = uiCam /\ j < thread[d]
    BY <1>2, <1>3, <1>4, <1>5, <1>6, <1>7, <2>1, <2>2, <2>3, <2>4, <2>5, <2>8
       DEF Order, Running
  <2>9. CASE d = uiCam /\ j = thread[d]
    BY <1>2, <1>3, <1>4, <1>5, <1>6, <1>7, <2>1, <2>2, <2>3, <2>4, <2>5, <2>9
       DEF Order, Running
  <2>10. CASE d = uiCam /\ j > thread[d] + 1
    BY <1>2, <1>3, <1>4, <1>5, <1>6, <1>7, <2>1, <2>2, <2>3, <2>4, <2>5, <2>10
       DEF Order, Running
  <2>. QED BY <2>1, <2>2, <2>3, <2>4, <2>5, <2>6, <2>7, <2>8, <2>9, <2>10
<1>9. ASSUME NEW d \in Cameras PROVE Replaces(d)'
  <2>1. Replaces(d)
    BY DEF Replacing
  <2>2. thread[d] \in 0 .. MaxAttempts
    BY DEF CameraTypes
  <2>. QED
    BY <1>1, <1>2, <1>3, <1>4, <1>5, <1>6, <1>7, <2>1, <2>2 DEF Replaces,
       Opening
<1>10. ASSUME NEW d \in Cameras, NEW j \in Attempts PROVE Phase(d, j)'
  <2>1. Phase(d, j)
    BY DEF Phases
  <2>2. dev'[d][j] = IF d = uiCam /\ j = thread[d] + 1 THEN "opening" ELSE dev[d][j]
    BY <1>1
  <2>3. CASE d = uiCam /\ j = thread[uiCam] + 1
    BY <1>2, <1>3, <1>4, <1>5, <1>6, <1>7, <2>1, <2>2, <2>3 DEF Phase
  <2>4. CASE d # uiCam \/ j # thread[uiCam] + 1
    BY <1>2, <2>1, <2>2, <2>4 DEF Phase
  <2>. QED BY <2>3, <2>4
<1>11. ASSUME NEW d \in Cameras PROVE Holds(d)'
  <2>1. Holds(d)
    BY DEF Holding
  <2>2. device[d] # 0 => device[d] \in Attempts
    BY AttemptNumber DEF CameraTypes
  <2>. QED
    BY <1>1, <1>2, <1>3, <1>4, <1>5, <1>6, <1>7, <2>1, <2>2 DEF Holds
<1>12. ASSUME NEW d \in Cameras, NEW j \in Attempts PROVE Count(d, j)'
  <2>1. Count(d, j)
    BY DEF Counts
  <2>2. /\ thread'[d] = IF d = uiCam THEN thread[d] + 1 ELSE thread[d]
        /\ tState'[d][j] = IF d = uiCam /\ j = thread[d] + 1 THEN "live" ELSE tState[d][j]
    BY <1>1
  <2>3. permits[d] \in Nat
    BY DEF CameraTypes
  <2>4. thread[d] \in 0 .. MaxAttempts
    BY DEF CameraTypes
  <2>5. CASE d = uiCam
    BY <1>2, <1>3, <1>4, <1>5, <1>6, <1>7, <2>1, <2>2, <2>3, <2>4, <2>5 DEF
       Count, Running, Opening, Starting
  <2>6. CASE d # uiCam
    BY <1>2, <1>3, <1>4, <1>5, <1>6, <1>7, <2>1, <2>2, <2>3, <2>4, <2>6 DEF
       Count, Running, Opening, Starting
  <2>. QED BY <2>1, <2>2, <2>3, <2>4, <2>5, <2>6
<1>13. ASSUME NEW d \in Cameras PROVE Semaphore(d)'
  <2>1. Semaphore(d)
    BY DEF Semaphores
  <2>2. permits[d] \in Nat
    BY DEF CameraTypes
  <2>3. CASE d = uiCam
    BY <1>1, <1>2, <1>3, <1>4, <1>5, <1>6, <1>7, <2>1, <2>2, <2>3 DEF
       Semaphore, Releasing, Opening
  <2>4. CASE d # uiCam
    BY <1>1, <1>2, <2>1, <2>2, <2>4 DEF Semaphore, Releasing, Opening
  <2>. QED BY <2>3, <2>4
<1>. QED
  BY <1>8, <1>9, <1>10, <1>11, <1>12, <1>13 DEF Orders, Replacing, Phases,
     Holding, Counts, Semaphores

\* StartOpenThrows keeps the inductive invariant.
LEMMA StartOpenThrowsPreserves ==
    ASSUME TypeOK, Safe, StartOpenThrows
    PROVE  Safe'
<1>. USE DEF TypeOK, Safe
<1>1. /\ \A d \in Cameras : thread'[d] = IF d = uiCam THEN thread[d] + 1 ELSE thread[d]
      /\ \A d \in Cameras, j \in Attempts :
            tState'[d][j] = IF d = uiCam /\ j = thread[d] + 1 THEN "ended" ELSE tState[d][j]
      /\ \A d \in Cameras : permits'[d] = IF d = uiCam THEN permits[d] + 1 ELSE permits[d]
  BY DEF StartOpenThrows, Release, CameraTypes, ThreadTypes, UiTypes
<1>2. /\ uiPc' = "check"
      /\ UNCHANGED <<uiCam, tPc, inbox, dev, sess, ready, device, session>>
  BY DEF StartOpenThrows, Release
<1>3. uiCam \in Cameras /\ uiPc = "open" /\ (thread[uiCam] # 0 => tState[uiCam][thread[uiCam]] = "ended")
  BY DEF StartOpenThrows, Joined, UiTypes
<1>4. thread[uiCam] \in 0 .. MaxAttempts - 1 /\ thread[uiCam] + 1 \in Attempts
  <2>1. thread[uiCam] \in 0 .. MaxAttempts /\ thread[uiCam] < MaxAttempts
    BY <1>3 DEF Replacing, Replaces, Opening, CameraTypes
  <2>. QED BY <2>1, SessionAssumption DEF Attempts
<1>5. \A j \in Attempts : ~Running(uiCam, j)
  <2>1. \A j \in Attempts : Order(uiCam, j)
    BY <1>3 DEF Orders
  <2>2. \A j \in Attempts : j > thread[uiCam] \/ j < thread[uiCam] \/ (j = thread[uiCam] /\ j # 0)
    BY <1>4 DEF Attempts
  <2>. QED BY <1>3, <2>1, <2>2 DEF Order, Running
<1>6. \A j \in Attempts : sess[uiCam][j] = "repeating" => j < thread[uiCam] + 1 /\ tPc[uiCam][j] = "loop"
  <2>1. \A j \in Attempts : Order(uiCam, j)
    BY <1>3 DEF Orders
  <2>2. \A j \in Attempts : j > thread[uiCam] \/ j < thread[uiCam] + 1
    BY <1>4 DEF Attempts
  <2>. QED BY <1>5, <2>1, <2>2 DEF Order
<1>7. tState[uiCam][thread[uiCam] + 1] = "none" /\ dev[uiCam][thread[uiCam] + 1] = "none"
      /\ sess[uiCam][thread[uiCam] + 1] = "none" /\ tPc[uiCam][thread[uiCam] + 1] = "loop"
      /\ inbox[uiCam][thread[uiCam] + 1] = <<>>
  <2>1. Order(uiCam, thread[uiCam] + 1)
    BY <1>3, <1>4 DEF Orders
  <2>. QED BY <1>4, <2>1 DEF Order, Running
<1>8. ASSUME NEW d \in Cameras, NEW j \in Attempts PROVE Order(d, j)'
  <2>1. Order(d, j)
    BY DEF Orders
  <2>2. /\ thread'[d] = IF d = uiCam THEN thread[d] + 1 ELSE thread[d]
        /\ tState'[d][j] = IF d = uiCam /\ j = thread[d] + 1 THEN "ended" ELSE tState[d][j]
    BY <1>1
  <2>3. thread[d] \in 0 .. MaxAttempts
    BY DEF CameraTypes
  <2>4. j \in Nat \ {0}
    BY SessionAssumption DEF Attempts
  <2>5. d = uiCam /\ j = thread[d] => tState[d][j] = "ended"
    BY <1>3, <2>4
  <2>6. CASE d # uiCam
    BY <1>2, <1>3, <1>4, <1>5, <1>6, <1>7, <2>1, <2>2, <2>3, <2>4, <2>5, <2>6
       DEF Order, Running
  <2>7. CASE d = uiCam /\ j = thread[d] + 1
    BY <1>2, <1>3, <1>4, <1>5, <1>6, <1>7, <2>1, <2>2, <2>3, <2>4, <2>5, <2>7
       DEF Order, Running
  <2>8. CASE d = uiCam /\ j < thread[d]
    BY <1>2, <1>3, <1>4, <1>5, <1>6, <1>7, <2>1, <2>2, <2>3, <2>4, <2>5, <2>8
       DEF Order, Running
  <2>9. CASE d = uiCam /\ j = thread[d]
    BY <1>2, <1>3, <1>4, <1>5, <1>6, <1>7, <2>1, <2>2, <2>3, <2>4, <2>5, <2>9
       DEF Order, Running
  <2>10. CASE d = uiCam /\ j > thread[d] + 1
    BY <1>2, <1>3, <1>4, <1>5, <1>6, <1>7, <2>1, <2>2, <2>3, <2>4, <2>5, <2>10
       DEF Order, Running
  <2>. QED BY <2>1, <2>2, <2>3, <2>4, <2>5, <2>6, <2>7, <2>8, <2>9, <2>10
<1>9. ASSUME NEW d \in Cameras PROVE Replaces(d)'
  <2>1. Replaces(d)
    BY DEF Replacing
  <2>2. thread[d] \in 0 .. MaxAttempts
    BY DEF CameraTypes
  <2>. QED
    BY <1>1, <1>2, <1>3, <1>4, <1>5, <1>6, <1>7, <2>1, <2>2 DEF Replaces,
       Opening
<1>10. ASSUME NEW d \in Cameras, NEW j \in Attempts PROVE Count(d, j)'
  <2>1. Count(d, j)
    BY DEF Counts
  <2>2. /\ thread'[d] = IF d = uiCam THEN thread[d] + 1 ELSE thread[d]
        /\ tState'[d][j] = IF d = uiCam /\ j = thread[d] + 1 THEN "ended" ELSE tState[d][j]
        /\ permits'[d] = IF d = uiCam THEN permits[d] + 1 ELSE permits[d]
    BY <1>1
  <2>3. permits[d] \in Nat
    BY DEF CameraTypes
  <2>4. thread[d] \in 0 .. MaxAttempts
    BY DEF CameraTypes
  <2>5. CASE d = uiCam
    BY <1>2, <1>3, <1>4, <1>5, <1>6, <1>7, <2>1, <2>2, <2>3, <2>4, <2>5 DEF
       Count, Running, Opening, Starting
  <2>6. CASE d # uiCam
    BY <1>2, <1>3, <1>4, <1>5, <1>6, <1>7, <2>1, <2>2, <2>3, <2>4, <2>6 DEF
       Count, Running, Opening, Starting
  <2>. QED BY <2>1, <2>2, <2>3, <2>4, <2>5, <2>6
<1>11. ASSUME NEW d \in Cameras PROVE Semaphore(d)'
  <2>1. Semaphore(d)
    BY DEF Semaphores
  <2>2. permits[d] \in Nat
    BY DEF CameraTypes
  <2>3. CASE d = uiCam
    BY <1>1, <1>2, <1>3, <1>4, <1>5, <1>6, <1>7, <2>1, <2>2, <2>3 DEF
       Semaphore, Releasing, Opening
  <2>4. CASE d # uiCam
    BY <1>1, <1>2, <2>1, <2>2, <2>4 DEF Semaphore, Releasing, Opening
  <2>. QED BY <2>3, <2>4
<1>12. ASSUME NEW d \in Cameras, NEW j \in Attempts PROVE Phase(d, j)'
  <2>1. Phase(d, j)
    BY DEF Phases
  <2>. QED BY <1>2, <2>1 DEF Phase
<1>13. Holding'
  BY <1>2 DEF Holding, Holds
<1>. QED
  BY <1>8, <1>9, <1>10, <1>11, <1>12, <1>13 DEF Orders, Replacing, Counts,
     Semaphores, Phases

\* FrameStops keeps the inductive invariant.
LEMMA FrameStopsPreserves ==
    ASSUME TypeOK, Safe, NEW c \in Cameras, NEW k \in Attempts, FrameStops(c, k)
    PROVE  Safe'
<1>. USE DEF TypeOK, Safe
<1>1. \A d \in Cameras, j \in Attempts :
            tState'[d][j] = IF d = c /\ j = thread[d] /\ tState[d][j] = "live" THEN "quit" ELSE tState[d][j]
  <2>1. thread[c] # 0 => thread[c] \in Attempts
    BY AttemptNumber DEF CameraTypes
  <2>2. 0 \notin Attempts
    BY SessionAssumption DEF Attempts
  <2>. QED BY <2>1, <2>2 DEF FrameStops, Quit, ThreadTypes
<1>2. UNCHANGED <<uiPc, uiCam, thread, tPc, inbox, dev, sess, ready, permits, device, session>>
  BY DEF FrameStops
<1>3. sess[c][k] = "repeating" /\ (permits[c] >= 1 \/ Opening(c))
  <2>1. Order(c, k) /\ Phase(c, k) /\ Count(c, k) /\ permits[c] \in Nat
    BY DEF Orders, Phases, Counts, CameraTypes
  <2>2. sess[c][k] = "repeating"
    BY DEF FrameStops, Streaming
  <2>3. CASE tPc[c][k] \in {"loop", "close"}
    BY <2>1, <2>2, <2>3 DEF Count
  <2>4. CASE tPc[c][k] \notin {"loop", "close"}
    BY <2>1, <2>2, <2>4 DEF Count, Order
  <2>. QED BY <2>2, <2>3, <2>4
<1>4. ASSUME NEW d \in Cameras, NEW j \in Attempts PROVE Order(d, j)'
  <2>1. Order(d, j)
    BY DEF Orders
  <2>2. tState'[d][j] = IF d = c /\ j = thread[d] /\ tState[d][j] = "live" THEN "quit" ELSE tState[d][j]
    BY <1>1
  <2>. QED
    BY <1>2, <1>3, <2>1, <2>2 DEF Order, Running
<1>5. ASSUME NEW d \in Cameras PROVE Replaces(d)'
  <2>1. Replaces(d)
    BY DEF Replacing
  <2>2. thread[d] # 0 => thread[d] \in Attempts
    BY AttemptNumber DEF CameraTypes
  <2>. QED
    BY <1>1, <1>2, <1>3, <2>1, <2>2 DEF Replaces, Opening
<1>6. ASSUME NEW d \in Cameras, NEW j \in Attempts PROVE Count(d, j)'
  <2>1. Count(d, j)
    BY DEF Counts
  <2>2. tState'[d][j] = IF d = c /\ j = thread[d] /\ tState[d][j] = "live" THEN "quit" ELSE tState[d][j]
    BY <1>1
  <2>. QED
    BY <1>2, <1>3, <2>1, <2>2 DEF Count, Running, Opening, Starting
<1>7. ASSUME NEW d \in Cameras PROVE Semaphore(d)'
  <2>1. Semaphore(d)
    BY DEF Semaphores
  <2>2. CASE d = c
    BY <1>1, <1>2, <1>3, <2>1, <2>2 DEF Semaphore, Releasing, Opening
  <2>3. CASE d # c
    BY <1>1, <1>2, <2>1, <2>3 DEF Semaphore, Releasing, Opening
  <2>. QED BY <2>2, <2>3
<1>8. ASSUME NEW d \in Cameras, NEW j \in Attempts PROVE Phase(d, j)'
  <2>1. Phase(d, j)
    BY DEF Phases
  <2>. QED BY <1>2, <2>1 DEF Phase
<1>9. Holding'
  BY <1>2 DEF Holding, Holds
<1>. QED
  BY <1>4, <1>5, <1>6, <1>7, <1>8, <1>9 DEF Orders, Replacing, Counts,
     Semaphores, Phases

\* ImageStops keeps the inductive invariant.
LEMMA ImageStopsPreserves ==
    ASSUME TypeOK, Safe, NEW c \in Cameras, NEW k \in Attempts, ImageStops(c, k)
    PROVE  Safe'
<1>. USE DEF TypeOK, Safe
<1>1. /\ \A d \in Cameras, j \in Attempts :
            tState'[d][j] = IF d = c /\ j = thread[d] /\ tState[d][j] = "live" THEN "quit" ELSE tState[d][j]
      /\ \A d \in Cameras, j \in Attempts :
            tPc'[d][j] = IF d = c /\ j = k THEN "close" ELSE tPc[d][j]
  <2>1. thread[c] # 0 => thread[c] \in Attempts
    BY AttemptNumber DEF CameraTypes
  <2>2. 0 \notin Attempts
    BY SessionAssumption DEF Attempts
  <2>. QED BY <2>1, <2>2 DEF ImageStops, Quit, Goto, ThreadTypes
<1>2. UNCHANGED <<uiPc, uiCam, thread, inbox, dev, sess, ready, permits, device, session>>
  BY DEF ImageStops, Goto
<1>3. sess[c][k] = "repeating" /\ (permits[c] >= 1 \/ Opening(c))
  <2>1. Order(c, k) /\ Phase(c, k) /\ Count(c, k) /\ permits[c] \in Nat
    BY DEF Orders, Phases, Counts, CameraTypes
  <2>2. sess[c][k] = "repeating"
    BY DEF ImageStops, Streaming
  <2>3. CASE tPc[c][k] \in {"loop", "close"}
    BY <2>1, <2>2, <2>3 DEF Count
  <2>4. CASE tPc[c][k] \notin {"loop", "close"}
    BY <2>1, <2>2, <2>4 DEF Count, Order
  <2>. QED BY <2>2, <2>3, <2>4
<1>4. Running(c, k) /\ tPc[c][k] = "loop"
  BY DEF ImageStops, Running
<1>5. ASSUME NEW d \in Cameras, NEW j \in Attempts PROVE Order(d, j)'
  <2>1. Order(d, j)
    BY DEF Orders
  <2>2. /\ tState'[d][j] = IF d = c /\ j = thread[d] /\ tState[d][j] = "live" THEN "quit" ELSE tState[d][j]
        /\ tPc'[d][j] = IF d = c /\ j = k THEN "close" ELSE tPc[d][j]
    BY <1>1
  <2>. QED
    BY <1>2, <1>3, <1>4, <2>1, <2>2 DEF Order, Running
<1>6. ASSUME NEW d \in Cameras PROVE Replaces(d)'
  <2>1. Replaces(d)
    BY DEF Replacing
  <2>2. thread[d] # 0 => thread[d] \in Attempts
    BY AttemptNumber DEF CameraTypes
  <2>. QED
    BY <1>1, <1>2, <1>3, <1>4, <2>1, <2>2 DEF Replaces, Opening
<1>7. ASSUME NEW d \in Cameras, NEW j \in Attempts PROVE Phase(d, j)'
  <2>1. Phase(d, j)
    BY DEF Phases
  <2>2. tPc'[d][j] = IF d = c /\ j = k THEN "close" ELSE tPc[d][j]
    BY <1>1
  <2>3. CASE d = c /\ j = k
    BY <1>2, <1>3, <1>4, <2>1, <2>2, <2>3 DEF Phase
  <2>4. CASE d # c \/ j # k
    BY <1>2, <2>1, <2>2, <2>4 DEF Phase
  <2>. QED BY <2>3, <2>4
<1>8. ASSUME NEW d \in Cameras, NEW j \in Attempts PROVE Count(d, j)'
  <2>1. Count(d, j)
    BY DEF Counts
  <2>2. /\ tState'[d][j] = IF d = c /\ j = thread[d] /\ tState[d][j] = "live" THEN "quit" ELSE tState[d][j]
        /\ tPc'[d][j] = IF d = c /\ j = k THEN "close" ELSE tPc[d][j]
    BY <1>1
  <2>. QED
    BY <1>2, <1>3, <1>4, <2>1, <2>2 DEF Count, Running, Opening, Starting
<1>9. ASSUME NEW d \in Cameras PROVE Semaphore(d)'
  <2>1. Semaphore(d)
    BY DEF Semaphores
  <2>2. CASE d = c
    BY <1>1, <1>2, <1>3, <1>4, <2>1, <2>2 DEF Semaphore, Releasing, Opening
  <2>3. CASE d # c
    BY <1>1, <1>2, <2>1, <2>3 DEF Semaphore, Releasing, Opening
  <2>. QED BY <2>2, <2>3
<1>10. Holding'
  BY <1>2 DEF Holding, Holds
<1>. QED
  BY <1>5, <1>6, <1>7, <1>8, <1>9, <1>10 DEF Orders, Replacing, Phases, Counts,
     Semaphores

\* Only a device that has opened, and a session that has been answered, is closed.
LEMMA ClosingEffect ==
    ASSUME TypeOK, Holding, NEW c \in Cameras, CloseCamera(c) \/ AbortThrows(c)
    PROVE  /\ UNCHANGED <<permits, thread>>
           /\ \A d \in Cameras : device'[d] \in {0, device[d]}
           /\ \A d \in Cameras : session'[d] \in {0, session[d]}
           /\ \A d \in Cameras, j \in Attempts :
                 dev'[d][j] = dev[d][j] \/ (dev[d][j] \in {"open", "gone"} /\ dev'[d][j] = "gone")
           /\ \A d \in Cameras, j \in Attempts :
                 sess'[d][j] = sess[d][j] \/ (/\ sess[d][j] \in {"answered", "repeating", "closed"}
                                              /\ Callbacks(inbox[d][j]) \subseteq {"lost"}
                                              /\ sess'[d][j] = "closed")
<1>1. CASE AbortThrows(c)
  BY <1>1 DEF AbortThrows
<1>2. CASE CloseCamera(c)
  <2>1. /\ device[c] # 0 => device[c] \in Attempts
        /\ session[c] # 0 => session[c] \in Attempts
    BY AttemptNumber DEF TypeOK, CameraTypes
  <2>2. Holds(c)
    BY DEF Holding
  <2>3. UNCHANGED <<permits, thread>>
    BY <1>2 DEF CloseCamera
  <2>4. /\ \A d \in Cameras : device'[d] \in {0, device[d]}
        /\ \A d \in Cameras : session'[d] \in {0, session[d]}
    BY <1>2 DEF CloseCamera, TypeOK, CameraTypes
  <2>5. ASSUME NEW d \in Cameras, NEW j \in Attempts
        PROVE  dev'[d][j] = dev[d][j] \/ (dev[d][j] \in {"open", "gone"} /\ dev'[d][j] = "gone")
    BY <1>2, <2>1, <2>2 DEF CloseCamera, Holds, TypeOK, ServiceTypes
  <2>6. ASSUME NEW d \in Cameras, NEW j \in Attempts
        PROVE  sess'[d][j] = sess[d][j] \/ (/\ sess[d][j] \in {"answered", "repeating", "closed"}
                                            /\ Callbacks(inbox[d][j]) \subseteq {"lost"}
                                            /\ sess'[d][j] = "closed")
    BY <1>2, <2>1, <2>2 DEF CloseCamera, CloseSession, Holds, TypeOK, ServiceTypes
  <2>. QED BY <2>3, <2>4, <2>5, <2>6
<1>. QED BY <1>1, <1>2

\* FrameCloses keeps the inductive invariant.
LEMMA FrameClosesPreserves ==
    ASSUME TypeOK, Safe, NEW c \in Cameras, FrameCloses(c)
    PROVE  Safe'
<1>. USE DEF TypeOK, Safe
<1>1. /\ \A d \in Cameras, j \in Attempts :
            dev'[d][j] = dev[d][j] \/ (dev[d][j] \in {"open", "gone"} /\ dev'[d][j] = "gone")
      /\ \A d \in Cameras, j \in Attempts :
            sess'[d][j] = sess[d][j] \/ (/\ sess[d][j] \in {"answered", "repeating", "closed"}
                                        /\ Callbacks(inbox[d][j]) \subseteq {"lost"} /\ sess'[d][j] = "closed")
      /\ \A d \in Cameras : device'[d] \in {0, device[d]}
      /\ \A d \in Cameras : session'[d] \in {0, session[d]}
  <2>1. CloseCamera(c) \/ AbortThrows(c)
    BY DEF FrameCloses
  <2>. HIDE DEF TypeOK
  <2>. QED BY <2>1, ClosingEffect
<1>2. UNCHANGED <<uiPc, uiCam, thread, tState, tPc, inbox, ready, permits>>
  BY DEF FrameCloses, CloseCamera, AbortThrows
<1>3. ASSUME NEW d \in Cameras, NEW j \in Attempts PROVE Order(d, j)'
  <2>1. Order(d, j)
    BY DEF Orders
  <2>2. /\ dev'[d][j] = dev[d][j] \/ (dev[d][j] \in {"open", "gone"} /\ dev'[d][j] = "gone")
        /\ sess'[d][j] = sess[d][j] \/ (/\ sess[d][j] \in {"answered", "repeating", "closed"}
                                       /\ Callbacks(inbox[d][j]) \subseteq {"lost"} /\ sess'[d][j] = "closed")
    BY <1>1
  <2>. QED
    BY <1>2, <2>1, <2>2 DEF Order, Running
<1>4. ASSUME NEW d \in Cameras, NEW j \in Attempts PROVE Phase(d, j)'
  <2>1. Phase(d, j)
    BY DEF Phases
  <2>2. /\ dev'[d][j] = dev[d][j] \/ (dev[d][j] \in {"open", "gone"} /\ dev'[d][j] = "gone")
        /\ sess'[d][j] = sess[d][j] \/ (/\ sess[d][j] \in {"answered", "repeating", "closed"}
                                       /\ Callbacks(inbox[d][j]) \subseteq {"lost"} /\ sess'[d][j] = "closed")
    BY <1>1
  <2>. QED
    BY <1>2, <2>1, <2>2 DEF Phase
<1>5. ASSUME NEW d \in Cameras PROVE Holds(d)'
  <2>1. Holds(d)
    BY DEF Holding
  <2>2. /\ device[d] # 0 => device[d] \in Attempts
        /\ session[d] # 0 => session[d] \in Attempts
    BY AttemptNumber DEF CameraTypes
  <2>. QED
    BY <1>1, <1>2, <2>1, <2>2 DEF Holds
<1>6. ASSUME NEW d \in Cameras, NEW j \in Attempts PROVE Count(d, j)'
  <2>1. Count(d, j)
    BY DEF Counts
  <2>2. /\ dev'[d][j] = dev[d][j] \/ (dev[d][j] \in {"open", "gone"} /\ dev'[d][j] = "gone")
        /\ sess'[d][j] = sess[d][j] \/ (/\ sess[d][j] \in {"answered", "repeating", "closed"}
                                       /\ Callbacks(inbox[d][j]) \subseteq {"lost"} /\ sess'[d][j] = "closed")
    BY <1>1
  <2>. QED
    BY <1>2, <2>1, <2>2 DEF Count, Running, Opening, Starting
<1>7. ASSUME NEW d \in Cameras PROVE Semaphore(d)'
  <2>1. Semaphore(d)
    BY DEF Semaphores
  <2>. QED
    BY <1>1, <1>2, <2>1 DEF Semaphore, Releasing, Opening
<1>8. Replacing'
  BY <1>2 DEF Replacing, Replaces, Opening
<1>. QED
  BY <1>3, <1>4, <1>5, <1>6, <1>7, <1>8 DEF Orders, Phases, Holding, Counts,
     Semaphores

\* ImageCloses keeps the inductive invariant.
LEMMA ImageClosesPreserves ==
    ASSUME TypeOK, Safe, NEW c \in Cameras, NEW k \in Attempts, ImageCloses(c, k)
    PROVE  Safe'
<1>. USE DEF TypeOK, Safe
<1>1. /\ \A d \in Cameras, j \in Attempts :
            tPc'[d][j] = IF d = c /\ j = k THEN "loop" ELSE tPc[d][j]
      /\ \A d \in Cameras, j \in Attempts :
            dev'[d][j] = dev[d][j] \/ (dev[d][j] \in {"open", "gone"} /\ dev'[d][j] = "gone")
      /\ \A d \in Cameras, j \in Attempts :
            sess'[d][j] = sess[d][j] \/ (/\ sess[d][j] \in {"answered", "repeating", "closed"}
                                        /\ Callbacks(inbox[d][j]) \subseteq {"lost"} /\ sess'[d][j] = "closed")
      /\ \A d \in Cameras : device'[d] \in {0, device[d]}
      /\ \A d \in Cameras : session'[d] \in {0, session[d]}
  <2>1. CloseCamera(c) \/ AbortThrows(c)
    BY DEF ImageCloses
  <2>2. \A d \in Cameras, j \in Attempts :
            tPc'[d][j] = IF d = c /\ j = k THEN "loop" ELSE tPc[d][j]
    BY DEF ImageCloses, Goto, ThreadTypes
  <2>. HIDE DEF TypeOK
  <2>3. TypeOK /\ Holding
    OBVIOUS
  <2>. QED BY <2>1, <2>2, <2>3, ClosingEffect
<1>2. UNCHANGED <<uiPc, uiCam, thread, tState, inbox, ready, permits>>
  BY DEF ImageCloses, CloseCamera, AbortThrows, Goto
<1>3. tPc[c][k] = "close" /\ Running(c, k)
  BY DEF ImageCloses, Orders, Order
<1>4. ASSUME NEW d \in Cameras, NEW j \in Attempts PROVE Order(d, j)'
  <2>1. Order(d, j)
    BY DEF Orders
  <2>2. tPc'[d][j] = IF d = c /\ j = k THEN "loop" ELSE tPc[d][j]
    BY <1>1
  <2>3. /\ dev'[d][j] = dev[d][j] \/ (dev[d][j] \in {"open", "gone"} /\ dev'[d][j] = "gone")
        /\ sess'[d][j] = sess[d][j] \/ (/\ sess[d][j] \in {"answered", "repeating", "closed"}
                                       /\ Callbacks(inbox[d][j]) \subseteq {"lost"} /\ sess'[d][j] = "closed")
    BY <1>1
  <2>. QED
    BY <1>2, <1>3, <2>1, <2>2, <2>3 DEF Order, Running
<1>5. ASSUME NEW d \in Cameras, NEW j \in Attempts PROVE Phase(d, j)'
  <2>1. Phase(d, j)
    BY DEF Phases
  <2>2. tPc'[d][j] = IF d = c /\ j = k THEN "loop" ELSE tPc[d][j]
    BY <1>1
  <2>3. /\ dev'[d][j] = dev[d][j] \/ (dev[d][j] \in {"open", "gone"} /\ dev'[d][j] = "gone")
        /\ sess'[d][j] = sess[d][j] \/ (/\ sess[d][j] \in {"answered", "repeating", "closed"}
                                       /\ Callbacks(inbox[d][j]) \subseteq {"lost"} /\ sess'[d][j] = "closed")
    BY <1>1
  <2>. QED
    BY <1>2, <1>3, <2>1, <2>2, <2>3 DEF Phase
<1>6. ASSUME NEW d \in Cameras PROVE Holds(d)'
  <2>1. Holds(d)
    BY DEF Holding
  <2>2. /\ device[d] # 0 => device[d] \in Attempts
        /\ session[d] # 0 => session[d] \in Attempts
    BY AttemptNumber DEF CameraTypes
  <2>. QED
    BY SMTT(30), <1>1, <1>2, <1>3, <2>1, <2>2 DEF Holds
<1>7. ASSUME NEW d \in Cameras, NEW j \in Attempts PROVE Count(d, j)'
  <2>1. Count(d, j)
    BY DEF Counts
  <2>2. tPc'[d][j] = IF d = c /\ j = k THEN "loop" ELSE tPc[d][j]
    BY <1>1
  <2>3. /\ dev'[d][j] = dev[d][j] \/ (dev[d][j] \in {"open", "gone"} /\ dev'[d][j] = "gone")
        /\ sess'[d][j] = sess[d][j] \/ (/\ sess[d][j] \in {"answered", "repeating", "closed"}
                                       /\ Callbacks(inbox[d][j]) \subseteq {"lost"} /\ sess'[d][j] = "closed")
    BY <1>1
  <2>. QED
    BY <1>2, <1>3, <2>1, <2>2, <2>3 DEF Count, Running, Opening, Starting
<1>8. ASSUME NEW d \in Cameras PROVE Semaphore(d)'
  <2>1. Semaphore(d)
    BY DEF Semaphores
  <2>. QED
    BY <1>1, <1>2, <1>3, <2>1 DEF Semaphore, Releasing, Opening
<1>9. Replacing'
  BY <1>2 DEF Replacing, Replaces, Opening
<1>. QED
  BY <1>4, <1>5, <1>6, <1>7, <1>8, <1>9 DEF Orders, Phases, Holding, Counts,
     Semaphores

\* The inbox of (c, k) after callback e has been posted to it, or nothing has.
Gets(c, k, e) ==
    /\ tState[c][k] # "live" => inbox'[c][k] = inbox[c][k]
    /\ tState[c][k] = "live" =>
          /\ Callbacks(inbox'[c][k]) = Callbacks(inbox[c][k]) \cup {e}
          /\ Once(inbox[c][k], {"opened"}) /\ (e = "opened" => e \notin Callbacks(inbox[c][k]))
                => Once(inbox'[c][k], {"opened"})
          /\ Once(inbox[c][k], Answers) /\ (e \in Answers => Callbacks(inbox[c][k]) \cap Answers = {})
                => Once(inbox'[c][k], Answers)

\* Post changes one inbox, by one callback at most.
LEMMA PostGets ==
    ASSUME TypeOK, NEW c \in Cameras, NEW k \in Attempts, NEW e \in Events, Post(c, k, e)
    PROVE  /\ Gets(c, k, e)
           /\ \A d \in Cameras, j \in Attempts : d # c \/ j # k => inbox'[d][j] = inbox[d][j]
<1>1. ThreadTypes
  BY DEF TypeOK
<1>2. \A d \in Cameras, j \in Attempts : d # c \/ j # k => inbox'[d][j] = inbox[d][j]
  BY <1>1 DEF Post, ThreadTypes
<1>3. tState[c][k] # "live" => inbox'[c][k] = inbox[c][k]
  BY DEF Post
<1>4. ASSUME tState[c][k] = "live"
      PROVE  /\ Callbacks(inbox'[c][k]) = Callbacks(inbox[c][k]) \cup {e}
             /\ \A E : Once(inbox[c][k], E) /\ (e \in E => Callbacks(inbox[c][k]) \cap E = {})
                          => Once(inbox'[c][k], E)
  BY <1>1, <1>4, InboxPost
<1>5. e \in {"opened"} => e = "opened"
  OBVIOUS
<1>6. ASSUME tState[c][k] = "live", Once(inbox[c][k], {"opened"}),
             e = "opened" => e \notin Callbacks(inbox[c][k])
      PROVE  Once(inbox'[c][k], {"opened"})
  <2>1. e \in {"opened"} => Callbacks(inbox[c][k]) \cap {"opened"} = {}
    BY <1>6
  <2>. QED BY <1>4, <1>6, <2>1
<1>7. ASSUME tState[c][k] = "live", Once(inbox[c][k], Answers),
             e \in Answers => Callbacks(inbox[c][k]) \cap Answers = {}
      PROVE  Once(inbox'[c][k], Answers)
  BY <1>4, <1>7
<1>. QED BY <1>2, <1>3, <1>4, <1>6, <1>7 DEF Gets

\* The same for the callbacks that an opening device causes.
LEMMA OpensGets ==
    ASSUME TypeOK, NEW c \in Cameras, NEW k \in Attempts, ServiceOpens(c, k)
    PROVE  \A d \in Cameras, j \in Attempts :
              IF d = c /\ j = k
              THEN dev[d][j] = "opening" /\ dev'[d][j] = "open" /\ Gets(d, j, "opened")
              ELSE \/ dev'[d][j] = dev[d][j] /\ inbox'[d][j] = inbox[d][j]
                   \/ dev[d][j] = "open" /\ dev'[d][j] = "gone" /\ Gets(d, j, "lost")
<1>1. ThreadTypes
  BY DEF TypeOK
<1>2. "opened" \notin Answers /\ "lost" \notin Answers /\ "lost" # "opened"
  BY DEF Answers
<1>3. "opened" \in Events /\ "lost" \in Events
  BY DEF Events
<1>4. \A d \in Cameras, j \in Attempts : inbox[d][j] \in Seq(Events)
  BY <1>1 DEF ThreadTypes
<1>5. ASSUME NEW d \in Cameras, NEW j \in Attempts, NEW e \in {"opened", "lost"},
             tState[d][j] = "live" => inbox'[d][j] = Append(inbox[d][j], e),
             tState[d][j] # "live" => inbox'[d][j] = inbox[d][j]
      PROVE  Gets(d, j, e)
  <2>. DEFINE s == inbox[d][j]
  <2>1. s \in Seq(Events) /\ e \in Events /\ e \notin Answers
    BY <1>2, <1>3, <1>4
  <2>. HIDE DEF s
  <2>2. /\ Callbacks(Append(s, e)) = Callbacks(s) \cup {e}
        /\ \A E : Once(s, E) /\ (e \in E => Callbacks(s) \cap E = {}) => Once(Append(s, e), E)
    BY <2>1, CallbacksAppend
  <2>3. (e = "opened" => e \notin Callbacks(s)) => (e \in {"opened"} => Callbacks(s) \cap {"opened"} = {})
    OBVIOUS
  <2>4. ASSUME Once(s, {"opened"}), e = "opened" => e \notin Callbacks(s)
        PROVE  Once(Append(s, e), {"opened"})
    BY <2>2, <2>3, <2>4
  <2>5. Once(s, Answers) => Once(Append(s, e), Answers)
    BY <2>1, <2>2
  <2>. QED BY <1>5, <2>2, <2>4, <2>5 DEF Gets, s
<1>6. ASSUME NEW d \in Cameras, NEW j \in Attempts
      PROVE  IF d = c /\ j = k
             THEN dev[d][j] = "opening" /\ dev'[d][j] = "open" /\ Gets(d, j, "opened")
             ELSE \/ dev'[d][j] = dev[d][j] /\ inbox'[d][j] = inbox[d][j]
                  \/ dev[d][j] = "open" /\ dev'[d][j] = "gone" /\ Gets(d, j, "lost")
  <2>1. CASE d = c /\ j = k
    <3>1. /\ tState[d][j] = "live" => inbox'[d][j] = Append(inbox[d][j], "opened")
          /\ tState[d][j] # "live" => inbox'[d][j] = inbox[d][j]
      BY <1>1, <2>1 DEF ServiceOpens, ThreadTypes
    <3>2. Gets(d, j, "opened")
      BY <1>5, <3>1
    <3>3. dev[d][j] = "opening" /\ dev'[d][j] = "open"
      BY <2>1 DEF ServiceOpens, Evicted, TypeOK, ServiceTypes
    <3>. QED BY <2>1, <3>2, <3>3
  <2>2. CASE d = c /\ j # k /\ j \in Evicted(c, k)
    <3>1. /\ tState[d][j] = "live" => inbox'[d][j] = Append(inbox[d][j], "lost")
          /\ tState[d][j] # "live" => inbox'[d][j] = inbox[d][j]
      BY <1>1, <2>2 DEF ServiceOpens, ThreadTypes
    <3>2. Gets(d, j, "lost")
      BY <1>5, <3>1
    <3>3. dev[d][j] = "open" /\ dev'[d][j] = "gone"
      BY <2>2 DEF ServiceOpens, Evicted, TypeOK, ServiceTypes
    <3>. QED BY <2>2, <3>2, <3>3
  <2>3. CASE d = c /\ j # k /\ j \notin Evicted(c, k)
    <3>1. inbox'[d][j] = inbox[d][j]
      BY <1>1, <2>3 DEF ServiceOpens, ThreadTypes
    <3>2. dev'[d][j] = dev[d][j]
      BY <2>3 DEF ServiceOpens, Evicted, TypeOK, ServiceTypes
    <3>. QED BY <2>3, <3>1, <3>2
  <2>4. CASE d # c
    <3>1. inbox'[d][j] = inbox[d][j]
      BY <1>1, <2>4 DEF ServiceOpens, ThreadTypes
    <3>2. dev'[d][j] = dev[d][j]
      BY <2>4 DEF ServiceOpens, Evicted, TypeOK, ServiceTypes
    <3>. QED BY <2>4, <3>1, <3>2
  <2>. QED BY <2>1, <2>2, <2>3, <2>4
<1>. QED BY <1>6

\* ServiceLoses keeps the inductive invariant.
LEMMA ServiceLosesPreserves ==
    ASSUME TypeOK, Safe, NEW c \in Cameras, NEW k \in Attempts, ServiceLoses(c, k)
    PROVE  Safe'
<1>. USE DEF TypeOK, Safe
<1>1. /\ \A d \in Cameras, j \in Attempts :
            IF d = c /\ j = k THEN Gets(d, j, "lost")
            ELSE inbox'[d][j] = inbox[d][j]
      /\ \A d \in Cameras, j \in Attempts :
            dev'[d][j] = IF d = c /\ j = k THEN "gone" ELSE dev[d][j]
  <2>1. "lost" \in Events
    BY DEF Events
  <2>2. Post(c, k, "lost")
    BY DEF ServiceLoses
  <2>3. \A d \in Cameras, j \in Attempts :
            dev'[d][j] = IF d = c /\ j = k THEN "gone" ELSE dev[d][j]
    BY DEF ServiceLoses, ServiceTypes
  <2>. HIDE DEF TypeOK
  <2>. QED BY <2>1, <2>2, <2>3, PostGets
<1>2. UNCHANGED <<uiPc, uiCam, thread, tState, tPc, sess, ready, permits, device, session>>
  BY DEF ServiceLoses
<1>3. dev[c][k] \in {"opening", "open"}
  BY DEF ServiceLoses
<1>4. ASSUME NEW d \in Cameras, NEW j \in Attempts PROVE Order(d, j)'
  <2>1. Order(d, j)
    BY DEF Orders
  <2>2. dev'[d][j] = IF d = c /\ j = k THEN "gone" ELSE dev[d][j]
    BY <1>1
  <2>3. IF d = c /\ j = k THEN Gets(d, j, "lost")
      ELSE inbox'[d][j] = inbox[d][j]
    BY <1>1
  <2>. QED
    BY <1>2, <1>3, <2>1, <2>2, <2>3 DEF Order, Running, Gets
<1>5. ASSUME NEW d \in Cameras, NEW j \in Attempts PROVE Phase(d, j)'
  <2>1. Phase(d, j)
    BY DEF Phases
  <2>2. dev'[d][j] = IF d = c /\ j = k THEN "gone" ELSE dev[d][j]
    BY <1>1
  <2>3. IF d = c /\ j = k THEN Gets(d, j, "lost")
      ELSE inbox'[d][j] = inbox[d][j]
    BY <1>1
  <2>4. "opened" \notin Answers /\ "lost" \notin Answers
    BY DEF Answers
  <2>5. CASE d = c /\ j = k
    BY <1>2, <1>3, <2>1, <2>2, <2>3, <2>4, <2>5 DEF Phase, Gets
  <2>6. CASE d # c \/ j # k
    BY <1>2, <2>1, <2>2, <2>3, <2>4, <2>6 DEF Phase, Gets
  <2>. QED BY <2>5, <2>6
<1>6. ASSUME NEW d \in Cameras PROVE Holds(d)'
  <2>1. Holds(d)
    BY DEF Holding
  <2>2. /\ device[d] # 0 => device[d] \in Attempts
        /\ session[d] # 0 => session[d] \in Attempts
    BY AttemptNumber DEF CameraTypes
  <2>. QED
    BY <1>1, <1>2, <1>3, <2>1, <2>2 DEF Holds, Gets
<1>7. ASSUME NEW d \in Cameras PROVE Semaphore(d)'
  <2>1. Semaphore(d)
    BY DEF Semaphores
  <2>. QED
    BY <1>1, <1>2, <1>3, <2>1 DEF Semaphore, Releasing, Opening, Gets
<1>8. Replacing'
  BY <1>2 DEF Replacing, Replaces, Opening
<1>9. Counts'
  BY <1>2 DEF Counts, Count, Running, Opening, Starting
<1>. QED
  BY <1>4, <1>5, <1>6, <1>7, <1>8, <1>9 DEF Orders, Phases, Holding, Semaphores

\* ServiceOpens keeps the inductive invariant.
LEMMA ServiceOpensPreserves ==
    ASSUME TypeOK, Safe, NEW c \in Cameras, NEW k \in Attempts, ServiceOpens(c, k)
    PROVE  Safe'
<1>. USE DEF TypeOK, Safe
<1>1. \A d \in Cameras, j \in Attempts :
            IF d = c /\ j = k
            THEN dev[d][j] = "opening" /\ dev'[d][j] = "open" /\ Gets(d, j, "opened")
            ELSE \/ dev'[d][j] = dev[d][j] /\ inbox'[d][j] = inbox[d][j]
                 \/ dev[d][j] = "open" /\ dev'[d][j] = "gone" /\ Gets(d, j, "lost")
  BY OpensGets
<1>2. UNCHANGED <<uiPc, uiCam, thread, tState, tPc, sess, ready, permits, device, session>>
  BY DEF ServiceOpens
<1>3. ASSUME NEW d \in Cameras, NEW j \in Attempts PROVE Order(d, j)'
  <2>1. Order(d, j)
    BY DEF Orders
  <2>2. IF d = c /\ j = k
      THEN dev[d][j] = "opening" /\ dev'[d][j] = "open" /\ Gets(d, j, "opened")
      ELSE \/ dev'[d][j] = dev[d][j] /\ inbox'[d][j] = inbox[d][j]
           \/ dev[d][j] = "open" /\ dev'[d][j] = "gone" /\ Gets(d, j, "lost")
    BY <1>1
  <2>. QED
    BY <1>2, <2>1, <2>2 DEF Order, Running, Gets
<1>4. ASSUME NEW d \in Cameras, NEW j \in Attempts PROVE Phase(d, j)'
  <2>1. Phase(d, j)
    BY DEF Phases
  <2>2. IF d = c /\ j = k
      THEN dev[d][j] = "opening" /\ dev'[d][j] = "open" /\ Gets(d, j, "opened")
      ELSE \/ dev'[d][j] = dev[d][j] /\ inbox'[d][j] = inbox[d][j]
           \/ dev[d][j] = "open" /\ dev'[d][j] = "gone" /\ Gets(d, j, "lost")
    BY <1>1
  <2>3. "opened" \notin Answers /\ "lost" \notin Answers
    BY DEF Answers
  <2>4. Callbacks(<<>>) = {}
    BY CallbacksEmpty
  <2>5. CASE d = c /\ j = k
    BY <1>2, <2>1, <2>2, <2>3, <2>4, <2>5 DEF Phase, Gets
  <2>6. CASE d # c \/ j # k
    BY <1>2, <2>1, <2>2, <2>3, <2>4, <2>6 DEF Phase, Gets
  <2>. QED BY <2>1, <2>2, <2>3, <2>4, <2>5, <2>6
<1>5. ASSUME NEW d \in Cameras PROVE Holds(d)'
  <2>1. Holds(d)
    BY DEF Holding
  <2>2. /\ device[d] # 0 => device[d] \in Attempts
        /\ session[d] # 0 => session[d] \in Attempts
    BY AttemptNumber DEF CameraTypes
  <2>3. ASSUME device[d] # 0 PROVE dev'[d][device[d]] \in {"open", "gone"}
    BY <1>1, <2>1, <2>2, <2>3 DEF Holds
  <2>4. ASSUME session[d] # 0
        PROVE  Callbacks(inbox'[d][session[d]]) \subseteq Callbacks(inbox[d][session[d]]) \cup {"lost"}
    <3>. DEFINE j == session[d]
    <3>1. j \in Attempts /\ Phase(d, j)
      BY <2>2, <2>4 DEF Phases
    <3>2. dev[d][j] # "opening"
      BY <2>1, <2>4, <3>1 DEF Holds, Phase
    <3>. HIDE DEF j
    <3>3. \/ inbox'[d][j] = inbox[d][j]
          \/ Gets(d, j, "lost")
      BY <1>1, <3>1, <3>2
    <3>. QED BY <3>3 DEF Gets, j
  <2>. QED BY <1>2, <2>1, <2>3, <2>4 DEF Holds
<1>6. ASSUME NEW d \in Cameras PROVE Semaphore(d)'
  <2>1. Semaphore(d)
    BY DEF Semaphores
  <2>2. ASSUME NEW j \in Attempts, Releasing(d, j) PROVE Releasing(d, j)'
    <3>1. IF d = c /\ j = k
          THEN dev[d][j] = "opening" /\ dev'[d][j] = "open" /\ Gets(d, j, "opened")
          ELSE \/ dev'[d][j] = dev[d][j] /\ inbox'[d][j] = inbox[d][j]
               \/ dev[d][j] = "open" /\ dev'[d][j] = "gone" /\ Gets(d, j, "lost")
      BY <1>1
    <3>. QED BY <1>2, <2>2, <3>1 DEF Releasing, Gets
  <2>. QED BY <1>2, <2>1, <2>2 DEF Semaphore, Opening
<1>7. Replacing'
  BY <1>2 DEF Replacing, Replaces, Opening
<1>8. Counts'
  BY <1>2 DEF Counts, Count, Running, Opening, Starting
<1>. QED
  BY <1>3, <1>4, <1>5, <1>6, <1>7, <1>8 DEF Orders, Phases, Holding, Semaphores

\* ServiceAnswers keeps the inductive invariant.
LEMMA ServiceAnswersPreserves ==
    ASSUME TypeOK, Safe, NEW c \in Cameras, NEW k \in Attempts, ServiceAnswers(c, k)
    PROVE  Safe'
<1>. USE DEF TypeOK, Safe
<1>1. /\ \A d \in Cameras, j \in Attempts : d # c \/ j # k => inbox'[d][j] = inbox[d][j]
      /\ \A d \in Cameras, j \in Attempts :
            sess'[d][j] = IF d = c /\ j = k THEN "answered" ELSE sess[d][j]
  <2>. PICK answer \in {"configured", "refused"} : Post(c, k, answer)
    BY DEF ServiceAnswers
  <2>1. \A d \in Cameras, j \in Attempts :
            sess'[d][j] = IF d = c /\ j = k THEN "answered" ELSE sess[d][j]
    BY DEF ServiceAnswers, ServiceTypes
  <2>2. answer \in Events
    BY DEF Events
  <2>. HIDE DEF TypeOK
  <2>. QED BY <2>1, <2>2, PostGets
<1>2. UNCHANGED <<uiPc, uiCam, thread, tState, tPc, dev, ready, permits, device, session>>
  BY DEF ServiceAnswers
<1>3. sess[c][k] = "requested"
  BY DEF ServiceAnswers
<1>4. \E answer \in Answers : Gets(c, k, answer)
  <2>. PICK answer \in {"configured", "refused"} : Post(c, k, answer)
    BY DEF ServiceAnswers
  <2>1. answer \in Events /\ answer \in Answers
    BY DEF Events, Answers
  <2>. HIDE DEF TypeOK
  <2>. QED BY <2>1, PostGets
<1>5. ASSUME NEW d \in Cameras, NEW j \in Attempts PROVE Order(d, j)'
  <2>1. Order(d, j)
    BY DEF Orders
  <2>2. sess'[d][j] = IF d = c /\ j = k THEN "answered" ELSE sess[d][j]
    BY <1>1
  <2>3. d # c \/ j # k => inbox'[d][j] = inbox[d][j]
    BY <1>1
  <2>. QED
    BY <1>2, <1>3, <1>4, <2>1, <2>2, <2>3 DEF Order, Running, Gets
<1>6. ASSUME NEW d \in Cameras, NEW j \in Attempts PROVE Phase(d, j)'
  <2>1. Phase(d, j)
    BY DEF Phases
  <2>2. sess'[d][j] = IF d = c /\ j = k THEN "answered" ELSE sess[d][j]
    BY <1>1
  <2>3. d # c \/ j # k => inbox'[d][j] = inbox[d][j]
    BY <1>1
  <2>4. "opened" \notin Answers /\ "lost" \notin Answers
    BY DEF Answers
  <2>5. Answers \cap {"lost"} = {}
    BY DEF Answers
  <2>6. CASE d = c /\ j = k
    BY <1>2, <1>3, <1>4, <2>1, <2>2, <2>3, <2>4, <2>5, <2>6 DEF Phase, Gets
  <2>7. CASE d # c \/ j # k
    BY <1>2, <2>1, <2>2, <2>3, <2>4, <2>5, <2>7 DEF Phase, Gets
  <2>. QED BY <2>6, <2>7
<1>7. ASSUME NEW d \in Cameras PROVE Holds(d)'
  <2>1. Holds(d)
    BY DEF Holding
  <2>2. /\ device[d] # 0 => device[d] \in Attempts
        /\ session[d] # 0 => session[d] \in Attempts
    BY AttemptNumber DEF CameraTypes
  <2>. QED
    BY <1>1, <1>2, <1>3, <1>4, <2>1, <2>2 DEF Holds, Gets
<1>8. ASSUME NEW d \in Cameras, NEW j \in Attempts PROVE Count(d, j)'
  <2>1. Count(d, j)
    BY DEF Counts
  <2>2. sess'[d][j] = IF d = c /\ j = k THEN "answered" ELSE sess[d][j]
    BY <1>1
  <2>. QED
    BY <1>2, <1>3, <1>4, <2>1, <2>2 DEF Count, Running, Opening, Starting
<1>9. ASSUME NEW d \in Cameras PROVE Semaphore(d)'
  <2>1. Semaphore(d)
    BY DEF Semaphores
  <2>2. CASE d = c
    BY <1>1, <1>2, <1>3, <1>4, <2>1, <2>2 DEF Semaphore, Releasing, Opening,
       Gets
  <2>3. CASE d # c
    BY <1>1, <1>2, <2>1, <2>3 DEF Semaphore, Releasing, Opening, Gets
  <2>. QED BY <2>2, <2>3
<1>10. Replacing'
  BY <1>2 DEF Replacing, Replaces, Opening
<1>. QED
  BY <1>5, <1>6, <1>7, <1>8, <1>9, <1>10 DEF Orders, Phases, Holding, Counts,
     Semaphores

-----------------------------------------------------------------------------
(* The theorems.                                                           *)

\* The inductive invariant holds initially.
LEMMA InitInvariant == Init => IInv
<1>. SUFFICES ASSUME Init PROVE IInv
  OBVIOUS
<1>1. TypeOK
  <2>1. <<>> \in Seq(Events)
    OBVIOUS
  <2>2. UiTypes
    <3>1. starts \in 0 .. MaxStarts
      BY SessionAssumption DEF Init
    <3>2. /\ ready \in [Cameras -> {"absent", "ok", "failed"}]
          /\ destroyer \in [Cameras -> {"none", "ui"} \cup Cameras]
      BY DEF Init
    <3>3. uiPc \in {"idle"} /\ uiCam \in Cameras /\ uiLeft = {} /\ isPreviewing = FALSE
      BY DEF Init
    <3>. QED BY <3>1, <3>2, <3>3 DEF UiTypes
  <2>3. FlagTypes
    BY DEF Init, FlagTypes
  <2>4. CameraTypes
    BY SessionAssumption DEF Init, CameraTypes
  <2>5. ThreadTypes
    BY <2>1 DEF Init, ThreadTypes, HandlerPcs
  <2>6. ServiceTypes
    BY SessionAssumption DEF Init, ServiceTypes
  <2>. QED BY <2>2, <2>3, <2>4, <2>5, <2>6 DEF TypeOK
<1>2. Orders /\ Replacing /\ Holding /\ Counts /\ Semaphores
  BY SessionAssumption
     DEF Init, Orders, Order, Running, Replacing, Replaces, Holding, Holds, Counts, Count,
         Semaphores, Semaphore, Opening, Starting, Attempts
<1>3. Phases
  BY CallbacksEmpty DEF Init, Phases, Phase
<1>. QED BY <1>1, <1>2, <1>3 DEF IInv, Safe

\* Every step keeps the types.
LEMMA TypesStep ==
    ASSUME IInv, [Next]_vars
    PROVE  TypeOK'
BY UiTypesStep, FlagTypesStep, CameraTypesStep, ThreadTypesStep, ServiceTypesStep DEF TypeOK

\* Every step keeps the rest of the inductive invariant.
LEMMA SafeStep ==
    ASSUME IInv, [Next]_vars
    PROVE  Safe'
<1>. USE DEF IInv
<1>1. CASE UNCHANGED vars
  BY <1>1, OtherPreserves
<1>2. CASE SurfaceChanged \/ StopPreview \/ WaitTimeout
  BY <1>2, OtherPreserves DEF SurfaceChanged, StopPreview, WaitTimeout
<1>3. CASE UIRuns
  <2>1. CASE AcquireTimeout \/ StartsDone \/ WaitReturn
    BY <2>1, OtherPreserves DEF AcquireTimeout, StartsDone, WaitReturn
  <2>2. CASE StopDestroy \/ StopReturn
    BY <2>2, OtherPreserves DEF StopDestroy, StopReturn
  <2>3. ASSUME NEW c \in Cameras, SkipCamera(c) PROVE Safe'
    BY <2>3, OtherPreserves DEF SkipCamera
  <2>. QED
    BY <1>3, <2>1, <2>2, <2>3, TakeCameraPreserves, StartBeginPreserves, AcquirePreserves,
       StartOpenPreserves, StartOpenThrowsPreserves DEF UIRuns
<1>4. ASSUME NEW c \in Cameras, MessageThread(c) PROVE Safe'
  <2>1. CASE FrameJoined(c)
    BY <2>1, OtherPreserves DEF FrameJoined
  <2>. QED BY <1>4, <2>1, FrameClosesPreserves DEF MessageThread
<1>5. ASSUME NEW c \in Cameras, NEW k \in Attempts, HandlerThread(c, k) PROVE Safe'
  <2>1. CASE FailureDestroy(c, k)
    BY <2>1, OtherPreserves DEF FailureDestroy
  <2>. QED
    BY <1>5, <2>1, OnOpenedPreserves, OnLostPreserves, CreateSessionPreserves,
       CreateFailsPreserves, OnConfiguredPreserves, StartRepeatingPreserves,
       RepeatFailsPreserves, ReportSuccessPreserves, FinishSuccessPreserves,
       OnConfigureFailedPreserves, FailureReturnPreserves, ThreadEndsPreserves,
       ImageClosesPreserves DEF HandlerThread
<1>6. ASSUME NEW c \in Cameras, NEW k \in Attempts, Service(c, k) PROVE Safe'
  BY <1>6, ServiceOpensPreserves, ServiceLosesPreserves, ServiceAnswersPreserves DEF Service
<1>7. ASSUME NEW c \in Cameras, FrameInterrupted(c) PROVE Safe'
  BY <1>7, OtherPreserves DEF FrameInterrupted
<1>. QED
  BY <1>1, <1>2, <1>3, <1>4, <1>5, <1>6, <1>7, FrameStopsPreserves, ImageStopsPreserves
     DEF Next

\* The inductive invariant of the sessions holds in every reachable state, for
\* any number of cameras, attempts and starts (all of startPreview, stopPreview
\* and the callbacks).
THEOREM SessionInvariance == Spec => []IInv
<1>1. IInv /\ [Next]_vars => IInv'
  BY TypesStep, SafeStep DEF IInv
<1>. QED BY InitInvariant, <1>1, PTL DEF Spec

\* Every variable keeps its type; in particular openCloseLock never has less
\* than no permit.
THEOREM SessionTypes == Spec => []TypeOK
BY SessionInvariance, PTL DEF IInv

\* Whatever fails, is lost or is stopped, and when: a camera whose openCloseLock
\* is taken is being opened, or a callback that releases it is on its way.
THEOREM PermitNeverLost == Spec => []NoPermitLost
<1>1. IInv => NoPermitLost
  <2>. SUFFICES ASSUME IInv, NEW c \in Cameras, permits[c] = 0, ~Opening(c)
                PROVE  \E k \in Attempts : WillRelease(c, k)
    BY DEF NoPermitLost
  <2>1. Semaphore(c)
    BY DEF IInv, Safe, Semaphores
  <2>2. PICK k \in Attempts : Releasing(c, k)
    BY <2>1 DEF Semaphore
  <2>. QED BY <2>2 DEF Releasing, WillRelease, Callbacks
<1>. QED BY SessionInvariance, <1>1, PTL

\* The handler threads of two attempts to open a camera never run at once.
THEOREM OneThread == Spec => []OneHandlerThread
<1>1. IInv => OneHandlerThread
  <2>. SUFFICES ASSUME IInv, NEW c \in Cameras, NEW j \in Attempts, NEW k \in Attempts,
                       Running(c, j), Running(c, k)
                PROVE  j = k
    BY DEF OneHandlerThread, Running
  <2>1. Order(c, j) /\ Order(c, k)
    BY DEF IInv, Safe, Orders
  <2>2. thread[c] \in Nat /\ j \in Nat /\ k \in Nat
    BY DEF IInv, TypeOK, CameraTypes, Attempts
  <2>. QED BY <2>1, <2>2 DEF Order, Running
<1>. QED BY SessionInvariance, <1>1, PTL

-----------------------------------------------------------------------------
(* Whose device and session a camera holds.  Attempts take each other's    *)
(* place in their order: when a later one has opened its device, no        *)
(* earlier one has a session on a device that is still open.               *)

\* Attempt k's device has opened; it has one in hand or has made a session; its
\* session streams or is about to; its session is on an open device.
Was(c, k) ==
    \/ "opened" \in Callbacks(inbox[c][k])
    \/ tPc[c][k] \in {"create", "createFailed"} \/ sess[c][k] # "none"
Made(c, k) == tPc[c][k] = "create" \/ sess[c][k] # "none"
Runs(c, k) == tPc[c][k] = "repeat" \/ sess[c][k] = "repeating"
Held(c, k) == dev[c][k] = "open" /\ sess[c][k] # "none"

Outlives(c) ==
    \A j, k \in Attempts : j < k /\ (Was(c, k) \/ device[c] = k) => ~Held(c, j)

Follows(c) ==
    \A k \in Attempts :
        /\ Made(c, k) /\ device[c] # 0 => k <= device[c]
        /\ Runs(c, k) /\ session[c] # 0 => k <= session[c]

\* A frame that stops its camera on its own handler thread.
Owns(c) ==
    \A k \in Attempts :
        tPc[c][k] = "close" => device[c] \in {0, k} /\ session[c] \in {0, k}

Succession == \A c \in Cameras : Outlives(c) /\ Follows(c) /\ Owns(c)

\* A step in which no attempt of camera c gets any further in these terms.
Quiet(c) ==
    /\ \A k \in Attempts :
          /\ Was(c, k)' => Was(c, k)
          /\ Made(c, k)' => Made(c, k)
          /\ Runs(c, k)' => Runs(c, k)
          /\ Held(c, k)' => Held(c, k)
    /\ device'[c] \in {0, device[c]} /\ session'[c] \in {0, session[c]}

\* A quiet step takes the camera from nobody and gives it to nobody.
LEMMA QuietKeeps ==
    ASSUME NEW c \in Cameras, Quiet(c), Outlives(c), Follows(c)
    PROVE  Outlives(c)' /\ Follows(c)'
<1>1. 0 \notin Attempts
  BY SessionAssumption DEF Attempts
<1>2. ASSUME NEW j \in Attempts, NEW k \in Attempts, j < k, Was(c, k)' \/ device'[c] = k
      PROVE  ~Held(c, j)'
  BY <1>1, <1>2 DEF Quiet, Outlives
<1>3. ASSUME NEW k \in Attempts
      PROVE  /\ Made(c, k)' /\ device'[c] # 0 => k <= device'[c]
             /\ Runs(c, k)' /\ session'[c] # 0 => k <= session'[c]
  BY <1>3 DEF Quiet, Follows
<1>. QED BY <1>2, <1>3 DEF Outlives, Follows

\* A callback is taken, and the thread goes where nothing more is promised.
LEMMA QuietThread ==
    ASSUME TypeOK, NEW c \in Cameras, NEW k \in Attempts, NEW v,
           \A d \in Cameras, j \in Attempts :
              /\ tPc'[d][j] = IF d = c /\ j = k THEN v ELSE tPc[d][j]
              /\ Callbacks(inbox'[d][j]) \subseteq Callbacks(inbox[d][j]),
           v \in {"loop", "sessionFailed", "finish", "close"}
              \/ (v = "createFailed" /\ tPc[c][k] = "create"),
           UNCHANGED <<sess, dev, session>>,
           \A d \in Cameras : device'[d] \in {0, device[d]}
    PROVE  \A d \in Cameras : Quiet(d)
<1>. SUFFICES ASSUME NEW d \in Cameras PROVE Quiet(d)
  OBVIOUS
<1>1. ASSUME NEW j \in Attempts
      PROVE  /\ Was(d, j)' => Was(d, j)
             /\ Made(d, j)' => Made(d, j)
             /\ Runs(d, j)' => Runs(d, j)
             /\ Held(d, j)' => Held(d, j)
  <2>1. /\ tPc'[d][j] = IF d = c /\ j = k THEN v ELSE tPc[d][j]
        /\ Callbacks(inbox'[d][j]) \subseteq Callbacks(inbox[d][j])
    OBVIOUS
  <2>. QED BY <2>1 DEF Was, Made, Runs, Held
<1>. QED BY <1>1 DEF Quiet

\* Nothing moves.
LEMMA QuietNothing ==
    ASSUME UNCHANGED <<tPc, inbox, dev, sess, device, session>>
    PROVE  \A d \in Cameras : Quiet(d)
BY DEF Quiet, Was, Made, Runs, Held

\* Only an opening, a configuration, a session or its creation is not quiet.
LEMMA QuietSteps ==
    ASSUME IInv, [Next]_vars,
           ~(\E c \in Cameras, k \in Attempts :
                OnOpened(c, k) \/ OnConfigured(c, k) \/ CreateSession(c, k) \/ ServiceOpens(c, k))
    PROVE  \A d \in Cameras : Quiet(d)
<1>. USE DEF IInv
<1>1. CASE UNCHANGED vars \/ SurfaceChanged \/ StopPreview \/ WaitTimeout
  BY <1>1, QuietNothing DEF SurfaceChanged, StopPreview, WaitTimeout
<1>2. CASE UIRuns
  <2>1. CASE StartOpen
    <3>1. thread[uiCam] + 1 \in Attempts /\ uiCam \in Cameras /\ thread'[uiCam] = thread[uiCam] + 1
      <4>1. uiCam \in Cameras /\ thread[uiCam] \in 0 .. MaxAttempts
        BY DEF TypeOK, UiTypes, CameraTypes
      <4>2. Replaces(uiCam) /\ Opening(uiCam)
        BY <2>1, <4>1 DEF Safe, Replacing, Opening, StartOpen
      <4>. QED
        BY <2>1, <4>1, <4>2, SessionAssumption
           DEF StartOpen, Replaces, Attempts, TypeOK, CameraTypes
    <3>2. \A d \in Cameras, j \in Attempts : dev'[d][j] = dev[d][j] \/ dev'[d][j] = "opening"
      BY <2>1, <3>1 DEF StartOpen, TypeOK, ServiceTypes
    <3>3. UNCHANGED <<tPc, inbox, sess, device, session>>
      BY <2>1 DEF StartOpen
    <3>4. ASSUME NEW d \in Cameras, NEW j \in Attempts
          PROVE  /\ Was(d, j)' => Was(d, j)
                 /\ Made(d, j)' => Made(d, j)
                 /\ Runs(d, j)' => Runs(d, j)
                 /\ Held(d, j)' => Held(d, j)
      BY <3>2, <3>3 DEF Was, Made, Runs, Held
    <3>. QED BY <3>3, <3>4 DEF Quiet
  <2>2. CASE StartBegin \/ Acquire \/ AcquireTimeout \/ StartOpenThrows \/ StartsDone
    BY <2>2, QuietNothing
       DEF StartBegin, Acquire, AcquireTimeout, StartOpenThrows, StartsDone
  <2>3. CASE WaitReturn \/ StopDestroy \/ StopReturn
    BY <2>3, QuietNothing DEF WaitReturn, StopDestroy, StopReturn
  <2>4. ASSUME NEW c \in Cameras, SkipCamera(c) \/ TakeCamera(c)
        PROVE  \A d \in Cameras : Quiet(d)
    BY <2>4, QuietNothing DEF SkipCamera, TakeCamera
  <2>. QED BY <1>2, <2>1, <2>2, <2>3, <2>4 DEF UIRuns
<1>3. ASSUME NEW c \in Cameras, FrameJoined(c) \/ FrameInterrupted(c)
      PROVE  \A d \in Cameras : Quiet(d)
  BY <1>3, QuietNothing DEF FrameJoined, FrameInterrupted
<1>4. ASSUME NEW c \in Cameras, NEW k \in Attempts,
             FrameStops(c, k) \/ FailureDestroy(c, k) \/ ThreadEnds(c, k)
      PROVE  \A d \in Cameras : Quiet(d)
  BY <1>4, QuietNothing DEF FrameStops, FailureDestroy, ThreadEnds
<1>5. ASSUME NEW c \in Cameras, NEW k \in Attempts, OnLost(c, k)
      PROVE  \A d \in Cameras : Quiet(d)
  <2>1. /\ Callbacks(inbox'[c][k]) \subseteq Callbacks(inbox[c][k]) /\ tPc[c][k] = "loop"
        /\ \A d \in Cameras, j \in Attempts : ~(d = c /\ j = k) => inbox'[d][j] = inbox[d][j]
    <3>1. Receive(c, k, "lost") /\ ThreadTypes
      BY <1>5 DEF OnLost, TypeOK
    <3>2. /\ inbox' = [inbox EXCEPT ![c][k] = Tail(inbox[c][k])]
          /\ Callbacks(inbox[c][k]) = Callbacks(inbox'[c][k]) \cup {"lost"} /\ tPc[c][k] = "loop"
      BY <3>1, InboxReceive
    <3>. QED BY <3>1, <3>2 DEF ThreadTypes
  <2>2. UNCHANGED <<tPc, sess, dev, session>> /\ \A d \in Cameras : device'[d] \in {0, device[d]}
    BY <1>5 DEF OnLost, TypeOK, CameraTypes
  <2>. QED BY <2>1, <2>2, QuietThread
<1>6. ASSUME NEW c \in Cameras, NEW k \in Attempts, OnConfigureFailed(c, k)
      PROVE  \A d \in Cameras : Quiet(d)
  <2>1. /\ Callbacks(inbox'[c][k]) \subseteq Callbacks(inbox[c][k])
        /\ \A d \in Cameras, j \in Attempts : ~(d = c /\ j = k) => inbox'[d][j] = inbox[d][j]
    <3>1. Receive(c, k, "refused") /\ ThreadTypes
      BY <1>6 DEF OnConfigureFailed, TypeOK
    <3>2. /\ inbox' = [inbox EXCEPT ![c][k] = Tail(inbox[c][k])]
          /\ Callbacks(inbox[c][k]) = Callbacks(inbox'[c][k]) \cup {"refused"}
      BY <3>1, InboxReceive
    <3>. QED BY <3>1, <3>2 DEF ThreadTypes
  <2>2. /\ \A d \in Cameras, j \in Attempts :
              tPc'[d][j] = IF d = c /\ j = k THEN "sessionFailed" ELSE tPc[d][j]
        /\ UNCHANGED <<sess, dev, session, device>>
    BY <1>6 DEF OnConfigureFailed, ReportFailure, Goto, TypeOK, ThreadTypes
  <2>. QED BY <2>1, <2>2, QuietThread
<1>7. ASSUME NEW c \in Cameras, NEW k \in Attempts,
             CreateFails(c, k) \/ RepeatFails(c, k) \/ ReportSuccess(c, k) \/ FinishSuccess(c, k)
                \/ FailureReturn(c, k) \/ ImageStops(c, k)
      PROVE  \A d \in Cameras : Quiet(d)
  <2>1. /\ UNCHANGED <<inbox, sess, dev, session, device>>
    BY <1>7 DEF CreateFails, RepeatFails, ReportSuccess, FinishSuccess, FailureReturn, ImageStops,
                ReportFailure, Goto
  <2>2. \/ Goto(c, k, "loop") \/ Goto(c, k, "sessionFailed") \/ Goto(c, k, "finish")
        \/ Goto(c, k, "close") \/ (Goto(c, k, "createFailed") /\ tPc[c][k] = "create")
    BY <1>7 DEF CreateFails, RepeatFails, ReportSuccess, FinishSuccess, FailureReturn, ImageStops,
                ReportFailure
  <2>3. ASSUME NEW v, Goto(c, k, v)
        PROVE  \A d \in Cameras, j \in Attempts :
                  tPc'[d][j] = IF d = c /\ j = k THEN v ELSE tPc[d][j]
    BY <2>3 DEF Goto, TypeOK, ThreadTypes
  <2>4. ASSUME NEW v, Goto(c, k, v),
               v \in {"loop", "sessionFailed", "finish", "close"}
                  \/ (v = "createFailed" /\ tPc[c][k] = "create")
        PROVE  \A d \in Cameras : Quiet(d)
    <3>1. \A d \in Cameras, j \in Attempts :
             /\ tPc'[d][j] = IF d = c /\ j = k THEN v ELSE tPc[d][j]
             /\ Callbacks(inbox'[d][j]) \subseteq Callbacks(inbox[d][j])
      BY <2>1, <2>3, <2>4
    <3>2. TypeOK /\ \A d \in Cameras : device'[d] \in {0, device[d]}
      BY <2>1
    <3>. QED BY <2>1, <2>4, <3>1, <3>2, QuietThread
  <2>. QED BY <2>2, <2>4
<1>8. ASSUME NEW c \in Cameras, NEW k \in Attempts, StartRepeating(c, k)
      PROVE  \A d \in Cameras : Quiet(d)
  <2>1. /\ \A d \in Cameras, j \in Attempts :
              /\ tPc'[d][j] = IF d = c /\ j = k THEN "report" ELSE tPc[d][j]
              /\ sess'[d][j] = IF d = c /\ j = k THEN "repeating" ELSE sess[d][j]
        /\ UNCHANGED <<inbox, dev, session, device>>
        /\ tPc[c][k] = "repeat" /\ sess[c][k] = "answered"
    BY <1>8 DEF StartRepeating, Goto, TypeOK, ThreadTypes, ServiceTypes
  <2>2. ASSUME NEW d \in Cameras, NEW j \in Attempts
        PROVE  /\ Was(d, j)' => Was(d, j)
               /\ Made(d, j)' => Made(d, j)
               /\ Runs(d, j)' => Runs(d, j)
               /\ Held(d, j)' => Held(d, j)
    <3>1. /\ tPc'[d][j] = IF d = c /\ j = k THEN "report" ELSE tPc[d][j]
          /\ sess'[d][j] = IF d = c /\ j = k THEN "repeating" ELSE sess[d][j]
      BY <2>1
    <3>. QED BY <2>1, <3>1 DEF Was, Made, Runs, Held
  <2>. QED BY <2>1, <2>2 DEF Quiet
<1>9. ASSUME NEW c \in Cameras, CloseCamera(c) \/ AbortThrows(c), UNCHANGED inbox,
             \A d \in Cameras, j \in Attempts : tPc'[d][j] \in {"loop", tPc[d][j]}
      PROVE  \A d \in Cameras : Quiet(d)
  <2>1. /\ \A d \in Cameras : device'[d] \in {0, device[d]} /\ session'[d] \in {0, session[d]}
        /\ \A d \in Cameras, j \in Attempts :
              dev'[d][j] = dev[d][j] \/ (dev[d][j] \in {"open", "gone"} /\ dev'[d][j] = "gone")
        /\ \A d \in Cameras, j \in Attempts :
              sess'[d][j] = sess[d][j] \/ (/\ sess[d][j] \in {"answered", "repeating", "closed"}
                                           /\ sess'[d][j] = "closed")
    BY <1>9, ClosingEffect DEF Safe
  <2>2. ASSUME NEW d \in Cameras, NEW j \in Attempts
        PROVE  /\ Was(d, j)' => Was(d, j)
               /\ Made(d, j)' => Made(d, j)
               /\ Runs(d, j)' => Runs(d, j)
               /\ Held(d, j)' => Held(d, j)
    <3>1. /\ tPc'[d][j] \in {"loop", tPc[d][j]}
          /\ dev'[d][j] = dev[d][j] \/ dev'[d][j] = "gone"
          /\ sess'[d][j] = sess[d][j] \/ (sess[d][j] # "none" /\ sess'[d][j] = "closed")
      BY <1>9, <2>1
    <3>. QED BY <1>9, <3>1 DEF Was, Made, Runs, Held
  <2>. QED BY <2>1, <2>2 DEF Quiet
<1>10. ASSUME NEW c \in Cameras, FrameCloses(c)
       PROVE  \A d \in Cameras : Quiet(d)
  <2>1. UNCHANGED <<inbox, tPc>> /\ (CloseCamera(c) \/ AbortThrows(c))
    BY <1>10 DEF FrameCloses
  <2>. QED BY <2>1, <1>9
<1>11. ASSUME NEW c \in Cameras, NEW k \in Attempts, ImageCloses(c, k)
       PROVE  \A d \in Cameras : Quiet(d)
  <2>1. /\ UNCHANGED inbox /\ (CloseCamera(c) \/ AbortThrows(c))
        /\ \A d \in Cameras, j \in Attempts : tPc'[d][j] \in {"loop", tPc[d][j]}
    BY <1>11 DEF ImageCloses, Goto, TypeOK, ThreadTypes
  <2>. QED BY <2>1, <1>9
<1>12. ASSUME NEW c \in Cameras, NEW k \in Attempts, ServiceLoses(c, k) \/ ServiceAnswers(c, k)
       PROVE  \A d \in Cameras : Quiet(d)
  <2>1. PICK e \in Events \ {"opened"} : Post(c, k, e)
    BY <1>12 DEF ServiceLoses, ServiceAnswers, Events
  <2>2. \A d \in Cameras, j \in Attempts :
           Callbacks(inbox'[d][j]) \subseteq Callbacks(inbox[d][j]) \cup {e}
    <3>1. Gets(c, k, e) /\ \A d \in Cameras, j \in Attempts :
             d # c \/ j # k => inbox'[d][j] = inbox[d][j]
      BY <2>1, PostGets
    <3>. QED BY <3>1 DEF Gets
  <2>3. /\ UNCHANGED <<tPc, session, device>>
        /\ \A d \in Cameras, j \in Attempts : dev'[d][j] = dev[d][j] \/ dev'[d][j] = "gone"
        /\ \A d \in Cameras, j \in Attempts :
              sess'[d][j] = sess[d][j] \/ (sess[d][j] = "requested" /\ sess'[d][j] = "answered")
    <3>1. CASE ServiceLoses(c, k)
      BY <3>1 DEF ServiceLoses, TypeOK, ServiceTypes
    <3>2. CASE ServiceAnswers(c, k)
      BY <3>2 DEF ServiceAnswers, TypeOK, ServiceTypes
    <3>. QED BY <1>12, <3>1, <3>2
  <2>4. ASSUME NEW d \in Cameras, NEW j \in Attempts
        PROVE  /\ Was(d, j)' => Was(d, j)
               /\ Made(d, j)' => Made(d, j)
               /\ Runs(d, j)' => Runs(d, j)
               /\ Held(d, j)' => Held(d, j)
    <3>1. /\ Callbacks(inbox'[d][j]) \subseteq Callbacks(inbox[d][j]) \cup {e}
          /\ dev'[d][j] = dev[d][j] \/ dev'[d][j] = "gone"
          /\ sess'[d][j] = sess[d][j] \/ (sess[d][j] = "requested" /\ sess'[d][j] = "answered")
          /\ e # "opened"
      BY <2>1, <2>2, <2>3
    <3>. QED BY <2>3, <3>1 DEF Was, Made, Runs, Held
  <2>. QED BY <2>3, <2>4 DEF Quiet
<1>. QED
  BY <1>1, <1>2, <1>3, <1>4, <1>5, <1>6, <1>7, <1>8, <1>10, <1>11, <1>12
     DEF Next, MessageThread, HandlerThread, Service

\* The latest attempt is the one whose callbacks run.
LEMMA LatestRuns ==
    ASSUME IInv, NEW c \in Cameras, NEW k \in Attempts, Running(c, k)
    PROVE  /\ k = thread[c]
           /\ \A j \in Attempts : Running(c, j) => j = k
           /\ \A j \in Attempts : Was(c, j) \/ Made(c, j) \/ Runs(c, j) => j <= k
           /\ \A j \in Attempts : j > k => dev[c][j] = "none"
<1>1. \A j \in Attempts : Order(c, j)
  BY DEF IInv, Safe, Orders
<1>2. thread[c] \in Nat /\ \A j \in Attempts : j \in Nat
  BY DEF IInv, TypeOK, CameraTypes, Attempts
<1>3. k = thread[c] /\ \A j \in Attempts : Running(c, j) => j = k
  BY <1>1, <1>2 DEF Order, Running
<1>4. ASSUME NEW j \in Attempts, j > k
      PROVE  ~Was(c, j) /\ ~Made(c, j) /\ ~Runs(c, j) /\ dev[c][j] = "none"
  <2>1. /\ sess[c][j] = "none" /\ dev[c][j] = "none"
        /\ tPc[c][j] = "loop" /\ inbox[c][j] = <<>>
    BY <1>1, <1>2, <1>3, <1>4 DEF Order, Running
  <2>. QED BY <2>1, CallbacksEmpty DEF Was, Made, Runs
<1>. QED BY <1>2, <1>3, <1>4

\* A thread that is somewhere, or has callbacks, runs.
LEMMA BusyRuns ==
    ASSUME IInv, NEW c \in Cameras, NEW k \in Attempts,
           tPc[c][k] # "loop" \/ inbox[c][k] # <<>>
    PROVE  Running(c, k)
BY DEF IInv, Safe, Orders, Order

\* An attempt that streams has the camera: what device and session name is its
\* own, if anything.
LEMMA StreamingOwns ==
    ASSUME IInv, NEW c \in Cameras, NEW k \in Attempts, Streaming(c, k), Outlives(c), Follows(c)
    PROVE  device[c] \in {0, k} /\ session[c] \in {0, k}
<1>1. Held(c, k) /\ Made(c, k) /\ Runs(c, k)
  BY DEF Streaming, Held, Made, Runs
<1>2. /\ device[c] # 0 => device[c] \in Attempts
      /\ session[c] # 0 => session[c] \in Attempts
  BY AttemptNumber DEF IInv, TypeOK, CameraTypes
<1>3. session[c] # 0 => Was(c, session[c])
  BY DEF IInv, Safe, Holding, Holds, Was
<1>4. \A j \in Attempts : j \in Nat
  BY DEF Attempts
<1>5. device[c] # 0 => k <= device[c] /\ ~(k < device[c])
  BY <1>1, <1>2 DEF Outlives, Follows
<1>6. session[c] # 0 => k <= session[c] /\ ~(k < session[c])
  BY <1>1, <1>2, <1>3 DEF Outlives, Follows
<1>. QED BY <1>2, <1>4, <1>5, <1>6

\* onOpened: the latest attempt's device takes the place of all before.
LEMMA OnOpenedSucceeds ==
    ASSUME IInv, Succession, NEW c \in Cameras, NEW k \in Attempts, OnOpened(c, k)
    PROVE  \A d \in Cameras : Outlives(d)' /\ Follows(d)'
<1>1. /\ \A d \in Cameras, j \in Attempts :
            tPc'[d][j] = IF d = c /\ j = k THEN "create" ELSE tPc[d][j]
      /\ \A d \in Cameras : device'[d] = IF d = c THEN k ELSE device[d]
      /\ UNCHANGED <<dev, sess, session>>
  BY DEF OnOpened, Goto, IInv, TypeOK, CameraTypes, ThreadTypes
<1>2. /\ "opened" \in Callbacks(inbox[c][k]) /\ Running(c, k) /\ tPc[c][k] = "loop"
      /\ \A d \in Cameras, j \in Attempts :
            Callbacks(inbox'[d][j]) \subseteq Callbacks(inbox[d][j])
  <2>1. Receive(c, k, "opened") /\ ThreadTypes
    BY DEF OnOpened, IInv, TypeOK
  <2>2. /\ inbox' = [inbox EXCEPT ![c][k] = Tail(inbox[c][k])]
        /\ Callbacks(inbox[c][k]) = Callbacks(inbox'[c][k]) \cup {"opened"}
        /\ tState[c][k] \in {"live", "quit"} /\ tPc[c][k] = "loop"
    BY <2>1, InboxReceive
  <2>. QED BY <2>1, <2>2 DEF ThreadTypes, Running
<1>3. Was(c, k) /\ \A j \in Attempts : Made(c, j) => j <= k
  BY <1>2, LatestRuns DEF Was
<1>4. ASSUME NEW d \in Cameras, NEW j \in Attempts
      PROVE  /\ Was(d, j)' => Was(d, j)
             /\ Made(d, j)' => Made(d, j) \/ (d = c /\ j = k)
             /\ Runs(d, j)' => Runs(d, j)
             /\ Held(d, j)' => Held(d, j)
  <2>1. /\ tPc'[d][j] = IF d = c /\ j = k THEN "create" ELSE tPc[d][j]
        /\ Callbacks(inbox'[d][j]) \subseteq Callbacks(inbox[d][j])
    BY <1>1, <1>2
  <2>. QED BY <1>1, <1>3, <2>1 DEF Was, Made, Runs, Held
<1>5. k \in Nat /\ k <= k
  BY DEF Attempts
<1>6. ASSUME NEW d \in Cameras PROVE Outlives(d)' /\ Follows(d)'
  <2>1. Outlives(d) /\ Follows(d)
    BY DEF Succession
  <2>2. Outlives(d)'
    BY <1>1, <1>3, <1>4, <2>1 DEF Outlives
  <2>3. Follows(d)'
    BY <1>1, <1>3, <1>4, <1>5, <2>1 DEF Follows
  <2>. QED BY <2>2, <2>3
<1>. QED BY <1>6

\* onConfigured: the latest attempt's session.
LEMMA OnConfiguredSucceeds ==
    ASSUME IInv, Succession, NEW c \in Cameras, NEW k \in Attempts, OnConfigured(c, k)
    PROVE  \A d \in Cameras : Outlives(d)' /\ Follows(d)'
<1>1. /\ \A d \in Cameras, j \in Attempts :
            tPc'[d][j] = IF d = c /\ j = k THEN "repeat" ELSE tPc[d][j]
      /\ \A d \in Cameras : session'[d] = IF d = c THEN k ELSE session[d]
      /\ UNCHANGED <<dev, sess, device>>
  BY DEF OnConfigured, Goto, IInv, TypeOK, CameraTypes, ThreadTypes
<1>2. /\ Running(c, k)
      /\ \A d \in Cameras, j \in Attempts :
            Callbacks(inbox'[d][j]) \subseteq Callbacks(inbox[d][j])
  <2>1. Receive(c, k, "configured") /\ ThreadTypes
    BY DEF OnConfigured, IInv, TypeOK
  <2>2. /\ inbox' = [inbox EXCEPT ![c][k] = Tail(inbox[c][k])]
        /\ Callbacks(inbox[c][k]) = Callbacks(inbox'[c][k]) \cup {"configured"}
        /\ tState[c][k] \in {"live", "quit"}
    BY <2>1, InboxReceive
  <2>. QED BY <2>1, <2>2 DEF ThreadTypes, Running
<1>3. \A j \in Attempts : Runs(c, j) => j <= k
  BY <1>2, LatestRuns
<1>4. ASSUME NEW d \in Cameras, NEW j \in Attempts
      PROVE  /\ Was(d, j)' => Was(d, j)
             /\ Made(d, j)' => Made(d, j)
             /\ Runs(d, j)' => Runs(d, j) \/ (d = c /\ j = k)
             /\ Held(d, j)' => Held(d, j)
  <2>1. /\ tPc'[d][j] = IF d = c /\ j = k THEN "repeat" ELSE tPc[d][j]
        /\ Callbacks(inbox'[d][j]) \subseteq Callbacks(inbox[d][j])
    BY <1>1, <1>2
  <2>. QED BY <1>1, <1>3, <2>1 DEF Was, Made, Runs, Held
<1>5. k \in Nat /\ k <= k
  BY DEF Attempts
<1>6. ASSUME NEW d \in Cameras PROVE Outlives(d)' /\ Follows(d)'
  <2>1. Outlives(d) /\ Follows(d)
    BY DEF Succession
  <2>2. Outlives(d)'
    BY <1>1, <1>4, <2>1 DEF Outlives
  <2>3. Follows(d)'
    BY <1>1, <1>3, <1>4, <1>5, <2>1 DEF Follows
  <2>. QED BY <2>2, <2>3
<1>. QED BY <1>6

\* A session is made by the latest attempt, which nobody outlives.
LEMMA CreateSessionSucceeds ==
    ASSUME IInv, Succession, NEW c \in Cameras, NEW k \in Attempts, CreateSession(c, k)
    PROVE  \A d \in Cameras : Outlives(d)' /\ Follows(d)'
<1>1. /\ \A d \in Cameras, j \in Attempts :
            /\ tPc'[d][j] = IF d = c /\ j = k THEN "loop" ELSE tPc[d][j]
            /\ sess'[d][j] = IF d = c /\ j = k THEN "requested" ELSE sess[d][j]
      /\ UNCHANGED <<inbox, dev, device, session>>
      /\ tPc[c][k] = "create"
  BY DEF CreateSession, Goto, IInv, TypeOK, ThreadTypes, ServiceTypes
<1>2. Running(c, k)
  BY <1>1, BusyRuns
<1>3. \A j \in Attempts : k < j => ~Was(c, j) /\ dev[c][j] = "none"
  <2>1. k \in Nat /\ \A j \in Attempts : j \in Nat
    BY DEF Attempts
  <2>2. /\ \A j \in Attempts : Was(c, j) => j <= k
        /\ \A j \in Attempts : j > k => dev[c][j] = "none"
    BY <1>2, LatestRuns
  <2>. QED BY <2>1, <2>2
<1>4. \A j \in Attempts : k < j => device[c] # j
  <2>1. device[c] # 0 => dev[c][device[c]] \in {"open", "gone"}
    BY DEF IInv, Safe, Holding, Holds
  <2>2. 0 \notin Attempts
    BY SessionAssumption DEF Attempts
  <2>. QED BY <1>3, <2>1, <2>2
<1>5. ASSUME NEW d \in Cameras, NEW j \in Attempts
      PROVE  /\ Was(d, j)' => Was(d, j)
             /\ Made(d, j)' => Made(d, j)
             /\ Runs(d, j)' => Runs(d, j)
             /\ Held(d, j)' => Held(d, j) \/ (d = c /\ j = k)
  <2>1. /\ tPc'[d][j] = IF d = c /\ j = k THEN "loop" ELSE tPc[d][j]
        /\ sess'[d][j] = IF d = c /\ j = k THEN "requested" ELSE sess[d][j]
    BY <1>1
  <2>. QED BY <1>1, <2>1 DEF Was, Made, Runs, Held
<1>6. ASSUME NEW d \in Cameras PROVE Outlives(d)' /\ Follows(d)'
  <2>1. Outlives(d) /\ Follows(d)
    BY DEF Succession
  <2>2. Outlives(d)'
    BY <1>1, <1>3, <1>4, <1>5, <2>1 DEF Outlives
  <2>3. Follows(d)'
    BY <1>1, <1>5, <2>1 DEF Follows
  <2>. QED BY <2>2, <2>3
<1>. QED BY <1>6

\* The service takes the camera away from all devices but the one that opens.
LEMMA ServiceOpensSucceeds ==
    ASSUME IInv, Succession, NEW c \in Cameras, NEW k \in Attempts, ServiceOpens(c, k)
    PROVE  \A d \in Cameras : Outlives(d)' /\ Follows(d)'
<1>1. \A d \in Cameras, j \in Attempts :
         /\ (d # c \/ j # k) => Callbacks(inbox'[d][j]) \subseteq Callbacks(inbox[d][j]) \cup {"lost"}
         /\ d # c => dev'[d][j] = dev[d][j]
         /\ dev'[d][j] = "open" => dev[d][j] \in {"open", "opening"}
  <2>1. \A d \in Cameras, j \in Attempts :
              IF d = c /\ j = k
              THEN dev[d][j] = "opening" /\ dev'[d][j] = "open" /\ Gets(d, j, "opened")
              ELSE \/ dev'[d][j] = dev[d][j] /\ inbox'[d][j] = inbox[d][j]
                   \/ dev[d][j] = "open" /\ dev'[d][j] = "gone" /\ Gets(d, j, "lost")
    BY OpensGets DEF IInv
  <2>2. \A d \in Cameras, j \in Attempts :
           (d # c \/ j # k) => Callbacks(inbox'[d][j]) \subseteq Callbacks(inbox[d][j]) \cup {"lost"}
    BY <2>1 DEF Gets
  <2>3. \A d \in Cameras, j \in Attempts : dev'[d][j] = "open" => dev[d][j] \in {"open", "opening"}
    BY <2>1
  <2>4. \A d \in Cameras, j \in Attempts : d # c => dev'[d][j] = dev[d][j]
    BY DEF ServiceOpens, IInv, TypeOK, ServiceTypes
  <2>. QED BY <2>2, <2>3, <2>4
<1>2. \A j \in Attempts : j # k => dev'[c][j] # "open"
  BY DEF ServiceOpens, Evicted, IInv, TypeOK, ServiceTypes
<1>3. UNCHANGED <<tPc, sess, device, session>>
  BY DEF ServiceOpens
<1>4. ASSUME NEW d \in Cameras, NEW j \in Attempts
      PROVE  /\ Was(d, j)' => Was(d, j) \/ (d = c /\ j = k)
             /\ Made(d, j)' => Made(d, j)
             /\ Runs(d, j)' => Runs(d, j)
             /\ Held(d, j)' => Held(d, j)
  <2>1. Phase(d, j)
    BY DEF IInv, Safe, Phases
  <2>2. dev[d][j] = "opening" => sess[d][j] = "none"
    BY <2>1 DEF Phase
  <2>. QED BY <1>1, <1>3, <2>2 DEF Was, Made, Runs, Held
<1>5. ASSUME NEW d \in Cameras PROVE Outlives(d)' /\ Follows(d)'
  <2>1. Outlives(d) /\ Follows(d)
    BY DEF Succession
  <2>2. ASSUME NEW i \in Attempts, NEW j \in Attempts, i < j, Was(d, j)' \/ device'[d] = j
        PROVE  ~Held(d, i)'
    <3>1. CASE d = c /\ j = k
      <4>1. i # k
        BY <2>2, <3>1 DEF Attempts
      <4>. QED BY <1>2, <3>1, <4>1 DEF Held
    <3>2. CASE ~(d = c /\ j = k)
      BY <1>3, <1>4, <2>1, <2>2, <3>2 DEF Outlives
    <3>. QED BY <3>1, <3>2
  <2>3. Follows(d)'
    BY <1>3, <1>4, <2>1 DEF Follows
  <2>. QED BY <2>2, <2>3 DEF Outlives
<1>. QED BY <1>5

\* What a frame's own thread is about to close stays its own.
LEMMA OwnsStep ==
    ASSUME IInv, Succession, [Next]_vars, NEW c \in Cameras
    PROVE  Owns(c)'
<1>. SUFFICES ASSUME NEW k \in Attempts, tPc'[c][k] = "close"
              PROVE  device'[c] \in {0, k} /\ session'[c] \in {0, k}
  BY DEF Owns
<1>. USE DEF IInv
<1>1. Outlives(c) /\ Follows(c) /\ Owns(c)
  BY DEF Succession
<1>2. CASE \E j \in Attempts : OnOpened(c, j) \/ OnConfigured(c, j)
  <2>1. PICK j \in Attempts : OnOpened(c, j) \/ OnConfigured(c, j)
    BY <1>2
  <2>2. /\ tPc[c][j] = "loop" /\ Running(c, j)
        /\ \A i \in Attempts : i # j => tPc'[c][i] = tPc[c][i]
        /\ tPc'[c][j] \in {"create", "repeat"}
    BY <2>1 DEF OnOpened, OnConfigured, Receive, Running, Goto, TypeOK, ThreadTypes
  <2>3. tPc[c][k] = "close" /\ k # j
    BY <2>2
  <2>4. Running(c, k)
    BY <2>3, BusyRuns
  <2>. QED BY <2>2, <2>3, <2>4, LatestRuns
<1>3. CASE ~\E j \in Attempts : OnOpened(c, j) \/ OnConfigured(c, j)
  <2>1. device'[c] \in {0, device[c]} /\ session'[c] \in {0, session[c]}
    <3>1. ASSUME NEW d \in Cameras, NEW j \in Attempts, OnOpened(d, j) \/ OnConfigured(d, j), d # c
          PROVE  device'[c] = device[c] /\ session'[c] = session[c]
      BY <3>1 DEF OnOpened, OnConfigured, TypeOK, CameraTypes
    <3>2. ASSUME NEW d \in Cameras, NEW j \in Attempts, CreateSession(d, j) \/ ServiceOpens(d, j)
          PROVE  device'[c] = device[c] /\ session'[c] = session[c]
      BY <3>2 DEF CreateSession, ServiceOpens
    <3>. QED BY <1>3, <3>1, <3>2, QuietSteps DEF Quiet
  <2>2. tPc[c][k] = "close" \/ ImageStops(c, k)
    <3>1. ASSUME NEW d \in Cameras, NEW j \in Attempts, NEW v, v # "close", Goto(d, j, v)
          PROVE  tPc[c][k] = "close"
      BY <3>1 DEF Goto, TypeOK, ThreadTypes
    <3>2. ASSUME NEW d \in Cameras, NEW j \in Attempts, ImageStops(d, j)
          PROVE  tPc[c][k] = "close" \/ ImageStops(c, k)
      BY <3>2 DEF ImageStops, Goto, TypeOK, ThreadTypes
    <3>3. CASE UNCHANGED vars \/ SurfaceChanged \/ StopPreview \/ WaitTimeout \/ UIRuns
      BY <3>3 DEF SurfaceChanged, StopPreview, WaitTimeout, UIRuns, StartBegin, Acquire,
                  AcquireTimeout, StartOpen, StartOpenThrows, StartsDone, WaitReturn, StopDestroy,
                  StopReturn, SkipCamera, TakeCamera
    <3>4. ASSUME NEW d \in Cameras, MessageThread(d) \/ FrameInterrupted(d)
          PROVE  tPc[c][k] = "close"
      BY <3>4 DEF MessageThread, FrameJoined, FrameCloses, FrameInterrupted
    <3>5. ASSUME NEW d \in Cameras, NEW j \in Attempts, HandlerThread(d, j)
          PROVE  tPc[c][k] = "close"
      <4>1. CASE OnLost(d, j) \/ FailureDestroy(d, j) \/ ThreadEnds(d, j)
        BY <4>1 DEF OnLost, FailureDestroy, ThreadEnds
      <4>2. CASE ~(OnLost(d, j) \/ FailureDestroy(d, j) \/ ThreadEnds(d, j))
        <5>1. \E v \in HandlerPcs \ {"close"} : Goto(d, j, v)
          BY <3>5, <4>2
             DEF HandlerThread, OnOpened, CreateSession, CreateFails, OnConfigured, StartRepeating,
                 RepeatFails, ReportSuccess, FinishSuccess, OnConfigureFailed, FailureReturn,
                 ImageCloses, ReportFailure, HandlerPcs
        <5>. QED BY <3>1, <5>1
      <4>. QED BY <4>1, <4>2
    <3>6. ASSUME NEW d \in Cameras, NEW j \in Attempts, FrameStops(d, j) \/ Service(d, j)
          PROVE  tPc[c][k] = "close"
      BY <3>6 DEF FrameStops, Service, ServiceOpens, ServiceLoses, ServiceAnswers
    <3>. QED BY <3>2, <3>3, <3>4, <3>5, <3>6 DEF Next
  <2>3. CASE tPc[c][k] = "close"
    BY <1>1, <2>1, <2>3 DEF Owns
  <2>4. CASE ImageStops(c, k)
    <3>1. device[c] \in {0, k} /\ session[c] \in {0, k}
      BY <1>1, <2>4, StreamingOwns DEF ImageStops
    <3>. QED BY <2>1, <3>1
  <2>. QED BY <2>2, <2>3, <2>4
<1>. QED BY <1>2, <1>3

\* An attempt comes into the camera only after the one before it let go.
LEMMA SuccessionStep == IInv /\ Succession /\ [Next]_vars => Succession'
<1>. SUFFICES ASSUME IInv, Succession, [Next]_vars PROVE Succession'
  OBVIOUS
<1>1. \A d \in Cameras : Outlives(d)' /\ Follows(d)'
  <2>1. CASE \E c \in Cameras, k \in Attempts :
                OnOpened(c, k) \/ OnConfigured(c, k) \/ CreateSession(c, k) \/ ServiceOpens(c, k)
    BY <2>1, OnOpenedSucceeds, OnConfiguredSucceeds, CreateSessionSucceeds, ServiceOpensSucceeds
  <2>2. CASE ~\E c \in Cameras, k \in Attempts :
                OnOpened(c, k) \/ OnConfigured(c, k) \/ CreateSession(c, k) \/ ServiceOpens(c, k)
    BY <2>2, QuietSteps, QuietKeeps DEF Succession
  <2>. QED BY <2>1, <2>2
<1>. QED BY <1>1, OwnsStep DEF Succession

-----------------------------------------------------------------------------
(* A handler thread that is waited for.                                    *)

\* Attempt k's handler thread has been told to quit, and nothing that is left to
\* it opens, configures or fails.
SettledAt(c, k) ==
    /\ tState[c][k] # "live" /\ Callbacks(inbox[c][k]) \subseteq {"lost"}
    /\ tPc[c][k] \notin {"create", "createFailed", "repeat", "sessionFailed"}

\* Only its own actions move a handler thread.
LEMMA ThreadMoves ==
    ASSUME IInv, [Next]_vars, NEW c \in Cameras, NEW k \in Attempts
    PROVE  \/ tPc'[c][k] = tPc[c][k]
           \/ HandlerThread(c, k) \/ ImageStops(c, k)
<1>. USE DEF IInv
<1>1. CASE UNCHANGED vars \/ SurfaceChanged \/ StopPreview \/ WaitTimeout \/ UIRuns
  BY <1>1 DEF SurfaceChanged, StopPreview, WaitTimeout, UIRuns, StartBegin, Acquire,
              AcquireTimeout, StartOpen, StartOpenThrows, StartsDone, WaitReturn, StopDestroy,
              StopReturn, SkipCamera, TakeCamera
<1>2. ASSUME NEW d \in Cameras, MessageThread(d) \/ FrameInterrupted(d)
      PROVE  tPc'[c][k] = tPc[c][k]
  BY <1>2 DEF MessageThread, FrameJoined, FrameCloses, FrameInterrupted
<1>3. ASSUME NEW d \in Cameras, NEW j \in Attempts, FrameStops(d, j) \/ Service(d, j)
      PROVE  tPc'[c][k] = tPc[c][k]
  BY <1>3 DEF FrameStops, Service, ServiceOpens, ServiceLoses, ServiceAnswers
<1>4. ASSUME NEW d \in Cameras, NEW j \in Attempts, d # c \/ j # k,
             HandlerThread(d, j) \/ ImageStops(d, j)
      PROVE  tPc'[c][k] = tPc[c][k]
  <2>1. CASE OnLost(d, j) \/ FailureDestroy(d, j) \/ ThreadEnds(d, j)
    BY <2>1 DEF OnLost, FailureDestroy, ThreadEnds
  <2>2. CASE ~(OnLost(d, j) \/ FailureDestroy(d, j) \/ ThreadEnds(d, j))
    <3>1. \E v \in HandlerPcs : Goto(d, j, v)
      BY <1>4, <2>2
         DEF HandlerThread, OnOpened, CreateSession, CreateFails, OnConfigured, StartRepeating,
             RepeatFails, ReportSuccess, FinishSuccess, OnConfigureFailed, FailureReturn,
             ImageCloses, ImageStops, ReportFailure, HandlerPcs
    <3>. QED BY <3>1, <1>4 DEF Goto, TypeOK, ThreadTypes
  <2>. QED BY <2>1, <2>2
<1>. QED BY <1>1, <1>2, <1>3, <1>4 DEF Next

\* No callback that is left to a settled thread opens, configures or fails.
LEMMA SettledReceives ==
    ASSUME IInv, NEW c \in Cameras, NEW k \in Attempts, SettledAt(c, k)
    PROVE  /\ ~OnOpened(c, k) /\ ~OnConfigured(c, k) /\ ~OnConfigureFailed(c, k)
           /\ ~CreateSession(c, k) /\ ~CreateFails(c, k)
           /\ ~StartRepeating(c, k) /\ ~RepeatFails(c, k)
           /\ ~FailureDestroy(c, k) /\ ~FailureReturn(c, k)
<1>1. ASSUME NEW e, e # "lost", Receive(c, k, e)
      PROVE  FALSE
  <2>1. ThreadTypes
    BY DEF IInv, TypeOK
  <2>2. Callbacks(inbox[c][k]) = Callbacks(inbox'[c][k]) \cup {e}
    BY <1>1, <2>1, InboxReceive
  <2>3. e \in Callbacks(inbox[c][k])
    BY <2>2
  <2>. QED BY <1>1, <2>3 DEF SettledAt
<1>2. ~OnOpened(c, k) /\ ~OnConfigured(c, k) /\ ~OnConfigureFailed(c, k)
  BY <1>1 DEF OnOpened, OnConfigured, OnConfigureFailed
<1>3. tPc[c][k] \notin {"create", "createFailed", "repeat", "sessionFailed"}
  BY DEF SettledAt
<1>. QED BY <1>2, <1>3 DEF CreateSession, CreateFails, StartRepeating, RepeatFails, FailureDestroy,
                           FailureReturn

\* A thread that was told to quit gets no further callback, and none is started
\* under its number.
LEMMA SettledAtStep ==
    ASSUME IInv, [Next]_vars, NEW c \in Cameras, NEW k \in Attempts, SettledAt(c, k),
           StartOpen => k <= thread[c]
    PROVE  SettledAt(c, k)'
<1>. USE DEF IInv
<1>. SUFFICES /\ tState'[c][k] # "live" /\ Callbacks(inbox'[c][k]) \subseteq {"lost"}
                     /\ tPc'[c][k] \notin {"create", "createFailed", "repeat", "sessionFailed"}
  BY DEF SettledAt
<1>2. /\ tState[c][k] # "live" /\ Callbacks(inbox[c][k]) \subseteq {"lost"}
      /\ tPc[c][k] \notin {"create", "createFailed", "repeat", "sessionFailed"}
  BY DEF SettledAt
<1>3. ThreadTypes
  BY DEF TypeOK
<1>4. ASSUME NEW d \in Cameras, NEW j, Quit(d, j)
      PROVE  tState'[c][k] # "live"
  BY <1>2, <1>3, <1>4 DEF Quit, ThreadTypes
<1>5. tState'[c][k] # "live"
  <2>1. CASE \/ UNCHANGED vars \/ SurfaceChanged \/ StopPreview \/ WaitTimeout
             \/ UIRuns /\ ~StartOpen /\ ~StartOpenThrows /\ ~Acquire
    BY <1>2, <2>1
       DEF SurfaceChanged, StopPreview, WaitTimeout, UIRuns, StartBegin, AcquireTimeout,
           StartsDone, WaitReturn, StopDestroy, StopReturn, SkipCamera, TakeCamera
  <2>6. CASE Acquire
    BY <1>4, <2>6 DEF Acquire, TypeOK, UiTypes
  <2>7. CASE StartOpenThrows
    BY <1>2, <1>3, <2>7 DEF StartOpenThrows, ThreadTypes
  <2>8. CASE StartOpen
    <3>1. thread[c] \in Nat /\ thread'[uiCam] = thread[uiCam] + 1 /\ k <= thread[c] /\ k \in Nat
      BY <2>8 DEF StartOpen, TypeOK, CameraTypes, UiTypes, Attempts
    <3>2. uiCam # c \/ thread'[uiCam] # k
      BY <3>1
    <3>. QED BY <1>2, <1>3, <2>8, <3>2 DEF StartOpen, ThreadTypes
  <2>2. ASSUME NEW d \in Cameras, MessageThread(d) \/ FrameInterrupted(d)
        PROVE  tState' = tState
    BY <2>2 DEF MessageThread, FrameJoined, FrameCloses, FrameInterrupted
  <2>3. ASSUME NEW d \in Cameras, NEW j \in Attempts, FrameStops(d, j) \/ ImageStops(d, j)
        PROVE  tState'[c][k] # "live"
    BY <1>2, <1>3, <2>3 DEF FrameStops, ImageStops, Quit, ThreadTypes
  <2>4. ASSUME NEW d \in Cameras, NEW j \in Attempts, ThreadEnds(d, j)
        PROVE  tState'[c][k] # "live"
    BY <1>2, <1>3, <2>4 DEF ThreadEnds, ThreadTypes
  <2>5. ASSUME NEW d \in Cameras, NEW j \in Attempts, ~ThreadEnds(d, j),
               HandlerThread(d, j) \/ Service(d, j)
        PROVE  tState' = tState
    BY <2>5
       DEF HandlerThread, OnOpened, OnLost, CreateSession, CreateFails, OnConfigured,
           StartRepeating, RepeatFails, ReportSuccess, FinishSuccess, OnConfigureFailed,
           FailureDestroy, FailureReturn, ImageCloses, Service, ServiceOpens, ServiceLoses,
           ServiceAnswers
  <2>. QED BY <1>2, <2>1, <2>2, <2>3, <2>4, <2>5, <2>6, <2>7, <2>8 DEF Next
<1>6. Callbacks(inbox'[c][k]) \subseteq Callbacks(inbox[c][k])
  <2>1. ASSUME NEW d \in Cameras, NEW j \in Attempts, NEW e, Receive(d, j, e)
        PROVE  Callbacks(inbox'[c][k]) \subseteq Callbacks(inbox[c][k])
    BY <1>3, <2>1, ReceiveTakes
  <2>2. ASSUME NEW d \in Cameras, NEW j \in Attempts, NEW e \in Events, Post(d, j, e)
        PROVE  inbox'[c][k] = inbox[c][k]
    BY <1>2, <1>3, <2>2 DEF Post, ThreadTypes
  <2>3. CASE UNCHANGED vars \/ SurfaceChanged \/ StopPreview \/ WaitTimeout \/ UIRuns
    BY <2>3
       DEF SurfaceChanged, StopPreview, WaitTimeout, UIRuns, StartBegin, Acquire, AcquireTimeout,
           StartOpen, StartOpenThrows, StartsDone, WaitReturn, StopDestroy, StopReturn, SkipCamera,
           TakeCamera
  <2>4. ASSUME NEW d \in Cameras, MessageThread(d) \/ FrameInterrupted(d)
        PROVE  inbox' = inbox
    BY <2>4 DEF MessageThread, FrameJoined, FrameCloses, FrameInterrupted
  <2>5. ASSUME NEW d \in Cameras, NEW j \in Attempts,
               OnOpened(d, j) \/ OnLost(d, j) \/ OnConfigured(d, j) \/ OnConfigureFailed(d, j)
        PROVE  Callbacks(inbox'[c][k]) \subseteq Callbacks(inbox[c][k])
    BY <2>1, <2>5 DEF OnOpened, OnLost, OnConfigured, OnConfigureFailed
  <2>6. ASSUME NEW d \in Cameras, NEW j \in Attempts,
               ~(OnOpened(d, j) \/ OnLost(d, j) \/ OnConfigured(d, j) \/ OnConfigureFailed(d, j)),
               HandlerThread(d, j) \/ FrameStops(d, j) \/ ImageStops(d, j)
        PROVE  inbox' = inbox
    BY <2>6
       DEF HandlerThread, CreateSession, CreateFails, StartRepeating, RepeatFails, ReportSuccess,
           FinishSuccess, FailureDestroy, FailureReturn, ThreadEnds, ImageCloses, FrameStops,
           ImageStops
  <2>7. ASSUME NEW d \in Cameras, NEW j \in Attempts, ServiceOpens(d, j)
        PROVE  inbox'[c][k] = inbox[c][k]
    BY <1>2, <1>3, <2>7 DEF ServiceOpens, ThreadTypes
  <2>8. ASSUME NEW d \in Cameras, NEW j \in Attempts, ServiceLoses(d, j) \/ ServiceAnswers(d, j)
        PROVE  inbox'[c][k] = inbox[c][k]
    BY <2>2, <2>8 DEF ServiceLoses, ServiceAnswers, Events
  <2>. QED BY <2>3, <2>4, <2>5, <2>6, <2>7, <2>8 DEF Next, Service
<1>7. tPc'[c][k] \notin {"create", "createFailed", "repeat", "sessionFailed"}
  <2>1. CASE tPc'[c][k] = tPc[c][k]
    BY <1>2, <2>1
  <2>2. ASSUME NEW v, v \notin {"create", "createFailed", "repeat", "sessionFailed"}, Goto(c, k, v)
        PROVE  tPc'[c][k] \notin {"create", "createFailed", "repeat", "sessionFailed"}
    BY <1>3, <2>2 DEF Goto, ThreadTypes
  <2>3. CASE OnLost(c, k) \/ ThreadEnds(c, k)
    BY <1>2, <2>3 DEF OnLost, ThreadEnds
  <2>4. CASE ReportSuccess(c, k) \/ FinishSuccess(c, k) \/ ImageCloses(c, k) \/ ImageStops(c, k)
    BY <2>2, <2>4 DEF ReportSuccess, FinishSuccess, ImageCloses, ImageStops
  <2>. QED BY <2>1, <2>3, <2>4, ThreadMoves, SettledReceives DEF HandlerThread
<1>. QED BY <1>2, <1>5, <1>6, <1>7

\* While a session streams no thread of its camera opens, configures or fails:
\* the session's own is past that, and no later one has opened its device.
LEMMA StreamingSettles ==
    ASSUME IInv, Succession, NEW c \in Cameras, NEW k \in Attempts, Streaming(c, k),
           NEW j \in Attempts
    PROVE  /\ Callbacks(inbox[c][j]) \subseteq {"lost"}
           /\ tPc[c][j] \notin {"create", "createFailed", "repeat", "sessionFailed"}
<1>1. sess[c][k] = "repeating" /\ Held(c, k) /\ Runs(c, k)
  BY DEF Streaming, Held, Runs
<1>2. Outlives(c) /\ Phase(c, j) /\ Phase(c, k) /\ Order(c, j)
  BY DEF Succession, IInv, Safe, Orders, Phases
<1>3. CASE ~Running(c, j)
  BY <1>2, <1>3, CallbacksEmpty DEF Order
<1>4. CASE Running(c, j)
  <2>1. k <= j
    BY <1>1, <1>4, LatestRuns
  <2>2. CASE j = k
    BY <1>1, <1>2, <2>2 DEF Phase
  <2>3. CASE k < j
    <3>1. ~Was(c, j)
      BY <1>1, <1>2, <2>3 DEF Outlives
    <3>. QED BY <1>2, <3>1 DEF Was, Phase
  <2>. QED BY <2>1, <2>2, <2>3 DEF Attempts
<1>. QED BY <1>3, <1>4

\* Who may change the device or the session of a camera.
LEMMA DeviceMoves ==
    ASSUME IInv, [Next]_vars, NEW c \in Cameras
    PROVE  \/ device'[c] = device[c] /\ session'[c] = session[c]
           \/ FrameCloses(c)
           \/ \E j \in Attempts : OnOpened(c, j) \/ OnLost(c, j) \/ OnConfigured(c, j) \/ ImageCloses(c, j)
<1>. USE DEF IInv
<1>1. CASE UNCHANGED vars \/ SurfaceChanged \/ StopPreview \/ WaitTimeout \/ UIRuns
  BY <1>1 DEF SurfaceChanged, StopPreview, WaitTimeout, UIRuns, StartBegin, Acquire,
              AcquireTimeout, StartOpen, StartOpenThrows, StartsDone, WaitReturn, StopDestroy,
              StopReturn, SkipCamera, TakeCamera
<1>2. ASSUME NEW d \in Cameras, FrameJoined(d) \/ FrameInterrupted(d)
      PROVE  device'[c] = device[c] /\ session'[c] = session[c]
  BY <1>2 DEF FrameJoined, FrameInterrupted
<1>3. ASSUME NEW d \in Cameras, d # c, CloseCamera(d) \/ AbortThrows(d)
      PROVE  device'[c] = device[c] /\ session'[c] = session[c]
  BY <1>3 DEF CloseCamera, AbortThrows, TypeOK, CameraTypes
<1>4. ASSUME NEW d \in Cameras, d # c, FrameCloses(d)
      PROVE  device'[c] = device[c] /\ session'[c] = session[c]
  BY <1>3, <1>4 DEF FrameCloses
<1>5. ASSUME NEW d \in Cameras, NEW j \in Attempts, d # c, HandlerThread(d, j)
      PROVE  device'[c] = device[c] /\ session'[c] = session[c]
  <2>1. CASE ImageCloses(d, j)
    BY <1>3, <1>5, <2>1 DEF ImageCloses
  <2>2. CASE ~ImageCloses(d, j)
    BY <1>5, <2>2
       DEF HandlerThread, OnOpened, OnLost, CreateSession, CreateFails, OnConfigured,
           StartRepeating, RepeatFails, ReportSuccess, FinishSuccess, OnConfigureFailed,
           FailureDestroy, FailureReturn, ThreadEnds, TypeOK, CameraTypes
  <2>. QED BY <2>1, <2>2
<1>6. ASSUME NEW j \in Attempts, HandlerThread(c, j),
             ~(OnOpened(c, j) \/ OnLost(c, j) \/ OnConfigured(c, j) \/ ImageCloses(c, j))
      PROVE  device'[c] = device[c] /\ session'[c] = session[c]
  BY <1>6
     DEF HandlerThread, CreateSession, CreateFails, StartRepeating, RepeatFails, ReportSuccess,
         FinishSuccess, OnConfigureFailed, FailureDestroy, FailureReturn, ThreadEnds
<1>7. ASSUME NEW d \in Cameras, NEW j \in Attempts,
             FrameStops(d, j) \/ ImageStops(d, j) \/ Service(d, j)
      PROVE  device'[c] = device[c] /\ session'[c] = session[c]
  BY <1>7 DEF FrameStops, ImageStops, Service, ServiceOpens, ServiceLoses, ServiceAnswers
<1>. QED BY <1>1, <1>2, <1>4, <1>5, <1>6, <1>7 DEF Next, MessageThread

\* Between onOpened and the session request only a message thread could take the
\* device away.
LEMMA CreatingKeeps ==
    ASSUME IInv, [Next]_vars, NEW c \in Cameras, NEW k \in Attempts, tPc'[c][k] = "create",
           tPc[c][k] = "create" => device[c] = k /\ ~FrameCloses(c)
    PROVE  device'[c] = k
<1>. USE DEF IInv
<1>1. CASE OnOpened(c, k)
  BY <1>1 DEF OnOpened, TypeOK, CameraTypes
<1>2. CASE ~OnOpened(c, k)
  <2>1. tPc[c][k] = "create"
    <3>1. ASSUME NEW v, v # "create", Goto(c, k, v)
          PROVE  FALSE
      BY <3>1 DEF Goto, TypeOK, ThreadTypes
    <3>2. CASE HandlerThread(c, k) \/ ImageStops(c, k)
      <4>1. CASE OnLost(c, k) \/ FailureDestroy(c, k) \/ ThreadEnds(c, k)
        BY <4>1 DEF OnLost, FailureDestroy, ThreadEnds
      <4>2. CASE ~(OnLost(c, k) \/ FailureDestroy(c, k) \/ ThreadEnds(c, k))
        <5>1. \E v \in HandlerPcs \ {"create"} : Goto(c, k, v)
          BY <1>2, <3>2, <4>2
             DEF HandlerThread, CreateSession, CreateFails, OnConfigured, StartRepeating,
                 RepeatFails, ReportSuccess, FinishSuccess, OnConfigureFailed, FailureReturn,
                 ImageCloses, ImageStops, ReportFailure, HandlerPcs
        <5>. QED BY <3>1, <5>1
      <4>. QED BY <4>1, <4>2
    <3>. QED BY <3>2, ThreadMoves
  <2>2. device[c] = k
    BY <2>1
  <2>3. Running(c, k)
    BY <2>1, BusyRuns
  <2>4. ASSUME NEW j \in Attempts,
               OnOpened(c, j) \/ OnLost(c, j) \/ OnConfigured(c, j) \/ ImageCloses(c, j)
        PROVE  FALSE
    <3>1. tPc[c][j] = "loop" \/ tPc[c][j] = "close"
      BY <2>4 DEF OnOpened, OnLost, OnConfigured, ImageCloses, Receive
    <3>2. Running(c, j)
      <4>1. CASE ImageCloses(c, j)
        BY <4>1, BusyRuns DEF ImageCloses
      <4>2. CASE ~ImageCloses(c, j)
        BY <2>4, <4>2 DEF OnOpened, OnLost, OnConfigured, Receive, Running
      <4>. QED BY <4>1, <4>2
    <3>. QED BY <2>1, <2>3, <3>1, <3>2, LatestRuns
  <2>5. ~FrameCloses(c)
    BY <2>1
  <2>. QED BY <2>2, <2>4, <2>5, DeviceMoves
<1>. QED BY <1>1, <1>2

-----------------------------------------------------------------------------
(* One context.  Its message thread stops the camera only while the UI     *)
(* thread is in stopPreview and will wait for it.                          *)

OneContext == \A c, d \in Contexts : c = d

\* A frame finds its camera stopping, with the context still there, only while
\* stopPreview runs.
Stops(c) ==
    c \in Contexts /\ stopping[c] /\ destroyer[c] = "none" =>
        uiPc = "destroy" \/ \E k \in Attempts : tPc[c][k] \in {"createFailed", "sessionFailed"}

\* The camera's handler threads have been told to quit, and nothing that is left
\* to them opens, configures or fails.
Settled(c) == \A k \in Attempts : SettledAt(c, k)

Joins(c) ==
    mPc[c] # "idle" =>
        /\ c \in Contexts /\ uiPc = "destroy" /\ destroyer[c] \in {"none", "ui"}
        /\ Settled(c)
        /\ device[c] \in {0, mAttempt[c]} /\ session[c] \in {0, mAttempt[c]}

Waited ==
    \A c \in Cameras :
        Stops(c) /\ Joins(c) /\ (handler[c] = "renderscript" => c \in Contexts)

\* A context once destroyed stays so.
LEMMA DestroyedOnce ==
    ASSUME IInv, [Next]_vars, NEW c \in Cameras, destroyer'[c] = "none"
    PROVE  destroyer[c] = "none"
<1>. USE DEF IInv
<1>1. ASSUME NEW who \in {"ui"} \cup Cameras, DestroyContext(who)
      PROVE  destroyer[c] = "none"
  BY <1>1, SessionAssumption DEF DestroyContext, TypeOK, UiTypes, Contexts
<1>2. CASE \E d \in Cameras, j \in Attempts : FailureDestroy(d, j)
  BY <1>1, <1>2 DEF FailureDestroy
<1>3. CASE StopDestroy
  BY <1>1, <1>3 DEF StopDestroy
<1>4. CASE ~StopDestroy /\ (UNCHANGED vars \/ SurfaceChanged \/ StopPreview \/ WaitTimeout \/ UIRuns)
  BY <1>4 DEF SurfaceChanged, StopPreview, WaitTimeout, UIRuns, StartBegin, Acquire,
              AcquireTimeout, StartOpen, StartOpenThrows, StartsDone, WaitReturn,
              StopReturn, SkipCamera, TakeCamera
<1>5. ASSUME NEW d \in Cameras, MessageThread(d) \/ FrameInterrupted(d)
      PROVE  destroyer' = destroyer
  BY <1>5 DEF MessageThread, FrameJoined, FrameCloses, FrameInterrupted
<1>6. ASSUME NEW d \in Cameras, NEW j \in Attempts,
             FrameStops(d, j) \/ ImageStops(d, j) \/ Service(d, j)
      PROVE  destroyer' = destroyer
  BY <1>6 DEF FrameStops, ImageStops, Service, ServiceOpens, ServiceLoses, ServiceAnswers
<1>7. ASSUME NEW d \in Cameras, NEW j \in Attempts, HandlerThread(d, j), ~FailureDestroy(d, j)
      PROVE  destroyer' = destroyer
  BY <1>7
     DEF HandlerThread, OnOpened, OnLost, CreateSession, CreateFails, OnConfigured,
         StartRepeating, RepeatFails, ReportSuccess, FinishSuccess, OnConfigureFailed,
         FailureReturn, ThreadEnds, ImageCloses
<1>. QED BY <1>2, <1>3, <1>4, <1>5, <1>6, <1>7 DEF Next

\* isStopping is raised by a stop, or by a failed attempt about to call one.
LEMMA StopsStep ==
    ASSUME IInv, Waited, [Next]_vars, NEW c \in Cameras
    PROVE  Stops(c)'
<1>. USE DEF IInv
<1>. SUFFICES ASSUME c \in Contexts, stopping'[c], destroyer'[c] = "none", uiPc' # "destroy"
              PROVE  \E k \in Attempts : tPc'[c][k] \in {"createFailed", "sessionFailed"}
  BY DEF Stops, Contexts
<1>1. Stops(c) /\ destroyer[c] = "none"
  BY DestroyedOnce DEF Waited
<1>2. ASSUME NEW who, ContextsDestroyed(who)
      PROVE  FALSE
  BY <1>1, <1>2 DEF ContextsDestroyed
<1>3. CASE uiPc = "destroy"
  <2>1. StopReturn
    BY <1>3 DEF Next, SurfaceChanged, StopPreview, WaitTimeout, UIRuns, StartBegin, Acquire,
              AcquireTimeout, StartOpen, StartOpenThrows, StartsDone, WaitReturn, StopDestroy,
              SkipCamera, TakeCamera, NextCamera,
              MessageThread, FrameJoined, FrameCloses, FrameInterrupted,
              FrameStops, ImageStops, Service, ServiceOpens, ServiceLoses, ServiceAnswers,
              HandlerThread, OnOpened, OnLost, CreateSession, CreateFails, OnConfigured,
         StartRepeating, RepeatFails, ReportSuccess, FinishSuccess, OnConfigureFailed,
         FailureDestroy, FailureReturn, ThreadEnds, ImageCloses
  <2>. QED BY <2>1, <1>2 DEF StopReturn
<1>4. ASSUME NEW k \in Attempts, tPc[c][k] \in {"createFailed", "sessionFailed"}
      PROVE  tPc'[c][k] \in {"createFailed", "sessionFailed"}
  <2>1. ~ContextsDestroyed(c)
    BY <1>2
  <2>2. CASE HandlerThread(c, k) \/ ImageStops(c, k)
    BY <1>4, <2>1, <2>2
       DEF HandlerThread, OnOpened, OnLost, CreateSession, CreateFails, OnConfigured, Receive,
         StartRepeating, RepeatFails, ReportSuccess, FinishSuccess, OnConfigureFailed,
         FailureDestroy, FailureReturn, ThreadEnds, ImageCloses, ImageStops
  <2>. QED BY <1>4, <2>2, ThreadMoves
<1>5. CASE ~stopping[c]
  <2>1. ASSUME NEW d \in Cameras, NEW j \in Attempts, NEW v, ReportFailure(d, j, v)
        PROVE  d = c /\ tPc'[c][j] = v
    BY <1>5, <2>1 DEF ReportFailure, Goto, TypeOK, FlagTypes, ThreadTypes
  <2>2. ASSUME NEW d \in Cameras, NEW j \in Attempts,
               CreateFails(d, j) \/ RepeatFails(d, j) \/ OnConfigureFailed(d, j)
        PROVE  \E k \in Attempts : tPc'[c][k] \in {"createFailed", "sessionFailed"}
    <3>1. ReportFailure(d, j, "createFailed") \/ ReportFailure(d, j, "sessionFailed")
      BY <2>2, <1>5 DEF CreateFails, RepeatFails, OnConfigureFailed
    <3>. QED BY <2>1, <3>1
  <2>3. CASE UNCHANGED vars \/ SurfaceChanged \/ StopPreview \/ WaitTimeout \/ UIRuns
    BY <1>5, <2>3
          DEF SurfaceChanged, StopPreview, WaitTimeout, UIRuns, StartBegin, Acquire,
              AcquireTimeout, StartOpen, StartOpenThrows, StartsDone, WaitReturn, StopDestroy,
              StopReturn, SkipCamera, TakeCamera, TypeOK, FlagTypes
  <2>4. ASSUME NEW d \in Cameras, MessageThread(d) \/ FrameInterrupted(d)
        PROVE  stopping' = stopping
    BY <2>4 DEF MessageThread, FrameJoined, FrameCloses, FrameInterrupted, CloseCamera, AbortThrows
  <2>5. ASSUME NEW d \in Cameras, NEW j \in Attempts,
               FrameStops(d, j) \/ ImageStops(d, j) \/ Service(d, j)
        PROVE  stopping' = stopping
    BY <2>5 DEF FrameStops, ImageStops, Service, ServiceOpens, ServiceLoses, ServiceAnswers
  <2>6. ASSUME NEW d \in Cameras, NEW j \in Attempts, HandlerThread(d, j),
               ~(CreateFails(d, j) \/ RepeatFails(d, j) \/ OnConfigureFailed(d, j))
        PROVE  stopping' = stopping
    BY <2>6
       DEF HandlerThread, OnOpened, OnLost, CreateSession, OnConfigured,
         StartRepeating, ReportSuccess, FinishSuccess,
         FailureDestroy, FailureReturn, ThreadEnds, ImageCloses, CloseCamera, AbortThrows
  <2>. QED BY <1>5, <2>2, <2>3, <2>4, <2>5, <2>6 DEF Next
<1>. QED BY <1>1, <1>3, <1>4, <1>5 DEF Stops

\* A frame that stops its camera finds the UI thread in stopPreview, and the
\* camera's latest attempt at its end: it is that frame's own.
LEMMA FrameStopsSettles ==
    ASSUME IInv, Succession, Waited, NEW c \in Cameras, NEW k \in Attempts, FrameStops(c, k)
    PROVE  /\ c \in Contexts /\ uiPc = "destroy"
           /\ Settled(c)'
           /\ device[c] \in {0, k} /\ session[c] \in {0, k}
<1>1. /\ sess[c][k] = "repeating" /\ Held(c, k) /\ Runs(c, k) /\ Streaming(c, k)
      /\ stopping[c] /\ destroyer[c] = "none" /\ handler[c] = "renderscript"
  BY DEF FrameStops, Streaming, Held, Runs
<1>2. c \in Contexts /\ Stops(c)
  BY <1>1 DEF Waited
<1>3. Outlives(c) /\ Follows(c)
  BY DEF Succession
<1>4. \A j \in Attempts : Phase(c, j) /\ Order(c, j)
  BY DEF IInv, Safe, Orders, Phases
<1>5. \A j \in Attempts : j \in Nat
  BY DEF Attempts
<1>6. ASSUME NEW j \in Attempts
      PROVE  /\ Callbacks(inbox[c][j]) \subseteq {"lost"}
             /\ tPc[c][j] \notin {"create", "createFailed", "repeat", "sessionFailed"}
  BY <1>1, StreamingSettles
<1>7. uiPc = "destroy"
  <2>. SUFFICES ASSUME NEW j \in Attempts, tPc[c][j] \in {"createFailed", "sessionFailed"}
                PROVE  FALSE
    BY <1>1, <1>2 DEF Stops
  <2>1. Running(c, j)
    BY BusyRuns
  <2>. QED BY <1>6, <2>1
<1>8. ASSUME NEW j \in Attempts
      PROVE  /\ tState'[c][j] # "live" /\ Callbacks(inbox[c][j]) \subseteq {"lost"}
             /\ tPc[c][j] \notin {"create", "createFailed", "repeat", "sessionFailed"}
  <2>1. CASE ~Running(c, j)
    <3>1. tPc[c][j] = "loop" /\ inbox[c][j] = <<>>
      BY <1>4, <2>1 DEF Order
    <3>2. tState'[c][j] # "live"
      BY <2>1 DEF FrameStops, Quit, Running, IInv, TypeOK, ThreadTypes
    <3>. QED BY <3>1, <3>2, CallbacksEmpty
  <2>2. CASE Running(c, j)
    <3>1. j = thread[c] /\ j # 0
      BY <2>2, LatestRuns DEF Attempts
    <3>2. tState'[c][j] # "live"
      BY <3>1 DEF FrameStops, Quit, IInv, TypeOK, ThreadTypes
    <3>. QED BY <1>6, <2>2, <3>2
  <2>. QED BY <2>1, <2>2
<1>9. Settled(c)'
  BY <1>8 DEF Settled, SettledAt, FrameStops
<1>10. device[c] \in {0, k} /\ session[c] \in {0, k}
  BY <1>1, <1>3, StreamingOwns
<1>. QED BY <1>2, <1>7, <1>9, <1>10

\* While stopPreview runs no thread is started.
LEMMA SettledStep ==
    ASSUME IInv, [Next]_vars, uiPc = "destroy", NEW c \in Cameras, Settled(c)
    PROVE  Settled(c)'
<1>1. ~StartOpen
  BY DEF StartOpen
<1>2. ASSUME NEW k \in Attempts PROVE SettledAt(c, k)'
  BY <1>1, SettledAtStep DEF Settled
<1>. QED BY <1>2 DEF Settled

\* A message thread begins with a frame that stops its camera.
LEMMA MessageMoves ==
    ASSUME IInv, [Next]_vars, NEW c \in Cameras
    PROVE  \/ mPc'[c] = mPc[c] /\ mAttempt'[c] = mAttempt[c]
           \/ mPc[c] # "idle" /\ mAttempt'[c] = mAttempt[c]
           \/ \E k \in Attempts : FrameStops(c, k)
<1>. USE DEF IInv
<1>1. CASE UNCHANGED vars \/ SurfaceChanged \/ StopPreview \/ WaitTimeout \/ UIRuns
  BY <1>1 DEF SurfaceChanged, StopPreview, WaitTimeout, UIRuns, StartBegin, Acquire,
              AcquireTimeout, StartOpen, StartOpenThrows, StartsDone, WaitReturn, StopDestroy,
              StopReturn, SkipCamera, TakeCamera
<1>2. ASSUME NEW d \in Cameras, MessageThread(d) \/ FrameInterrupted(d)
      PROVE  mAttempt' = mAttempt /\ (mPc'[c] = mPc[c] \/ mPc[c] # "idle")
  BY <1>2 DEF MessageThread, FrameJoined, FrameCloses, FrameInterrupted, TypeOK, ServiceTypes
<1>3. ASSUME NEW d \in Cameras, NEW k \in Attempts, d # c, FrameStops(d, k)
      PROVE  mPc'[c] = mPc[c] /\ mAttempt'[c] = mAttempt[c]
  BY <1>3 DEF FrameStops, TypeOK, ServiceTypes
<1>4. ASSUME NEW d \in Cameras, NEW k \in Attempts,
             ImageStops(d, k) \/ HandlerThread(d, k) \/ Service(d, k)
      PROVE  mPc' = mPc /\ mAttempt' = mAttempt
  BY <1>4
     DEF HandlerThread, OnOpened, OnLost, CreateSession, CreateFails, OnConfigured, StartRepeating,
         RepeatFails, ReportSuccess, FinishSuccess, OnConfigureFailed, FailureDestroy,
         FailureReturn, ThreadEnds, ImageCloses, ImageStops, Service, ServiceOpens, ServiceLoses,
         ServiceAnswers
<1>. QED BY <1>1, <1>2, <1>3, <1>4 DEF Next

\* stopPreview does not return before every context has been destroyed.
LEMMA StopsWaits ==
    ASSUME [Next]_vars, uiPc = "destroy", uiPc' # "destroy"
    PROVE  ContextsDestroyed("ui")
<1>1. StopReturn
  BY DEF Next, SurfaceChanged, StopPreview, WaitTimeout, UIRuns, StartBegin, Acquire,
         AcquireTimeout, StartOpen, StartOpenThrows, StartsDone, WaitReturn, StopDestroy,
         SkipCamera, TakeCamera, NextCamera,
         MessageThread, FrameJoined, FrameCloses, FrameInterrupted,
         FrameStops, ImageStops, Service, ServiceOpens, ServiceLoses, ServiceAnswers,
         HandlerThread, OnOpened, OnLost, CreateSession, CreateFails, OnConfigured,
         StartRepeating, RepeatFails, ReportSuccess, FinishSuccess, OnConfigureFailed,
         FailureDestroy, FailureReturn, ThreadEnds, ImageCloses
<1>. QED BY <1>1 DEF StopReturn

\* Only stopPreview destroys a context, in the UI thread or in a handler thread
\* whose session failed.
LEMMA DestroyerMoves ==
    ASSUME IInv, [Next]_vars, NEW c \in Cameras,
           \A d \in Cameras, k \in Attempts : ~FailureDestroy(d, k)
    PROVE  destroyer'[c] \in {destroyer[c], "ui"}
<1>. USE DEF IInv
<1>1. CASE StopDestroy
  BY <1>1 DEF StopDestroy, DestroyContext, TypeOK, UiTypes, Contexts
<1>2. CASE ~StopDestroy /\ (UNCHANGED vars \/ SurfaceChanged \/ StopPreview \/ WaitTimeout \/ UIRuns)
  BY <1>2 DEF SurfaceChanged, StopPreview, WaitTimeout, UIRuns, StartBegin, Acquire,
              AcquireTimeout, StartOpen, StartOpenThrows, StartsDone, WaitReturn,
              StopReturn, SkipCamera, TakeCamera
<1>3. ASSUME NEW d \in Cameras, MessageThread(d) \/ FrameInterrupted(d)
      PROVE  destroyer' = destroyer
  BY <1>3 DEF MessageThread, FrameJoined, FrameCloses, FrameInterrupted
<1>4. ASSUME NEW d \in Cameras, NEW j \in Attempts,
             FrameStops(d, j) \/ ImageStops(d, j) \/ Service(d, j)
      PROVE  destroyer' = destroyer
  BY <1>4 DEF FrameStops, ImageStops, Service, ServiceOpens, ServiceLoses, ServiceAnswers
<1>5. ASSUME NEW d \in Cameras, NEW j \in Attempts, HandlerThread(d, j), ~FailureDestroy(d, j)
      PROVE  destroyer' = destroyer
  BY <1>5
     DEF HandlerThread, OnOpened, OnLost, CreateSession, CreateFails, OnConfigured,
         StartRepeating, RepeatFails, ReportSuccess, FinishSuccess, OnConfigureFailed,
         FailureReturn, ThreadEnds, ImageCloses
<1>. QED BY <1>1, <1>2, <1>3, <1>4, <1>5 DEF Next

\* The message thread that stops its camera has the UI thread waiting for it.
LEMMA JoinsStep ==
    ASSUME IInv, Succession, Waited, OneContext, [Next]_vars, NEW c \in Cameras
    PROVE  Joins(c)'
<1>. USE DEF IInv
<1>. SUFFICES ASSUME mPc'[c] # "idle"
              PROVE  /\ c \in Contexts /\ uiPc' = "destroy" /\ destroyer'[c] \in {"none", "ui"}
                     /\ Settled(c)'
                     /\ device'[c] \in {0, mAttempt'[c]} /\ session'[c] \in {0, mAttempt'[c]}
  BY DEF Joins, Contexts
<1>1. Joins(c)
  BY DEF Waited
<1>2. CASE mPc[c] = "idle"
  <2>1. PICK k \in Attempts : FrameStops(c, k)
    BY <1>2, MessageMoves
  <2>2. c \in Contexts /\ uiPc = "destroy" /\ Settled(c)' /\ device[c] \in {0, k} /\ session[c] \in {0, k}
    BY <2>1, FrameStopsSettles
  <2>3. destroyer[c] = "none" /\ mAttempt'[c] = k /\ UNCHANGED <<uiPc, destroyer, device, session>>
    BY <2>1 DEF FrameStops, TypeOK, ServiceTypes
  <2>. QED BY <2>2, <2>3
<1>3. CASE mPc[c] # "idle"
  <2>1. /\ c \in Contexts /\ uiPc = "destroy" /\ destroyer[c] \in {"none", "ui"} /\ Settled(c)
        /\ device[c] \in {0, mAttempt[c]} /\ session[c] \in {0, mAttempt[c]}
    BY <1>1, <1>3 DEF Joins
  <2>2. ~ContextsDestroyed("ui")
    BY <1>3, <2>1 DEF ContextsDestroyed, ContextsJoined
  <2>3. uiPc' = "destroy"
    BY <2>1, <2>2, StopsWaits
  <2>4. \A d \in Cameras, k \in Attempts : ~FailureDestroy(d, k)
    <3>1. \A d \in Cameras : d = c
      BY <2>1 DEF OneContext, Contexts
    <3>. QED BY <2>1, <3>1, SettledReceives DEF Settled
  <2>5. destroyer'[c] \in {"none", "ui"}
    BY <2>1, <2>4, DestroyerMoves
  <2>6. Settled(c)'
    BY <2>1, SettledStep
  <2>7. ~FrameCloses(c)
    BY DEF FrameCloses, TypeOK, ServiceTypes
  <2>8. mAttempt'[c] = mAttempt[c]
    BY <1>3, MessageMoves DEF FrameStops
  <2>9. device'[c] \in {0, device[c]} /\ session'[c] \in {0, session[c]}
    <3>1. ASSUME NEW j \in Attempts, OnLost(c, j) \/ ImageCloses(c, j)
          PROVE  device'[c] \in {0, device[c]} /\ session'[c] \in {0, session[c]}
      BY <3>1 DEF OnLost, ImageCloses, CloseCamera, AbortThrows, TypeOK, CameraTypes
    <3>. QED BY <2>1, <2>7, <3>1, DeviceMoves, SettledReceives DEF Settled
  <2>. QED BY <2>1, <2>3, <2>5, <2>6, <2>8, <2>9
<1>. QED BY <1>2, <1>3

\* With one context that thread is not there.
LEMMA CreatingStep ==
    ASSUME IInv, Waited, CreatesOnItsDevice, [Next]_vars
    PROVE  CreatesOnItsDevice'
<1>. SUFFICES ASSUME NEW c \in Cameras, NEW k \in Attempts, tPc'[c][k] = "create"
              PROVE  device'[c] = k
  BY DEF CreatesOnItsDevice
<1>1. tPc[c][k] = "create" => device[c] = k /\ ~FrameCloses(c)
  BY DEF CreatesOnItsDevice, FrameCloses, Waited, Joins, Settled, SettledAt
<1>. QED BY <1>1, CreatingKeeps

\* With one context the frame's stop waits for its thread, whatever else happens.
LEMMA WaitedStep ==
    ASSUME IInv, Succession, Waited, OneContext, [Next]_vars
    PROVE  Waited'
<1>. USE DEF IInv
<1>1. ASSUME NEW c \in Cameras, handler'[c] = "renderscript"
      PROVE  c \in Contexts
  <2>1. ASSUME NEW d \in Cameras, NEW j \in Attempts, CreateSession(d, j)
        PROVE  c \in Contexts \/ handler[c] = "renderscript"
    BY <1>1, <2>1 DEF CreateSession, TypeOK, CameraTypes
  <2>2. ASSUME UNCHANGED vars \/ SurfaceChanged \/ StopPreview \/ WaitTimeout \/ UIRuns
        PROVE  handler' = handler
    BY <2>2
       DEF SurfaceChanged, StopPreview, WaitTimeout, UIRuns, StartBegin, Acquire, AcquireTimeout,
           StartOpen, StartOpenThrows, StartsDone, WaitReturn, StopDestroy, StopReturn, SkipCamera,
           TakeCamera
  <2>3. ASSUME NEW d \in Cameras, MessageThread(d) \/ FrameInterrupted(d)
        PROVE  handler' = handler
    BY <2>3 DEF MessageThread, FrameJoined, FrameCloses, FrameInterrupted
  <2>4. ASSUME NEW d \in Cameras, NEW j \in Attempts, ~CreateSession(d, j),
               HandlerThread(d, j) \/ FrameStops(d, j) \/ ImageStops(d, j) \/ Service(d, j)
        PROVE  handler' = handler
    BY <2>4
       DEF HandlerThread, OnOpened, OnLost, CreateFails, OnConfigured, StartRepeating,
           RepeatFails, ReportSuccess, FinishSuccess, OnConfigureFailed, FailureDestroy,
           FailureReturn, ThreadEnds, ImageCloses, FrameStops, ImageStops, Service, ServiceOpens,
           ServiceLoses, ServiceAnswers
  <2>5. c \in Contexts \/ handler[c] = "renderscript"
    BY <1>1, <2>1, <2>2, <2>3, <2>4 DEF Next
  <2>. QED BY <2>5 DEF Waited
<1>. QED BY <1>1, StopsStep, JoinsStep DEF Waited, Contexts

\* Before the first start nobody owns a camera.
LEMMA InitSuccession == Init => Succession /\ Waited /\ CreatesOnItsDevice
<1>. SUFFICES ASSUME Init PROVE Succession /\ Waited /\ CreatesOnItsDevice
  OBVIOUS
<1>1. ASSUME NEW c \in Cameras, NEW k \in Attempts
      PROVE  /\ tPc[c][k] = "loop" /\ sess[c][k] = "none" /\ inbox[c][k] = <<>>
             /\ device[c] = 0 /\ session[c] = 0 /\ k # 0
  BY DEF Init, Attempts
<1>2. ASSUME NEW c \in Cameras, NEW k \in Attempts
      PROVE  ~Was(c, k) /\ ~Made(c, k) /\ ~Runs(c, k) /\ ~Held(c, k) /\ device[c] = 0 /\ k # 0
  BY <1>1, CallbacksEmpty DEF Was, Made, Runs, Held
<1>3. Succession
  BY <1>1, <1>2 DEF Succession, Outlives, Follows, Owns
<1>4. CreatesOnItsDevice
  BY <1>1 DEF CreatesOnItsDevice
<1>5. Waited
  BY DEF Waited, Stops, Joins, Init
<1>. QED BY <1>3, <1>4, <1>5

\* The camera's latest attempt owns it: an attempt whose session sits on an open
\* device has had no later one open its device, and the device and session that
\* createCameraPreviewSession, onConfigured and a frame's stopCamera find are
\* those of no earlier attempt (HardwareCamera.cameraDevice and captureSession).
THEOREM SuccessionInvariance == Spec => []Succession
<1>1. Init => Succession
  BY InitSuccession
<1>2. IInv /\ Succession /\ [Next]_vars => Succession'
  BY SuccessionStep
<1>. QED BY <1>1, <1>2, SessionInvariance, PTL DEF Spec

\* The second invariant holds only where one context's stop cannot meet another's.
LEMMA WaitedInvariance == ASSUME OneContext PROVE Spec => [](Waited /\ CreatesOnItsDevice)
<1>1. Init => Waited /\ CreatesOnItsDevice
  BY InitSuccession
<1>2. IInv /\ Succession /\ Waited /\ CreatesOnItsDevice /\ [Next]_vars
         => (Waited /\ CreatesOnItsDevice)'
  BY WaitedStep, CreatingStep
<1>. QED BY <1>1, <1>2, SessionInvariance, SuccessionInvariance, PTL DEF Spec

\* With one camera, or with no RenderScript context: between onOpened and the
\* session request nobody takes the device away or puts in another, so that the
\* null check of createCameraPreviewSession never fires.
THEOREM SessionOnItsDevice == ASSUME OneContext PROVE Spec => []CreatesOnItsDevice
BY WaitedInvariance, PTL

\* With one camera, or with no RenderScript context: stopCamera, which acts on a
\* look at isStopping that may be stale, never closes the device or the session
\* of another attempt than the one whose frame it handles.
THEOREM StopClosesOwn == ASSUME OneContext PROVE Spec => ClosesOwnSession
<1>1. ASSUME Succession, Waited
      PROVE  \A c \in Cameras :
                /\ FrameCloses(c) => {device[c], session[c]} \subseteq {0, mAttempt[c]}
                /\ \A k \in Attempts :
                      ImageCloses(c, k) => {device[c], session[c]} \subseteq {0, k}
  <2>. SUFFICES ASSUME NEW c \in Cameras
                PROVE  /\ FrameCloses(c) => {device[c], session[c]} \subseteq {0, mAttempt[c]}
                       /\ \A k \in Attempts :
                             ImageCloses(c, k) => {device[c], session[c]} \subseteq {0, k}
    OBVIOUS
  <2>1. Joins(c) /\ Owns(c)
    BY <1>1 DEF Succession, Waited
  <2>2. FrameCloses(c) => {device[c], session[c]} \subseteq {0, mAttempt[c]}
    BY <2>1 DEF Joins, FrameCloses
  <2>3. ASSUME NEW k \in Attempts, ImageCloses(c, k)
        PROVE  {device[c], session[c]} \subseteq {0, k}
    BY <2>1, <2>3 DEF Owns, ImageCloses
  <2>. QED BY <2>2, <2>3
<1>. QED BY <1>1, SuccessionInvariance, WaitedInvariance, PTL DEF ClosesOwnSession

-----------------------------------------------------------------------------
(* What stopPreview and startPreview wait for, with any number of cameras  *)
(* and contexts.                                                           *)

\* The attempts that were made have had a thread.
Started(c) == \A k \in Attempts : k <= thread[c] => tState[c][k] # "none"

\* The thread that a message thread waits for is settled.
Waits(c) ==
    mPc[c] = "join" =>
        mThread[c] \in Attempts /\ mThread[c] <= thread[c] /\ SettledAt(c, mThread[c])

Waiting == \A c \in Cameras : Started(c) /\ Waits(c)

\* A message thread stops a session that has reported, or is about to; so before
\* a camera's first result nobody takes the device out of its hands, ...
Reports(c) ==
    mPc[c] # "idle" => ready[c] # "absent" \/ \E k \in Attempts : tPc[c][k] = "report"
Creates(c) ==
    ready[c] = "absent" => \A k \in Attempts : tPc[c][k] = "create" => device[c] = k

\* ... and nobody tells its thread to quit but for the next attempt.
Listens(c) ==
    ready[c] = "absent" /\ ~Opening(c) =>
        \A k \in Attempts : tState[c][k] = "quit" => tPc[c][k] = "report"

\* WillAnswer for attempt k, by the set of callbacks.
Answering(c, k) ==
    \/ tState[c][k] = "live" /\ (dev[c][k] = "opening" \/ sess[c][k] = "requested")
    \/ tPc[c][k] \in {"create", "repeat", "report"}
    \/ ~(Callbacks(inbox[c][k]) \subseteq {"lost"})

\* The latest attempt owes the camera's first result as long as it has a device.
Owes(c) ==
    ready[c] = "absent" /\ ~Opening(c) /\ thread[c] # 0
    /\ dev[c][thread[c]] \in {"opening", "open"} => Answering(c, thread[c])

Reporting == \A c \in Cameras : Reports(c) /\ Creates(c) /\ Listens(c) /\ Owes(c)

\* A result stays.
LEMMA ReadyStays ==
    ASSUME IInv, [Next]_vars, NEW c \in Cameras, ready'[c] = "absent"
    PROVE  ready[c] = "absent"
<1>. USE DEF IInv
<1>1. CASE UNCHANGED vars \/ SurfaceChanged \/ StopPreview \/ WaitTimeout \/ UIRuns
  BY <1>1 DEF SurfaceChanged, StopPreview, WaitTimeout, UIRuns, StartBegin, Acquire,
              AcquireTimeout, StartOpen, StartOpenThrows, StartsDone, WaitReturn, StopDestroy,
              StopReturn, SkipCamera, TakeCamera
<1>2. ASSUME NEW d \in Cameras, MessageThread(d) \/ FrameInterrupted(d)
      PROVE  ready' = ready
  BY <1>2 DEF MessageThread, FrameJoined, FrameCloses, FrameInterrupted
<1>3. ASSUME NEW d \in Cameras, NEW j \in Attempts,
             FrameStops(d, j) \/ ImageStops(d, j) \/ Service(d, j)
      PROVE  ready' = ready
  BY <1>3 DEF FrameStops, ImageStops, Service, ServiceOpens, ServiceLoses, ServiceAnswers
<1>4. ASSUME NEW d \in Cameras, NEW j \in Attempts, NEW v, ReportFailure(d, j, v)
      PROVE  ready[c] = "absent"
  BY <1>4 DEF ReportFailure, TypeOK, UiTypes
<1>5. ASSUME NEW d \in Cameras, NEW j \in Attempts, HandlerThread(d, j)
      PROVE  ready[c] = "absent"
  <2>1. CASE CreateFails(d, j) \/ RepeatFails(d, j) \/ OnConfigureFailed(d, j)
    BY <1>4, <2>1 DEF CreateFails, RepeatFails, OnConfigureFailed
  <2>2. CASE ReportSuccess(d, j)
    BY <2>2 DEF ReportSuccess, TypeOK, UiTypes
  <2>. QED
    BY <1>5, <2>1, <2>2
       DEF HandlerThread, OnOpened, OnLost, CreateSession, OnConfigured, StartRepeating,
           FinishSuccess, FailureDestroy, FailureReturn, ThreadEnds, ImageCloses
<1>. QED BY <1>1, <1>2, <1>3, <1>5 DEF Next

\* An attempt is added by StandardCamera.startPreview alone.
LEMMA AttemptMoves ==
    ASSUME IInv, [Next]_vars, NEW c \in Cameras
    PROVE  \/ thread'[c] = thread[c] /\ ~(uiCam = c /\ (StartOpen \/ StartOpenThrows))
           \/ /\ uiCam = c /\ (StartOpen \/ StartOpenThrows) /\ Opening(c)
              /\ thread'[c] = thread[c] + 1 /\ thread'[c] \in Attempts
<1>. USE DEF IInv
<1>1. ASSUME \/ UNCHANGED vars \/ SurfaceChanged \/ StopPreview \/ WaitTimeout
             \/ UIRuns /\ ~StartOpen /\ ~StartOpenThrows
      PROVE  thread' = thread
  BY <1>1 DEF SurfaceChanged, StopPreview, WaitTimeout, UIRuns, StartBegin, Acquire,
              AcquireTimeout, StartsDone, WaitReturn, StopDestroy, StopReturn, SkipCamera,
              TakeCamera
<1>2. CASE StartOpen \/ StartOpenThrows
  <2>1. uiPc = "open" /\ thread' = [thread EXCEPT ![uiCam] = @ + 1]
    BY <1>2 DEF StartOpen, StartOpenThrows
  <2>2. CASE uiCam = c
    <3>1. Opening(c) /\ thread[c] \in 0 .. MaxAttempts /\ thread[c] < MaxAttempts
      BY <2>1, <2>2 DEF Opening, TypeOK, CameraTypes, Safe, Replacing, Replaces
    <3>2. thread'[c] = thread[c] + 1
      BY <2>1, <2>2 DEF TypeOK, CameraTypes
    <3>. QED BY <1>2, <2>2, <3>1, <3>2, SessionAssumption DEF Attempts
  <2>3. CASE uiCam # c
    BY <2>1, <2>3 DEF TypeOK, CameraTypes
  <2>. QED BY <2>2, <2>3
<1>3. ASSUME NEW d \in Cameras, MessageThread(d) \/ FrameInterrupted(d)
      PROVE  thread' = thread
  BY <1>3 DEF MessageThread, FrameJoined, FrameCloses, FrameInterrupted, CloseCamera, AbortThrows
<1>4. ASSUME NEW d \in Cameras, NEW j \in Attempts,
             FrameStops(d, j) \/ ImageStops(d, j) \/ Service(d, j) \/ HandlerThread(d, j)
      PROVE  thread' = thread
  BY <1>4
     DEF FrameStops, ImageStops, Service, ServiceOpens, ServiceLoses, ServiceAnswers,
         HandlerThread, OnOpened, OnLost, CreateSession, CreateFails, OnConfigured,
         StartRepeating, RepeatFails, ReportSuccess, FinishSuccess, OnConfigureFailed,
         FailureDestroy, FailureReturn, ThreadEnds, ImageCloses, CloseCamera, AbortThrows
<1>5. StartOpen \/ StartOpenThrows \/ thread'[c] = thread[c]
  BY <1>1, <1>3, <1>4 DEF Next
<1>. QED BY <1>2, <1>5

\* Who tells a handler thread to quit, and who starts one.
LEMMA StateMoves ==
    ASSUME IInv, [Next]_vars, NEW c \in Cameras, NEW k \in Attempts
    PROVE  \/ tState'[c][k] = tState[c][k]
           \/ tState'[c][k] = "ended" /\ (tState[c][k] = "quit" \/ k = thread[c] + 1)
           \/ /\ tState[c][k] = "live" /\ tState'[c][k] = "quit"
              /\ \/ uiCam = c /\ Acquire
                 \/ \E j \in Attempts : FrameStops(c, j) \/ ImageStops(c, j)
           \/ uiCam = c /\ StartOpen /\ k = thread[c] + 1 /\ tState'[c][k] = "live"
<1>. USE DEF IInv
<1>1. ThreadTypes
  BY DEF TypeOK
<1>2. ASSUME NEW d \in Cameras, NEW j, Quit(d, j)
      PROVE  \/ tState'[c][k] = tState[c][k]
             \/ d = c /\ tState[c][k] = "live" /\ tState'[c][k] = "quit"
  BY <1>1, <1>2 DEF Quit, ThreadTypes
<1>3. ASSUME \/ UNCHANGED vars \/ SurfaceChanged \/ StopPreview \/ WaitTimeout
             \/ UIRuns /\ ~StartOpen /\ ~StartOpenThrows /\ ~Acquire
      PROVE  tState' = tState
  BY <1>3 DEF SurfaceChanged, StopPreview, WaitTimeout, UIRuns, StartBegin, AcquireTimeout,
              StartsDone, WaitReturn, StopDestroy, StopReturn, SkipCamera, TakeCamera
<1>4. CASE Acquire
  <2>1. uiCam \in Cameras /\ Quit(uiCam, thread[uiCam])
    BY <1>4 DEF Acquire, TypeOK, UiTypes
  <2>. QED BY <1>2, <1>4, <2>1
<1>5. CASE StartOpenThrows
  <2>1. tState' = [tState EXCEPT ![uiCam][thread'[uiCam]] = "ended"]
    BY <1>5 DEF StartOpenThrows
  <2>2. CASE uiCam = c /\ thread'[c] = k
    <3>1. k = thread[c] + 1
      BY <1>5, <2>2, AttemptMoves
    <3>. QED BY <1>1, <1>5, <2>1, <2>2, <3>1 DEF ThreadTypes
  <2>3. CASE ~(uiCam = c /\ thread'[c] = k)
    BY <1>1, <2>1, <2>3 DEF ThreadTypes
  <2>. QED BY <2>2, <2>3
<1>6. CASE StartOpen
  <2>1. tState' = [tState EXCEPT ![uiCam][thread'[uiCam]] = "live"]
    BY <1>6 DEF StartOpen
  <2>2. CASE uiCam = c /\ thread'[c] = k
    <3>1. k = thread[c] + 1
      BY <1>6, <2>2, AttemptMoves
    <3>. QED BY <1>1, <1>6, <2>1, <2>2, <3>1 DEF ThreadTypes
  <2>3. CASE ~(uiCam = c /\ thread'[c] = k)
    BY <1>1, <2>1, <2>3 DEF ThreadTypes
  <2>. QED BY <2>2, <2>3
<1>7. ASSUME NEW d \in Cameras, MessageThread(d) \/ FrameInterrupted(d)
      PROVE  tState' = tState
  BY <1>7 DEF MessageThread, FrameJoined, FrameCloses, FrameInterrupted
<1>8. ASSUME NEW d \in Cameras, NEW j \in Attempts, FrameStops(d, j) \/ ImageStops(d, j)
      PROVE  \/ tState'[c][k] = tState[c][k]
             \/ d = c /\ tState[c][k] = "live" /\ tState'[c][k] = "quit"
  BY <1>2, <1>8 DEF FrameStops, ImageStops
<1>9. ASSUME NEW d \in Cameras, NEW j \in Attempts, ThreadEnds(d, j)
      PROVE  tState'[c][k] = tState[c][k] \/ (tState[c][k] = "quit" /\ tState'[c][k] = "ended")
  BY <1>1, <1>9 DEF ThreadEnds, ThreadTypes
<1>10. ASSUME NEW d \in Cameras, NEW j \in Attempts, ~ThreadEnds(d, j),
              HandlerThread(d, j) \/ Service(d, j)
       PROVE  tState' = tState
  BY <1>10
     DEF HandlerThread, OnOpened, OnLost, CreateSession, CreateFails, OnConfigured,
         StartRepeating, RepeatFails, ReportSuccess, FinishSuccess, OnConfigureFailed,
         FailureDestroy, FailureReturn, ImageCloses, Service, ServiceOpens, ServiceLoses,
         ServiceAnswers
<1>. QED BY <1>3, <1>4, <1>5, <1>6, <1>7, <1>8, <1>9, <1>10 DEF Next

\* A frame that stops its camera, on whatever thread, is of a session that has
\* reported, or whose handler thread is about to.
LEMMA StoppingReports ==
    ASSUME IInv, NEW c \in Cameras, NEW j \in Attempts, FrameStops(c, j) \/ ImageStops(c, j)
    PROVE  /\ sess[c][j] = "repeating"
           /\ ready[c] # "absent" \/ (tPc[c][j] = "report" /\ j = thread[c] /\ FrameStops(c, j))
<1>1. sess[c][j] = "repeating" /\ Phase(c, j) /\ Order(c, j)
  BY DEF FrameStops, ImageStops, Streaming, IInv, Safe, Phases, Orders
<1>2. ready[c] # "absent" \/ tPc[c][j] = "report"
  BY <1>1 DEF Phase
<1>3. CASE tPc[c][j] = "report"
  <2>1. j = thread[c]
    BY <1>3, BusyRuns, LatestRuns
  <2>. QED BY <1>1, <1>3, <2>1 DEF ImageStops
<1>. QED BY <1>1, <1>2, <1>3

\* A message thread waits for the thread that its own frame told to quit.
LEMMA JoinMoves ==
    ASSUME IInv, [Next]_vars, NEW c \in Cameras, mPc'[c] = "join"
    PROVE  \/ mPc[c] = "join" /\ mThread'[c] = mThread[c]
           \/ \E j \in Attempts : FrameStops(c, j)
<1>. USE DEF IInv
<1>1. CASE UNCHANGED vars \/ SurfaceChanged \/ StopPreview \/ WaitTimeout \/ UIRuns
  BY <1>1 DEF SurfaceChanged, StopPreview, WaitTimeout, UIRuns, StartBegin, Acquire,
              AcquireTimeout, StartOpen, StartOpenThrows, StartsDone, WaitReturn, StopDestroy,
              StopReturn, SkipCamera, TakeCamera
<1>2. ASSUME NEW d \in Cameras, MessageThread(d) \/ FrameInterrupted(d)
      PROVE  mPc[c] = "join" /\ mThread'[c] = mThread[c]
  BY <1>2 DEF MessageThread, FrameJoined, FrameCloses, FrameInterrupted, TypeOK, ServiceTypes
<1>3. ASSUME NEW d \in Cameras, NEW j \in Attempts, d # c, FrameStops(d, j)
      PROVE  mPc[c] = "join" /\ mThread'[c] = mThread[c]
  BY <1>3 DEF FrameStops, TypeOK, ServiceTypes
<1>4. ASSUME NEW d \in Cameras, NEW j \in Attempts,
             ImageStops(d, j) \/ HandlerThread(d, j) \/ Service(d, j)
      PROVE  mPc' = mPc /\ mThread' = mThread
  BY <1>4
     DEF HandlerThread, OnOpened, OnLost, CreateSession, CreateFails, OnConfigured, StartRepeating,
         RepeatFails, ReportSuccess, FinishSuccess, OnConfigureFailed, FailureDestroy,
         FailureReturn, ThreadEnds, ImageCloses, ImageStops, Service, ServiceOpens, ServiceLoses,
         ServiceAnswers
<1>. QED BY <1>1, <1>2, <1>3, <1>4 DEF Next

\* The thread that is waited for stays settled, whatever camera is started or
\* fails meanwhile.
LEMMA WaitingStep == IInv /\ Succession /\ Waiting /\ [Next]_vars => Waiting'
<1>. SUFFICES ASSUME IInv, Succession, Waiting, [Next]_vars, NEW c \in Cameras
              PROVE  Started(c)' /\ Waits(c)'
  BY DEF Waiting
<1>1. Started(c) /\ Waits(c)
  BY DEF Waiting
<1>2. thread[c] \in Nat /\ mThread'[c] \in Nat /\ \A k \in Attempts : k \in Nat
  BY TypesStep DEF IInv, TypeOK, CameraTypes, ServiceTypes, Attempts
<1>3. thread'[c] = thread[c] \/ thread'[c] = thread[c] + 1
  BY AttemptMoves
<1>4. Started(c)'
  <2>. SUFFICES ASSUME NEW k \in Attempts, k <= thread'[c]
                PROVE  tState'[c][k] # "none"
    BY DEF Started
  <2>1. CASE k <= thread[c]
    BY <1>1, <2>1, StateMoves DEF Started
  <2>2. CASE ~(k <= thread[c])
    <3>1. uiCam = c /\ (StartOpen \/ StartOpenThrows) /\ k = thread'[c]
      BY <1>2, <2>2, AttemptMoves
    <3>. QED BY <3>1 DEF StartOpen, StartOpenThrows, IInv, TypeOK, ThreadTypes
  <2>. QED BY <2>1, <2>2
<1>5. ASSUME mPc'[c] = "join"
      PROVE  (mThread[c] \in Attempts /\ mThread[c] <= thread[c] /\ SettledAt(c, mThread[c]))'
  <2>1. CASE mPc[c] = "join" /\ mThread'[c] = mThread[c]
    <3>1. mThread[c] \in Attempts /\ mThread[c] <= thread[c] /\ SettledAt(c, mThread[c])
      BY <1>1, <2>1 DEF Waits
    <3>2. mThread[c] <= thread'[c]
      BY <1>2, <1>3, <3>1
    <3>3. \A k \in Attempts : k = mThread[c] => SettledAt(c, k)'
      BY <3>1, SettledAtStep
    <3>. QED BY <2>1, <3>1, <3>2, <3>3 DEF SettledAt
  <2>2. ASSUME NEW j \in Attempts, FrameStops(c, j)
        PROVE  (mThread[c] \in Attempts /\ mThread[c] <= thread[c] /\ SettledAt(c, mThread[c]))'
    <3>1. /\ mThread'[c] = thread[c] /\ thread' = thread /\ Streaming(c, j)
          /\ Quit(c, thread[c]) /\ UNCHANGED <<tPc, inbox>>
      BY <2>2 DEF FrameStops, IInv, TypeOK, ServiceTypes
    <3>2. thread[c] \in Attempts
      <4>1. Order(c, j) /\ sess[c][j] # "none"
        BY <3>1 DEF Streaming, IInv, Safe, Orders
      <4>2. thread[c] # 0 /\ thread[c] \in 0 .. MaxAttempts
        BY <4>1 DEF Order, Attempts, IInv, TypeOK, CameraTypes
      <4>. QED BY <4>2, AttemptNumber
    <3>3. tState'[c][thread[c]] # "live"
      <4>1. ASSUME NEW k \in Attempts, Quit(c, k) PROVE tState'[c][k] # "live"
        BY <4>1, SessionAssumption DEF Quit, IInv, TypeOK, ThreadTypes, Attempts
      <4>. QED BY <3>1, <3>2, <4>1
    <3>4. /\ Callbacks(inbox[c][thread[c]]) \subseteq {"lost"}
          /\ tPc[c][thread[c]] \notin {"create", "createFailed", "repeat", "sessionFailed"}
      BY <3>1, <3>2, StreamingSettles
    <3>. QED BY <1>2, <3>1, <3>2, <3>3, <3>4 DEF SettledAt
  <2>. QED BY <1>5, <2>1, <2>2, JoinMoves
<1>. QED BY <1>4, <1>5 DEF Waits

\* Before a camera's first result nobody takes the device away from the attempt
\* that makes a session.
LEMMA ReportsStep ==
    ASSUME IInv, Reporting, [Next]_vars, NEW c \in Cameras
    PROVE  Reports(c)' /\ Creates(c)'
<1>. USE DEF IInv
<1>1. Reports(c) /\ Creates(c)
  BY DEF Reporting
<1>2. ASSUME mPc'[c] # "idle", ready'[c] = "absent"
      PROVE  \E k \in Attempts : tPc'[c][k] = "report"
  <2>1. ready[c] = "absent"
    BY <1>2, ReadyStays
  <2>2. PICK k \in Attempts : tPc[c][k] = "report"
    BY <1>1, <1>2, <2>1, MessageMoves, StoppingReports DEF Reports
  <2>3. ~ReportSuccess(c, k)
    BY <1>2 DEF ReportSuccess, TypeOK, UiTypes
  <2>4. CASE tPc'[c][k] = tPc[c][k]
    BY <2>2, <2>4
  <2>5. CASE HandlerThread(c, k) \/ ImageStops(c, k)
    BY <2>2, <2>3, <2>5
       DEF HandlerThread, OnOpened, OnLost, CreateSession, CreateFails, OnConfigured, Receive,
           StartRepeating, RepeatFails, FinishSuccess, OnConfigureFailed, FailureDestroy,
           FailureReturn, ThreadEnds, ImageCloses, ImageStops
  <2>. QED BY <2>4, <2>5, ThreadMoves
<1>3. ASSUME ready'[c] = "absent", NEW k \in Attempts, tPc'[c][k] = "create"
      PROVE  device'[c] = k
  <2>1. ready[c] = "absent"
    BY <1>3, ReadyStays
  <2>2. ASSUME tPc[c][k] = "create", FrameCloses(c)
        PROVE  FALSE
    <3>1. PICK j \in Attempts : tPc[c][j] = "report"
      BY <1>1, <2>1, <2>2 DEF Reports, FrameCloses
    <3>2. Running(c, j) /\ Running(c, k)
      BY <2>2, <3>1, BusyRuns
    <3>. QED BY <2>2, <3>1, <3>2, LatestRuns
  <2>. QED BY <1>1, <1>3, <2>1, <2>2, CreatingKeeps DEF Creates
<1>. QED BY <1>2, <1>3 DEF Reports, Creates

\* The opening of a camera ends with a new attempt.
LEMMA OpeningEnds ==
    ASSUME [Next]_vars, NEW c \in Cameras, Opening(c), ~Opening(c)'
    PROVE  uiCam = c /\ (StartOpen \/ StartOpenThrows)
BY DEF Opening, Next, SurfaceChanged, StopPreview, WaitTimeout, UIRuns, StartBegin, Acquire,
       AcquireTimeout, StartsDone, WaitReturn, StopDestroy, StopReturn, SkipCamera, TakeCamera,
       NextCamera, MessageThread, FrameJoined, FrameCloses, FrameInterrupted,
       FrameStops, ImageStops, Service, ServiceOpens, ServiceLoses, ServiceAnswers,
       HandlerThread, OnOpened, OnLost, CreateSession, CreateFails, OnConfigured,
       StartRepeating, RepeatFails, ReportSuccess, FinishSuccess, OnConfigureFailed,
       FailureDestroy, FailureReturn, ThreadEnds, ImageCloses

\* The thread of a camera without a result is told to quit by the next start
\* alone, unless it is reporting.
LEMMA ListensStep ==
    ASSUME IInv, Reporting, [Next]_vars, NEW c \in Cameras
    PROVE  Listens(c)'
<1>. USE DEF IInv
<1>. SUFFICES ASSUME ready'[c] = "absent", ~Opening(c)', NEW k \in Attempts, tState'[c][k] = "quit"
              PROVE  tPc'[c][k] = "report"
  BY DEF Listens
<1>1. ready[c] = "absent" /\ Listens(c)
  BY ReadyStays DEF Reporting
<1>2. ~(uiCam = c /\ Acquire)
  BY DEF Acquire, Opening
<1>3. tPc[c][k] = "report"
  <2>1. CASE tState[c][k] = "quit" /\ ~Opening(c)
    BY <1>1, <2>1 DEF Listens
  <2>2. CASE tState[c][k] = "quit" /\ Opening(c)
    <3>1. uiCam = c /\ (StartOpen \/ StartOpenThrows)
      BY <2>2, OpeningEnds
    <3>2. Joined(c, thread[c]) /\ Order(c, k)
      BY <3>1 DEF StartOpen, StartOpenThrows, Safe, Orders
    <3>3. k = thread[c] /\ k # 0
      BY <2>2, LatestRuns DEF Running, Attempts
    <3>. QED BY <2>2, <3>2, <3>3 DEF Joined
  <2>3. CASE tState[c][k] # "quit"
    <3>1. PICK j \in Attempts : FrameStops(c, j) \/ ImageStops(c, j)
      BY <1>2, <2>3, StateMoves
    <3>2. tPc[c][j] = "report" /\ j = thread[c] /\ tState[c][k] = "live"
      BY <1>1, <1>2, <2>3, <3>1, StoppingReports, StateMoves
    <3>3. k = j
      BY <3>2, LatestRuns DEF Running
    <3>. QED BY <3>2, <3>3
  <2>. QED BY <2>1, <2>2, <2>3
<1>4. ~ReportSuccess(c, k)
  BY DEF ReportSuccess, TypeOK, UiTypes
<1>5. CASE HandlerThread(c, k) \/ ImageStops(c, k)
  BY <1>3, <1>4, <1>5
     DEF HandlerThread, OnOpened, OnLost, CreateSession, CreateFails, OnConfigured, Receive,
         StartRepeating, RepeatFails, FinishSuccess, OnConfigureFailed, FailureDestroy,
         FailureReturn, ThreadEnds, ImageCloses, ImageStops
<1>. QED BY <1>3, <1>5, ThreadMoves

\* What the service does to a device, and who asks it to open one.
LEMMA OpenMoves ==
    ASSUME IInv, [Next]_vars, NEW c \in Cameras, NEW k \in Attempts
    PROVE  \/ dev'[c][k] = dev[c][k] \/ dev'[c][k] = "gone"
           \/ ServiceOpens(c, k) /\ dev'[c][k] = "open"
           \/ uiCam = c /\ StartOpen /\ dev'[c][k] = "opening"
<1>. USE DEF IInv
<1>1. ASSUME \/ UNCHANGED vars \/ SurfaceChanged \/ StopPreview \/ WaitTimeout
             \/ UIRuns /\ ~StartOpen
      PROVE  dev' = dev
  BY <1>1 DEF SurfaceChanged, StopPreview, WaitTimeout, UIRuns, StartBegin, Acquire,
              AcquireTimeout, StartOpenThrows, StartsDone, WaitReturn, StopDestroy, StopReturn,
              SkipCamera, TakeCamera
<1>2. CASE StartOpen
  <2>1. dev' = [dev EXCEPT ![uiCam][thread'[uiCam]] = "opening"]
    BY <1>2 DEF StartOpen
  <2>. QED BY <1>2, <2>1 DEF TypeOK, ServiceTypes
<1>3. ASSUME NEW d \in Cameras, CloseCamera(d) \/ AbortThrows(d)
      PROVE  dev'[c][k] = dev[c][k] \/ dev'[c][k] = "gone"
  BY <1>3, ClosingEffect DEF Safe
<1>4. ASSUME NEW d \in Cameras, MessageThread(d) \/ FrameInterrupted(d)
      PROVE  dev'[c][k] = dev[c][k] \/ dev'[c][k] = "gone"
  BY <1>3, <1>4 DEF MessageThread, FrameJoined, FrameCloses, FrameInterrupted
<1>5. ASSUME NEW d \in Cameras, NEW j \in Attempts,
             FrameStops(d, j) \/ ImageStops(d, j) \/ HandlerThread(d, j)
      PROVE  dev'[c][k] = dev[c][k] \/ dev'[c][k] = "gone"
  <2>1. CASE ImageCloses(d, j)
    BY <1>3, <2>1 DEF ImageCloses
  <2>. QED
    BY <1>5, <2>1
       DEF FrameStops, ImageStops, HandlerThread, OnOpened, OnLost, CreateSession, CreateFails,
           OnConfigured, StartRepeating, RepeatFails, ReportSuccess, FinishSuccess,
           OnConfigureFailed, FailureDestroy, FailureReturn, ThreadEnds
<1>6. ASSUME NEW d \in Cameras, NEW j \in Attempts, ServiceOpens(d, j)
      PROVE  \/ dev'[c][k] = dev[c][k] \/ dev'[c][k] = "gone"
             \/ ServiceOpens(c, k) /\ dev'[c][k] = "open"
  BY <1>6, OpensGets
<1>7. ASSUME NEW d \in Cameras, NEW j \in Attempts, ServiceLoses(d, j) \/ ServiceAnswers(d, j)
      PROVE  dev'[c][k] = dev[c][k] \/ dev'[c][k] = "gone"
  BY <1>7 DEF ServiceLoses, ServiceAnswers, TypeOK, ServiceTypes
<1>. QED BY <1>1, <1>2, <1>4, <1>5, <1>6, <1>7 DEF Next, Service

\* A requested session is answered.
LEMMA RequestMoves ==
    ASSUME IInv, [Next]_vars, NEW c \in Cameras, NEW k \in Attempts, sess[c][k] = "requested"
    PROVE  sess'[c][k] = "requested" \/ ServiceAnswers(c, k)
<1>. USE DEF IInv
<1>1. CASE UNCHANGED vars \/ SurfaceChanged \/ StopPreview \/ WaitTimeout \/ UIRuns
  BY <1>1 DEF SurfaceChanged, StopPreview, WaitTimeout, UIRuns, StartBegin, Acquire,
              AcquireTimeout, StartOpen, StartOpenThrows, StartsDone, WaitReturn, StopDestroy,
              StopReturn, SkipCamera, TakeCamera
<1>2. ASSUME NEW d \in Cameras, CloseCamera(d) \/ AbortThrows(d)
      PROVE  sess'[c][k] = "requested"
  BY <1>2, ClosingEffect DEF Safe
<1>3. ASSUME NEW d \in Cameras, MessageThread(d) \/ FrameInterrupted(d)
      PROVE  sess'[c][k] = "requested"
  BY <1>2, <1>3 DEF MessageThread, FrameJoined, FrameCloses, FrameInterrupted
<1>4. ASSUME NEW d \in Cameras, NEW j \in Attempts,
             FrameStops(d, j) \/ ImageStops(d, j) \/ HandlerThread(d, j)
      PROVE  sess'[c][k] = "requested"
  <2>1. CASE ImageCloses(d, j)
    BY <1>2, <2>1 DEF ImageCloses
  <2>2. CASE CreateSession(d, j) \/ StartRepeating(d, j)
    BY <2>2 DEF CreateSession, StartRepeating, TypeOK, ServiceTypes
  <2>. QED
    BY <1>4, <2>1, <2>2
       DEF FrameStops, ImageStops, HandlerThread, OnOpened, OnLost, CreateFails, OnConfigured,
           RepeatFails, ReportSuccess, FinishSuccess, OnConfigureFailed, FailureDestroy,
           FailureReturn, ThreadEnds
<1>5. ASSUME NEW d \in Cameras, NEW j \in Attempts, Service(d, j)
      PROVE  sess'[c][k] = "requested" \/ ServiceAnswers(c, k)
  <2>1. CASE ServiceOpens(d, j) \/ ServiceLoses(d, j)
    BY <2>1 DEF ServiceOpens, ServiceLoses
  <2>2. CASE ServiceAnswers(d, j) /\ d = c /\ j = k
    BY <2>2
  <2>3. CASE ServiceAnswers(d, j) /\ ~(d = c /\ j = k)
    <3>1. sess' = [sess EXCEPT ![d][j] = "answered"]
      BY <2>3 DEF ServiceAnswers
    <3>. QED BY <2>3, <3>1 DEF TypeOK, ServiceTypes
  <2>. QED BY <1>5, <2>1, <2>2, <2>3 DEF Service
<1>. QED BY <1>1, <1>3, <1>4, <1>5 DEF Next

\* Only its own thread takes a callback from an inbox.
LEMMA InboxMoves ==
    ASSUME IInv, [Next]_vars, NEW c \in Cameras, NEW k \in Attempts
    PROVE  \/ Callbacks(inbox[c][k]) \subseteq Callbacks(inbox'[c][k])
           \/ OnOpened(c, k) \/ OnLost(c, k) \/ OnConfigured(c, k) \/ OnConfigureFailed(c, k)
<1>. USE DEF IInv
<1>1. CASE UNCHANGED vars \/ SurfaceChanged \/ StopPreview \/ WaitTimeout \/ UIRuns
  BY <1>1 DEF SurfaceChanged, StopPreview, WaitTimeout, UIRuns, StartBegin, Acquire,
              AcquireTimeout, StartOpen, StartOpenThrows, StartsDone, WaitReturn, StopDestroy,
              StopReturn, SkipCamera, TakeCamera
<1>2. ASSUME NEW d \in Cameras, MessageThread(d) \/ FrameInterrupted(d)
      PROVE  inbox' = inbox
  BY <1>2 DEF MessageThread, FrameJoined, FrameCloses, FrameInterrupted
<1>3. ASSUME NEW d \in Cameras, NEW j \in Attempts, d # c \/ j # k,
             OnOpened(d, j) \/ OnLost(d, j) \/ OnConfigured(d, j) \/ OnConfigureFailed(d, j)
      PROVE  inbox'[c][k] = inbox[c][k]
  <2>1. inbox' = [inbox EXCEPT ![d][j] = Tail(@)]
    BY <1>3 DEF OnOpened, OnLost, OnConfigured, OnConfigureFailed, Receive
  <2>. QED BY <1>3, <2>1 DEF TypeOK, ThreadTypes
<1>4. ASSUME NEW d \in Cameras, NEW j \in Attempts,
             ~(OnOpened(d, j) \/ OnLost(d, j) \/ OnConfigured(d, j) \/ OnConfigureFailed(d, j)),
             HandlerThread(d, j) \/ FrameStops(d, j) \/ ImageStops(d, j)
      PROVE  inbox' = inbox
  BY <1>4
     DEF HandlerThread, CreateSession, CreateFails, StartRepeating, RepeatFails, ReportSuccess,
         FinishSuccess, FailureDestroy, FailureReturn, ThreadEnds, ImageCloses, FrameStops,
         ImageStops
<1>5. ASSUME NEW e, Gets(c, k, e)
      PROVE  Callbacks(inbox[c][k]) \subseteq Callbacks(inbox'[c][k])
  BY <1>5 DEF Gets
<1>6. ASSUME NEW d \in Cameras, NEW j \in Attempts, ServiceOpens(d, j)
      PROVE  Callbacks(inbox[c][k]) \subseteq Callbacks(inbox'[c][k])
  <2>1. inbox'[c][k] = inbox[c][k] \/ \E e \in Events : Gets(c, k, e)
    BY <1>6, OpensGets DEF Events
  <2>. QED BY <1>5, <2>1
<1>7. ASSUME NEW d \in Cameras, NEW j \in Attempts, ServiceLoses(d, j) \/ ServiceAnswers(d, j)
      PROVE  Callbacks(inbox[c][k]) \subseteq Callbacks(inbox'[c][k])
  <2>1. PICK e \in Events : Post(d, j, e)
    BY <1>7 DEF ServiceLoses, ServiceAnswers, Events
  <2>2. inbox'[c][k] = inbox[c][k] \/ Gets(c, k, e)
    BY <2>1, PostGets
  <2>. QED BY <1>5, <2>2
<1>. QED BY <1>1, <1>2, <1>3, <1>4, <1>6, <1>7 DEF Next, Service

\* While a result is owed the thread that owes it goes on listening.
LEMMA LiveStays ==
    ASSUME IInv, [Next]_vars, NEW c \in Cameras, NEW k \in Attempts, k = thread[c],
           ready[c] = "absent", ~Opening(c)', tState[c][k] = "live"
    PROVE  tState'[c][k] = "live" \/ tPc'[c][k] = "report"
<1>. USE DEF IInv
<1>1. ~(uiCam = c /\ Acquire) /\ k # thread[c] + 1
  BY DEF Acquire, Opening, Attempts
<1>2. CASE tState'[c][k] = tState[c][k]
  BY <1>2
<1>3. ASSUME NEW j \in Attempts, FrameStops(c, j) \/ ImageStops(c, j)
      PROVE  tPc'[c][k] = "report"
  BY <1>3, StoppingReports DEF FrameStops
<1>. QED BY <1>1, <1>2, <1>3, StateMoves

\* What the service tells a listening thread leads to a result.
LEMMA ServiceTells ==
    ASSUME IInv, NEW c \in Cameras, NEW k \in Attempts, tState[c][k] = "live",
           ServiceOpens(c, k) \/ ServiceAnswers(c, k)
    PROVE  Answering(c, k)'
<1>. USE DEF IInv
<1>1. ASSUME NEW e \in Events \ {"lost"}, Gets(c, k, e)
      PROVE  ~(Callbacks(inbox'[c][k]) \subseteq {"lost"})
  BY <1>1 DEF Gets
<1>2. CASE ServiceOpens(c, k)
  <2>1. Gets(c, k, "opened")
    BY <1>2, OpensGets
  <2>. QED BY <1>1, <2>1 DEF Answering, Events
<1>3. CASE ServiceAnswers(c, k)
  <2>1. PICK e \in {"configured", "refused"} : Post(c, k, e)
    BY <1>3 DEF ServiceAnswers
  <2>2. e \in Events \ {"lost"}
    BY DEF Events
  <2>3. Gets(c, k, e)
    BY <2>1, <2>2, PostGets
  <2>. QED BY <1>1, <2>2, <2>3 DEF Answering
<1>. QED BY <1>2, <1>3

\* A thread that is to report reports, or asks for the session it will report of.
LEMMA ReportingGoesOn ==
    ASSUME IInv, Reporting, [Next]_vars, NEW c \in Cameras, NEW k \in Attempts,
           ready'[c] = "absent", ~Opening(c), tPc[c][k] \in {"create", "repeat", "report"}
    PROVE  Answering(c, k)'
<1>. USE DEF IInv
<1>1. ready[c] = "absent" /\ Creates(c) /\ Listens(c)
  BY ReadyStays DEF Reporting
<1>2. CASE tPc'[c][k] = tPc[c][k]
  BY <1>2 DEF Answering
<1>3. \A v : ~ReportFailure(c, k, v)
  BY DEF ReportFailure, TypeOK, UiTypes
<1>4. CASE CreateSession(c, k)
  <2>1. tState[c][k] = "live"
    BY <1>1, <1>4, BusyRuns DEF CreateSession, Listens, Running
  <2>2. tState' = tState /\ sess' = [sess EXCEPT ![c][k] = "requested"]
    BY <1>4 DEF CreateSession
  <2>. QED BY <2>1, <2>2 DEF Answering, TypeOK, ServiceTypes
<1>5. ~CreateFails(c, k)
  <2>1. CreateFails(c, k) => device[c] = k
    BY <1>1 DEF CreateFails, Creates
  <2>2. k # 0
    BY DEF Attempts
  <2>. QED BY <1>3, <2>1, <2>2 DEF CreateFails
<1>6. CASE StartRepeating(c, k)
  <2>1. tPc' = [tPc EXCEPT ![c][k] = "report"]
    BY <1>6 DEF StartRepeating, Goto
  <2>. QED BY <2>1 DEF Answering, TypeOK, ThreadTypes
<1>7. ~RepeatFails(c, k) /\ ~OnConfigureFailed(c, k)
  BY <1>3 DEF RepeatFails, OnConfigureFailed
<1>8. ~ReportSuccess(c, k)
  BY DEF ReportSuccess, TypeOK, UiTypes
<1>9. CASE HandlerThread(c, k) \/ ImageStops(c, k)
  BY <1>2, <1>4, <1>5, <1>6, <1>7, <1>8, <1>9
     DEF HandlerThread, OnOpened, OnLost, OnConfigured, Receive, FinishSuccess, FailureDestroy,
         FailureReturn, ThreadEnds, ImageCloses, ImageStops
<1>. QED BY <1>2, <1>9, ThreadMoves

\* A callback other than a loss stays, or leads its thread to a result.
LEMMA CallbackStays ==
    ASSUME IInv, [Next]_vars, NEW c \in Cameras, NEW k \in Attempts,
           ready'[c] = "absent", ~(Callbacks(inbox[c][k]) \subseteq {"lost"})
    PROVE  Answering(c, k)'
<1>. USE DEF IInv
<1>1. ThreadTypes
  BY DEF TypeOK
<1>2. CASE Callbacks(inbox[c][k]) \subseteq Callbacks(inbox'[c][k])
  BY <1>2 DEF Answering
<1>3. CASE OnOpened(c, k)
  BY <1>1, <1>3 DEF OnOpened, Goto, Answering, ThreadTypes
<1>4. CASE OnLost(c, k)
  <2>1. Receive(c, k, "lost")
    BY <1>4 DEF OnLost
  <2>2. Callbacks(inbox[c][k]) = Callbacks(inbox'[c][k]) \cup {"lost"}
    BY <1>1, <2>1, InboxReceive
  <2>. QED BY <2>2 DEF Answering
<1>5. CASE OnConfigured(c, k)
  BY <1>1, <1>5 DEF OnConfigured, Goto, Answering, ThreadTypes
<1>6. ~OnConfigureFailed(c, k)
  BY DEF OnConfigureFailed, ReportFailure, TypeOK, UiTypes
<1>. QED BY <1>2, <1>3, <1>4, <1>5, <1>6, InboxMoves

\* The latest attempt goes on owing the result while its device is there.
LEMMA OwesStep ==
    ASSUME IInv, Reporting, [Next]_vars, NEW c \in Cameras
    PROVE  Owes(c)'
<1>. USE DEF IInv
<1>. SUFFICES ASSUME ready'[c] = "absent", ~Opening(c)', thread'[c] # 0,
                     dev'[c][thread'[c]] \in {"opening", "open"}
              PROVE  Answering(c, thread[c])'
  BY DEF Owes
<1>1. ready[c] = "absent" /\ Owes(c)
  BY ReadyStays DEF Reporting
<1>2. CASE uiCam = c /\ (StartOpen \/ StartOpenThrows) /\ thread'[c] \in Attempts
            /\ thread'[c] = thread[c] + 1
  <2>1. PICK k \in Attempts : k = thread'[c] /\ k > thread[c]
    BY <1>2 DEF TypeOK, CameraTypes
  <2>2. dev[c][k] = "none"
    BY <2>1 DEF Order, Safe, Orders
  <2>3. StartOpen
    BY <1>2, <2>1, <2>2 DEF StartOpenThrows
  <2>4. /\ tState' = [tState EXCEPT ![c][k] = "live"]
        /\ dev' = [dev EXCEPT ![c][k] = "opening"]
    BY <1>2, <2>1, <2>3 DEF StartOpen
  <2>5. tState'[c][k] = "live" /\ dev'[c][k] = "opening"
    BY <2>4 DEF TypeOK, ThreadTypes, ServiceTypes
  <2>. QED BY <2>1, <2>5 DEF Answering
<1>3. ASSUME thread'[c] = thread[c], ~(uiCam = c /\ (StartOpen \/ StartOpenThrows))
      PROVE  Answering(c, thread[c])'
  <2>1. thread[c] \in 0 .. MaxAttempts /\ thread[c] # 0
    BY <1>3 DEF TypeOK, CameraTypes
  <2>2. PICK k \in Attempts : k = thread[c]
    BY <2>1, AttemptNumber
  <2>3. ~Opening(c)
    BY <1>3, OpeningEnds
  <2>4. dev[c][k] \in {"opening", "open"}
    <3>1. ASSUME ServiceOpens(c, k) PROVE dev[c][k] = "opening"
      BY <3>1 DEF ServiceOpens
    <3>. QED BY <1>3, <2>2, <3>1, OpenMoves
  <2>5. Answering(c, k)
    BY <1>1, <2>1, <2>2, <2>3, <2>4 DEF Owes
  <2>6. CASE tPc[c][k] \in {"create", "repeat", "report"}
    BY <2>2, <2>3, <2>6, ReportingGoesOn, <1>3
  <2>7. CASE ~(Callbacks(inbox[c][k]) \subseteq {"lost"})
    BY <2>2, <2>7, CallbackStays, <1>3
  <2>8. CASE tState[c][k] = "live" /\ dev[c][k] = "opening"
    <3>1. CASE ServiceOpens(c, k)
      BY <1>3, <2>2, <2>8, <3>1, ServiceTells
    <3>2. CASE ~ServiceOpens(c, k)
      <4>1. dev'[c][k] = "opening"
        BY <1>3, <2>2, <2>8, <3>2, OpenMoves
      <4>2. tState'[c][k] = "live" \/ tPc'[c][k] = "report"
        BY <1>1, <2>2, <2>8, LiveStays
      <4>. QED BY <1>3, <2>2, <4>1, <4>2 DEF Answering
    <3>. QED BY <3>1, <3>2
  <2>9. CASE tState[c][k] = "live" /\ sess[c][k] = "requested"
    <3>1. CASE ServiceAnswers(c, k)
      BY <1>3, <2>2, <2>9, <3>1, ServiceTells
    <3>2. CASE ~ServiceAnswers(c, k)
      <4>1. sess'[c][k] = "requested"
        BY <2>9, <3>2, RequestMoves
      <4>2. tState'[c][k] = "live" \/ tPc'[c][k] = "report"
        BY <1>1, <2>2, <2>9, LiveStays
      <4>. QED BY <1>3, <2>2, <4>1, <4>2 DEF Answering
    <3>. QED BY <3>1, <3>2
  <2>. QED BY <2>5, <2>6, <2>7, <2>8, <2>9 DEF Answering
<1>. QED BY <1>2, <1>3, AttemptMoves

\* The obligations of the threads are kept by every step.
LEMMA ReportingStep == IInv /\ Reporting /\ [Next]_vars => Reporting'
BY ReportsStep, ListensStep, OwesStep DEF Reporting

\* Before the first start nobody waits and nobody owes anything.
LEMMA InitWaiting == Init => Waiting /\ Reporting
<1>. SUFFICES ASSUME Init, NEW c \in Cameras
              PROVE  Started(c) /\ Waits(c) /\ Reports(c) /\ Creates(c) /\ Listens(c) /\ Owes(c)
  BY DEF Waiting, Reporting
<1>1. /\ thread[c] = 0 /\ mPc[c] = "idle"
      /\ \A k \in Attempts : tPc[c][k] = "loop" /\ tState[c][k] = "none" /\ ~(k <= 0)
  BY DEF Init, Attempts
<1>2. Started(c) /\ Waits(c) /\ Reports(c)
  BY <1>1 DEF Started, Waits, Reports
<1>3. Creates(c)
  BY <1>1 DEF Creates
<1>4. Listens(c)
  BY <1>1 DEF Listens
<1>5. Owes(c)
  BY <1>1 DEF Owes
<1>. QED BY <1>2, <1>3, <1>4, <1>5

\* A message thread in stopCamera waits for a handler thread that exists and is
\* settled.
THEOREM WaitingInvariance == Spec => []Waiting
<1>1. Init => Waiting
  BY InitWaiting
<1>2. IInv /\ Succession /\ Waiting /\ [Next]_vars => Waiting'
  BY WaitingStep
<1>. QED BY <1>1, <1>2, SessionInvariance, SuccessionInvariance, PTL DEF Spec

\* The waits of MAR.stopPreview never close a ring: a handler thread that a
\* message thread's stopCamera joins has been told to quit, is not in stopPreview
\* itself, and has no callback left that could bring it there, even while
\* cameras that fail destroy each other's contexts.
THEOREM WaitsNeverRing == Spec => []NoWaitingRing
<1>1. IInv /\ Waiting => NoWaitingRing
  <2>. SUFFICES ASSUME IInv, Waiting, NEW c \in Cameras, mPc[c] = "join"
                PROVE  \E k \in Attempts :
                          /\ k = mThread[c] /\ tState[c][k] \in {"quit", "ended"}
                          /\ tPc[c][k] \notin {"create", "createFailed", "repeat", "sessionFailed"}
                          /\ \A i \in 1 .. Len(inbox[c][k]) : inbox[c][k][i] = "lost"
    BY DEF NoWaitingRing
  <2>1. PICK k \in Attempts : k = mThread[c] /\ k <= thread[c] /\ SettledAt(c, k)
    BY DEF Waiting, Waits
  <2>2. tState[c][k] \in {"quit", "ended"}
    BY <2>1 DEF Waiting, Started, SettledAt, IInv, TypeOK, ThreadTypes
  <2>3. \A i \in 1 .. Len(inbox[c][k]) : inbox[c][k][i] = "lost"
    BY <2>1 DEF SettledAt, Callbacks
  <2>. QED BY <2>1, <2>2, <2>3 DEF SettledAt
<1>. QED BY <1>1, SessionInvariance, WaitingInvariance, PTL

\* MAR.startPreview's wait has somebody to end it: as long as the latest attempt
\* to open a camera has its device, and the camera no result, that attempt's
\* thread is about to report, has a callback that leads to a report, or listens
\* to a service that owes it one.
THEOREM ResultComes == Spec => []AnswerComes
<1>1. Init => Reporting
  BY InitWaiting
<1>2. IInv /\ Reporting /\ [Next]_vars => Reporting'
  BY ReportingStep
<1>3. IInv /\ Reporting => AnswerComes
  <2>. SUFFICES ASSUME IInv, Reporting, NEW c \in Cameras,
                       ready[c] = "absent", ~NoAnswer(c), ~Opening(c)
                PROVE  WillAnswer(c)
    BY DEF AnswerComes
  <2>1. thread[c] # 0 /\ thread[c] \in 0 .. MaxAttempts
    BY DEF NoAnswer, IInv, TypeOK, CameraTypes
  <2>2. PICK k \in Attempts : k = thread[c]
    BY <2>1, AttemptNumber
  <2>3. dev[c][k] \in {"opening", "open"}
    BY <2>2 DEF NoAnswer, IInv, TypeOK, ServiceTypes
  <2>4. Answering(c, k)
    BY <2>1, <2>2, <2>3 DEF Reporting, Owes
  <2>5. ~(Callbacks(inbox[c][k]) \subseteq {"lost"})
           => \E i \in 1 .. Len(inbox[c][k]) : inbox[c][k][i] # "lost"
    BY DEF Callbacks
  <2>. QED BY <2>4, <2>5 DEF Answering, WillAnswer
<1>. QED BY <1>1, <1>2, <1>3, SessionInvariance, PTL DEF Spec

=============================================================================
