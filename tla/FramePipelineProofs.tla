------------------------- MODULE FramePipelineProofs -------------------------
(***************************************************************************)
(* Proofs about FramePipeline for every queue size, number of frames,      *)
(* route and detector: the inductive invariant IInv and what follows from  *)
(* it.  Each part of IInv has a lemma of its own, with a case per actor.   *)
(* The last section is about CPUFrames, the handler that feeds the queue   *)
(* when images are converted on the CPU.                                   *)
(***************************************************************************)
EXTENDS FramePipeline, CPUFrames, FiniteSetTheorems, TLAPS

\* What an action leaves alone is always visible.
USE DEF cameraVars, sourceVars, routerVars, detVars, trkVars, renderVars, vars,
        CameraUnchanged, SourceUnchanged, RouterUnchanged, DetUnchanged, TrkUnchanged,
        RenderUnchanged, StopUnchanged

-----------------------------------------------------------------------------
(* Queues.                                                                 *)

\* Taking the head of the router's queue moves every other element one place.
LEMMA TailOfQueue ==
    ASSUME NEW q \in Seq(Nat), q # <<>>
    PROVE  /\ Head(q) \in Nat /\ Head(q) = q[1] /\ 1 \in DOMAIN q
           /\ Tail(q) \in Seq(Nat)
           /\ \A i \in DOMAIN Tail(q) : i + 1 \in DOMAIN q /\ Tail(q)[i] = q[i + 1]
           /\ \A i \in DOMAIN q : i = 1 \/ (i - 1 \in DOMAIN Tail(q) /\ Tail(q)[i - 1] = q[i])
OBVIOUS

\* Appending leaves the old elements where they are.
LEMMA AppendToQueue ==
    ASSUME NEW q \in Seq(Nat), NEW e \in Nat
    PROVE  /\ Append(q, e) \in Seq(Nat)
           /\ DOMAIN q \subseteq DOMAIN Append(q, e)
           /\ \A i \in DOMAIN q : Append(q, e)[i] = q[i]
           /\ Len(q) + 1 \in DOMAIN Append(q, e) /\ Append(q, e)[Len(q) + 1] = e
           /\ \A i \in DOMAIN Append(q, e) : i \in DOMAIN q \/ i = Len(q) + 1
           /\ \A i \in DOMAIN q : i \in Nat /\ i < Len(q) + 1
OBVIOUS

-----------------------------------------------------------------------------
(* Typing.                                                                 *)

\* Counters stay within their bounds, the queues within their capacity.
LEMMA TypeStep ==
    ASSUME TypeOK, CameraInv, [Next]_vars
    PROVE  TypeOK'
<1>. USE DEF TypeOK
<1>1. CASE Camera
  <2>. USE <1>1 DEF Camera, CameraCheck, EnqueueCreate, EnqueuePush, EnqueueEvict,
         EnqueueDeleteOld, EnqueueRetry, ClearCameraQueue, ClearRepository, DeleteFrame
  <2>1. CameraTypeOK'
    BY PipelineAssumption DEF CameraTypeOK, CameraInv
  <2>2. StoreTypeOK'
    BY DEF StoreTypeOK
  <2>3. SourceTypeOK'
    BY DEF SourceTypeOK
  <2>4. NodesTypeOK'
    BY DEF NodesTypeOK
  <2>. QED BY <2>1, <2>2, <2>3, <2>4
<1>2. CASE Source
  <2>. USE <1>2 DEF Source, SourcePop, SourceNewFrame, NextSeqno, SourceEmit
  <2>1. CameraTypeOK'
    BY PipelineAssumption DEF CameraTypeOK
  <2>2. StoreTypeOK'
    BY DEF StoreTypeOK, SourceTypeOK
  <2>3. SourceTypeOK'
    <3>1. CASE SourceNewFrame
      BY <3>1 DEF SourceTypeOK
    <3>2. CASE SourcePop
      BY <3>2 DEF SourceTypeOK
    <3>3. CASE SourceEmit
      BY <3>3, AppendToQueue DEF SourceTypeOK
    <3>. QED BY <3>1, <3>2, <3>3
  <2>4. NodesTypeOK'
    BY DEF NodesTypeOK
  <2>. QED BY <2>1, <2>2, <2>3, <2>4
<1>3. CASE Router
  <2>. USE <1>3 DEF Router, RouterTake, RouteDetect, FlagDetecting, RouteTrack,
         FlagTracking, RouteRender, FlagRendering, DeleteFrame
  <2>1. CameraTypeOK'
    BY DEF CameraTypeOK
  <2>2. StoreTypeOK'
    BY DEF StoreTypeOK, NodesTypeOK
  <2>3. SourceTypeOK'
    BY TailOfQueue DEF SourceTypeOK
  <2>4. NodesTypeOK'
    <3>1. routerQ # <<>> => Head(routerQ) \in Nat
      BY TailOfQueue DEF SourceTypeOK
    <3>2. CASE RouterTake
      <4>1. UNCHANGED <<dPc, dSeq, detBusy, tPc, tSeq, vPc, vSeq, lifecycle>>
        BY <3>2
      <4>2. routerQ # <<>> /\ Head(routerQ) \in Nat
        BY <3>1, <3>2
      <4>3. \/ rPc' = "detect" /\ rSeq' = Head(routerQ) /\ isDelete' = ~Rendered
            \/ UNCHANGED <<rPc, rSeq, isDelete>>
        BY <3>2
      <4>4. rSeq \in Nat /\ isDelete \in BOOLEAN /\ Rendered \in BOOLEAN
        BY PipelineAssumption DEF NodesTypeOK
      <4>5. /\ rPc' \in {"idle", "detect", "flagDetect", "track", "flagTrack", "render",
                         "flagRender"}
            /\ rSeq' \in Nat /\ isDelete' \in BOOLEAN
        BY <4>2, <4>3, <4>4 DEF NodesTypeOK
      <4>. QED BY <4>1, <4>5 DEF NodesTypeOK
    <3>3. CASE ~RouterTake
      BY <3>3 DEF NodesTypeOK
    <3>. QED BY <3>2, <3>3
  <2>. QED BY <2>1, <2>2, <2>3, <2>4
<1>4. CASE Detector \/ Tracker \/ Render
  <2>. USE <1>4 DEF Detector, DetStart, DetClear, DetDelete, DetReturn,
         Tracker, TrkStart, TrkClear, TrkDelete,
         Render, RenderStart, RenderLookup, RenderBegin, RenderEnd, RenderDelete, DeleteFrame
  <2>1. CameraTypeOK'
    BY DEF CameraTypeOK
  <2>2. StoreTypeOK'
    BY DEF StoreTypeOK
  <2>3. SourceTypeOK'
    BY DEF SourceTypeOK
  <2>4. NodesTypeOK'
    BY DEF NodesTypeOK
  <2>. QED BY <2>1, <2>2, <2>3, <2>4
<1>5. CASE Stop
  <2>1. lifecycle' \in {"stopping", "stopped"} /\ StopUnchanged
    BY <1>5 DEF Stop, StopTerminate, StopUninitialise
  <2>2. CameraTypeOK' /\ StoreTypeOK'
    BY <2>1 DEF StopUnchanged, CameraTypeOK, StoreTypeOK
  <2>3. SourceTypeOK'
    BY <2>1 DEF StopUnchanged, SourceTypeOK
  <2>4. NodesTypeOK'
    BY <2>1 DEF StopUnchanged, NodesTypeOK
  <2>. QED BY <2>2, <2>3, <2>4
<1>6. CASE UNCHANGED vars
  BY <1>6 DEF CameraTypeOK, StoreTypeOK, SourceTypeOK, NodesTypeOK
<1>. QED BY <1>1, <1>2, <1>3, <1>4, <1>5, <1>6 DEF Next

-----------------------------------------------------------------------------
(* The camera thread and the two busy flags.                               *)

\* Between two looks at the queue only the camera thread adds to it.
LEMMA CameraStep ==
    ASSUME TypeOK, CameraInv, [Next]_vars
    PROVE  CameraInv'
<1>. USE PipelineAssumption DEF TypeOK, CameraTypeOK, CameraInv, EnqueueNeverFails
<1>1. CASE Camera
  BY <1>1 DEF Camera, CameraCheck, EnqueueCreate, EnqueuePush, EnqueueEvict,
     EnqueueDeleteOld, EnqueueRetry, ClearCameraQueue, ClearRepository, DeleteFrame
<1>2. CASE Source
  BY <1>2 DEF Source, SourcePop, SourceNewFrame, NextSeqno, SourceEmit
<1>3. CASE Router
  BY <1>3 DEF Router, RouterTake, RouteDetect, FlagDetecting, RouteTrack, FlagTracking,
     RouteRender, FlagRendering
<1>4. CASE Detector \/ Tracker \/ Render
  BY <1>4 DEF Detector, DetStart, DetClear, DetDelete, DetReturn,
     Tracker, TrkStart, TrkClear, TrkDelete,
     Render, RenderStart, RenderLookup, RenderBegin, RenderEnd, RenderDelete
<1>5. CASE Stop
  BY <1>5 DEF Stop, StopTerminate, StopUninitialise
<1>6. CASE UNCHANGED vars
  BY <1>6
<1>. QED BY <1>1, <1>2, <1>3, <1>4, <1>5, <1>6 DEF Next

\* The detector's flag falls before the flow graph may call it again.
LEMMA BusyFlagStep ==
    ASSUME TypeOK, BusyFlagRedundant, [Next]_vars
    PROVE  BusyFlagRedundant'
<1>. USE DEF BusyFlagRedundant
<1>1. CASE Camera
  BY <1>1 DEF Camera, CameraCheck, EnqueueCreate, EnqueuePush, EnqueueEvict,
     EnqueueDeleteOld, EnqueueRetry, ClearCameraQueue, ClearRepository
<1>2. CASE Source
  BY <1>2 DEF Source, SourcePop, SourceNewFrame, NextSeqno, SourceEmit
<1>3. CASE Router
  BY <1>3 DEF Router, RouterTake, RouteDetect, FlagDetecting, RouteTrack, FlagTracking,
     RouteRender, FlagRendering
<1>4. CASE Detector
  BY <1>4 DEF Detector, DetStart, DetClear, DetDelete, DetReturn
<1>5. CASE Tracker \/ Render \/ Stop
  BY <1>5 DEF Tracker, TrkStart, TrkClear, TrkDelete,
     Render, RenderStart, RenderLookup, RenderBegin, RenderEnd, RenderDelete,
     Stop, StopTerminate, StopUninitialise
<1>6. CASE UNCHANGED vars
  BY <1>6
<1>. QED BY <1>1, <1>2, <1>3, <1>4, <1>5, <1>6 DEF Next

\* The render node's gate is open again before the next call.
LEMMA RenderGateStep ==
    ASSUME TypeOK, RenderGateUncontended, [Next]_vars
    PROVE  RenderGateUncontended'
<1>. USE DEF RenderGateUncontended
<1>1. CASE Camera
  BY <1>1 DEF Camera, CameraCheck, EnqueueCreate, EnqueuePush, EnqueueEvict,
     EnqueueDeleteOld, EnqueueRetry, ClearCameraQueue, ClearRepository
<1>2. CASE Source
  BY <1>2 DEF Source, SourcePop, SourceNewFrame, NextSeqno, SourceEmit
<1>3. CASE Router
  BY <1>3 DEF Router, RouterTake, RouteDetect, FlagDetecting, RouteTrack, FlagTracking,
     RouteRender, FlagRendering
<1>4. CASE Detector \/ Tracker \/ Stop
  BY <1>4 DEF Detector, DetStart, DetClear, DetDelete, DetReturn,
     Tracker, TrkStart, TrkClear, TrkDelete, Stop, StopTerminate, StopUninitialise
<1>5. CASE Render
  BY <1>5 DEF Render, RenderStart, RenderLookup, RenderBegin, RenderEnd, RenderDelete,
     TypeOK, NodesTypeOK, StoreTypeOK
<1>6. CASE UNCHANGED vars
  BY <1>6
<1>. QED BY <1>1, <1>2, <1>3, <1>4, <1>5, <1>6 DEF Next

-----------------------------------------------------------------------------
(* Frames pass the router in the order of their numbers.                   *)

\* A node has no frame that the router has not offered it.
LEMMA RouteOrderStep ==
    ASSUME TypeOK, QueueOrder, RouteOrder, [Next]_vars
    PROVE  RouteOrder'
<1>. USE DEF RouteOrder, TypeOK, NodesTypeOK, SourceTypeOK
<1>1. CASE Camera
  BY <1>1 DEF Camera, CameraCheck, EnqueueCreate, EnqueuePush, EnqueueEvict,
     EnqueueDeleteOld, EnqueueRetry, ClearCameraQueue, ClearRepository
<1>2. CASE Source
  BY <1>2 DEF Source, SourcePop, SourceNewFrame, NextSeqno, SourceEmit
<1>3. CASE Router
  <2>1. CASE RouterTake
    <3>1. /\ Head(routerQ) \in Nat
          /\ Head(routerQ) = 0 \/ (rSeq < Head(routerQ) /\ Head(routerQ) < nextSeq)
      BY <2>1, TailOfQueue DEF RouterTake, QueueOrder
    <3>. QED BY <2>1, <3>1 DEF RouterTake
  <2>2. CASE RouteDetect \/ FlagDetecting
    BY <2>2 DEF RouteDetect, FlagDetecting
  <2>3. CASE RouteTrack \/ FlagTracking
    BY <2>3 DEF RouteTrack, FlagTracking
  <2>4. CASE RouteRender \/ FlagRendering
    BY <2>4 DEF RouteRender, FlagRendering
  <2>. QED BY <1>3, <2>1, <2>2, <2>3, <2>4 DEF Router
<1>4. CASE Detector \/ Tracker \/ Render \/ Stop
  BY <1>4 DEF Detector, DetStart, DetClear, DetDelete, DetReturn,
     Tracker, TrkStart, TrkClear, TrkDelete,
     Render, RenderStart, RenderLookup, RenderBegin, RenderEnd, RenderDelete,
     Stop, StopTerminate, StopUninitialise
<1>5. CASE UNCHANGED vars
  BY <1>5
<1>. QED BY <1>1, <1>2, <1>3, <1>4, <1>5 DEF Next

\* Numbers are given out in order and queued in order.
LEMMA QueueOrderStep ==
    ASSUME TypeOK, QueueOrder, RouteOrder, [Next]_vars
    PROVE  QueueOrder'
<1>. USE DEF QueueOrder, TypeOK, NodesTypeOK, SourceTypeOK
<1>1. CASE Camera
  BY <1>1 DEF Camera, CameraCheck, EnqueueCreate, EnqueuePush, EnqueueEvict,
     EnqueueDeleteOld, EnqueueRetry, ClearCameraQueue, ClearRepository
<1>2. CASE Source
  <2>1. CASE SourcePop
    BY <2>1 DEF SourcePop
  <2>2. CASE SourceNewFrame
    BY <2>2 DEF SourceNewFrame, NextSeqno, RouteOrder
  <2>3. CASE SourceEmit
    <3>1. CASE mustTerminate
      BY <2>3, <3>1 DEF SourceEmit
    <3>2. CASE ~mustTerminate
      <4>1. /\ routerQ' = Append(routerQ, srcSeq)
            /\ srcPc = "emit" /\ srcPc' = "pop"
            /\ UNCHANGED <<srcSeq, nextSeq, rSeq>>
        BY <2>3, <3>2 DEF SourceEmit
      <4>. QED BY <4>1, AppendToQueue
    <3>. QED BY <3>1, <3>2
  <2>. QED BY <1>2, <2>1, <2>2, <2>3 DEF Source
<1>3. CASE Router
  <2>1. CASE RouterTake
    <3>1. /\ routerQ' = Tail(routerQ) /\ routerQ # <<>>
          /\ rSeq' = rSeq \/ rSeq' = Head(routerQ)
          /\ UNCHANGED <<srcPc, srcSeq, nextSeq>>
      BY <2>1 DEF RouterTake
    <3>. QED BY <3>1, TailOfQueue
  <2>2. CASE ~RouterTake
    BY <1>3, <2>2 DEF Router, RouteDetect, FlagDetecting, RouteTrack, FlagTracking,
       RouteRender, FlagRendering
  <2>. QED BY <2>1, <2>2
<1>4. CASE Detector \/ Tracker \/ Render \/ Stop
  BY <1>4 DEF Detector, DetStart, DetClear, DetDelete, DetReturn,
     Tracker, TrkStart, TrkClear, TrkDelete,
     Render, RenderStart, RenderLookup, RenderBegin, RenderEnd, RenderDelete,
     Stop, StopTerminate, StopUninitialise
<1>5. CASE UNCHANGED vars
  BY <1>5
<1>. QED BY <1>1, <1>2, <1>3, <1>4, <1>5 DEF Next

\* The router flags a frame after offering it, and nobody else raises a flag.
LEMMA FlagOrderStep ==
    ASSUME TypeOK, QueueOrder, RouteOrder, FlagOrder, [Next]_vars
    PROVE  FlagOrder'
<1>. USE DEF FlagOrder, TypeOK, NodesTypeOK, SourceTypeOK, StoreTypeOK
<1>1. CASE Camera
  BY <1>1 DEF Camera, CameraCheck, EnqueueCreate, EnqueuePush, EnqueueEvict,
     EnqueueDeleteOld, EnqueueRetry, ClearCameraQueue, ClearRepository
<1>2. CASE Source
  BY <1>2 DEF Source, SourcePop, SourceNewFrame, NextSeqno, SourceEmit
<1>3. CASE Router
  <2>1. CASE RouterTake
    <3>1. /\ rSeq' \in Nat /\ rPc = "idle"
          /\ (rSeq' = rSeq /\ rPc' = "idle") \/ rSeq' > rSeq
      BY <2>1, TailOfQueue DEF RouterTake, QueueOrder
    <3>2. UNCHANGED <<detecting, tracking, rendering>>
      BY <2>1 DEF RouterTake
    <3>3. \A s \in detecting \cup tracking \cup rendering : s \in Nat /\ s <= rSeq
      OBVIOUS
    <3>4. CASE rSeq' = rSeq /\ rPc' = "idle"
      BY <3>2, <3>3, <3>4
    <3>5. CASE rSeq' > rSeq
      <4>1. \A s \in detecting \cup tracking \cup rendering : s < rSeq'
        BY <3>1, <3>3, <3>5
      <4>. QED BY <3>1, <3>2, <3>3, <4>1
    <3>. QED BY <3>1, <3>4, <3>5
  <2>2. CASE RouteDetect \/ RouteTrack \/ RouteRender
    BY <2>2 DEF RouteDetect, RouteTrack, RouteRender
  <2>3. CASE FlagDetecting
    BY <2>3 DEF FlagDetecting
  <2>4. CASE FlagTracking
    BY <2>4 DEF FlagTracking
  <2>5. CASE FlagRendering
    BY <2>5 DEF FlagRendering
  <2>. QED BY <1>3, <2>1, <2>2, <2>3, <2>4, <2>5 DEF Router
<1>4. CASE Detector \/ Tracker \/ Render \/ Stop
  BY <1>4 DEF Detector, DetStart, DetClear, DetDelete, DetReturn,
     Tracker, TrkStart, TrkClear, TrkDelete,
     Render, RenderStart, RenderLookup, RenderBegin, RenderEnd, RenderDelete,
     Stop, StopTerminate, StopUninitialise
<1>5. CASE UNCHANGED vars
  BY <1>5
<1>. QED BY <1>1, <1>2, <1>3, <1>4, <1>5 DEF Next

-----------------------------------------------------------------------------
(* What the nodes were handed is flagged, or about to be, and still stored. *)

\* A node lowers only its own flag, and not before it is done.
LEMMA HandoverStep ==
    ASSUME TypeOK, RouteOrder, Handover, [Next]_vars
    PROVE  Handover'
<1>. USE DEF Handover, TypeOK, NodesTypeOK
<1>1. CASE Camera
  BY <1>1 DEF Camera, CameraCheck, EnqueueCreate, EnqueuePush, EnqueueEvict,
     EnqueueDeleteOld, EnqueueRetry, ClearCameraQueue, ClearRepository
<1>2. CASE Source
  BY <1>2 DEF Source, SourcePop, SourceNewFrame, NextSeqno, SourceEmit
<1>3. CASE Router
  <2>1. CASE RouterTake
    BY <2>1 DEF RouterTake
  <2>2. CASE RouteDetect \/ RouteTrack \/ RouteRender
    BY <2>2 DEF RouteDetect, RouteTrack, RouteRender, RouteOrder
  <2>3. CASE FlagDetecting \/ FlagTracking \/ FlagRendering
    BY <2>3 DEF FlagDetecting, FlagTracking, FlagRendering
  <2>. QED BY <1>3, <2>1, <2>2, <2>3 DEF Router
<1>4. CASE Detector
  BY <1>4 DEF Detector, DetStart, DetClear, DetDelete, DetReturn
<1>5. CASE Tracker
  BY <1>5 DEF Tracker, TrkStart, TrkClear, TrkDelete
<1>6. CASE Render
  BY <1>6 DEF Render, RenderStart, RenderLookup, RenderBegin, RenderEnd, RenderDelete
<1>7. CASE Stop
  BY <1>7 DEF Stop, StopTerminate, StopUninitialise
<1>8. CASE UNCHANGED vars
  BY <1>8
<1>. QED BY <1>1, <1>2, <1>3, <1>4, <1>5, <1>6, <1>7, <1>8 DEF Next

\* Nobody but the router knows the frame it has not offered yet.
LEMMA RoutedStoredStep ==
    ASSUME TypeOK, CameraInv, RouteOrder, RoutedStored, [Next]_vars
    PROVE  RoutedStored'
<1>. USE DEF RoutedStored, RouteOrder, TypeOK, NodesTypeOK, CameraTypeOK
<1>1. CASE Camera
  BY <1>1, PipelineAssumption
  DEF Camera, CameraCheck, EnqueueCreate, EnqueuePush, EnqueueEvict, CameraInv,
     EnqueueDeleteOld, EnqueueRetry, ClearCameraQueue, ClearRepository, DeleteFrame
<1>2. CASE Source
  BY <1>2 DEF Source, SourcePop, SourceNewFrame, NextSeqno, SourceEmit
<1>3. CASE Router
  BY <1>3 DEF Router, RouterTake, RouteDetect, FlagDetecting, RouteTrack, FlagTracking,
     RouteRender, FlagRendering
<1>4. CASE Detector \/ Tracker \/ Stop
  BY <1>4 DEF Detector, DetStart, DetClear, DetDelete, DetReturn, DeleteFrame,
     Tracker, TrkStart, TrkClear, TrkDelete, Stop, StopTerminate, StopUninitialise
<1>5. CASE Render
  BY <1>5 DEF Render, RenderStart, RenderLookup, RenderBegin, RenderEnd, RenderDelete,
     DeleteFrame
<1>6. CASE UNCHANGED vars
  BY <1>6
<1>. QED BY <1>1, <1>2, <1>3, <1>4, <1>5, <1>6 DEF Next

\* delete_frame refuses a flagged frame, and the frame about to be flagged is
\* newer than anything another node holds.
LEMMA ConsumersStep ==
    ASSUME TypeOK, CameraInv, RouteOrder, Handover, RoutedStored,
           ConsumersFindTheirFrame, [Next]_vars
    PROVE  ConsumersFindTheirFrame'
<1>. USE DEF ConsumersFindTheirFrame, Handover, RouteOrder, TypeOK, NodesTypeOK, CameraTypeOK
<1>1. CASE Camera
  BY <1>1, PipelineAssumption
  DEF Camera, CameraCheck, EnqueueCreate, EnqueuePush, EnqueueEvict, CameraInv,
     EnqueueDeleteOld, EnqueueRetry, ClearCameraQueue, ClearRepository, DeleteFrame, InUse
<1>2. CASE Source
  BY <1>2 DEF Source, SourcePop, SourceNewFrame, NextSeqno, SourceEmit
<1>3. CASE Router
  BY <1>3 DEF Router, RouterTake, RouteDetect, FlagDetecting, RouteTrack, FlagTracking,
     RouteRender, FlagRendering, DeleteFrame, InUse, RoutedStored
<1>4. CASE Detector
  <2>1. CASE DetDelete
    BY <2>1 DEF DetDelete, DeleteFrame, InUse
  <2>2. CASE DetClear
    <3>1. dPc' = "delete" /\ UNCHANGED <<repo, clears, tPc, tSeq>>
      BY <2>2 DEF DetClear
    <3>. QED BY <3>1
  <2>3. CASE DetStart \/ DetReturn
    BY <2>3 DEF DetStart, DetReturn
  <2>. QED BY <1>4, <2>1, <2>2, <2>3 DEF Detector
<1>5. CASE Tracker
  BY <1>5 DEF Tracker, TrkStart, TrkClear, TrkDelete, DeleteFrame, InUse
<1>6. CASE Render
  BY <1>6 DEF Render, RenderStart, RenderLookup, RenderBegin, RenderEnd, RenderDelete,
     DeleteFrame, InUse
<1>7. CASE Stop
  BY <1>7 DEF Stop, StopTerminate, StopUninitialise
<1>8. CASE UNCHANGED vars
  BY <1>8
<1>. QED BY <1>1, <1>2, <1>3, <1>4, <1>5, <1>6, <1>7, <1>8 DEF Next

-----------------------------------------------------------------------------
(* Every stored frame has somebody who will delete it, or a stale flag.    *)

\* A routed frame has a node that will try to delete it, or its flags tell why not.
LEMMA RoutedOwnedStep ==
    ASSUME TypeOK, RouteOrder, FlagOrder, RoutedOwned, [Next]_vars
    PROVE  RoutedOwned'
<1>. USE DEF RoutedOwned, Stale, StaleDetecting, StaleTracking, StaleRendering, WithNode,
         TypeOK, NodesTypeOK
<1>1. CASE Camera
  BY <1>1 DEF Camera, CameraCheck, EnqueueCreate, EnqueuePush, EnqueueEvict,
     EnqueueDeleteOld, EnqueueRetry, ClearCameraQueue, ClearRepository, DeleteFrame
<1>2. CASE Source
  <2>1. rPc = "render" => rSeq < nextSeq
    BY DEF RouteOrder
  <2>. QED BY <1>2, <2>1 DEF Source, SourcePop, SourceNewFrame, NextSeqno, SourceEmit, SourceTypeOK
<1>3. CASE Router
  BY <1>3, PipelineAssumption
  DEF Router, RouterTake, RouteDetect, FlagDetecting, RouteTrack, FlagTracking,
     RouteRender, FlagRendering, RouteOrder
<1>4. CASE Detector
  BY <1>4 DEF Detector, DetStart, DetClear, DetDelete, DetReturn, DeleteFrame, InUse
<1>5. CASE Tracker
  BY <1>5 DEF Tracker, TrkStart, TrkClear, TrkDelete, DeleteFrame, InUse
<1>6. CASE Render
  BY <1>6 DEF Render, RenderStart, RenderLookup, RenderBegin, RenderEnd, RenderDelete,
     DeleteFrame, InUse
<1>7. CASE Stop
  BY <1>7 DEF Stop, StopTerminate, StopUninitialise
<1>8. CASE UNCHANGED vars
  BY <1>8
<1>. QED BY <1>1, <1>2, <1>3, <1>4, <1>5, <1>6, <1>7, <1>8 DEF Next

\* A stored frame passes from source to router to node without a gap.
LEMMA NoOrphanStep ==
    ASSUME TypeOK, RouteOrder, RoutedOwned, NoOrphanFrame, [Next]_vars
    PROVE  NoOrphanFrame'
<1>. SUFFICES ASSUME NEW s \in repo' \ {0}
              PROVE  Owned(s)' \/ Stale(s)' \/ Dropped(s)'
  BY DEF NoOrphanFrame
<1>0. s \in repo => Owned(s) \/ Stale(s) \/ Dropped(s)
  BY DEF NoOrphanFrame
<1>. USE <1>0 DEF Owned, Dropped, Stale, StaleDetecting, StaleTracking, StaleRendering,
         WithNode, TypeOK, NodesTypeOK, SourceTypeOK
<1>1. CASE Camera
  BY <1>1 DEF Camera, CameraCheck, EnqueueCreate, EnqueuePush, EnqueueEvict,
     EnqueueDeleteOld, EnqueueRetry, ClearCameraQueue, ClearRepository, DeleteFrame
<1>2. CASE Source
  <2>1. CASE SourcePop
    BY <2>1 DEF SourcePop
  <2>2. CASE SourceNewFrame
    BY <2>2 DEF SourceNewFrame, NextSeqno
  <2>3. CASE SourceEmit
    <3>1. CASE mustTerminate
      BY <2>3, <3>1 DEF SourceEmit
    <3>2. CASE ~mustTerminate
      <4>1. /\ routerQ' = Append(routerQ, srcSeq) /\ srcPc = "emit"
            /\ s \in repo /\ UNCHANGED srcSeq
        BY <2>3, <3>2 DEF SourceEmit
      <4>2. \A e : (\E i \in DOMAIN routerQ : routerQ[i] = e) \/ e = srcSeq =>
                  \E i \in DOMAIN routerQ' : routerQ'[i] = e
        BY <4>1, AppendToQueue
      <4>3. UNCHANGED <<rPc, rSeq, dPc, dSeq, tPc, tSeq, vPc, vSeq,
                        detecting, tracking, rendering>>
        BY <2>3, <3>2 DEF SourceEmit
      <4>. QED BY <4>1, <4>2, <4>3
    <3>. QED BY <3>1, <3>2
  <2>. QED BY <1>2, <2>1, <2>2, <2>3 DEF Source
<1>3. CASE Router
  <2>1. CASE RouterTake
    <3>1. /\ routerQ # <<>> /\ routerQ' = Tail(routerQ) /\ rPc = "idle" /\ repo' = repo
          /\ s = Head(routerQ) => rPc' = "detect" /\ rSeq' = s
          /\ UNCHANGED <<srcPc, srcSeq, dPc, dSeq, tPc, tSeq, vPc, vSeq,
                         detecting, tracking, rendering>>
      BY <2>1 DEF RouterTake
    <3>2. (\E i \in DOMAIN routerQ : routerQ[i] = s) =>
             s = Head(routerQ) \/ \E i \in DOMAIN routerQ' : routerQ'[i] = s
      <4>1. SUFFICES ASSUME NEW i \in DOMAIN routerQ, routerQ[i] = s, s # Head(routerQ)
                     PROVE  \E j \in DOMAIN routerQ' : routerQ'[j] = s
        OBVIOUS
      <4>2. routerQ \in Seq(Nat) /\ routerQ # <<>> /\ routerQ' = Tail(routerQ)
        BY <3>1 DEF TypeOK, SourceTypeOK
      <4>3. routerQ[1] = Head(routerQ)
        BY <4>2, TailOfQueue
      <4>4. i - 1 \in DOMAIN Tail(routerQ) /\ Tail(routerQ)[i - 1] = routerQ[i]
        BY <4>1, <4>2, <4>3, TailOfQueue
      <4>. QED BY <4>1, <4>2, <4>4
    <3>. QED BY <3>1, <3>2
  <2>2. CASE RouteDetect \/ RouteTrack
    BY <2>2 DEF RouteDetect, RouteTrack
  <2>3. CASE FlagDetecting \/ FlagTracking
    BY <2>3 DEF FlagDetecting, FlagTracking
  <2>4. CASE RouteRender
    BY <2>4, PipelineAssumption DEF RouteRender, RoutedOwned, DeleteFrame, InUse
  <2>5. CASE FlagRendering
    BY <2>5 DEF FlagRendering, RouteOrder
  <2>. QED BY <1>3, <2>1, <2>2, <2>3, <2>4, <2>5 DEF Router
<1>4. CASE Detector
  BY <1>4 DEF Detector, DetStart, DetClear, DetDelete, DetReturn, DeleteFrame, InUse
<1>5. CASE Tracker
  BY <1>5 DEF Tracker, TrkStart, TrkClear, TrkDelete, DeleteFrame, InUse
<1>6. CASE Render
  BY <1>6 DEF Render, RenderStart, RenderLookup, RenderBegin, RenderEnd, RenderDelete,
     DeleteFrame, InUse
<1>7. CASE Stop
  BY <1>7 DEF Stop, StopTerminate, StopUninitialise
<1>8. CASE UNCHANGED vars
  BY <1>8
<1>. QED BY <1>1, <1>2, <1>3, <1>4, <1>5, <1>6, <1>7, <1>8 DEF Next

-----------------------------------------------------------------------------
(* The invariant, and the safety properties it gives.                      *)

\* The first frame has not been made.
LEMMA InitIInv == Init => IInv
<1>. SUFFICES ASSUME Init PROVE IInv
  OBVIOUS
<1>1. TypeOK
  <2>1. CameraTypeOK
    BY PipelineAssumption DEF Init, CameraTypeOK
  <2>2. StoreTypeOK
    BY DEF Init, StoreTypeOK
  <2>3. SourceTypeOK
    BY DEF Init, FirstSeq, SourceTypeOK
  <2>4. NodesTypeOK
    BY DEF Init, NodesTypeOK
  <2>. QED BY <2>1, <2>2, <2>3, <2>4 DEF TypeOK
<1>2. CameraInv /\ BusyFlagRedundant /\ RenderGateUncontended
  BY DEF Init, CameraInv, EnqueueNeverFails, BusyFlagRedundant, RenderGateUncontended
<1>3. QueueOrder /\ RouteOrder /\ FlagOrder
  BY DEF Init, FirstSeq, QueueOrder, RouteOrder, FlagOrder
<1>4. Handover /\ RoutedStored /\ ConsumersFindTheirFrame
  BY DEF Init, Handover, RoutedStored, ConsumersFindTheirFrame
<1>5. RoutedOwned /\ NoOrphanFrame
  BY DEF Init, RoutedOwned, NoOrphanFrame
<1>. QED BY <1>1, <1>2, <1>3, <1>4, <1>5 DEF IInv

\* The parts together are inductive.
LEMMA NextIInv == IInv /\ [Next]_vars => IInv'
BY TypeStep, CameraStep, BusyFlagStep, RenderGateStep, QueueOrderStep, RouteOrderStep,
   FlagOrderStep, HandoverStep, RoutedStoredStep, ConsumersStep, RoutedOwnedStep, NoOrphanStep
DEF IInv

\* In every reachable state of the pipeline the whole invariant holds: the
\* camera thread, the flow graph and the repository agree on every frame.
THEOREM Invariance == Spec => []IInv
BY InitIInv, NextIInv, PTL DEF Spec

\* The pipeline's variables stay in their types: the queue within its capacity,
\* the counters within their bounds.
THEOREM TypeCorrect == Spec => []TypeOK
<1>1. IInv => TypeOK
  BY DEF IInv
<1>. QED BY <1>1, Invariance, PTL

\* Every stored frame has somebody who will still call delete_frame for it, or
\* is one of the frames the model names as leaked.
THEOREM NothingOrphaned == Spec => []NoOrphanFrame
<1>1. IInv => NoOrphanFrame
  BY DEF IInv
<1>. QED BY <1>1, Invariance, PTL

\* A detector or tracker that is handed a frame finds it in the repository,
\* although the router flags it only after handing it over.
THEOREM ConsumersServed == Spec => []ConsumersFindTheirFrame
<1>1. IInv => ConsumersFindTheirFrame
  BY DEF IInv
<1>. QED BY <1>1, Invariance, PTL

\* Camera::enqueue always finds room in one of its two attempts.
THEOREM EnqueueSucceeds == Spec => []EnqueueNeverFails
<1>1. IInv => EnqueueNeverFails
  BY DEF IInv, CameraInv
<1>. QED BY <1>1, Invariance, PTL

\* The detectors' busy flag adds nothing to the node's concurrency limit, and
\* the gate Repository::is_rendering is never found taken.
THEOREM GatesAddNothing == Spec => []GatesUncontended
<1>1. IInv => GatesUncontended
  BY DEF IInv, GatesUncontended
<1>. QED BY <1>1, Invariance, PTL

-----------------------------------------------------------------------------
(* The throttle.                                                           *)

\* The frames somebody stores or points to, and the frames in the queue and in
\* the hands of the camera thread and of the source.
Kept == repo \cup Held
InHand ==
    queued
    + (CASE camPc \in {"push", "evict", "retry"} -> 1
         [] camPc = "release"                    -> 2
         [] OTHER                                -> 0)
    + (IF srcPc = "new" THEN 1 ELSE 0)

\* How many frames there are is a number and the size of a set.
LEMMA FlightSum ==
    /\ InFlight = InHand + Cardinality(Kept)
    /\ InFlight' = InHand' + Cardinality(Kept')
BY DEF InFlight, InHand, Kept

\* The number is one.
LEMMA InHandType == TypeOK => InHand \in Nat
BY DEF TypeOK, CameraTypeOK, InHand

\* What the flow graph points to is finite, and so is all that is kept.
LEMMA KeptFinite ==
    /\ IsFiniteSet(repo) => IsFiniteSet(Kept) /\ Cardinality(Kept) \in Nat
    /\ IsFiniteSet(repo') => IsFiniteSet(Kept') /\ Cardinality(Kept') \in Nat
<1>1. IsFiniteSet(Seqs)
  BY FS_Interval, PipelineAssumption DEF Seqs
<1>2. Held \in SUBSET Seqs /\ Held' \in SUBSET Seqs
  BY DEF Held
<1>3. IsFiniteSet(Held) /\ IsFiniteSet(Held')
  BY <1>1, <1>2, FS_Subset
<1>4. /\ IsFiniteSet(repo) => IsFiniteSet(Kept)
      /\ IsFiniteSet(repo') => IsFiniteSet(Kept')
  BY <1>3, FS_Union DEF Kept
<1>. QED BY <1>4, FS_CardinalityType

\* One element more is at most one more to count.
LEMMA OneMore ==
    ASSUME NEW S, NEW x, IsFiniteSet(S)
    PROVE  /\ IsFiniteSet(S \cup {x})
           /\ Cardinality(S \cup {x}) <= Cardinality(S) + 1
<1>1. Cardinality(S) \in Nat
  BY FS_CardinalityType
<1>2. /\ IsFiniteSet(S \cup {x})
      /\ Cardinality(S \cup {x}) = IF x \in S THEN Cardinality(S) ELSE Cardinality(S) + 1
  BY FS_AddElement
<1>. QED BY <1>1, <1>2

\* Sums are compared term by term.
LEMMA SumOrder ==
    ASSUME NEW h \in Nat, NEW h1 \in Nat, NEW k \in Nat, NEW k1 \in Nat,
           NEW m \in Nat, h1 <= h + m, k1 <= k
    PROVE  h1 + k1 <= h + k + m
OBVIOUS

\* What leaves one term may turn up in the other.
LEMMA SumExchange ==
    ASSUME NEW h \in Nat, NEW h1 \in Nat, NEW k \in Nat, NEW k1 \in Nat,
           h1 + 1 = h, k1 <= k + 1
    PROVE  h1 + k1 <= h + k
OBVIOUS

\* A step after which nothing is kept that was not kept before.
LEMMA KeptShrinks ==
    ASSUME IsFiniteSet(repo), Kept' \subseteq Kept
    PROVE  Cardinality(Kept') \in Nat /\ Cardinality(Kept') <= Cardinality(Kept)
<1>1. IsFiniteSet(Kept)
  BY KeptFinite
<1>2. IsFiniteSet(Kept') /\ Cardinality(Kept') <= Cardinality(Kept)
  BY <1>1, FS_Subset
<1>. QED BY <1>2, FS_CardinalityType

\* Only JNI enqueue makes a frame: what is numbered, stored, handed on or looked
\* up was there before.
LEMMA FlightStep ==
    ASSUME TypeOK, IsFiniteSet(repo), [Next]_vars
    PROVE  /\ IsFiniteSet(repo')
           /\ InFlight' <= InFlight + (IF captured' # captured THEN 1 ELSE 0)
<1>. USE DEF TypeOK, CameraTypeOK
<1>. DEFINE extra == IF captured' # captured THEN 1 ELSE 0
<1>0. IsFiniteSet(Kept) /\ Cardinality(Kept) \in Nat /\ InHand \in Nat /\ extra \in Nat
  BY KeptFinite, InHandType
<1>a. ASSUME InHand' \in Nat, Cardinality(Kept') \in Nat,
             InHand' <= InHand + extra, Cardinality(Kept') <= Cardinality(Kept)
      PROVE  InFlight' <= InFlight + extra
  BY <1>0, <1>a, FlightSum, SumOrder
<1>1. CASE Camera
  <2>. USE <1>1 DEF Camera, CameraCheck, EnqueueCreate, EnqueuePush, EnqueueEvict,
         EnqueueDeleteOld, EnqueueRetry, ClearCameraQueue, ClearRepository, DeleteFrame
  <2>1. repo' \in SUBSET repo /\ Held' = Held
    BY DEF Held
  <2>2. IsFiniteSet(repo')
    BY <2>1, FS_Subset
  <2>3. Cardinality(Kept') \in Nat /\ Cardinality(Kept') <= Cardinality(Kept)
    BY <2>1, KeptShrinks DEF Kept
  <2>4. InHand' \in Nat /\ InHand' <= InHand + extra
    BY PipelineAssumption DEF InHand
  <2>. QED BY <1>a, <2>2, <2>3, <2>4
<1>2. CASE SourceNewFrame
  <2>. USE <1>2 DEF SourceNewFrame, NextSeqno
  <2>1. IsFiniteSet(repo')
    BY FS_AddElement
  <2>2. Kept' \in SUBSET (Kept \cup {nextSeq})
    BY DEF Kept, Held
  <2>3. /\ IsFiniteSet(Kept \cup {nextSeq})
        /\ Cardinality(Kept \cup {nextSeq}) <= Cardinality(Kept) + 1
    BY <1>0, OneMore
  <2>4. IsFiniteSet(Kept') /\ Cardinality(Kept') <= Cardinality(Kept \cup {nextSeq})
    BY <2>2, <2>3, FS_Subset
  <2>5. Cardinality(Kept') \in Nat /\ Cardinality(Kept \cup {nextSeq}) \in Nat
    BY <2>3, <2>4, FS_CardinalityType
  <2>6. InHand' + 1 = InHand /\ InHand' \in Nat
    BY DEF InHand
  <2>7. Cardinality(Kept') <= Cardinality(Kept) + 1
    BY <1>0, <2>3, <2>4, <2>5
  <2>8. InFlight' <= InFlight /\ InFlight' \in Int /\ InFlight \in Int
    <3>1. InHand' + Cardinality(Kept') <= InHand + Cardinality(Kept)
      BY <1>0, <2>5, <2>6, <2>7, SumExchange
    <3>. QED BY ONLY <1>0, <2>5, <2>6, <3>1, FlightSum
  <2>. QED BY <2>1, <2>8
<1>3. CASE SourcePop \/ SourceEmit
  <2>. USE <1>3 DEF SourcePop, SourceEmit
  <2>1. Kept' \subseteq Kept /\ repo' = repo /\ captured' = captured
    BY DEF Kept, Held
  <2>2. InHand' \in Nat /\ InHand' <= InHand + extra
    BY DEF InHand
  <2>3. Cardinality(Kept') \in Nat /\ Cardinality(Kept') <= Cardinality(Kept)
    BY <2>1, KeptShrinks
  <2>. QED BY <1>a, <2>1, <2>2, <2>3
<1>4. CASE Router \/ Detector \/ Tracker \/ Render \/ Stop \/ UNCHANGED vars
  <2>1. UNCHANGED <<camPc, captured, queued, srcPc, srcSeq>> /\ repo' \in SUBSET repo
    BY <1>4 DEF Router, RouterTake, RouteDetect, FlagDetecting, RouteTrack, FlagTracking,
       RouteRender, FlagRendering, Detector, DetStart, DetClear, DetDelete, DetReturn,
       Tracker, TrkStart, TrkClear, TrkDelete, Render, RenderStart, RenderLookup,
       RenderBegin, RenderEnd, RenderDelete, Stop, StopTerminate, StopUninitialise,
       DeleteFrame
  <2>2. Kept' \subseteq Kept
    <3>1. CASE Router
      BY <3>1 DEF Kept, Held, Router, RouterTake, RouteDetect, FlagDetecting, RouteTrack,
         FlagTracking, RouteRender, FlagRendering, DeleteFrame
    <3>2. CASE Detector
      BY <3>2 DEF Kept, Held, Detector, DetStart, DetClear, DetDelete, DetReturn, DeleteFrame
    <3>3. CASE Tracker
      BY <3>3 DEF Kept, Held, Tracker, TrkStart, TrkClear, TrkDelete, DeleteFrame
    <3>4. CASE Render
      BY <3>4 DEF Kept, Held, Render, RenderStart, RenderLookup, RenderBegin, RenderEnd,
         RenderDelete, DeleteFrame
    <3>5. CASE Stop \/ UNCHANGED vars
      BY <3>5 DEF Kept, Held, Stop, StopTerminate, StopUninitialise
    <3>. QED BY <1>4, <3>1, <3>2, <3>3, <3>4, <3>5
  <2>3. IsFiniteSet(repo')
    BY <2>1, FS_Subset
  <2>4. InHand' = InHand
    BY <2>1 DEF InHand
  <2>5. Cardinality(Kept') \in Nat /\ Cardinality(Kept') <= Cardinality(Kept)
    BY <2>2, KeptShrinks
  <2>. QED BY <1>0, <1>a, <2>3, <2>4, <2>5
<1>. QED BY <1>1, <1>2, <1>3, <1>4 DEF Next, Source

\* While a frame is about to be made there is room for it.
FlightInv ==
    /\ IsFiniteSet(repo)
    /\ InFlightBound
    /\ camPc = "checked" => InFlight <= QueueSize

\* The throttle looks before the frame is made, and is right all the same: what
\* the other threads do meanwhile only makes room.
THEOREM ThrottleInvariance == Spec => []FlightInv
<1>1. Init => FlightInv
  <2>. SUFFICES ASSUME Init PROVE FlightInv
    OBVIOUS
  <2>1. IsFiniteSet(repo) /\ Cardinality(Kept) = 0
    BY FS_EmptySet DEF Init, Kept, Held
  <2>2. InFlight = 0
    BY <2>1, FlightSum DEF Init, InHand
  <2>. QED BY <2>1, <2>2, PipelineAssumption DEF FlightInv, InFlightBound
<1>2. IInv /\ FlightInv /\ [Next]_vars => FlightInv'
  <2>. SUFFICES ASSUME IInv, FlightInv, [Next]_vars PROVE FlightInv'
    OBVIOUS
  <2>1. TypeOK
    BY DEF IInv
  <2>2. IsFiniteSet(repo') /\ InFlight' <= InFlight + (IF captured' # captured THEN 1 ELSE 0)
    BY <2>1, FlightStep DEF FlightInv
  <2>3. captured' # captured => camPc = "checked" /\ camPc' = "push"
    BY DEF Next, Camera, CameraCheck, EnqueueCreate, EnqueuePush, EnqueueEvict,
       EnqueueDeleteOld, EnqueueRetry, ClearCameraQueue, ClearRepository,
       Source, SourcePop, SourceNewFrame, SourceEmit, Router, RouterTake, RouteDetect,
       FlagDetecting, RouteTrack, FlagTracking, RouteRender, FlagRendering,
       Detector, DetStart, DetClear, DetDelete, DetReturn, Tracker, TrkStart, TrkClear,
       TrkDelete, Render, RenderStart, RenderLookup, RenderBegin, RenderEnd, RenderDelete,
       Stop, StopTerminate, StopUninitialise
  <2>4. camPc' = "checked" => camPc = "checked" \/ InFlight <= QueueSize
    BY DEF Next, Camera, CameraCheck, EnqueueCreate, EnqueuePush, EnqueueEvict,
       EnqueueDeleteOld, EnqueueRetry, ClearCameraQueue, ClearRepository,
       Source, SourcePop, SourceNewFrame, SourceEmit, Router, RouterTake, RouteDetect,
       FlagDetecting, RouteTrack, FlagTracking, RouteRender, FlagRendering,
       Detector, DetStart, DetClear, DetDelete, DetReturn, Tracker, TrkStart, TrkClear,
       TrkDelete, Render, RenderStart, RenderLookup, RenderBegin, RenderEnd, RenderDelete,
       Stop, StopTerminate, StopUninitialise
  <2>5. InFlight \in Int /\ InFlight' \in Int
    <3>1. InHand \in Nat /\ InHand' \in Nat
      BY <2>1, TypeStep DEF IInv, TypeOK, CameraTypeOK, InHand
    <3>2. Cardinality(Kept) \in Nat /\ Cardinality(Kept') \in Nat
      BY <2>2, KeptFinite DEF FlightInv
    <3>. QED BY <3>1, <3>2, FlightSum
  <2>. QED BY <2>2, <2>3, <2>4, <2>5, PipelineAssumption DEF FlightInv, InFlightBound
<1>. QED BY <1>1, <1>2, Invariance, PTL DEF Spec

\* The frames alive never exceed the throttle's limit by more than the one that
\* is being enqueued, although inFlight() is read before the frame is made.
THEOREM ThrottleHolds == Spec => []InFlightBound
<1>1. FlightInv => InFlightBound
  BY DEF FlightInv
<1>. QED BY <1>1, ThrottleInvariance, PTL

\* So the camera queue can only be full when nothing has been taken out of it.
THEOREM FullOnlyWhenIdle == Spec => []OverflowOnlyWhenIdle
<1>1. IInv /\ IsFiniteSet(repo) /\ InFlightBound => OverflowOnlyWhenIdle
  <2>. SUFFICES ASSUME IInv, IsFiniteSet(repo), InFlightBound,
                       camPc = "push", queued = QueueSize
                PROVE  repo = {} /\ Held = {} /\ srcPc # "new"
    BY DEF OverflowOnlyWhenIdle
  <2>1. /\ InHand = QueueSize + 1 \/ InHand = QueueSize + 2
        /\ srcPc = "new" => InHand = QueueSize + 2
    BY PipelineAssumption DEF InHand
  <2>2. IsFiniteSet(Kept) /\ Cardinality(Kept) \in Nat
    BY KeptFinite
  <2>3. srcPc # "new" /\ Cardinality(Kept) = 0
    BY <2>1, <2>2, FlightSum, PipelineAssumption DEF InFlightBound
  <2>4. Kept = {}
    BY <2>2, <2>3, FS_EmptySet
  <2>. QED BY <2>3, <2>4 DEF Kept
<1>. QED BY <1>1, Invariance, ThrottleInvariance, PTL DEF FlightInv

-----------------------------------------------------------------------------
(* Properties of steps.                                                    *)

\* No node is handed an older frame after a newer one, or the same frame twice.
THEOREM InOrder == Spec => FramesInOrder
<1>. DEFINE Step == /\ dPc = "idle" /\ dPc' = "start" => dSeq' > dSeq
                    /\ tPc = "idle" /\ tPc' = "start" => tSeq' > tSeq
                    /\ vPc = "idle" /\ vPc' = "start" => vSeq' > vSeq
<1>1. IInv /\ [Next]_vars => [Step]_vars
  <2>. SUFFICES ASSUME IInv, Next PROVE Step
    OBVIOUS
  <2>. USE DEF IInv, TypeOK, NodesTypeOK, RouteOrder
  <2>1. CASE Camera
    BY <2>1 DEF Camera, CameraCheck, EnqueueCreate, EnqueuePush, EnqueueEvict,
       EnqueueDeleteOld, EnqueueRetry, ClearCameraQueue, ClearRepository
  <2>2. CASE Source
    BY <2>2 DEF Source, SourcePop, SourceNewFrame, NextSeqno, SourceEmit
  <2>3. CASE Router
    BY <2>3 DEF Router, RouterTake, RouteDetect, FlagDetecting, RouteTrack, FlagTracking,
       RouteRender, FlagRendering
  <2>4. CASE Detector \/ Tracker \/ Render \/ Stop
    BY <2>4 DEF Detector, DetStart, DetClear, DetDelete, DetReturn,
       Tracker, TrkStart, TrkClear, TrkDelete,
       Render, RenderStart, RenderLookup, RenderBegin, RenderEnd, RenderDelete,
       Stop, StopTerminate, StopUninitialise
  <2>. QED BY <2>1, <2>2, <2>3, <2>4 DEF Next
<1>. QED BY <1>1, Invariance, PTL DEF Spec, FramesInOrder

\* A flag goes stale only when the router raises it after the node is past
\* lowering it, or when the render node discards the frame after stopMAR.
THEOREM LeaksByOvertaking == Spec => LeakOnlyByOvertaking
<1>. DEFINE Leak(s) ==
        ~Stale(s) /\ Stale(s)' =>
             \/ rSeq = s /\ rPc \in {"flagDetect", "flagTrack", "flagRender"} /\ rPc' # rPc
             \/ vSeq = s /\ vPc = "start" /\ vPc' = "idle" /\ mustTerminate
<1>1. IInv /\ [Next]_vars => [\A s \in repo \cap repo' : Leak(s)]_vars
  <2>. SUFFICES ASSUME IInv, Next, NEW s \in repo \cap repo' PROVE Leak(s)
    OBVIOUS
  <2>. USE DEF Stale, StaleDetecting, StaleTracking, StaleRendering
  <2>1. CASE Camera
    BY <2>1 DEF Camera, CameraCheck, EnqueueCreate, EnqueuePush, EnqueueEvict,
       EnqueueDeleteOld, EnqueueRetry, ClearCameraQueue, ClearRepository
  <2>2. CASE Source
    BY <2>2 DEF Source, SourcePop, SourceNewFrame, NextSeqno, SourceEmit
  <2>3. CASE Router
    BY <2>3 DEF Router, RouterTake, RouteDetect, FlagDetecting, RouteTrack, FlagTracking,
       RouteRender, FlagRendering
  <2>4. CASE Detector
    BY <2>4 DEF Detector, DetStart, DetClear, DetDelete, DetReturn
  <2>5. CASE Tracker
    BY <2>5 DEF Tracker, TrkStart, TrkClear, TrkDelete
  <2>6. CASE Render
    <3>1. vPc = "start" => ~isRendering
      BY DEF IInv, RenderGateUncontended
    <3>. QED BY <2>6, <3>1 DEF Render, RenderStart, RenderLookup, RenderBegin, RenderEnd,
       RenderDelete
  <2>7. CASE Stop
    BY <2>7 DEF Stop, StopTerminate, StopUninitialise
  <2>. QED BY <2>1, <2>2, <2>3, <2>4, <2>5, <2>6, <2>7 DEF Next
<1>. QED BY <1>1, Invariance, PTL DEF Spec, LeakOnlyByOvertaking

\* A stale flag stays, and keeps its frame stored, whatever the threads do:
\* only clear_queued, which looks at no flag, frees it.
THEOREM LeaksAreForever == Spec => LeakIsForever
<1>. DEFINE Leaked(s) == Stale(s) => camPc = "clearing" \/ (s \in repo /\ Stale(s))'
<1>1. IInv /\ [Next]_vars => [\A s \in repo : Leaked(s)]_vars
  <2>. SUFFICES ASSUME IInv, Next, NEW s \in repo PROVE Leaked(s)
    OBVIOUS
  <2>. USE DEF Stale, StaleDetecting, StaleTracking, StaleRendering
  <2>1. CASE Camera
    BY <2>1 DEF Camera, CameraCheck, EnqueueCreate, EnqueuePush, EnqueueEvict,
       EnqueueDeleteOld, EnqueueRetry, ClearCameraQueue, ClearRepository, DeleteFrame, InUse
  <2>2. CASE Source
    BY <2>2 DEF Source, SourcePop, SourceNewFrame, NextSeqno, SourceEmit
  <2>3. CASE Router
    <3>1. /\ rPc = "detect" => rSeq \notin detecting
          /\ rPc = "track" => rSeq \notin tracking
          /\ rPc = "render" => rSeq \notin rendering
      BY DEF IInv, FlagOrder, TypeOK, NodesTypeOK
    <3>. QED BY <2>3, <3>1 DEF Router, RouterTake, RouteDetect, FlagDetecting, RouteTrack,
       FlagTracking, RouteRender, FlagRendering, DeleteFrame, InUse
  <2>4. CASE Detector
    BY <2>4 DEF Detector, DetStart, DetClear, DetDelete, DetReturn, DeleteFrame, InUse
  <2>5. CASE Tracker
    BY <2>5 DEF Tracker, TrkStart, TrkClear, TrkDelete, DeleteFrame, InUse
  <2>6. CASE Render
    BY <2>6 DEF Render, RenderStart, RenderLookup, RenderBegin, RenderEnd, RenderDelete,
       DeleteFrame, InUse
  <2>7. CASE Stop
    BY <2>7 DEF Stop, StopTerminate, StopUninitialise
  <2>. QED BY <2>1, <2>2, <2>3, <2>4, <2>5, <2>6, <2>7 DEF Next
<1>. QED BY <1>1, Invariance, PTL DEF Spec, LeakIsForever

\* The render node loses a frame it was handed only in the window between the
\* router's try_put and its isRendering.store(true).
THEOREM RenderLosses == Spec => RenderLossWindow
<1>. DEFINE Loss(s) ==
        vSeq = s /\ vPc \in {"start", "get", "render"} /\ camPc # "clearing" =>
             \/ vPc = "start" /\ vPc' = "idle" /\ mustTerminate
             \/ /\ rPc = "flagRender" /\ rSeq = s
                /\ \/ dPc = "delete" /\ dSeq = s
                   \/ tPc = "delete" /\ tSeq = s
<1>1. IInv /\ [Next]_vars => [\A s \in repo \ repo' : Loss(s)]_vars
  <2>. SUFFICES ASSUME IInv, Next, NEW s \in repo \ repo',
                       vSeq = s, vPc \in {"start", "get", "render"}, camPc # "clearing"
                PROVE  \/ vPc = "start" /\ vPc' = "idle" /\ mustTerminate
                       \/ /\ rPc = "flagRender" /\ rSeq = s
                          /\ \/ dPc = "delete" /\ dSeq = s
                             \/ tPc = "delete" /\ tSeq = s
    OBVIOUS
  <2>0. s # 0 /\ (s \in rendering \/ (rPc = "flagRender" /\ rSeq = s))
    BY DEF IInv, Handover
  <2>1. CASE Camera
    BY <2>1, <2>0 DEF Camera, CameraCheck, EnqueueCreate, EnqueuePush, EnqueueEvict,
       EnqueueDeleteOld, EnqueueRetry, ClearCameraQueue, ClearRepository, DeleteFrame
  <2>2. CASE Source
    BY <2>2 DEF Source, SourcePop, SourceNewFrame, NextSeqno, SourceEmit
  <2>3. CASE Router
    BY <2>3, <2>0 DEF Router, RouterTake, RouteDetect, FlagDetecting, RouteTrack,
       FlagTracking, RouteRender, FlagRendering, DeleteFrame, InUse
  <2>4. CASE Detector
    BY <2>4, <2>0 DEF Detector, DetStart, DetClear, DetDelete, DetReturn, DeleteFrame, InUse
  <2>5. CASE Tracker
    BY <2>5, <2>0 DEF Tracker, TrkStart, TrkClear, TrkDelete, DeleteFrame, InUse
  <2>6. CASE Render
    <3>1. vPc = "start" => ~isRendering
      BY DEF IInv, RenderGateUncontended
    <3>. QED BY <2>6, <3>1 DEF Render, RenderStart, RenderLookup, RenderBegin, RenderEnd,
       RenderDelete, DeleteFrame
  <2>7. CASE Stop
    BY <2>7 DEF Stop, StopTerminate, StopUninitialise
  <2>. QED BY <2>1, <2>2, <2>3, <2>4, <2>5, <2>6, <2>7 DEF Next
<1>. QED BY <1>1, Invariance, PTL DEF Spec, RenderLossWindow

-----------------------------------------------------------------------------
(* The repository behind its flags implements the FrameStore.              *)

\* delete_frame is an Erase of the store, or nothing.
LEMMA DeleteErases ==
    ASSUME NEW s, DeleteFrame(s), UNCHANGED <<nextSeq, detecting, tracking, rendering>>
    PROVE  Store!Erase \/ UNCHANGED Store!vars
BY DEF DeleteFrame, InUse, Store!Erase, Store!vars

\* Raising flags on a numbered frame is a Pin, or nothing.
LEMMA RaisingPins ==
    ASSUME NEW s \in 0 .. nextSeq - 1, UNCHANGED <<repo, nextSeq>>,
           (detecting \cup tracking \cup rendering)' =
               detecting \cup tracking \cup rendering \cup {s}
    PROVE  Store!Pin
BY DEF Store!Pin

\* Lowering one flag is an Unpin, or nothing when another flag is still up.
LEMMA LoweringUnpins ==
    ASSUME NEW s, UNCHANGED <<repo, nextSeq>>,
           \/ (detecting \cup tracking \cup rendering)' =
                  (detecting \cup tracking \cup rendering) \ {s}
           \/ (detecting \cup tracking \cup rendering)' =
                  detecting \cup tracking \cup rendering
    PROVE  Store!Unpin \/ UNCHANGED Store!vars
BY DEF Store!Unpin, Store!vars

\* Whatever the camera thread, the flow graph and stopMAR do to the frames, a
\* client of the repository sees only steps of the FrameStore.
THEOREM ImplementsStore == Spec => StoreSpec
<1>1. Init => Store!Init
  BY DEF Init, FirstSeq, Store!Init
<1>2. IInv /\ [Next]_vars => [Store!Next]_(Store!vars)
  <2>. SUFFICES ASSUME IInv, [Next]_vars PROVE Store!Next \/ UNCHANGED Store!vars
    OBVIOUS
  <2>. USE DEF Store!Next
  <2>1. CASE Camera
    <3>1. CASE EnqueueDeleteOld
      BY <3>1, DeleteErases DEF EnqueueDeleteOld
    <3>2. CASE ClearRepository
      BY <3>2 DEF ClearRepository, Store!Clear
    <3>3. CASE ~EnqueueDeleteOld /\ ~ClearRepository
      BY <2>1, <3>3 DEF Camera, CameraCheck, EnqueueCreate, EnqueuePush, EnqueueEvict,
         EnqueueRetry, ClearCameraQueue, Store!vars
    <3>. QED BY <3>1, <3>2, <3>3
  <2>2. CASE Source
    <3>1. CASE SourceNewFrame
      BY <3>1 DEF SourceNewFrame, NextSeqno, Store!Insert
    <3>2. CASE SourcePop \/ SourceEmit
      BY <3>2 DEF SourcePop, SourceEmit, Store!vars
    <3>. QED BY <2>2, <3>1, <3>2 DEF Source
  <2>3. CASE Router
    <3>1. rPc # "idle" => rSeq \in 0 .. nextSeq - 1
      BY DEF IInv, RouteOrder, TypeOK, NodesTypeOK, SourceTypeOK
    <3>2. CASE FlagDetecting
      BY <3>1, <3>2, RaisingPins DEF FlagDetecting
    <3>3. CASE FlagTracking
      BY <3>1, <3>3, RaisingPins DEF FlagTracking
    <3>4. CASE FlagRendering
      BY <3>1, <3>4, RaisingPins DEF FlagRendering
    <3>5. CASE RouteRender
      <4>1. repo' = repo \/ DeleteFrame(rSeq)
        BY <3>5 DEF RouteRender
      <4>2. UNCHANGED <<nextSeq, detecting, tracking, rendering>>
        BY <3>5 DEF RouteRender
      <4>. QED BY <4>1, <4>2, DeleteErases DEF Store!vars
    <3>6. CASE RouterTake \/ RouteDetect \/ RouteTrack
      BY <3>6 DEF RouterTake, RouteDetect, RouteTrack, Store!vars
    <3>. QED BY <2>3, <3>2, <3>3, <3>4, <3>5, <3>6 DEF Router
  <2>4. CASE Detector
    <3>1. CASE DetClear
      BY <3>1, LoweringUnpins DEF DetClear
    <3>2. CASE DetDelete
      BY <3>2, DeleteErases DEF DetDelete
    <3>3. CASE DetStart \/ DetReturn
      BY <3>3 DEF DetStart, DetReturn, Store!vars
    <3>. QED BY <2>4, <3>1, <3>2, <3>3 DEF Detector
  <2>5. CASE Tracker
    <3>1. CASE TrkClear
      BY <3>1, LoweringUnpins DEF TrkClear
    <3>2. CASE TrkDelete
      BY <3>2, DeleteErases DEF TrkDelete
    <3>3. CASE TrkStart
      BY <3>3 DEF TrkStart, Store!vars
    <3>. QED BY <2>5, <3>1, <3>2, <3>3 DEF Tracker
  <2>6. CASE Render
    <3>1. CASE RenderStart
      <4>1. repo' = repo \/ DeleteFrame(vSeq)
        BY <3>1 DEF RenderStart
      <4>2. UNCHANGED <<nextSeq, detecting, tracking, rendering>>
        BY <3>1 DEF RenderStart
      <4>. QED BY <4>1, <4>2, DeleteErases DEF Store!vars
    <3>2. CASE RenderBegin
      BY <3>2, LoweringUnpins DEF RenderBegin
    <3>3. CASE RenderDelete
      BY <3>3, DeleteErases DEF RenderDelete
    <3>4. CASE RenderLookup \/ RenderEnd
      BY <3>4 DEF RenderLookup, RenderEnd, Store!vars
    <3>. QED BY <2>6, <3>1, <3>2, <3>3, <3>4 DEF Render
  <2>7. CASE Stop
    BY <2>7 DEF Stop, StopTerminate, StopUninitialise, Store!vars
  <2>8. CASE UNCHANGED vars
    BY <2>8 DEF Store!vars
  <2>. QED BY <2>1, <2>2, <2>3, <2>4, <2>5, <2>6, <2>7, <2>8 DEF Next
<1>. QED BY <1>1, <1>2, Invariance, PTL DEF Spec, StoreSpec, Store!Spec


-----------------------------------------------------------------------------
(* Upstream of the queue: the handler that converts images on the CPU      *)
(* (module CPUFrames).                                                     *)

\* An image in hand is not yet one of those kept, for which the reader has room.
HandHasRoom == pc # "loop" => unclosed < Room

ReaderInv == ReaderTypeOK /\ HandHasRoom /\ LateOnlyAfterLeak

\* An image that is taken is one of the reader's; the rest stays there.
LEMMA ImageTaken ==
    ASSUME ReaderTypeOK, ready # <<>>, Take
    PROVE  image' \in 1 .. MaxImages /\ ready' \in Seq(1 .. MaxImages)
<1>. DEFINE Images == 1 .. MaxImages
<1>1. ready \in Seq(Images)
  BY DEF ReaderTypeOK
<1>. HIDE DEF Images
<1>2. /\ Len(ready) \in 1 .. Len(ready) /\ ready[Len(ready)] \in Images
      /\ Head(ready) \in Images /\ Tail(ready) \in Seq(Images) /\ <<>> \in Seq(Images)
  BY <1>1
<1>3. image' \in Images /\ ready' \in Seq(Images)
  BY <1>2 DEF Take
<1>. QED BY <1>3 DEF Images

\* acquireLatestImage leaves images behind only for want of room to look further.
LEMMA LatestTaken ==
    ASSUME ReaderTypeOK, Take, ready' # <<>>
    PROVE  unclosed > 0
BY FramesAssumption DEF ReaderTypeOK, Take

\* The image reader never gets a slot back that a worker kept from it.
LEMMA ReaderStep ==
    ASSUME ReaderInv, [ReaderNext]_readerVars
    PROVE  ReaderInv'
<1>. USE DEF readerVars, thread, ReaderInv
<1>1. CASE AcquireImage
  <2>1. image' \in 1 .. MaxImages /\ ready' \in Seq(1 .. MaxImages)
    BY <1>1, ImageTaken DEF AcquireImage
  <2>2. ReaderTypeOK' /\ HandHasRoom'
    BY <1>1, <2>1 DEF AcquireImage, HasMessage, ReaderTypeOK, HandHasRoom
  <2>3. LateOnlyAfterLeak'
    BY <1>1, LatestTaken DEF AcquireImage, LateOnlyAfterLeak
  <2>. QED BY <2>2, <2>3
<1>2. CASE CameraMakes
  <2>1. Append(ready, made + 1) \in Seq(1 .. MaxImages)
    BY <1>2, FramesAssumption DEF CameraMakes, ReaderTypeOK
  <2>2. ReaderTypeOK'
    BY <1>2, <2>1, FramesAssumption DEF CameraMakes, ReaderTypeOK
  <2>. QED BY <1>2, <2>2 DEF CameraMakes, HandHasRoom, LateOnlyAfterLeak
<1>3. CASE StopPreview \/ FrameFreed \/ UNCHANGED readerVars
  <2>0. session' \in BOOLEAN /\ stopping' \in BOOLEAN /\ behind' \in BOOLEAN
    BY <1>3, Zenon DEF StopPreview, FrameFreed, ReaderTypeOK
  <2>1. ReaderTypeOK' /\ HandHasRoom'
    BY <1>3, <2>0 DEF StopPreview, FrameFreed, ReaderTypeOK, HandHasRoom
  <2>2. LateOnlyAfterLeak'
    BY <1>3, <2>1 DEF StopPreview, FrameFreed, LateOnlyAfterLeak
  <2>. QED BY <2>1, <2>2
<1>4. CASE NoImage \/ AcquireThrows \/ LooperEnds
  <2>1. ReaderTypeOK' /\ HandHasRoom'
    BY <1>4 DEF NoImage, AcquireThrows, LooperEnds, HasMessage, ReaderTypeOK, HandHasRoom
  <2>2. LateOnlyAfterLeak'
    BY <1>4, <2>1 DEF NoImage, AcquireThrows, LooperEnds, HasMessage, LateOnlyAfterLeak
  <2>. QED BY <2>1, <2>2
<1>5. CASE StopCamera \/ Accept
  <2>1. ReaderTypeOK' /\ HandHasRoom'
    BY <1>5 DEF StopCamera, Accept, ReaderTypeOK, HandHasRoom
  <2>2. LateOnlyAfterLeak'
    BY <1>5, <2>1 DEF StopCamera, Accept, LateOnlyAfterLeak
  <2>. QED BY <2>1, <2>2
<1>6. CASE Stopped \/ StillStopping \/ Throttle
  <2>0. session' \in BOOLEAN /\ stopping' \in BOOLEAN /\ behind' \in BOOLEAN
    BY <1>6, Zenon DEF Stopped, StillStopping, Throttle, ReaderTypeOK
  <2>1. ReaderTypeOK' /\ HandHasRoom'
    BY <1>6, <2>0, FramesAssumption DEF Stopped, StillStopping, Throttle, KeepImage, ReaderTypeOK,
              HandHasRoom
  <2>2. LateOnlyAfterLeak'
    BY <1>6, <2>1 DEF Stopped, StillStopping, Throttle, KeepImage, LateOnlyAfterLeak
  <2>. QED BY <2>1, <2>2
<1>7. CASE Enqueue \/ EnqueueNothing \/ OutOfMemory
  <2>0. session' \in BOOLEAN /\ stopping' \in BOOLEAN /\ behind' \in BOOLEAN
    BY <1>7, Zenon DEF Enqueue, EnqueueNothing, OutOfMemory, ReaderTypeOK
  <2>1. ReaderTypeOK' /\ HandHasRoom'
    BY <1>7, <2>0, FramesAssumption
       DEF Enqueue, EnqueueNothing, OutOfMemory, Close, ReaderTypeOK, HandHasRoom
  <2>2. LateOnlyAfterLeak'
    BY <1>7 DEF Enqueue, EnqueueNothing, OutOfMemory, Close, LateOnlyAfterLeak
  <2>. QED BY <2>1, <2>2
<1>. QED BY <1>1, <1>2, <1>3, <1>4, <1>5, <1>6, <1>7 DEF ReaderNext, HandlerThread

\* Whatever the room for images, the size of the queue and the number of frames
\* in flight: an image in hand has left room in the reader (onImageAvailable).
THEOREM ReaderInvariance == ReaderSpec => []ReaderInv
<1>1. ReaderInit => ReaderInv
  <2>. SUFFICES ASSUME ReaderInit PROVE ReaderInv
    OBVIOUS
  <2>0. session \in BOOLEAN /\ stopping \in BOOLEAN /\ behind \in BOOLEAN
    BY Zenon DEF ReaderInit
  <2>1. ReaderTypeOK
    BY <2>0, FramesAssumption DEF ReaderInit, ReaderTypeOK
  <2>2. HandHasRoom /\ LateOnlyAfterLeak
    BY FramesAssumption DEF ReaderInit, HandHasRoom, LateOnlyAfterLeak
  <2>. QED BY <2>1, <2>2 DEF ReaderInv
<1>2. ReaderInv /\ [ReaderNext]_readerVars => ReaderInv'
  BY ReaderStep
<1>. QED BY <1>1, <1>2, PTL DEF ReaderSpec

\* onImageAvailable hands on the newest image there is until an early return has
\* kept one (acquireLatestImage, and the returns of CPUFrameHandler.kt without
\* close); for any number of images that the reader has room for, above one.
THEOREM LateFrames == ReaderSpec => []LateOnlyAfterLeak
<1>1. ReaderInv => LateOnlyAfterLeak
  BY DEF ReaderInv
<1>. QED BY <1>1, ReaderInvariance, PTL

\* Once early returns have kept as many images as the reader has room for, none
\* is given back and no further frame reaches the pipeline, whatever it frees.
THEOREM NoFrameAgain == ReaderSpec => DeafForever
<1>1. ASSUME ReaderInv, [ReaderNext]_readerVars, unclosed = Room
      PROVE  unclosed' = Room /\ delivered' = delivered
  <2>1. pc = "loop"
    BY <1>1, FramesAssumption DEF ReaderInv, HandHasRoom, ReaderTypeOK
  <2>2. CASE CameraMakes \/ StopPreview \/ FrameFreed \/ UNCHANGED readerVars
    BY <1>1, <2>2 DEF CameraMakes, StopPreview, FrameFreed, readerVars, thread
  <2>3. CASE HandlerThread
    BY <1>1, <2>1, <2>3
       DEF HandlerThread, AcquireImage, NoImage, AcquireThrows,
           StopCamera, Stopped, StillStopping, Throttle,
           Accept, Enqueue, EnqueueNothing, OutOfMemory,
           LooperEnds
  <2>. QED BY <1>1, <2>2, <2>3 DEF ReaderNext
<1>2. ReaderInv /\ [ReaderNext]_readerVars
         => [unclosed = Room => unclosed' = Room /\ delivered' = delivered]_readerVars
  BY <1>1
<1>. QED BY <1>2, ReaderInvariance, PTL DEF ReaderSpec, DeafForever

=============================================================================
