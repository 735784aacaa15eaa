-------------------------- MODULE FaceOverlayProofs --------------------------
(***************************************************************************)
(* Proofs about FaceOverlay for every number of frames, scan limit and     *)
(* width: the numbers that detector and renderer exchange keep the two off *)
(* each other's cut-outs.  Each part of IInv has a lemma of its own.       *)
(***************************************************************************)
EXTENDS FaceOverlay, TLAPS

\* What an action leaves alone is always visible.
USE DEF mapVars, detVars, renderVars, vars

\* Every step of either side, spelled out.
USE DEF Detector, Renderer, Next

-----------------------------------------------------------------------------

\* The number the detector computes does not wrap: currentRenderOverlay is never 0.
LEMMA TypeStep ==
    ASSUME IInv, [Next]_vars
    PROVE  TypeOK'
<1>. USE OverlayAssumption DEF IInv, TypeOK, Overlays, None
<1>1. CASE DetectFace
  BY <1>1 DEF DetectFace, Pred, NumberOrder
<1>2. CASE ScanNext
  BY <1>2 DEF ScanNext
<1>3. CASE ScanEnd \/ CheckOverlay
  BY <1>3 DEF ScanEnd, CheckOverlay
<1>4. CASE FreeOverlay
  BY <1>4 DEF FreeOverlay, CleanUp
<1>5. CASE EraseFreed
  BY <1>5 DEF EraseFreed
<1>6. CASE InsertOverlay
  <2>1. dSeq \in 1 .. MaxSeq
    BY <1>6 DEF InsertOverlay, NumberOrder
  <2>. QED BY <1>6, <2>1 DEF InsertOverlay
<1>7. CASE InsertFails \/ AnnounceFace
  <2>1. CASE InsertFails
    BY <2>1 DEF InsertFails
  <2>2. CASE AnnounceFace
    BY <2>2 DEF AnnounceFace
  <2>. QED BY <1>7, <2>1, <2>2
<1>8. CASE DrawNew \/ FindOverlay
  BY <1>8 DEF DrawNew, FindOverlay
<1>9. CASE MarkInUse
  BY <1>9 DEF MarkInUse, AnnouncedLinked, Drawing
<1>10. CASE ReplaceLast
  BY <1>10 DEF ReplaceLast
<1>11. CASE AnnounceRendered
  BY <1>11 DEF AnnounceRendered, NumberOrder, Drawing
<1>12. CASE Unlink
  BY <1>12 DEF Unlink
<1>13. CASE UNCHANGED vars
  BY <1>13
<1>. QED BY <1>1, <1>2, <1>3, <1>4, <1>5, <1>6, <1>7, <1>8, <1>9, <1>10, <1>11, <1>12, <1>13

\* Rendered, looked up, announced, detected: each number is written by one side,
\* and only ever raised to what the other has published.
LEMMA NumberOrderStep ==
    ASSUME IInv, [Next]_vars
    PROVE  NumberOrder'
<1>. USE DEF IInv, TypeOK, NumberOrder, Cleaning, Drawing, None
<1>1. CASE DetectFace
  BY <1>1 DEF DetectFace, Pred
<1>2. CASE Detector /\ ~DetectFace
  BY <1>2 DEF ScanNext, ScanEnd, CheckOverlay, FreeOverlay, EraseFreed, InsertOverlay,
     InsertFails, AnnounceFace
<1>3. CASE Renderer
  BY <1>3 DEF DrawNew, FindOverlay, MarkInUse, ReplaceLast, AnnounceRendered, Unlink,
     AnnouncedLinked
<1>4. CASE UNCHANGED vars
  BY <1>4
<1>. QED BY <1>1, <1>2, <1>3, <1>4

\* The detector goes on to delete only what it found alive and old.
LEMMA CleanUpStep ==
    ASSUME IInv, [Next]_vars
    PROVE  CleanUp'
<1>. USE DEF IInv, TypeOK, CleanUp, None, Overlays
<1>1. CASE DetectFace
  BY <1>1 DEF DetectFace, Pred
<1>2. CASE ScanNext
  BY <1>2 DEF ScanNext, NoOverlayLost
<1>3. CASE ScanEnd
  BY <1>3 DEF ScanEnd
<1>4. CASE CheckOverlay
  BY <1>4 DEF CheckOverlay
<1>5. CASE FreeOverlay
  BY <1>5 DEF FreeOverlay
<1>6. CASE EraseFreed
  BY <1>6 DEF EraseFreed
<1>7. CASE InsertOverlay \/ InsertFails \/ AnnounceFace
  BY <1>7 DEF InsertOverlay, InsertFails, AnnounceFace
<1>8. CASE ReplaceLast
  <2>1. dPc \in {"check", "free"} /\ cursor < delSeq => cursor # lastOverlay
    BY DEF NumberOrder, Cleaning
  <2>. QED BY <1>8, <2>1 DEF ReplaceLast
<1>9. CASE Renderer /\ ~ReplaceLast
  BY <1>9 DEF DrawNew, FindOverlay, MarkInUse, AnnounceRendered, Unlink
<1>10. CASE UNCHANGED vars
  BY <1>10
<1>. QED BY <1>1, <1>2, <1>3, <1>4, <1>5, <1>6, <1>7, <1>8, <1>9, <1>10

\* Erasing takes nothing from the map that the renderer may still look for.
LEMMA AnnouncedLinkedStep ==
    ASSUME IInv, [Next]_vars
    PROVE  AnnouncedLinked'
<1>. USE DEF IInv, TypeOK, AnnouncedLinked, NumberOrder, Drawing, Cleaning, None, Overlays
<1>1. CASE EraseFreed
  <2>1. PICK s \in dels : linked' = linked \ {s}
    BY <1>1 DEF EraseFreed
  <2>2. UNCHANGED <<lastFaceOverlay, lastSeq, dSeq, dPc, vPc>>
    BY <1>1 DEF EraseFreed
  <2>3. dPc = "erase"
    BY <1>1 DEF EraseFreed
  \* What is erased is older than anything announced and not yet taken over.
  <2>4. s < currentRenderOverlay
    BY <2>1, <2>3 DEF CleanUp
  <2>5. lastFaceOverlay > lastSeq => s < lastFaceOverlay
    BY <2>4, <2>1
  <2>6. Drawing => s < lastSeq
    BY <2>4, <2>1
  <2>7. linked' \subseteq linked
    BY <2>1
  <2>8. (lastFaceOverlay > lastSeq => lastFaceOverlay \in linked)'
    BY <2>1, <2>2, <2>5
  <2>9. (Drawing => lastSeq \in linked)'
    BY <2>1, <2>2, <2>6
  <2>. QED BY <2>2, <2>3, <2>7, <2>8, <2>9
<1>2. CASE DetectFace
  BY <1>2 DEF DetectFace
<1>3. CASE ScanNext \/ ScanEnd \/ CheckOverlay \/ FreeOverlay
  BY <1>3 DEF ScanNext, ScanEnd, CheckOverlay, FreeOverlay
<1>4. CASE InsertOverlay
  BY <1>4 DEF InsertOverlay
<1>5. CASE InsertFails
  BY <1>5 DEF InsertFails
<1>6. CASE AnnounceFace
  BY <1>6 DEF AnnounceFace
<1>7. CASE DrawNew
  BY <1>7 DEF DrawNew
<1>8. CASE FindOverlay \/ MarkInUse \/ AnnounceRendered
  BY <1>8 DEF FindOverlay, MarkInUse, AnnounceRendered
<1>9. CASE ReplaceLast
  BY <1>9 DEF ReplaceLast
<1>10. CASE Unlink
  BY <1>10 DEF Unlink
<1>11. CASE UNCHANGED vars
  BY <1>11
<1>. QED BY <1>1, <1>2, <1>3, <1>4, <1>5, <1>6, <1>7, <1>8, <1>9, <1>10, <1>11

\* The renderer unlinks a cut-out before it marks the next one.
LEMMA InUseLinkedStep ==
    ASSUME IInv, [Next]_vars
    PROVE  InUseLinked'
<1>. USE DEF IInv, TypeOK, InUseLinked, NumberOrder, Drawing, None, Overlays
<1>1. CASE EraseFreed
  BY <1>1 DEF EraseFreed
<1>2. CASE InsertOverlay
  BY <1>2 DEF InsertOverlay
<1>3. CASE Detector /\ ~EraseFreed /\ ~InsertOverlay
  BY <1>3 DEF DetectFace, ScanNext, ScanEnd, CheckOverlay, FreeOverlay, InsertFails,
     AnnounceFace
<1>4. CASE DrawNew
  <2>1. inUse \cap linked = {}
    BY <1>4 DEF DrawNew
  <2>. QED BY <1>4, <2>1 DEF DrawNew
<1>5. CASE FindOverlay
  BY <1>5 DEF FindOverlay
<1>6. CASE MarkInUse
  BY <1>6 DEF MarkInUse
<1>7. CASE ReplaceLast \/ AnnounceRendered \/ Unlink
  BY <1>7 DEF ReplaceLast, AnnounceRendered, Unlink
<1>8. CASE UNCHANGED vars
  BY <1>8
<1>. QED BY <1>1, <1>2, <1>3, <1>4, <1>5, <1>6, <1>7, <1>8

\* Whoever takes a node out of the map has the object or has deleted it.
LEMMA NoOverlayLostStep ==
    ASSUME IInv, [Next]_vars
    PROVE  NoOverlayLost'
<1>. USE DEF IInv, TypeOK, NoOverlayLost, CleanUp, None, Overlays
<1>1. CASE Detector
  BY <1>1 DEF DetectFace, ScanNext, ScanEnd, CheckOverlay, FreeOverlay, EraseFreed,
     InsertOverlay, InsertFails, AnnounceFace
<1>2. CASE Renderer
  BY <1>2 DEF DrawNew, FindOverlay, MarkInUse, ReplaceLast, AnnounceRendered, Unlink,
     NumberOrder, Drawing, AnnouncedLinked
<1>3. CASE UNCHANGED vars
  BY <1>3
<1>. QED BY <1>1, <1>2, <1>3

\* What the detector deletes is older than anything the renderer holds.
LEMMA RendererReadsLiveStep ==
    ASSUME IInv, [Next]_vars
    PROVE  RendererReadsLive'
<1>. USE DEF IInv, TypeOK, RendererReadsLive, NumberOrder, Drawing, Cleaning, None, Overlays
<1>1. CASE Detector
  BY <1>1 DEF DetectFace, ScanNext, ScanEnd, CheckOverlay, FreeOverlay, EraseFreed,
     InsertOverlay, InsertFails, AnnounceFace, CleanUp
<1>2. CASE FindOverlay
  BY <1>2 DEF FindOverlay, NoOverlayLost, CleanUp
<1>3. CASE Renderer /\ ~FindOverlay
  BY <1>3 DEF DrawNew, MarkInUse, ReplaceLast, AnnounceRendered, Unlink
<1>4. CASE UNCHANGED vars
  BY <1>4
<1>. QED BY <1>1, <1>2, <1>3, <1>4

\* A cut-out in use is not older than the one announced as rendered.
LEMMA InUseRedundantStep ==
    ASSUME IInv, [Next]_vars
    PROVE  InUseRedundant'
<1>. USE DEF IInv, TypeOK, InUseRedundant, NumberOrder, Drawing, Cleaning, None, Overlays
<1>1. CASE Detector
  BY <1>1 DEF DetectFace, ScanNext, ScanEnd, CheckOverlay, FreeOverlay, EraseFreed,
     InsertOverlay, InsertFails, AnnounceFace, InUseLinked
<1>2. CASE Renderer
  BY <1>2 DEF DrawNew, FindOverlay, MarkInUse, ReplaceLast, AnnounceRendered, Unlink
<1>3. CASE UNCHANGED vars
  BY <1>3
<1>. QED BY <1>1, <1>2, <1>3

\* The inductive invariant of the overlay exchange.
THEOREM OverlayInvariance == Spec => []IInv
<1>1. Init => IInv
  BY OverlayAssumption DEF Init, InitFrom, IInv, TypeOK, NumberOrder, CleanUp,
     AnnouncedLinked, InUseLinked, NoOverlayLost, RendererReadsLive, InUseRedundant,
     Drawing, Cleaning, None, Overlays
<1>2. IInv /\ [Next]_vars => IInv'
  BY TypeStep, NumberOrderStep, CleanUpStep, AnnouncedLinkedStep, InUseLinkedStep,
     NoOverlayLostStep, RendererReadsLiveStep, InUseRedundantStep DEF IInv
<1>. QED BY <1>1, <1>2, PTL DEF Spec

-----------------------------------------------------------------------------
(* What follows from the invariant.                                        *)

\* Types, and no wrap-around of the number the detector computes.
THEOREM OverlayTypes == Spec => []TypeOK
BY OverlayInvariance, PTL DEF IInv

\* The renderer finds what the detector has announced to it: "Could not find
\* face overlay" is dead code.
THEOREM AnnouncedIsFound == Spec => []RendererFindsOverlay
<1>1. IInv => RendererFindsOverlay
  BY DEF IInv, AnnouncedLinked, Drawing, RendererFindsOverlay
<1>. QED BY <1>1, OverlayInvariance, PTL

\* The renderer draws from no cut-out that the detector has deleted.
THEOREM DrawsLiveOverlays == Spec => []RendererReadsLive
BY OverlayInvariance, PTL DEF IInv

\* The renderer finds what was announced to it, and finds it alive.
THEOREM ServesRenderer == Spec => []RendererServed
BY AnnouncedIsFound, DrawsLiveOverlays, PTL DEF RendererServed

\* The detector deletes each cut-out once, and never the renderer's.
THEOREM DeletesOnce == Spec => []FreedOnce
<1>1. IInv => FreedOnce
  <2>. SUFFICES ASSUME IInv, dPc = "free" PROVE FreedOnce
    BY DEF FreedOnce
  <2>. USE DEF IInv, TypeOK, NumberOrder, Cleaning, Drawing, None, Overlays
  <2>1. cursor \in alive /\ cursor < currentRenderOverlay
    BY DEF CleanUp
  <2>2. Locked(cursor) => currentRenderOverlay <= cursor
    BY DEF Locked
  <2>3. cursor # lastOverlay
    BY <2>1 DEF CleanUp
  <2>. QED BY <2>1, <2>2, <2>3 DEF FreedOnce
<1>. QED BY <1>1, OverlayInvariance, PTL

\* DetectedROI::inUse could be dropped.
THEOREM InUseAddsNothing == Spec => []InUseRedundant
BY OverlayInvariance, PTL DEF IInv

\* Every cut-out is within reach of somebody who will delete it.
THEOREM NoneLost == Spec => []NoOverlayLost
BY OverlayInvariance, PTL DEF IInv

\* The screen only ever moves on to newer faces.
THEOREM ScreenOnlyAdvances == Spec => ScreenAdvances
<1>1. IInv /\ [Next]_vars =>
         [/\ currentRenderOverlay' >= currentRenderOverlay
          /\ lastOverlay' # lastOverlay => lastOverlay' > lastOverlay]_vars
  <2>. SUFFICES ASSUME IInv, Next
                PROVE  /\ currentRenderOverlay' >= currentRenderOverlay
                       /\ lastOverlay' # lastOverlay => lastOverlay' > lastOverlay
    OBVIOUS
  <2>. USE DEF IInv, TypeOK, NumberOrder, Drawing, None
  <2>1. CASE Detector
    BY <2>1 DEF DetectFace, ScanNext, ScanEnd, CheckOverlay, FreeOverlay, EraseFreed,
       InsertOverlay, InsertFails, AnnounceFace
  <2>2. CASE Renderer
    BY <2>2 DEF DrawNew, FindOverlay, MarkInUse, ReplaceLast, AnnounceRendered, Unlink
  <2>. QED BY <2>1, <2>2
<1>. QED BY <1>1, OverlayInvariance, PTL DEF Spec, ScreenAdvances

-----------------------------------------------------------------------------
(* The exchange implements what Handover promises.                         *)

USE DEF Cleaning

\* Between two frames that do not follow each other there is another.
LEMMA FramesBetween ==
    ASSUME NEW m \in Nat, NEW n \in Nat, n > m, n # m + 1
    PROVE  n - 1 \in Nat /\ n - 1 > m
OBVIOUS

\* The detector makes, skips and discards, or does nothing Handover sees.
LEMMA DetectorHandsOver ==
    ASSUME IInv, Detector
    PROVE  Exchange!Next \/ UNCHANGED Exchange!vars
<1>. USE OverlayAssumption DEF IInv, TypeOK, NumberOrder, None, Overlays, Exchange!vars
<1>1. CASE DetectFace
  \* What is skipped are the frames without a face since the last one.
  <2>1. UNCHANGED <<alive, lastOverlay>> /\ dPc = "idle" /\ dPc' = "scan"
    BY <1>1 DEF DetectFace
  <2>2. dSeq \in Nat /\ dSeq' \in Nat /\ dSeq' > dSeq
    BY <1>1 DEF DetectFace
  <2>3. CASE dSeq' = dSeq + 1
    BY <2>1, <2>2, <2>3
  <2>4. CASE dSeq' # dSeq + 1
    <3>1. dSeq' - 1 \in Nat /\ dSeq' - 1 > dSeq
      BY <2>2, <2>4, FramesBetween
    <3>2. Exchange!Skip
      BY <2>1, <3>1 DEF Exchange!Skip
    <3>. QED BY <3>2 DEF Exchange!Next
  <2>. QED BY <2>3, <2>4
<1>2. CASE ScanNext \/ ScanEnd \/ CheckOverlay \/ EraseFreed \/ AnnounceFace
  BY <1>2 DEF ScanNext, ScanEnd, CheckOverlay, EraseFreed, AnnounceFace
<1>3. CASE FreeOverlay
  <2>1. dPc = "free" /\ cursor \in alive /\ cursor < currentRenderOverlay
    BY <1>3 DEF FreeOverlay, CleanUp
  \* The renderer's own has at least the number it has announced.
  <2>2. cursor # lastOverlay
    BY <2>1 DEF CleanUp
  <2>3. /\ alive' = alive \ {cursor} /\ UNCHANGED <<lastOverlay, dSeq>>
        /\ dPc' = "scan"
    BY <1>3 DEF FreeOverlay
  <2>4. Exchange!Discard
    BY <2>1, <2>2, <2>3 DEF Exchange!Discard
  <2>. QED BY <2>4 DEF Exchange!Next
<1>4. CASE InsertOverlay
  <2>1. /\ alive' = alive \cup {dSeq} /\ UNCHANGED <<lastOverlay, dSeq>>
        /\ dPc = "erase" /\ dPc' = "announce"
    BY <1>4 DEF InsertOverlay
  <2>2. Exchange!Make
    BY <2>1 DEF Exchange!Make
  <2>. QED BY <2>2 DEF Exchange!Next
<1>5. CASE InsertFails
  <2>1. UNCHANGED <<alive, lastOverlay, dSeq>> /\ dPc = "erase" /\ dPc' = "idle"
    BY <1>5 DEF InsertFails
  <2>2. Exchange!Skip
    BY <2>1 DEF Exchange!Skip
  <2>. QED BY <2>2 DEF Exchange!Next
<1>. QED BY <1>1, <1>2, <1>3, <1>4, <1>5

\* The renderer replaces what it shows, and no other step of it is seen.
LEMMA RendererHandsOver ==
    ASSUME IInv, Renderer
    PROVE  Exchange!Next \/ UNCHANGED Exchange!vars
<1>. USE DEF IInv, TypeOK, NumberOrder, Exchange!vars
<1>1. CASE ReplaceLast
  <2>1. /\ lastOverlay' = lastSeq /\ alive' = alive \ {lastOverlay}
        /\ UNCHANGED <<dSeq, dPc>>
    BY <1>1 DEF ReplaceLast
  \* The new one is alive, and newer than the one it replaces.
  <2>2. lastSeq \in alive /\ lastSeq # lastOverlay
    BY <1>1 DEF ReplaceLast, RendererReadsLive, Drawing
  <2>3. Exchange!Replace
    BY <2>1, <2>2 DEF Exchange!Replace
  <2>. QED BY <2>3 DEF Exchange!Next
<1>2. CASE Renderer /\ ~ReplaceLast
  BY <1>2 DEF DrawNew, FindOverlay, MarkInUse, AnnounceRendered, Unlink
<1>. QED BY <1>1, <1>2

\* Detector and renderer, with nothing but numbers between them, keep the
\* promises of Handover: each cut-out is made under a number of its own, shown
\* while it exists, and deleted once, the one on the screen only by the renderer.
THEOREM OverlayImplementsHandover == Spec => HandoverSpec
<1>1. Init => Exchange!Init
  BY DEF Init, InitFrom, Exchange!Init, None
<1>2. IInv /\ [Next]_vars => [Exchange!Next]_(Exchange!vars)
  <2>. SUFFICES ASSUME IInv, [Next]_vars PROVE Exchange!Next \/ UNCHANGED Exchange!vars
    OBVIOUS
  <2>1. CASE UNCHANGED vars
    BY <2>1 DEF Exchange!vars
  <2>. QED BY <2>1, DetectorHandsOver, RendererHandsOver
<1>. QED BY <1>1, <1>2, OverlayInvariance, PTL DEF Spec, HandoverSpec, Exchange!Spec

=============================================================================
