----------------------------- MODULE FaceOverlay -----------------------------
(***************************************************************************)
(* The rear-and-front architecture draws the face found by the front       *)
(* camera over the rear camera's picture.  FaceOverlayTBBDetector puts a   *)
(* cut-out (DetectedROI) into the map Repository::faceOverlays and         *)
(* announces its number in lastFaceOverlay; ArchVulkanRenderer::draw, on   *)
(* the thread of the rear render node, takes the announced one over,       *)
(* announces that in currentRenderOverlay and draws it until the next one  *)
(* comes.  Cut-outs the renderer never got to see are freed by the         *)
(* detector, which walks through the map and judges by the numbers alone.  *)
(*                                                                         *)
(* A cut-out is its number.  It is linked while the map has a node for it, *)
(* and alive until somebody deletes the object the node points to.         *)
(***************************************************************************)
EXTENDS Integers, FiniteSets

CONSTANTS
    MaxSeq,         \* bound: the last number of a front camera frame
    ScanLimit,      \* entries the detector looks at before it gives up (6)
    Width           \* numbers are unsigned and wrap here (2^64)

ASSUME OverlayAssumption ==
    /\ MaxSeq \in Nat
    /\ ScanLimit \in Nat
    /\ Width \in Nat /\ Width > MaxSeq

Overlays == 1 .. MaxSeq       \* the router skips frame number 0
None == 0                     \* a null pointer

VARIABLES
    linked, alive,  \* the nodes of faceOverlays, and the objects not deleted
    inUse,          \* the objects whose inUse is set
    lastFaceOverlay, currentRenderOverlay,
    \* FaceOverlayTBBDetector::operator(): where it is, its frame, its locals
    dPc, dSeq, delSeq, visited, cursor, dels,
    \* ArchVulkanRenderer::draw and its ArchVulkanRendererState
    vPc, lastSeq, lastOverlay

mapVars == <<linked, alive, inUse, lastFaceOverlay, currentRenderOverlay>>
detVars == <<dPc, dSeq, delSeq, visited, cursor, dels>>
renderVars == <<vPc, lastSeq, lastOverlay>>
vars == <<mapVars, detVars, renderVars>>

InitFrom(current) ==
    /\ linked = {} /\ alive = {} /\ inUse = {}
    /\ lastFaceOverlay = 0 /\ currentRenderOverlay = current
    /\ dPc = "idle" /\ dSeq = 0 /\ delSeq = 0
    /\ visited = {} /\ cursor = None /\ dels = {}
    /\ vPc = "idle" /\ lastSeq = 0 /\ lastOverlay = None

\* Mutant of Init: both counters start at 0.
InitAtZero == InitFrom(0)

Init == InitFrom(1)

\* n - 1 in unsigned arithmetic.
Pred(n) == IF n = 0 THEN Width - 1 ELSE n - 1

\* The renderer holds the accessor of the node it has found.
Locked(s) == vPc \in {"mark", "replace", "announce", "unlink"} /\ lastSeq = s

-----------------------------------------------------------------------------
(* The detector.  A frame without a face changes nothing here.             *)

\* Mutant of DetectFace: everything up to the newest cut-out may go, whether the
\* renderer got as far or not.
DetectFaceEager ==
    /\ dPc = "idle"
    /\ dSeq' \in dSeq + 1 .. MaxSeq
    /\ delSeq' = lastFaceOverlay + 1
    /\ dPc' = "scan"
    /\ UNCHANGED <<mapVars, visited, cursor, dels, renderVars>>

\* A face in a frame: what is older than the overlay before the one on the
\* screen may go.
DetectFace ==
    /\ dPc = "idle"
    /\ dSeq' \in dSeq + 1 .. MaxSeq
    /\ delSeq' = Pred(currentRenderOverlay)
    /\ dPc' = "scan"
    /\ UNCHANGED <<mapVars, visited, cursor, dels, renderVars>>

\* begin() or ++it: the order of the hash map is arbitrary to us.
ScanNext ==
    /\ dPc = "scan" /\ Cardinality(visited) < ScanLimit
    /\ \E s \in linked \ visited :
          cursor' = s /\ visited' = visited \cup {s}
    /\ dPc' = "check"
    /\ UNCHANGED <<mapVars, dSeq, delSeq, dels, renderVars>>

\* The walk is over; it may also end early when ++it starts from a node that
\* the renderer has freed (ScanNext is the outcome where it goes on).
ScanEnd ==
    /\ dPc = "scan"
    /\ \/ linked \subseteq visited
       \/ Cardinality(visited) = ScanLimit
       \/ cursor # None /\ cursor \notin linked
    /\ dPc' = "erase"
    /\ UNCHANGED <<mapVars, dSeq, delSeq, visited, cursor, dels, renderVars>>

\* inUse, then the number; of a deleted object inUse reads as anything.
CheckOverlay ==
    /\ dPc = "check"
    /\ \E used \in BOOLEAN :
          /\ cursor \in alive => (used <=> cursor \in inUse)
          /\ dPc' = IF ~used /\ cursor < delSeq THEN "free" ELSE "scan"
    /\ UNCHANGED <<mapVars, dSeq, delSeq, visited, cursor, dels, renderVars>>

\* Image and object go now, the node later.
FreeOverlay ==
    /\ dPc = "free"
    /\ alive' = alive \ {cursor}
    /\ dels' = dels \cup {cursor}
    /\ dPc' = "scan"
    /\ UNCHANGED <<linked, inUse, lastFaceOverlay, currentRenderOverlay,
                   dSeq, delSeq, visited, cursor, renderVars>>

EraseFreed ==
    /\ dPc = "erase"
    /\ \E s \in dels :
          /\ ~Locked(s)
          /\ linked' = linked \ {s}
          /\ dels' = dels \ {s}
    /\ UNCHANGED <<alive, inUse, lastFaceOverlay, currentRenderOverlay,
                   dPc, dSeq, delSeq, visited, cursor, renderVars>>

InsertOverlay ==
    /\ dPc = "erase" /\ dels = {}
    /\ linked' = linked \cup {dSeq}
    /\ alive' = alive \cup {dSeq}
    /\ dPc' = "announce"
    /\ visited' = {} /\ cursor' = None
    /\ UNCHANGED <<inUse, lastFaceOverlay, currentRenderOverlay, dSeq, delSeq, dels, renderVars>>

\* Cutting the face out throws: the frame leaves no overlay.
InsertFails ==
    /\ dPc = "erase" /\ dels = {}
    /\ dPc' = "idle"
    /\ visited' = {} /\ cursor' = None
    /\ UNCHANGED <<mapVars, dSeq, delSeq, dels, renderVars>>

AnnounceFace ==
    /\ dPc = "announce"
    /\ lastFaceOverlay' = dSeq
    /\ dPc' = "idle"
    /\ UNCHANGED <<linked, alive, inUse, currentRenderOverlay,
                   dSeq, delSeq, visited, cursor, dels, renderVars>>

-----------------------------------------------------------------------------
(* The renderer.  A draw that finds no news draws lastOverlay again.       *)

DrawNew ==
    /\ vPc = "idle" /\ lastSeq # lastFaceOverlay
    /\ lastSeq' = lastFaceOverlay
    /\ vPc' = "find"
    /\ UNCHANGED <<mapVars, detVars, lastOverlay>>

\* "Could not find face overlay" otherwise.
FindOverlay ==
    /\ vPc = "find"
    /\ vPc' = IF lastSeq \in linked THEN "mark" ELSE "idle"
    /\ UNCHANGED <<mapVars, detVars, lastSeq, lastOverlay>>

MarkInUse ==
    /\ vPc = "mark"
    /\ inUse' = inUse \cup {lastSeq}
    /\ vPc' = "replace"
    /\ UNCHANGED <<linked, alive, lastFaceOverlay, currentRenderOverlay,
                   detVars, lastSeq, lastOverlay>>

\* Mutant of ReplaceLast: the previous overlay is never deleted.
ReplaceLastKeeps ==
    /\ vPc = "replace"
    /\ lastOverlay' = lastSeq
    /\ vPc' = "announce"
    /\ UNCHANGED <<mapVars, detVars, lastSeq>>

\* Drawn: the previous overlay is erased and deleted, and this one kept.
ReplaceLast ==
    /\ vPc = "replace"
    /\ linked' = linked \ {lastOverlay}
    /\ alive' = alive \ {lastOverlay}
    /\ lastOverlay' = lastSeq
    /\ vPc' = "announce"
    /\ UNCHANGED <<inUse, lastFaceOverlay, currentRenderOverlay, detVars, lastSeq>>

AnnounceRendered ==
    /\ vPc = "announce"
    /\ currentRenderOverlay' = lastSeq
    /\ vPc' = "unlink"
    /\ UNCHANGED <<linked, alive, inUse, lastFaceOverlay, detVars, lastSeq, lastOverlay>>

\* The object is the renderer's alone from here on.
Unlink ==
    /\ vPc = "unlink"
    /\ linked' = linked \ {lastSeq}
    /\ vPc' = "idle"
    /\ UNCHANGED <<alive, inUse, lastFaceOverlay, currentRenderOverlay,
                   detVars, lastSeq, lastOverlay>>

-----------------------------------------------------------------------------
Detector == DetectFace \/ ScanNext \/ ScanEnd \/ CheckOverlay \/ FreeOverlay
            \/ EraseFreed \/ InsertOverlay \/ InsertFails \/ AnnounceFace
Renderer == DrawNew \/ FindOverlay \/ MarkInUse \/ ReplaceLast
            \/ AnnounceRendered \/ Unlink

Next == Detector \/ Renderer

Spec == Init /\ [][Next]_vars

-----------------------------------------------------------------------------
(* Properties.                                                             *)

TypeOK ==
    /\ linked \subseteq Overlays /\ alive \subseteq Overlays /\ inUse \subseteq Overlays
    /\ lastFaceOverlay \in 0 .. MaxSeq /\ currentRenderOverlay \in Nat \ {0}
    /\ dPc \in {"idle", "scan", "check", "free", "erase", "announce"}
    /\ dSeq \in 0 .. MaxSeq /\ delSeq \in 0 .. MaxSeq + 1
    /\ visited \subseteq Overlays /\ cursor \in 0 .. MaxSeq /\ dels \subseteq Overlays
    /\ vPc \in {"idle", "find", "mark", "replace", "announce", "unlink"}
    /\ lastSeq \in 0 .. MaxSeq /\ lastOverlay \in 0 .. MaxSeq

\* The overlay the renderer looks up is there: "Could not find face overlay"
\* is never logged, although the detector frees overlays at the same time.
RendererFindsOverlay == vPc = "find" => lastSeq \in linked

\* The renderer never draws from a deleted cut-out, neither the one just found
\* nor the one it kept from earlier draws.
RendererReadsLive ==
    /\ vPc \in {"mark", "replace"} => lastSeq \in alive
    /\ lastOverlay # None => lastOverlay \in alive

\* Announced is found, and found is alive: the renderer takes both on trust,
\* from nothing but the numbers.
RendererServed == RendererFindsOverlay /\ RendererReadsLive

\* The detector deletes nothing twice and nothing the renderer has a hand on:
\* the numbers alone keep the two apart.
FreedOnce ==
    dPc = "free" => cursor \in alive /\ ~Locked(cursor) /\ cursor # lastOverlay

\* DetectedROI::inUse decides nothing: what the detector finds in use it would
\* have spared for its number.
InUseRedundant == dPc = "check" /\ cursor \in inUse => cursor >= delSeq

\* No cut-out is lost (one that is neither in the map nor kept by the renderer
\* would never be deleted), and the map has a node for a deleted one only
\* while the detector is about to erase it.
NoOverlayLost ==
    /\ alive \subseteq linked \cup {lastOverlay}
    /\ linked \ alive \subseteq dels

\* What is on the screen never goes back to an older face.
ScreenAdvances ==
    [][/\ currentRenderOverlay' >= currentRenderOverlay
       /\ lastOverlay' # lastOverlay => lastOverlay' > lastOverlay]_vars

\* "not thread-safe methods" (concurrent_hash_map.h:982, on begin() and
\* end()): while the detector uses the node its iterator stands on, nobody
\* takes that node out of the map.
ScanOnLiveNode == dPc = "check" => cursor \in linked

-----------------------------------------------------------------------------
(* The inductive invariant behind the proofs, in named parts.              *)

Cleaning == dPc \in {"scan", "check", "free", "erase"}
Drawing  == vPc \in {"find", "mark", "replace"}

\* The numbers chase each other: rendered, looked up, announced, detected.
NumberOrder ==
    /\ lastSeq <= lastFaceOverlay /\ lastFaceOverlay <= dSeq
    /\ dPc # "idle" => lastFaceOverlay < dSeq
    /\ IF Drawing THEN lastOverlay < lastSeq ELSE lastOverlay = lastSeq
    /\ currentRenderOverlay = 1 \/ currentRenderOverlay <= lastOverlay
    /\ lastOverlay # None /\ vPc # "announce" => currentRenderOverlay = lastOverlay
    /\ vPc \in {"announce", "unlink"} => lastOverlay # None
    /\ Cleaning => delSeq < currentRenderOverlay

\* What the detector has deleted it has visited, and all of it is old.
CleanUp ==
    /\ dels \subseteq visited /\ dels \cap alive = {}
    /\ \A s \in dels : s < delSeq
    /\ dPc \in {"idle", "announce"} => dels = {}
    /\ dPc \in {"check", "free"} =>
          cursor \in visited /\ (cursor < delSeq => cursor \in alive)
    /\ dPc = "free" => cursor < delSeq

\* What was announced last, and what the renderer reads, is in the map.
AnnouncedLinked ==
    /\ lastFaceOverlay > lastSeq => lastFaceOverlay \in linked
    /\ Drawing => lastSeq \in linked
    /\ dPc = "announce" => dSeq \in linked
    /\ \A s \in linked : s <= dSeq

\* A node in use is the one the renderer is on.
InUseLinked ==
    /\ \A s \in inUse : s <= lastSeq
    /\ \A s \in inUse \cap linked :
          s = lastSeq /\ vPc \in {"replace", "announce", "unlink"}

IInv == /\ TypeOK /\ NumberOrder /\ CleanUp /\ AnnouncedLinked /\ InUseLinked
        /\ NoOverlayLost /\ RendererReadsLive /\ InUseRedundant

-----------------------------------------------------------------------------
\* What the two sides owe each other about a cut-out: made by the detector once
\* it is in the map, shown from ReplaceLast on (draw, and FaceOverlayTBBDetector
\* with its deletions by number).
Exchange == INSTANCE Handover WITH
                live <- alive, shown <- lastOverlay,
                newest <- IF Cleaning THEN dSeq - 1 ELSE dSeq
HandoverSpec == Exchange!Spec

=============================================================================
