----------------------------- MODULE BoxExchange -----------------------------
(***************************************************************************)
(* The bounding boxes that AprilTagTBBDetector and FaceTBBDetector find,   *)
(* and how ArchVulkanRenderer::draw gets at them.  The detector puts the   *)
(* boxes of a frame into a map under the frame's number, then the number   *)
(* into a priority queue that hands out the newest one first.  The         *)
(* renderer draws the boxes it holds until they are Hold old, frees them,  *)
(* and takes the next number.  Tags are drawn only when they are not older *)
(* than Fresh; of the age of a face nobody asks.                           *)
(*                                                                         *)
(* One detector and one renderer, each serial, on two threads.  The boxes  *)
(* of a frame share the frame's number and stand for one object; a list    *)
(* of no tags is NoBoxes.  An architecture has tags or face boxes, never   *)
(* both (startMAR), so one module does for the two.                        *)
(***************************************************************************)
EXTENDS Integers, FiniteSets

CONSTANTS
    MaxSeq,         \* bound: the last number of a frame
    MaxTime,        \* bound: the last tick of the clock
    Hold,           \* 280 ms: how long the boxes drawn last are drawn again
    Fresh           \* 400 ms: tags older than this are not drawn any more

ASSUME BoxAssumption ==
    /\ MaxSeq \in Nat /\ MaxTime \in Nat
    /\ Hold \in Nat /\ Fresh \in Nat
    /\ Hold < Fresh /\ Hold < MaxTime

Seqs == 1 .. MaxSeq           \* the router skips frame number 0
NoBoxes == 0                  \* an empty list, a null pointer
Absent == -1                  \* the map has no such key

VARIABLES
    kind,           \* "tags" or "faces": what startMAR asked for
    clock,          \* CLOCK_MONOTONIC, in ticks
    boxes,          \* aprilTags or faceDetections: number -> what is stored
    recent,         \* recentAprilTags or recentFaceDetections, a queue of numbers
    stamp,          \* when the boxes of a frame were made, 0 before
    freed,          \* the boxes deleted
    \* the detector: where it is, the frame's number, the boxes in its hands
    dPc, dSeq, found,
    \* draw(): where it is, its reading of the clock, the number it took;
    \* ArchVulkanRendererState: the boxes drawn last and their timestamp
    vPc, now, lastSeq, last, lastTime,
    screen          \* history: the boxes drawn most recently

worldVars == <<kind, clock>>
mapVars == <<boxes, recent, stamp>>
detVars == <<dPc, dSeq, found>>
renderVars == <<freed, vPc, now, lastSeq, last, lastTime, screen>>
vars == <<worldVars, mapVars, detVars, renderVars>>

\* The device has been up for longer than Hold when the program starts.
Init ==
    /\ kind \in {"tags", "faces"} /\ clock = Hold + 1
    /\ boxes = [s \in Seqs |-> Absent] /\ recent = {}
    /\ stamp = [s \in Seqs |-> 0] /\ freed = {}
    /\ dPc = "idle" /\ dSeq = 0 /\ found = NoBoxes
    /\ vPc = "idle" /\ now = 0 /\ lastSeq = 0
    /\ last = NoBoxes /\ lastTime = 0 /\ screen = NoBoxes

Tick ==
    /\ clock < MaxTime
    /\ clock' = clock + 1
    /\ UNCHANGED <<kind, mapVars, detVars, renderVars>>

-----------------------------------------------------------------------------
(* The detector.  Its frames come in the order of their numbers, not all   *)
(* of them (FramePipeline: FramesInOrder).                                  *)

\* The image is searched.  Boxes are stamped when they are made.
DetectSome(s) ==
    /\ dPc = "idle" /\ s > dSeq
    /\ dSeq' = s /\ found' = s /\ dPc' = "insert"
    /\ stamp' = [stamp EXCEPT ![s] = clock]
    /\ UNCHANGED <<worldVars, boxes, recent, renderVars>>

\* Nothing found: an empty list of tags is stored too, a missing face is not.
DetectNone(s) ==
    /\ dPc = "idle" /\ s > dSeq
    /\ dSeq' = s /\ found' = NoBoxes
    /\ dPc' = IF kind = "tags" THEN "insert" ELSE "idle"
    /\ UNCHANGED <<worldVars, mapVars, renderVars>>

\* Mutant of Insert: the number is announced before the boxes are in the map.
InsertLate ==
    /\ dPc = "insert"
    /\ recent' = recent \cup {dSeq}
    /\ dPc' = "push"
    /\ UNCHANGED <<worldVars, boxes, stamp, dSeq, found, renderVars>>

\* insert() leaves a map alone that has the key; what was to go in is lost.
Insert ==
    /\ dPc = "insert"
    /\ boxes' = IF boxes[dSeq] = Absent THEN [boxes EXCEPT ![dSeq] = found] ELSE boxes
    /\ found' = NoBoxes /\ dPc' = "push"
    /\ UNCHANGED <<worldVars, recent, stamp, dSeq, renderVars>>

Push ==
    /\ dPc = "push"
    /\ recent' = recent \cup {dSeq}
    /\ dPc' = "idle"
    /\ UNCHANGED <<worldVars, boxes, stamp, dSeq, found, renderVars>>

Detector == (\E s \in Seqs : DetectSome(s) \/ DetectNone(s)) \/ Insert \/ Push

-----------------------------------------------------------------------------
(* draw(), called for one frame after the other by the render node.  The   *)
(* clock is read once, at the beginning; how old something is is reckoned  *)
(* from that reading.                                                      *)

\* Mutant of Expired: at the end of the hold, not after it.
ExpiredAtHold(t) == t - lastTime >= Hold

\* The boxes drawn last have had their time.
Expired(t) == t - lastTime > Hold

\* The boxes drawn last are drawn again, if there are any.
DrawAgain ==
    /\ vPc = "idle" /\ ~Expired(clock)
    /\ now' = clock
    /\ screen' = IF last = NoBoxes THEN screen ELSE last
    /\ UNCHANGED <<worldVars, mapVars, detVars, freed, vPc, lastSeq, last, lastTime>>

\* Mutant of DropLast: the pointer to the deleted boxes stays.
DropLastDangling ==
    /\ last' = last
    /\ freed' = freed \cup ({last} \ {NoBoxes})
    /\ lastTime' = IF kind = "tags" THEN 0 ELSE lastTime

\* They are due: delete_last_tags, or what draw() does for lastFace, which
\* leaves lastFaceTime as it is.
DropLast ==
    /\ last' = NoBoxes
    /\ freed' = freed \cup ({last} \ {NoBoxes})
    /\ lastTime' = IF kind = "tags" THEN 0 ELSE lastTime

DrawExpired ==
    /\ vPc = "idle" /\ Expired(clock)
    /\ now' = clock
    /\ DropLast
    /\ vPc' = "pop"
    /\ UNCHANGED <<worldVars, mapVars, detVars, lastSeq, screen>>

\* try_pop: the newest number, if there is one.
Pop ==
    /\ vPc = "pop"
    /\ \/ /\ recent = {}
          /\ vPc' = "idle"
          /\ UNCHANGED <<recent, lastSeq>>
       \/ \E s \in recent :
             /\ \A t \in recent : t <= s
             /\ recent' = recent \ {s}
             /\ lastSeq' = s /\ vPc' = "find"
    /\ UNCHANGED <<worldVars, boxes, stamp, detVars, freed, now, last, lastTime, screen>>

\* Tags have an age limit; a list without tags is never drawn.
Drawable(b) ==
    /\ b \in Seqs
    /\ kind = "tags" => now - stamp[b] <= Fresh

\* The map has the number, and the boxes are drawn and become the renderer's;
\* the accessor shuts the detector out until the entry is erased.
DrawNew ==
    /\ vPc = "find" /\ Drawable(boxes[lastSeq])
    /\ last' = boxes[lastSeq] /\ screen' = last'
    /\ lastTime' = stamp[last']
    /\ boxes' = [boxes EXCEPT ![lastSeq] = Absent]
    /\ vPc' = "idle"
    /\ UNCHANGED <<worldVars, recent, stamp, detVars, freed, now, lastSeq>>

\* They are too old: the boxes are deleted, and the entry stays, empty.
DiscardOld ==
    /\ vPc = "find" /\ ~Drawable(boxes[lastSeq])
    /\ freed' = freed \cup ({boxes[lastSeq]} \ {NoBoxes, Absent})
    /\ boxes' = IF boxes[lastSeq] = Absent THEN boxes ELSE [boxes EXCEPT ![lastSeq] = NoBoxes]
    /\ vPc' = "idle"
    /\ UNCHANGED <<worldVars, recent, stamp, detVars, now, lastSeq, last, lastTime, screen>>

Renderer == DrawAgain \/ DrawExpired \/ Pop \/ DrawNew \/ DiscardOld

Next == Tick \/ Detector \/ Renderer

Spec == Init /\ [][Next]_vars

-----------------------------------------------------------------------------
(* Types.  A frame's boxes are stored under its number; everything that is *)
(* handed on has been stamped.                                             *)
TypeOK ==
    /\ kind \in {"tags", "faces"} /\ clock \in Hold + 1 .. MaxTime
    /\ boxes \in [Seqs -> Seqs \cup {NoBoxes, Absent}]
    /\ recent \subseteq Seqs /\ freed \subseteq Seqs
    /\ stamp \in [Seqs -> 0 .. MaxTime]
    /\ dPc \in {"idle", "insert", "push"}
    /\ dSeq \in 0 .. MaxSeq /\ found \in Seqs \cup {NoBoxes}
    /\ vPc \in {"idle", "pop", "find"}
    /\ now \in 0 .. MaxTime /\ lastTime \in 0 .. MaxTime
    /\ lastSeq \in 0 .. MaxSeq
    /\ last \in Seqs \cup {NoBoxes} /\ screen \in Seqs \cup {NoBoxes}

Made == {s \in Seqs : stamp[s] # 0}
Stored == {boxes[s] : s \in Seqs} \cap Seqs
Owners(b) ==
    {o \in {"detector", "map", "renderer", "nobody"} :
        \/ o = "detector" /\ found = b
        \/ o = "map" /\ b \in Stored
        \/ o = "renderer" /\ last = b
        \/ o = "nobody" /\ b \in freed}

\* Boxes that were made are in the detector's hands, in the map, drawn by the
\* renderer or deleted, and always exactly one of these: none is lost, deleted
\* twice, or drawn after its deletion.  Three threads of ownership meet here
\* (insert, move out of the map, delete), and nothing but the order of the
\* steps keeps them apart.
OneOwner == \A b \in Made : \E o \in Owners(b) : Owners(b) = {o}

\* A number the renderer takes from the queue has its entry in the map.
RendererFindsBoxes == vPc = "find" => boxes[lastSeq] # Absent

\* Boxes in the map can still be reached: their number is in the queue, about
\* to get there, or in the renderer's hands.
StoredIsQueued ==
    \A s \in Seqs : boxes[s] \in Seqs =>
        \/ s \in recent
        \/ dPc = "push" /\ dSeq = s
        \/ vPc = "find" /\ lastSeq = s

\* Map and queue are two structures without a common lock.  Because the
\* detectors insert first and push afterwards, they agree in both directions:
\* no number without its entry, and no boxes out of everybody's reach.
QueueMatchesMap == RendererFindsBoxes /\ StoredIsQueued

\* The queue hands out the newest number first, so after a burst of detections
\* the screen goes back to older tags.  How far is bounded by the two limits of
\* draw(): never by as much as Fresh - Hold.  (Nothing bounds it for faces.)
RewindBounded ==
    [][kind = "tags" /\ screen # NoBoxes =>
        stamp[screen] - stamp[screen'] < Fresh - Hold]_vars

\* An entry without boxes, and with nobody about to look at it.
Leftover(s) ==
    /\ boxes[s] = NoBoxes /\ s \notin recent
    /\ ~(dPc # "idle" /\ dSeq = s) /\ ~(vPc = "find" /\ lastSeq = s)

\* An entry whose number has been taken and whose boxes were not drawn is never
\* touched again: the map keeps one for every frame without tags, and for every
\* frame whose tags were found too old.
LeftoverForever == [][\A s \in Seqs : Leftover(s) => Leftover(s)']_vars

-----------------------------------------------------------------------------
(* What the properties rest on: the conjuncts of the inductive invariant.  *)

\* The detector's number is the highest so far, and the renderer sees it only
\* after the push.
Numbering ==
    /\ \A s \in Seqs : s > dSeq => boxes[s] = Absent /\ s \notin recent /\ stamp[s] = 0
    /\ screen <= dSeq
    /\ dPc # "idle" =>
         /\ dSeq \in Seqs /\ dSeq \notin recent
         /\ vPc = "find" => lastSeq # dSeq
    /\ dPc = "insert" => boxes[dSeq] = Absent
    /\ dPc = "push" => boxes[dSeq] # Absent
    /\ \A s \in recent : boxes[s] # Absent
    /\ vPc = "find" => lastSeq \in Seqs /\ lastSeq \notin recent /\ boxes[lastSeq] # Absent

\* Boxes lie under their own number and have one owner.
Ownership ==
    /\ found # NoBoxes => dPc = "insert" /\ found = dSeq
    /\ \A s \in Seqs : boxes[s] \in Seqs => boxes[s] = s
    /\ \A s \in Seqs :
         /\ stamp[s] # 0 <=> found = s \/ boxes[s] = s \/ last = s \/ s \in freed
         /\ found = s => boxes[s] # s /\ last # s /\ s \notin freed
         /\ boxes[s] = s => last # s /\ s \notin freed
         /\ last = s => s \notin freed

\* The renderer reads the clock before it looks, and lets go of what it holds
\* only after the hold.
Deadlines ==
    /\ now <= clock
    /\ last # NoBoxes => last = screen /\ lastTime = stamp[last]
    /\ vPc # "idle" => last = NoBoxes /\ (screen # NoBoxes => now - stamp[screen] > Hold)
    /\ last = NoBoxes /\ screen # NoBoxes => clock - stamp[screen] > Hold

IInv == TypeOK /\ Numbering /\ Ownership /\ StoredIsQueued /\ Deadlines

-----------------------------------------------------------------------------
\* What detector and renderer owe each other about the boxes of a frame, though
\* they pass from hand to map to hand and each of the two may delete some (the
\* detectors' insert and push, draw, delete_last_tags).
Exchange == INSTANCE Handover WITH
                live <- Made \ freed, shown <- last, newest <- dSeq
HandoverSpec == Exchange!Spec

=============================================================================
