-------------------------- MODULE BoxExchangeProofs --------------------------
(***************************************************************************)
(* Proofs about BoxExchange for every number of frames, every length of    *)
(* time and every pair of limits with Hold < Fresh.  Each part of IInv has *)
(* a lemma of its own.                                                     *)
(***************************************************************************)
EXTENDS BoxExchange, TLAPS

\* What an action leaves alone is always visible, and so are the sentinels.
USE DEF worldVars, mapVars, detVars, renderVars, vars, Seqs, NoBoxes, Absent

-----------------------------------------------------------------------------

\* The device has been up for longer than Hold.
LEMMA InitHolds == Init => IInv
BY BoxAssumption DEF Init, IInv, TypeOK, Numbering, Ownership, StoredIsQueued, Deadlines

\* Stamps and deadlines are readings of the clock.
LEMMA TypeStep ==
    ASSUME IInv, [Next]_vars
    PROVE  TypeOK'
<1>. USE BoxAssumption DEF IInv, TypeOK
<1>1. CASE Tick
  BY <1>1 DEF Tick
<1>2. CASE Detector
  <2>1. ASSUME NEW s \in Seqs, DetectSome(s)
        PROVE  TypeOK'
    BY <2>1 DEF DetectSome
  <2>0. ASSUME NEW s \in Seqs, DetectNone(s)
        PROVE  TypeOK'
    BY <2>0 DEF DetectNone
  <2>2. CASE Insert \/ Push
    BY <2>2 DEF Insert, Push, Numbering
  <2>. QED BY <1>2, <2>0, <2>1, <2>2 DEF Detector
<1>3. CASE DrawAgain
  BY <1>3 DEF DrawAgain
<1>4. CASE DrawExpired
  BY <1>4 DEF DrawExpired, DropLast
<1>5. CASE Pop
  <2>1. CASE recent = {}
    BY <1>5, <2>1 DEF Pop
  <2>2. ASSUME NEW s \in recent, recent' = recent \ {s}, lastSeq' = s, vPc' = "find"
        PROVE  TypeOK'
    BY <1>5, <2>2 DEF Pop
  <2>. QED BY <1>5, <2>1, <2>2 DEF Pop
<1>6. CASE DrawNew
  BY <1>6 DEF DrawNew, Drawable, Numbering
<1>7. CASE DiscardOld
  BY <1>7 DEF DiscardOld, Numbering
<1>8. CASE UNCHANGED vars
  BY <1>8
<1>. QED BY <1>1, <1>2, <1>3, <1>4, <1>5, <1>6, <1>7, <1>8 DEF Next, Renderer

\* The detector inserts under a number nobody has seen, then pushes it.
LEMMA NumberingStep ==
    ASSUME IInv, [Next]_vars
    PROVE  Numbering'
<1>. USE BoxAssumption DEF IInv, TypeOK, Numbering
<1>1. CASE Tick
  BY <1>1 DEF Tick
<1>2. CASE Detector
  <2>1. ASSUME NEW s \in Seqs, DetectSome(s)
        PROVE  Numbering'
    BY <2>1 DEF DetectSome
  <2>0. ASSUME NEW s \in Seqs, DetectNone(s)
        PROVE  Numbering'
    BY <2>0 DEF DetectNone
  <2>2. CASE Insert
    BY <2>2 DEF Insert
  <2>3. CASE Push
    BY <2>3 DEF Push
  <2>. QED BY <1>2, <2>0, <2>1, <2>2, <2>3 DEF Detector
<1>3. CASE DrawAgain
  BY <1>3 DEF DrawAgain, Deadlines
<1>4. CASE DrawExpired
  BY <1>4 DEF DrawExpired, DropLast
<1>5. CASE Pop
  BY <1>5 DEF Pop
<1>6. CASE DrawNew
  <2>1. boxes[lastSeq] = lastSeq /\ lastSeq <= dSeq
    BY <1>6 DEF DrawNew, Drawable, Ownership
  <2>. QED BY <1>6, <2>1 DEF DrawNew
<1>7. CASE DiscardOld
  BY <1>7 DEF DiscardOld
<1>8. CASE UNCHANGED vars
  BY <1>8
<1>. QED BY <1>1, <1>2, <1>3, <1>4, <1>5, <1>6, <1>7, <1>8 DEF Next, Renderer

\* Boxes change hands in one step each, and are given up by the one who had them.
LEMMA OwnershipStep ==
    ASSUME IInv, [Next]_vars
    PROVE  Ownership'
<1>. USE BoxAssumption DEF IInv, TypeOK, Ownership
<1>1. CASE Tick
  BY <1>1 DEF Tick
<1>2. CASE Detector
  <2>1. ASSUME NEW s \in Seqs, DetectSome(s)
        PROVE  Ownership'
    <3>1. stamp[s] = 0 /\ clock # 0
      BY <2>1 DEF DetectSome, Numbering
    <3>. QED BY <2>1, <3>1 DEF DetectSome
  <2>2. ASSUME NEW s \in Seqs, DetectNone(s)
        PROVE  Ownership'
    BY <2>2 DEF DetectNone
  <2>3. CASE Insert
    BY <2>3 DEF Insert, Numbering
  <2>4. CASE Push
    BY <2>4 DEF Push
  <2>. QED BY <1>2, <2>1, <2>2, <2>3, <2>4 DEF Detector
<1>3. CASE DrawAgain
  BY <1>3 DEF DrawAgain
<1>4. CASE DrawExpired
  BY <1>4 DEF DrawExpired, DropLast
<1>5. CASE Pop
  BY <1>5 DEF Pop
<1>6. CASE DrawNew
  <2>1. last = NoBoxes
    BY <1>6 DEF DrawNew, Deadlines
  <2>. QED BY <1>6, <2>1 DEF DrawNew, Drawable, Numbering
<1>7. CASE DiscardOld
  BY <1>7 DEF DiscardOld, Numbering
<1>8. CASE UNCHANGED vars
  BY <1>8
<1>. QED BY <1>1, <1>2, <1>3, <1>4, <1>5, <1>6, <1>7, <1>8 DEF Next, Renderer

\* The number leaves the queue only into the renderer's hands.
LEMMA QueuedStep ==
    ASSUME IInv, [Next]_vars
    PROVE  StoredIsQueued'
<1>. USE BoxAssumption DEF IInv, TypeOK, StoredIsQueued
<1>1. CASE Tick
  BY <1>1 DEF Tick
<1>2. CASE Detector
  <2>1. ASSUME NEW s \in Seqs, DetectSome(s)
        PROVE  StoredIsQueued'
    BY <2>1 DEF DetectSome
  <2>0. ASSUME NEW s \in Seqs, DetectNone(s)
        PROVE  StoredIsQueued'
    BY <2>0 DEF DetectNone
  <2>2. CASE Insert
    BY <2>2 DEF Insert
  <2>3. CASE Push
    BY <2>3 DEF Push
  <2>. QED BY <1>2, <2>0, <2>1, <2>2, <2>3 DEF Detector
<1>3. CASE DrawAgain
  BY <1>3 DEF DrawAgain
<1>4. CASE DrawExpired
  BY <1>4 DEF DrawExpired, DropLast
<1>5. CASE Pop
  BY <1>5 DEF Pop
<1>6. CASE DrawNew
  BY <1>6 DEF DrawNew
<1>7. CASE DiscardOld
  BY <1>7 DEF DiscardOld
<1>8. CASE UNCHANGED vars
  BY <1>8
<1>. QED BY <1>1, <1>2, <1>3, <1>4, <1>5, <1>6, <1>7, <1>8 DEF Next, Renderer

\* What is on the screen has been there for Hold before anything replaces it.
LEMMA DeadlinesStep ==
    ASSUME IInv, [Next]_vars
    PROVE  Deadlines'
<1>. USE BoxAssumption DEF IInv, TypeOK, Deadlines
<1>1. CASE Tick
  BY <1>1 DEF Tick
<1>2. CASE Detector
  <2>1. ASSUME NEW s \in Seqs, DetectSome(s)
        PROVE  Deadlines'
    \* What is on the screen has been stamped before.
    <3>1. screen # s
      BY <2>1 DEF DetectSome, Numbering
    <3>. QED BY <2>1, <3>1 DEF DetectSome
  <2>2. ASSUME NEW s \in Seqs, DetectNone(s)
        PROVE  Deadlines'
    BY <2>2 DEF DetectNone
  <2>3. CASE Insert \/ Push
    BY <2>3 DEF Insert, Push
  <2>. QED BY <1>2, <2>1, <2>2, <2>3 DEF Detector
<1>3. CASE DrawAgain
  BY <1>3 DEF DrawAgain
<1>4. CASE DrawExpired
  BY <1>4 DEF DrawExpired, DropLast, Expired
<1>5. CASE Pop
  BY <1>5 DEF Pop
<1>6. CASE DrawNew
  BY <1>6 DEF DrawNew, Drawable, Numbering
<1>7. CASE DiscardOld
  BY <1>7 DEF DiscardOld
<1>8. CASE UNCHANGED vars
  BY <1>8
<1>. QED BY <1>1, <1>2, <1>3, <1>4, <1>5, <1>6, <1>7, <1>8 DEF Next, Renderer

-----------------------------------------------------------------------------

\* The five parts together are inductive.
THEOREM BoxInvariance == Spec => []IInv
<1>1. Init => IInv
  BY InitHolds
<1>2. IInv /\ [Next]_vars => IInv'
  BY TypeStep, NumberingStep, OwnershipStep, QueuedStep, DeadlinesStep DEF IInv
<1>. QED BY <1>1, <1>2, PTL DEF Spec

\* Types: the exchange of boxes stays within its numbers and its time.
THEOREM BoxTypes == Spec => []TypeOK
<1>1. IInv => TypeOK
  BY DEF IInv
<1>. QED BY <1>1, BoxInvariance, PTL

\* Boxes the detectors make always have exactly one owner: nothing is lost,
\* deleted twice or drawn after its deletion.
THEOREM BoxesHaveOneOwner == Spec => []OneOwner
<1>1. IInv => OneOwner
  <2>. SUFFICES ASSUME IInv, NEW b \in Made
                PROVE  \E o \in Owners(b) : Owners(b) = {o}
    BY DEF OneOwner
  <2>. USE DEF IInv, TypeOK, Ownership
  <2>1. b \in Seqs /\ stamp[b] # 0
    BY DEF Made
  <2>2. b \in Stored <=> boxes[b] = b
    BY <2>1 DEF Stored
  <2>3. CASE found = b
    <3>1. Owners(b) = {"detector"}
      BY <2>1, <2>2, <2>3 DEF Owners
    <3>. QED BY <3>1
  <2>4. CASE boxes[b] = b
    <3>1. Owners(b) = {"map"}
      BY <2>1, <2>2, <2>4 DEF Owners
    <3>. QED BY <3>1
  <2>5. CASE last = b
    <3>1. Owners(b) = {"renderer"}
      BY <2>1, <2>2, <2>5 DEF Owners
    <3>. QED BY <3>1
  <2>6. CASE b \in freed
    <3>1. Owners(b) = {"nobody"}
      BY <2>1, <2>2, <2>6 DEF Owners
    <3>. QED BY <3>1
  <2>. QED BY <2>1, <2>3, <2>4, <2>5, <2>6
<1>. QED BY <1>1, BoxInvariance, PTL

\* The renderer finds an entry for every number the detectors announced, and
\* boxes in the map can be reached through the queue.
THEOREM QueueAndMapAgree == Spec => []QueueMatchesMap
<1>1. IInv => RendererFindsBoxes
  BY DEF IInv, Numbering, RendererFindsBoxes
<1>2. IInv => StoredIsQueued
  BY DEF IInv
<1>. QED BY <1>1, <1>2, BoxInvariance, PTL DEF QueueMatchesMap

\* Two times, one more than Hold ago and one at most Fresh.
LEMMA BetweenLimits ==
    ASSUME NEW n \in Int, NEW a \in Int, NEW b \in Int,
           n - a > Hold, n - b <= Fresh
    PROVE  a - b < Fresh - Hold
  BY BoxAssumption

\* Older tags come back on the screen, but never older by Fresh - Hold.
THEOREM TagsRewindLittle == Spec => RewindBounded
<1>1. ASSUME IInv, [Next]_vars, kind = "tags", screen # NoBoxes
      PROVE  stamp[screen] - stamp[screen'] < Fresh - Hold
  <2>. USE <1>1, BoxAssumption DEF IInv, TypeOK, Deadlines
  <2>1. CASE UNCHANGED screen
    BY <2>1
  <2>2. CASE DrawAgain
    BY <2>2 DEF DrawAgain
  <2>3. CASE DrawNew
    <3>1. boxes[lastSeq] \in Seqs /\ screen' = boxes[lastSeq] /\ vPc = "find"
      BY <2>3 DEF DrawNew, Drawable
    <3>2. now - stamp[boxes[lastSeq]] <= Fresh
      BY <2>3 DEF DrawNew, Drawable
    <3>3. now - stamp[screen] > Hold
      BY <3>1
    <3>4. now \in Int /\ stamp[screen] \in Int /\ stamp[boxes[lastSeq]] \in Int
      BY <3>1
    <3>5. stamp[screen] - stamp[boxes[lastSeq]] < Fresh - Hold
      BY <3>2, <3>3, <3>4, BetweenLimits
    <3>. QED BY <3>1, <3>5
  <2>. QED
    BY <2>1, <2>2, <2>3
    DEF Next, Tick, Detector, DetectSome, DetectNone, Insert, Push, Renderer, DrawExpired,
        Pop, DiscardOld
<1>2. IInv /\ [Next]_vars =>
        [kind = "tags" /\ screen # NoBoxes => stamp[screen] - stamp[screen'] < Fresh - Hold]_vars
  BY <1>1
<1>. QED BY <1>2, BoxInvariance, PTL DEF Spec, RewindBounded

\* What the renderer leaves in the map without drawing it stays for ever.
THEOREM LeftoversStay == Spec => LeftoverForever
<1>1. ASSUME IInv, [Next]_vars, NEW s \in Seqs, Leftover(s)
      PROVE  Leftover(s)'
  <2>. USE <1>1 DEF IInv, TypeOK, Leftover
  <2>0. s <= dSeq
    BY DEF Numbering
  <2>1. CASE Tick \/ DrawAgain
    BY <2>1 DEF Tick, DrawAgain
  <2>2. CASE Detector
    <3>1. ASSUME NEW t \in Seqs, DetectSome(t)
          PROVE  Leftover(s)'
      BY <2>0, <3>1 DEF DetectSome
    <3>0. ASSUME NEW t \in Seqs, DetectNone(t)
          PROVE  Leftover(s)'
      BY <2>0, <3>0 DEF DetectNone
    <3>2. CASE Insert
      BY <3>2 DEF Insert
    <3>3. CASE Push
      BY <3>3 DEF Push
    <3>. QED BY <2>2, <3>0, <3>1, <3>2, <3>3 DEF Detector
  <2>3. CASE DrawExpired
    BY <2>3 DEF DrawExpired
  <2>4. CASE Pop
    BY <2>4 DEF Pop
  <2>5. CASE DrawNew
    BY <2>5 DEF DrawNew
  <2>6. CASE DiscardOld
    BY <2>6 DEF DiscardOld
  <2>7. CASE UNCHANGED vars
    BY <2>7
  <2>. QED BY <2>1, <2>2, <2>3, <2>4, <2>5, <2>6, <2>7 DEF Next, Renderer
<1>2. IInv /\ [Next]_vars => [\A s \in Seqs : Leftover(s) => Leftover(s)']_vars
  BY <1>1
<1>. QED BY <1>2, BoxInvariance, PTL DEF Spec, LeftoverForever

-----------------------------------------------------------------------------
(* The exchange implements what Handover promises.                         *)

\* Boxes that exist are made and not deleted, those on the screen among them.
LEMMA LiveBoxes ==
    ASSUME IInv, NEW s \in Seqs
    PROVE  /\ boxes[s] \in Seqs => s \in Made \ freed /\ boxes[s] = s /\ last # s
           /\ last = s => s \in Made \ freed
BY DEF IInv, TypeOK, Ownership, Made

\* The detector makes boxes or passes over a frame.
LEMMA DetectorHandsOver ==
    ASSUME IInv, Detector
    PROVE  Exchange!Next \/ UNCHANGED Exchange!vars
<1>. USE DEF IInv, TypeOK, Exchange!vars
<1>1. ASSUME NEW s \in Seqs, DetectSome(s)
      PROVE  Exchange!Next
  <2>1. /\ dSeq' = s /\ s > dSeq /\ stamp' = [stamp EXCEPT ![s] = clock]
        /\ UNCHANGED <<freed, last>>
    BY <1>1 DEF DetectSome
  <2>2. clock # 0 /\ stamp[s] = 0
    BY <2>1, BoxAssumption DEF Numbering
  <2>3. s \notin freed
    BY <2>2 DEF Ownership
  <2>4. Made' = Made \cup {s}
    BY <2>1, <2>2 DEF Made
  <2>5. (Made \ freed)' = (Made \ freed) \cup {dSeq'}
    BY <2>1, <2>3, <2>4
  <2>6. Exchange!Make
    BY <2>1, <2>5, BoxAssumption DEF Exchange!Make
  <2>. QED BY <2>6 DEF Exchange!Next
<1>2. ASSUME NEW s \in Seqs, DetectNone(s)
      PROVE  Exchange!Next
  <2>1. Exchange!Skip
    BY <1>2, BoxAssumption DEF DetectNone, Exchange!Skip, Made
  <2>. QED BY <2>1 DEF Exchange!Next
<1>3. CASE Insert \/ Push
  BY <1>3 DEF Insert, Push, Made
<1>. QED BY <1>1, <1>2, <1>3 DEF Detector

\* The renderer drops what it shows, takes boxes over from the map, or deletes
\* those it found too old.
LEMMA RendererHandsOver ==
    ASSUME IInv, Renderer
    PROVE  Exchange!Next \/ UNCHANGED Exchange!vars
<1>. USE DEF IInv, TypeOK, Exchange!vars
<1>0. Renderer => Made' = Made
  BY DEF Renderer, DrawAgain, DrawExpired, Pop, DrawNew, DiscardOld, Made
<1>1. CASE DrawAgain \/ Pop
  BY <1>0, <1>1 DEF DrawAgain, Pop
<1>2. CASE DrawExpired
  <2>1. last' = NoBoxes /\ freed' = freed \cup ({last} \ {NoBoxes}) /\ dSeq' = dSeq
    BY <1>2 DEF DrawExpired, DropLast
  <2>2. CASE last = NoBoxes
    BY <1>0, <2>1, <2>2
  <2>3. CASE last # NoBoxes
    <3>1. (Made \ freed)' = (Made \ freed) \ {last}
      BY <1>0, <2>1, <2>3
    <3>2. Exchange!Replace
      BY <2>1, <2>3, <3>1 DEF Exchange!Replace
    <3>. QED BY <3>2 DEF Exchange!Next
  <2>. QED BY <2>2, <2>3
<1>3. CASE DrawNew
  \* The hands of the renderer are empty when it takes new boxes.
  <2>1. last = NoBoxes
    BY <1>3 DEF DrawNew, Deadlines
  <2>2. /\ lastSeq \in Seqs /\ boxes[lastSeq] \in Seqs
        /\ last' = boxes[lastSeq] /\ UNCHANGED <<freed, dSeq>>
    BY <1>3 DEF DrawNew, Drawable, Numbering
  <2>3. last' \in Made \ freed /\ NoBoxes \notin Made
    BY <2>2, LiveBoxes DEF Made
  <2>4. (Made \ freed)' = (Made \ freed) \ {last}
    BY <1>0, <2>1, <2>2, <2>3
  <2>5. Exchange!Replace
    BY <2>1, <2>2, <2>3, <2>4 DEF Exchange!Replace
  <2>. QED BY <2>5 DEF Exchange!Next
<1>4. CASE DiscardOld
  <2>1. /\ freed' = freed \cup ({boxes[lastSeq]} \ {NoBoxes, Absent})
        /\ UNCHANGED <<last, dSeq>> /\ lastSeq \in Seqs
    BY <1>4 DEF DiscardOld, Numbering
  <2>2. CASE boxes[lastSeq] \in Seqs
    <3>1. lastSeq \in Made \ freed /\ boxes[lastSeq] = lastSeq /\ last # lastSeq
      BY <2>1, <2>2, LiveBoxes
    <3>2. (Made \ freed)' = (Made \ freed) \ {lastSeq}
      BY <1>0, <2>1, <3>1
    <3>3. Exchange!Discard
      BY <2>1, <3>1, <3>2 DEF Exchange!Discard
    <3>. QED BY <3>3 DEF Exchange!Next
  <2>3. CASE boxes[lastSeq] \notin Seqs
    BY <1>0, <2>1, <2>3
  <2>. QED BY <2>2, <2>3
<1>. QED BY <1>1, <1>2, <1>3, <1>4 DEF Renderer

\* Tags and faces keep the promises of Handover across map, queue and the hands
\* of two threads: boxes are made under a number of their own, shown while they
\* exist, and deleted once, those on the screen only when the renderer lets go.
THEOREM BoxesImplementHandover == Spec => HandoverSpec
<1>1. Init => Exchange!Init
  BY DEF Init, Exchange!Init, Made
<1>2. IInv /\ [Next]_vars => [Exchange!Next]_(Exchange!vars)
  <2>. SUFFICES ASSUME IInv, [Next]_vars PROVE Exchange!Next \/ UNCHANGED Exchange!vars
    OBVIOUS
  <2>1. CASE Tick \/ UNCHANGED vars
    BY <2>1 DEF Tick, Made, Exchange!vars
  <2>. QED BY <2>1, DetectorHandsOver, RendererHandsOver DEF Next
<1>. QED BY <1>1, <1>2, BoxInvariance, PTL DEF Spec, HandoverSpec, Exchange!Spec

=============================================================================
