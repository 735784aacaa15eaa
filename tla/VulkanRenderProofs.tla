------------------------- MODULE VulkanRenderProofs -------------------------
(***************************************************************************)
(* Theorems about VulkanRender.  The invariant ties each draw in flight to *)
(* the fence of its slot, and says what render may rely on at each step.   *)
(***************************************************************************)
EXTENDS VulkanRender, FiniteSetTheorems, TLAPS

\* Each draw in flight has the fence of its slot to itself.
DrawsFenced ==
    /\ \A k \in 1 .. Len(draws) :
        draws[k].slot \in DOMAIN fence /\ fence[draws[k].slot] = "submitted"
    /\ \A j, k \in 1 .. Len(draws) : draws[j].slot = draws[k].slot => j = k

\* Where render is there is a fence for the slot, reset until the submission,
\* and an image; a copy that was waited for left no draw behind.
Steps ==
    /\ pc = "wait" => current \in DOMAIN fence
    /\ pc \in {"acquire", "upload", "submit"} =>
        current \in DOMAIN fence /\ fence[current] = "reset"
    /\ pc \in {"upload", "submit", "present"} => index \in Slots
    /\ pc = "submit" /\ waited => draws = <<>>

IInv == TypeOK /\ DrawsFenced /\ Steps /\ OnePictureInFlight

-----------------------------------------------------------------------------

\* A sequence with one element more.
LEMMA Appended ==
    ASSUME NEW S, NEW s \in Seq(S), NEW e \in S
    PROVE  /\ Append(s, e) \in Seq(S)
           /\ Len(s) \in Nat /\ Len(Append(s, e)) = Len(s) + 1
           /\ \A i \in 1 .. Len(s) : Append(s, e)[i] = s[i]
           /\ Append(s, e)[Len(s) + 1] = e
  OBVIOUS

\* A sequence without its first element.
LEMMA Shortened ==
    ASSUME NEW S, NEW s \in Seq(S), s # <<>>
    PROVE  /\ Tail(s) \in Seq(S)
           /\ Len(s) \in Nat \ {0} /\ Len(Tail(s)) = Len(s) - 1
           /\ Head(s) = s[1] /\ s[1] \in S
           /\ \A i \in 1 .. Len(s) - 1 : Tail(s)[i] = s[i + 1]
  OBVIOUS

\* No frame is drawn, every fence is new.
LEMMA Initially == Init => IInv
<1> SUFFICES ASSUME Init PROVE IInv
  OBVIOUS
<1>1. len \in Nat /\ len > 2
  BY RenderAssumption DEF Init
<1>2. draws = <<>> /\ Len(draws) = 0 /\ draws \in Seq(Draws) /\ shown \in Seq(Presents)
  BY DEF Init
<1>3. TypeOK
  BY <1>1, <1>2, RenderAssumption DEF Init, TypeOK, Slots
<1>4. DrawsFenced /\ Steps /\ OnePictureInFlight
  BY <1>2 DEF Init, DrawsFenced, Steps, OnePictureInFlight
<1> QED
  BY <1>3, <1>4 DEF IInv

\* Steps of render that leave the device as it is.
LEMMA DeviceUnchanged ==
    ASSUME IInv, UNCHANGED <<fence, draws, shown>>
    PROVE  DrawsFenced' /\ OnePictureInFlight'
  BY DEF IInv, DrawsFenced, OnePictureInFlight

\* A fence that no draw uses changes.
LEMMA FenceChanges ==
    ASSUME IInv, UNCHANGED draws, current \in DOMAIN fence,
           fence[current] # "submitted",
           NEW v, fence' = [fence EXCEPT ![current] = v]
    PROVE  DrawsFenced' /\ OnePictureInFlight'
  BY DEF IInv, DrawsFenced, OnePictureInFlight

\* The type of what a rebuild leaves.
LEMMA Rebuilt ==
    ASSUME IInv, Rebuild
    PROVE  /\ len' \in Lens /\ len' \in Nat
           /\ fence' \in [Slots' -> {"signalled", "submitted", "reset"}]
                \/ fence' = NoFences
           /\ draws' = <<>> /\ draws' \in Seq(Draws)
           /\ shown' \in Seq(Presents)
           /\ lost' = {} /\ recorded' = FALSE
           /\ DrawsFenced' /\ OnePictureInFlight'
<1>1. len' \in Lens /\ len' \in Nat
  BY RenderAssumption DEF Rebuild
<1>2. fence' = NoFences \/ fence' = [s \in 0 .. len' - 1 |-> "signalled"]
  BY DEF Rebuild
<1>3. draws' = <<>> /\ shown' = <<>> /\ lost' = {} /\ recorded' = FALSE
  BY DEF Rebuild
<1>4. Len(draws') = 0 /\ draws' \in Seq(Draws) /\ shown' \in Seq(Presents)
  BY <1>3
<1>5. DrawsFenced' /\ OnePictureInFlight'
  BY <1>4 DEF DrawsFenced, OnePictureInFlight
<1> QED
  BY <1>1, <1>2, <1>3, <1>4, <1>5 DEF Slots

\* A draw is submitted with a fence that no other draw has.
LEMMA SubmitStep == IInv /\ Submit => IInv'
<1> SUFFICES ASSUME IInv, Submit PROVE IInv'
  OBVIOUS
<1> DEFINE d == [slot |-> current, image |-> index, waited |-> waited]
<1>1. CASE /\ pc' = "present"
           /\ draws' = Append(draws, d)
           /\ fence' = [fence EXCEPT ![current] = "submitted"]
  <2>1. /\ pc = "submit" /\ current \in DOMAIN fence /\ fence[current] = "reset"
        /\ waited => draws = <<>>
        /\ UNCHANGED <<frames, len, current, index, waited, recorded, shown, lost, failed>>
    BY DEF IInv, Steps, Submit
  <2>2. d \in Draws /\ draws \in Seq(Draws)
    BY DEF IInv, TypeOK, Draws
  <2>3. /\ draws' \in Seq(Draws)
        /\ Len(draws) \in Nat /\ Len(draws') = Len(draws) + 1
        /\ \A i \in 1 .. Len(draws) : draws'[i] = draws[i]
        /\ draws'[Len(draws) + 1] = d
    BY <1>1, <2>2, Appended
  <2>4. TypeOK'
    <3>1. fence' \in [Slots -> {"signalled", "submitted", "reset"}] \/ fence' = NoFences
      BY <1>1, <2>1 DEF IInv, TypeOK, NoFences
    <3> QED
      BY <1>1, <2>1, <2>3, <3>1 DEF IInv, TypeOK, Slots
  <2>5. \A i \in 1 .. Len(draws) : draws[i].slot # current
    BY <2>1 DEF IInv, DrawsFenced
  <2>6. \A i \in 1 .. Len(draws') : i \in 1 .. Len(draws) \/ i = Len(draws) + 1
    BY <2>3
  <2>7. d.slot = current /\ d.waited = waited
    OBVIOUS
  <2>8. DrawsFenced'
    <3>1. \A k \in 1 .. Len(draws') :
            draws'[k].slot \in DOMAIN fence' /\ fence'[draws'[k].slot] = "submitted"
      BY <1>1, <2>1, <2>3, <2>5, <2>6, <2>7 DEF IInv, DrawsFenced
    <3>2. ASSUME NEW j \in 1 .. Len(draws'), NEW k \in 1 .. Len(draws'),
                 draws'[j].slot = draws'[k].slot
          PROVE  j = k
      BY <3>2, <2>3, <2>5, <2>6, <2>7 DEF IInv, DrawsFenced
    <3> QED
      BY <3>1, <3>2 DEF DrawsFenced
  <2>9. OnePictureInFlight'
    <3> SUFFICES ASSUME NEW k \in 2 .. Len(draws')
                 PROVE  ~draws'[k].waited
      BY DEF OnePictureInFlight
    <3>1. CASE k \in 1 .. Len(draws)
      BY <3>1, <2>3 DEF IInv, OnePictureInFlight
    <3>2. CASE k = Len(draws) + 1
      <4>1. draws # <<>>
        BY <3>2, <2>3
      <4> QED
        BY <4>1, <3>2, <2>1, <2>3, <2>7
    <3> QED
      BY <3>1, <3>2, <2>3
  <2>10. Steps'
    BY <1>1, <2>1 DEF IInv, Steps, Slots
  <2> QED
    BY <2>4, <2>8, <2>9, <2>10 DEF IInv
<1>2. CASE pc' = "undefined" /\ UNCHANGED <<draws, fence>>
  <2>1. UNCHANGED <<frames, len, current, index, waited, recorded, fence, draws, shown,
                    lost, failed>>
    BY <1>2 DEF Submit
  <2>2. TypeOK'
    BY <1>2, <2>1 DEF IInv, TypeOK, Slots
  <2>3. DrawsFenced' /\ OnePictureInFlight'
    BY <2>1, DeviceUnchanged
  <2>4. Steps'
    BY <1>2 DEF Steps
  <2> QED
    BY <2>2, <2>3, <2>4 DEF IInv
<1> QED
  BY <1>1, <1>2 DEF Submit

\* The first draw that ends gives its fence back.
LEMMA DrawEndsStep == IInv /\ DrawEnds => IInv'
<1> SUFFICES ASSUME IInv, DrawEnds PROVE IInv'
  OBVIOUS
<1>1. /\ draws \in Seq(Draws) /\ draws # <<>> /\ draws' = Tail(draws)
      /\ UNCHANGED <<pc, frames, len, current, index, waited, recorded, shown, lost, failed>>
  BY DEF IInv, TypeOK, DrawEnds
<1>2. /\ draws' \in Seq(Draws)
      /\ Len(draws) \in Nat \ {0} /\ Len(draws') = Len(draws) - 1
      /\ Head(draws) = draws[1]
      /\ \A i \in 1 .. Len(draws) - 1 : draws'[i] = draws[i + 1]
  BY <1>1, Shortened
<1> DEFINE s == draws[1].slot
<1>3. s \in DOMAIN fence /\ fence[s] = "submitted"
  BY <1>2 DEF IInv, DrawsFenced
<1>4. fence' = [fence EXCEPT ![s] = "signalled"]
  BY <1>2, <1>3 DEF DrawEnds
<1>5. TypeOK'
  <2>1. fence' \in [Slots -> {"signalled", "submitted", "reset"}] \/ fence' = NoFences
    BY <1>3, <1>4 DEF IInv, TypeOK, NoFences
  <2> QED
    BY <1>1, <1>2, <2>1 DEF IInv, TypeOK, Slots
<1>6. \A i \in 1 .. Len(draws') : i \in 1 .. Len(draws) - 1 /\ i + 1 \in 2 .. Len(draws)
  BY <1>2
<1>7. \A i \in 2 .. Len(draws) : i \in 1 .. Len(draws) /\ draws[i].slot # s
  BY <1>2 DEF IInv, DrawsFenced
<1>8. DrawsFenced'
  <2>1. \A k \in 1 .. Len(draws') :
          draws'[k].slot \in DOMAIN fence' /\ fence'[draws'[k].slot] = "submitted"
    <3> SUFFICES ASSUME NEW k \in 1 .. Len(draws')
                 PROVE  /\ draws'[k].slot \in DOMAIN fence'
                        /\ fence'[draws'[k].slot] = "submitted"
      OBVIOUS
    <3>1. k + 1 \in 1 .. Len(draws) /\ draws'[k] = draws[k + 1] /\ draws[k + 1].slot # s
      BY <1>2, <1>6, <1>7
    <3>2. draws[k + 1].slot \in DOMAIN fence /\ fence[draws[k + 1].slot] = "submitted"
      BY <3>1 DEF IInv, DrawsFenced
    <3> QED
      BY <3>1, <3>2, <1>4
  <2>2. ASSUME NEW j \in 1 .. Len(draws'), NEW k \in 1 .. Len(draws'),
               draws'[j].slot = draws'[k].slot
        PROVE  j = k
    <3>1. j + 1 = k + 1
      BY <2>2, <1>2, <1>6, <1>7 DEF IInv, DrawsFenced
    <3> QED
      BY <3>1
  <2> QED
    BY <2>1, <2>2 DEF DrawsFenced
<1>9. OnePictureInFlight'
  <2> SUFFICES ASSUME NEW k \in 2 .. Len(draws')
               PROVE  ~draws'[k].waited
    BY DEF OnePictureInFlight
  <2>1. k \in 1 .. Len(draws) - 1 /\ k + 1 \in 2 .. Len(draws)
    BY <1>2
  <2> QED
    BY <2>1, <1>2 DEF IInv, OnePictureInFlight
<1>10. Steps'
  <2>1. pc = "submit" /\ waited => draws' = <<>>
    BY <1>1 DEF IInv, Steps
  <2> QED
    BY <1>1, <1>3, <1>4, <2>1 DEF IInv, Steps, Slots
<1> QED
  BY <1>5, <1>8, <1>9, <1>10 DEF IInv

\* An image given back to the screen is none that is still drawn.
LEMMA ReleaseStep == IInv /\ Release => IInv'
<1> SUFFICES ASSUME IInv, Release PROVE IInv'
  OBVIOUS
<1>1. shown' \in Seq(Presents)
  BY Shortened DEF IInv, TypeOK, Release
<1>2. TypeOK' /\ Steps'
  BY <1>1 DEF IInv, TypeOK, Steps, Release, Slots
<1>3. DrawsFenced' /\ OnePictureInFlight'
  BY DEF IInv, DrawsFenced, OnePictureInFlight, Release
<1> QED
  BY <1>2, <1>3 DEF IInv

\* One theorem-sized step for the rest of render.
LEMMA RenderStep ==
    ASSUME IInv, Render, ~Submit
    PROVE  IInv'
<1>0. len \in Nat /\ len > 2
  BY RenderAssumption DEF IInv, TypeOK
<1>1. CASE Begin
  <2>1. frames' \in 0 .. MaxFrames /\ pc' \in {"wait", "undefined"}
    BY <1>1, RenderAssumption DEF IInv, TypeOK, Begin
  <2>2. TypeOK' /\ Steps'
    BY <1>1, <2>1 DEF IInv, TypeOK, Steps, Begin, device, Slots
  <2> QED
    BY <1>1, <2>2, DeviceUnchanged DEF IInv, Begin, device
<1>2. CASE WaitFence
  <2>1. current \in DOMAIN fence /\ fence[current] # "submitted"
    BY <1>2 DEF IInv, Steps, WaitFence
  <2>2. TypeOK' /\ Steps'
    BY <1>2, <2>1 DEF IInv, TypeOK, Steps, WaitFence, Slots, NoFences
  <2> QED
    BY <1>2, <2>1, <2>2, FenceChanges DEF IInv, WaitFence
<1>3. CASE WaitFails \/ AcquireFails
  <2>1. TypeOK' /\ Steps'
    BY <1>3 DEF IInv, TypeOK, Steps, WaitFails, AcquireFails, Return, device, Slots
  <2> QED
    BY <1>3, <2>1, DeviceUnchanged DEF IInv, WaitFails, AcquireFails, device
<1>4. CASE Acquire
  <2>1. index' \in Slots /\ index' \in Nat
    BY <1>4, <1>0 DEF Acquire, Free, Slots
  <2>2. TypeOK' /\ Steps'
    BY <1>4, <2>1 DEF IInv, TypeOK, Steps, Acquire, device, Slots
  <2> QED
    BY <1>4, <2>2, DeviceUnchanged DEF IInv, Acquire, device
<1>5. CASE AcquireOutOfDate
  <2>1. Rebuild /\ pc' \in {"idle", "undefined"}
        /\ UNCHANGED <<frames, current, index, waited, failed>>
    BY <1>5 DEF AcquireOutOfDate, Return
  <2>2. TypeOK' /\ Steps' /\ DrawsFenced' /\ OnePictureInFlight'
    BY <2>1, Rebuilt DEF IInv, TypeOK, Steps
  <2> QED
    BY <2>2 DEF IInv
<1>6. CASE Upload \/ UploadFails
  <2>1. TypeOK' /\ Steps'
    BY <1>6 DEF IInv, TypeOK, Steps, Upload, UploadFails, device, Slots
  <2> QED
    BY <1>6, <2>1, DeviceUnchanged DEF IInv, Upload, UploadFails, device
<1>7. CASE SubmitFails
  <2>1. TypeOK' /\ Steps'
    BY <1>7 DEF IInv, TypeOK, Steps, SubmitFails, Return, Slots
  <2> QED
    BY <1>7, <2>1, DeviceUnchanged DEF IInv, SubmitFails
<1>8. NextSlot => current' \in Nat
  BY <1>0 DEF NextSlot, IInv, TypeOK
<1>9. CASE Present
  <2>1. [slot |-> current, image |-> index] \in Presents
    BY DEF IInv, TypeOK, Presents
  <2>2. shown' \in Seq(Presents)
    BY <1>9, <2>1, Appended DEF IInv, TypeOK, Present
  <2>3. TypeOK' /\ Steps'
    BY <1>8, <1>9, <2>2 DEF IInv, TypeOK, Steps, Present, Return, Slots
  <2> QED
    BY <1>9, <2>3 DEF IInv, DrawsFenced, OnePictureInFlight, Present
<1>10. CASE PresentOutOfDate
  <2>1. Rebuild /\ pc' = "idle" /\ current' \in Nat
        /\ UNCHANGED <<frames, index, waited, failed>>
    BY <1>8, <1>10 DEF PresentOutOfDate, Return
  <2>2. TypeOK' /\ Steps' /\ DrawsFenced' /\ OnePictureInFlight'
    BY <2>1, Rebuilt DEF IInv, TypeOK, Steps
  <2> QED
    BY <2>2 DEF IInv
<1>11. CASE PresentFails
  <2>1. TypeOK' /\ Steps'
    BY <1>8, <1>11 DEF IInv, TypeOK, Steps, PresentFails, Return, Slots
  <2> QED
    BY <1>11, <2>1, DeviceUnchanged DEF IInv, PresentFails
<1> QED
  BY <1>1, <1>2, <1>3, <1>4, <1>5, <1>6, <1>7, <1>9, <1>10, <1>11 DEF Render

\* Every step keeps draws and fences together.
LEMMA Step == IInv /\ [Next]_vars => IInv'
<1> SUFFICES ASSUME IInv, [Next]_vars PROVE IInv'
  OBVIOUS
<1>1. CASE UNCHANGED vars
  BY <1>1 DEF IInv, TypeOK, DrawsFenced, Steps, OnePictureInFlight, vars, Slots
<1>2. CASE Next
  BY <1>2, SubmitStep, DrawEndsStep, ReleaseStep, RenderStep DEF Next, Device, Render
<1> QED
  BY <1>1, <1>2

-----------------------------------------------------------------------------
(* The screen's queue.  A slot comes round again only after as many frames *)
(* as there are slots, and every frame since has put an image on the       *)
(* screen's queue or lost one: there are not as many images.               *)

\* Images that cannot be acquired; how many slots slot s lies behind slot "at".
Taken == lost \cup {shown[k].image : k \in 1 .. Len(shown)}
Age(s, at) == IF s < at THEN at - s ELSE at - s + len

Queued ==
    /\ \A k \in 1 .. Len(shown) :
        /\ shown[k].slot \in Slots /\ shown[k].image \notin lost
        /\ Age(shown[k].slot, current) <= Cardinality(Taken)
    /\ \A j, k \in 1 .. Len(shown) : j < k =>
        /\ Age(shown[k].slot, current) < Age(shown[j].slot, current)
        /\ shown[j].image # shown[k].image

Shows ==
    /\ Taken \subseteq Slots /\ Queued
    /\ shown # <<>> => current \in Slots
    /\ pc = "present" => current \in DOMAIN fence
    /\ pc \in {"upload", "submit", "present"} => index \notin Taken

\* There are as many slots as images.
LEMMA SlotsFinite ==
    ASSUME IInv
    PROVE  len \in Nat /\ len > 2 /\ IsFiniteSet(Slots) /\ Cardinality(Slots) = len
<1>1. len \in Nat /\ len > 2
  BY RenderAssumption DEF IInv, TypeOK
<1>2. IsFiniteSet(0 .. len - 1) /\ Cardinality(0 .. len - 1) = len
  <2>1. len - 1 \in Int /\ ~(0 > len - 1) /\ (len - 1) - 0 + 1 = len
    BY <1>1
  <2> QED
    BY <2>1, FS_Interval
<1> QED
  BY <1>1, <1>2 DEF Slots

\* An image in hand leaves one slot that no queued present has used.
LEMMA RoomLeft ==
    ASSUME IInv, Shows, index \in Slots, index \notin Taken
    PROVE  /\ IsFiniteSet(Taken) /\ Cardinality(Taken) \in Nat
           /\ Cardinality(Taken) < len
           /\ Cardinality(Taken \cup {index}) = Cardinality(Taken) + 1
<1>1. IsFiniteSet(Taken) /\ Cardinality(Taken) \in Nat
  BY SlotsFinite, FS_Subset, FS_CardinalityType DEF Shows
<1>2. Cardinality(Taken \cup {index}) = Cardinality(Taken) + 1
  BY <1>1, FS_AddElement
<1>3. Cardinality(Taken \cup {index}) <= Cardinality(Slots)
  BY SlotsFinite, FS_Subset DEF Shows
<1> QED
  BY <1>1, <1>2, <1>3, SlotsFinite

\* current_index after its increment and wrap.
LEMMA NextSlotModulo ==
    ASSUME len \in Nat, len > 2, current \in Slots, NextSlot
    PROVE  current' = IF current + 1 = len THEN 0 ELSE current + 1
<1>1. current \in 0 .. len - 1 /\ current' = (current + 1) % len
  BY DEF Slots, NextSlot
<1>2. CASE current + 1 = len
  BY <1>1, <1>2
<1>3. CASE current + 1 < len
  BY <1>1, <1>3
<1> QED
  BY <1>1, <1>2, <1>3

\* One slot on, everything in the queue is one older.
LEMMA GrowOlder ==
    ASSUME len \in Nat, len > 2, current \in Slots, NextSlot, UNCHANGED len,
           NEW s \in Slots, Age(s, current) < len
    PROVE  current' \in Slots /\ Age(s, current') = Age(s, current) + 1
<1>1. current' = IF current + 1 = len THEN 0 ELSE current + 1
  BY NextSlotModulo
<1>2. current \in 0 .. len - 1 /\ s \in 0 .. len - 1
  BY DEF Slots
<1> QED
  BY <1>1, <1>2 DEF Age, Slots

\* Where the screen's queue stays, so does what is known of it.
LEMMA QueueUnchanged ==
    ASSUME Shows, UNCHANGED <<len, current, shown, lost>>
    PROVE  /\ Taken' = Taken /\ Taken' \subseteq Slots' /\ Queued'
           /\ shown' # <<>> => current' \in Slots'
  BY DEF Shows, Queued, Taken, Age, Slots

\* Nothing is queued or lost after a rebuild.
LEMMA QueueEmpty ==
    ASSUME shown' = <<>>, lost' = {}, pc' \in {"idle", "undefined"}
    PROVE  Shows'
<1>1. Len(shown') = 0 /\ Taken' = {}
  BY DEF Taken
<1> QED
  BY <1>1 DEF Shows, Queued

\* The image in hand is lost, and perhaps the slot moves on.
LEMMA ImageLost ==
    ASSUME IInv, Shows, pc \in {"submit", "present"}, pc' = "idle",
           lost' = lost \cup {index}, UNCHANGED <<len, shown>>,
           UNCHANGED current \/ (pc = "present" /\ NextSlot)
    PROVE  Shows'
<1>1. index \in Slots /\ index \notin Taken /\ Slots' = Slots
  BY DEF IInv, Steps, Shows, Slots
<1>2. /\ Cardinality(Taken) \in Nat /\ Cardinality(Taken) < len
      /\ Cardinality(Taken \cup {index}) = Cardinality(Taken) + 1
  BY <1>1, RoomLeft
<1>3. Taken' = Taken \cup {index}
  BY DEF Taken
<1>4. len \in Nat /\ len > 2
  BY SlotsFinite
<1>5. current \in Slots /\ NextSlot => current' \in Slots
  BY <1>4, NextSlotModulo DEF Slots
<1>6. ASSUME NEW k \in 1 .. Len(shown)
      PROVE  /\ current \in Slots
             /\ \/ Age(shown[k].slot, current') = Age(shown[k].slot, current)
                \/ NextSlot /\ Age(shown[k].slot, current') = Age(shown[k].slot, current) + 1
             /\ Age(shown[k].slot, current) <= Cardinality(Taken)
             /\ Age(shown[k].slot, current) \in Nat
             /\ shown[k].image \notin lost /\ shown[k].image # index
  <2>1. /\ shown[k].slot \in Slots /\ Age(shown[k].slot, current) <= Cardinality(Taken)
        /\ shown[k].image \notin lost /\ shown[k].image # index
    BY <1>1 DEF Shows, Queued, Taken
  <2>2. current \in Slots
    <3>1. shown # <<>>
      BY <1>6
    <3> QED
      BY <3>1 DEF Shows
  <2>3. Age(shown[k].slot, current) \in Nat
    BY <1>4, <2>1, <2>2 DEF Age, Slots
  <2>4. CASE UNCHANGED current
    BY <2>1, <2>2, <2>3, <2>4 DEF Age
  <2>5. CASE NextSlot
    <3>1. Age(shown[k].slot, current') = Age(shown[k].slot, current) + 1
      BY <1>2, <1>4, <2>1, <2>2, <2>3, <2>5, GrowOlder
    <3> QED
      BY <2>1, <2>2, <2>3, <2>5, <3>1
  <2> QED
    BY <2>4, <2>5
<1>7. Queued'
  <2>1. ASSUME NEW k \in 1 .. Len(shown')
        PROVE  /\ shown'[k].slot \in Slots' /\ shown'[k].image \notin lost'
               /\ Age(shown[k].slot, current') <= Cardinality(Taken')
    BY <1>1, <1>2, <1>3, <1>6 DEF Shows, Queued
  <2>2. ASSUME NEW j \in 1 .. Len(shown'), NEW k \in 1 .. Len(shown'), j < k
        PROVE  /\ Age(shown[k].slot, current') < Age(shown[j].slot, current')
               /\ shown'[j].image # shown'[k].image
    <3>1. /\ Age(shown[k].slot, current) < Age(shown[j].slot, current)
          /\ shown[j].image # shown[k].image
      BY <2>2 DEF Shows, Queued
    <3>2. CASE UNCHANGED current
      BY <3>1, <3>2 DEF Age
    <3>3. CASE NextSlot
      <4>1. /\ Age(shown[k].slot, current') = Age(shown[k].slot, current) + 1
            /\ Age(shown[j].slot, current') = Age(shown[j].slot, current) + 1
        <5>1. /\ shown[k].slot \in Slots /\ Age(shown[k].slot, current) < len
              /\ shown[j].slot \in Slots /\ Age(shown[j].slot, current) < len
              /\ current \in Slots
          BY <1>2, <1>4, <1>6 DEF Shows, Queued
        <5> QED
          BY <5>1, <1>4, <3>3, GrowOlder
      <4> QED
        BY <1>6, <3>1, <4>1
    <3> QED
      BY <3>2, <3>3
  <2> QED
    BY <2>1, <2>2 DEF Queued, Age
<1>8. shown' # <<>> => current' \in Slots'
  BY <1>1, <1>5 DEF Shows
<1> QED
  BY <1>1, <1>3, <1>7, <1>8 DEF Shows

\* The slot that is queued is the youngest, and its image is in no other entry.
LEMMA PresentShows == IInv /\ Shows /\ Present => Shows'
<1> SUFFICES ASSUME IInv, Shows, Present PROVE Shows'
  OBVIOUS
<1> DEFINE p == [slot |-> current, image |-> index]
           n == Len(shown)
<1>1. /\ pc = "present" /\ pc' = "idle" /\ NextSlot
      /\ UNCHANGED <<len, lost>> /\ shown' = Append(shown, p)
  BY DEF Present, Return
<1>2. /\ index \in Slots /\ index \notin Taken /\ Slots' = Slots
      /\ current \in Slots /\ len \in Nat /\ len > 2
  BY <1>1, SlotsFinite DEF IInv, TypeOK, Steps, Shows, Slots, NoFences
<1>3. /\ Cardinality(Taken) \in Nat /\ Cardinality(Taken) < len
      /\ Cardinality(Taken \cup {index}) = Cardinality(Taken) + 1
  BY <1>2, RoomLeft
<1>4. p \in Presents /\ shown \in Seq(Presents)
  BY DEF IInv, TypeOK, Presents
<1>5. /\ n \in Nat /\ Len(shown') = n + 1
      /\ \A i \in 1 .. n : shown'[i] = shown[i]
      /\ shown'[n + 1] = p
  BY <1>1, <1>4, Appended
<1>6. p.slot = current /\ p.image = index
  OBVIOUS
<1> HIDE DEF p, n
<1>7. \A i \in 1 .. n + 1 : i \in 1 .. n \/ i = n + 1
  BY <1>5
<1>8. Taken' = Taken \cup {index}
  BY <1>1, <1>5, <1>6, <1>7 DEF Taken, n
<1>9. current' \in Slots /\ Age(current, current') = 1
  <2>1. current' = IF current + 1 = len THEN 0 ELSE current + 1
    BY <1>1, <1>2, NextSlotModulo
  <2> QED
    BY <1>1, <1>2, <2>1 DEF Age, Slots
<1>10. ASSUME NEW k \in 1 .. n
       PROVE  /\ shown[k].slot \in Slots /\ shown[k].image # index /\ shown[k].image \notin lost
              /\ Age(shown[k].slot, current) \in Nat \ {0}
              /\ Age(shown[k].slot, current) <= Cardinality(Taken)
              /\ Age(shown[k].slot, current') = Age(shown[k].slot, current) + 1
  <2>1. /\ shown[k].slot \in Slots /\ Age(shown[k].slot, current) <= Cardinality(Taken)
        /\ shown[k].image # index /\ shown[k].image \notin lost
    BY <1>2 DEF Shows, Queued, Taken, n
  <2>2. Age(shown[k].slot, current) \in Nat \ {0}
    BY <1>2, <2>1 DEF Age, Slots
  <2>3. Age(shown[k].slot, current') = Age(shown[k].slot, current) + 1
    <3>1. Age(shown[k].slot, current) < len
      BY <1>3, <2>1, <2>2, <1>2
    <3> QED
      BY <1>1, <1>2, <2>1, <3>1, GrowOlder
  <2> QED
    BY <2>1, <2>2, <2>3
<1>11. \A k \in 1 .. n : Age(shown'[k].slot, current') = Age(shown[k].slot, current) + 1
  BY <1>5, <1>10
<1>12. Age(shown'[n + 1].slot, current') = 1
  BY <1>5, <1>6, <1>9
<1>13. ASSUME NEW k \in 1 .. n + 1
       PROVE  /\ shown'[k].slot \in Slots /\ shown'[k].image \notin lost'
              /\ Age(shown'[k].slot, current') <= Cardinality(Taken')
  <2>1. CASE k \in 1 .. n
    BY <2>1, <1>1, <1>3, <1>5, <1>8, <1>10, <1>11
  <2>2. CASE k = n + 1
    <3>1. index \notin lost
      BY <1>2 DEF Taken
    <3> QED
      BY <2>2, <3>1, <1>1, <1>2, <1>3, <1>5, <1>6, <1>8, <1>12
  <2> QED
    BY <2>1, <2>2, <1>7
<1>14. ASSUME NEW j \in 1 .. n + 1, NEW k \in 1 .. n + 1, j < k
       PROVE  /\ Age(shown'[k].slot, current') < Age(shown'[j].slot, current')
              /\ shown'[j].image # shown'[k].image
  <2>1. j \in 1 .. n
    BY <1>5, <1>14
  <2>2. CASE k \in 1 .. n
    <3>1. Age(shown[k].slot, current) < Age(shown[j].slot, current) /\ shown[j].image # shown[k].image
      BY <2>1, <2>2, <1>14 DEF Shows, Queued, n
    <3> QED
      BY <2>1, <2>2, <3>1, <1>5, <1>10, <1>11
  <2>3. CASE k = n + 1
    BY <2>1, <2>3, <1>5, <1>6, <1>10, <1>11, <1>12
  <2> QED
    BY <2>2, <2>3, <1>7
<1>15. Queued'
  BY <1>1, <1>2, <1>5, <1>13, <1>14 DEF Queued, Age
<1> QED
  BY <1>1, <1>2, <1>8, <1>9, <1>15 DEF Shows

\* The oldest entry leaves the queue, the rest keeps its distance from the slot in turn.
LEMMA ReleaseShows == IInv /\ Shows /\ Release => Shows'
<1> SUFFICES ASSUME IInv, Shows, Release PROVE Shows'
  OBVIOUS
<1>1. /\ shown # <<>> /\ shown' = Tail(shown) /\ shown \in Seq(Presents)
      /\ UNCHANGED <<pc, len, current, index, fence, lost>> /\ Slots' = Slots
  BY DEF Release, IInv, TypeOK, Slots
<1>2. /\ Len(shown) \in Nat \ {0} /\ Len(shown') = Len(shown) - 1
      /\ \A i \in 1 .. Len(shown) - 1 : shown'[i] = shown[i + 1]
  BY <1>1, Shortened
<1>3. \A i \in 1 .. Len(shown') : i + 1 \in 2 .. Len(shown) /\ i + 1 \in 1 .. Len(shown)
  BY <1>2
<1>4. \A i \in 1 .. Len(shown) : i = 1 \/ (i - 1 \in 1 .. Len(shown') /\ (i - 1) + 1 = i)
  BY <1>2
<1>6. Taken' = Taken \ {shown[1].image}
  <2>1. \A i \in 1 .. Len(shown) : i # 1 => shown[i].image # shown[1].image
    BY <1>2 DEF Shows, Queued
  <2>2. shown[1].image \notin lost
    BY <1>2 DEF Shows, Queued
  <2>3. Taken' = lost \cup {shown[i].image : i \in 2 .. Len(shown)}
    <3>1. \A i \in 2 .. Len(shown) : i - 1 \in 1 .. Len(shown') /\ shown'[i - 1] = shown[i]
      BY <1>2
    <3>2. \A i \in 1 .. Len(shown') : i + 1 \in 2 .. Len(shown) /\ shown'[i] = shown[i + 1]
      BY <1>2
    <3> QED
      BY <1>1, <3>1, <3>2 DEF Taken
  <2>4. \A i \in 1 .. Len(shown) : i = 1 \/ i \in 2 .. Len(shown)
    BY <1>2
  <2>5. \A i \in 2 .. Len(shown) : i \in 1 .. Len(shown) /\ i # 1
    BY <1>2
  <2> QED
    BY <2>1, <2>2, <2>3, <2>4, <2>5 DEF Taken
<1>7. Cardinality(Taken') = Cardinality(Taken) - 1 /\ Cardinality(Taken) \in Nat
  <2>1. IsFiniteSet(Taken) /\ Cardinality(Taken) \in Nat
    BY SlotsFinite, FS_Subset, FS_CardinalityType DEF Shows
  <2>2. shown[1].image \in Taken
    BY <1>2 DEF Taken
  <2> QED
    BY <1>6, <2>1, <2>2, FS_RemoveElement
<1>8. Queued'
  <2>1. ASSUME NEW k \in 1 .. Len(shown')
        PROVE  /\ shown'[k].slot \in Slots /\ shown'[k].image \notin lost
               /\ Age(shown'[k].slot, current) <= Cardinality(Taken')
    <3>1. /\ k + 1 \in 1 .. Len(shown) /\ 1 \in 1 .. Len(shown) /\ 1 < k + 1
          /\ shown'[k] = shown[k + 1]
      BY <1>2, <1>3
    <3>2. /\ shown[k + 1].slot \in Slots /\ shown[k + 1].image \notin lost
          /\ shown[1].slot \in Slots
          /\ Age(shown[1].slot, current) <= Cardinality(Taken)
          /\ Age(shown[k + 1].slot, current) < Age(shown[1].slot, current)
      BY <3>1 DEF Shows, Queued
    <3>3. Age(shown[k + 1].slot, current) \in Int /\ Age(shown[1].slot, current) \in Int
      BY <3>2, <1>1, SlotsFinite DEF Age, Slots, Shows
    <3> QED
      BY <3>1, <3>2, <3>3, <1>7
  <2>2. ASSUME NEW j \in 1 .. Len(shown'), NEW k \in 1 .. Len(shown'), j < k
        PROVE  /\ Age(shown'[k].slot, current) < Age(shown'[j].slot, current)
               /\ shown'[j].image # shown'[k].image
    <3>1. /\ j + 1 \in 1 .. Len(shown) /\ k + 1 \in 1 .. Len(shown) /\ j + 1 < k + 1
          /\ shown'[j] = shown[j + 1] /\ shown'[k] = shown[k + 1]
      BY <2>2, <1>2, <1>3
    <3> QED
      BY <3>1 DEF Shows, Queued
  <2> QED
    BY <1>1, <2>1, <2>2 DEF Queued, Age
<1> QED
  BY <1>1, <1>6, <1>8 DEF Shows

\* Every step keeps the queue shorter than the round of slots.
LEMMA ShowsStep == IInv /\ Shows /\ [Next]_vars => Shows'
<1> SUFFICES ASSUME IInv, Shows, [Next]_vars PROVE Shows'
  OBVIOUS
<1>1. CASE UNCHANGED vars
  BY <1>1, QueueUnchanged DEF Shows, vars
<1>2. CASE Begin \/ WaitFence \/ WaitFails \/ AcquireFails
  <2>1. UNCHANGED <<len, current, shown, lost>> /\ pc' \in {"idle", "wait", "acquire", "undefined"}
    BY <1>2 DEF Begin, WaitFence, WaitFails, AcquireFails, Return, device
  <2> QED
    BY <2>1, QueueUnchanged DEF Shows
<1>3. CASE Acquire
  <2>1. UNCHANGED <<len, current, shown, lost>> /\ pc' = "upload" /\ index' \in Free
    BY <1>3 DEF Acquire, device
  <2>2. index' \notin Taken
    BY <2>1 DEF Free, Taken
  <2> QED
    BY <2>1, <2>2, QueueUnchanged DEF Shows
<1>4. CASE AcquireOutOfDate \/ PresentOutOfDate
  BY <1>4, QueueEmpty DEF AcquireOutOfDate, PresentOutOfDate, Rebuild, Return
<1>5. CASE Upload \/ UploadFails
  <2>1. UNCHANGED <<len, current, shown, lost, index>> /\ pc' = "submit" /\ pc = "upload"
    BY <1>5 DEF Upload, UploadFails, device
  <2> QED
    BY <2>1, QueueUnchanged DEF Shows
<1>6. CASE Submit
  <2>1. /\ UNCHANGED <<len, current, shown, lost, index>> /\ pc = "submit"
        /\ pc' \in {"present", "undefined"}
        /\ pc' = "present" => DOMAIN fence' = DOMAIN fence
    BY <1>6 DEF Submit, IInv, TypeOK, NoFences
  <2>2. current \in DOMAIN fence
    BY <2>1 DEF IInv, Steps
  <2> QED
    BY <2>1, <2>2, QueueUnchanged DEF Shows
<1>7. CASE SubmitFails \/ PresentFails
  BY <1>7, ImageLost DEF SubmitFails, PresentFails, Return
<1>8. CASE Present
  BY <1>8, PresentShows
<1>9. CASE DrawEnds
  <2>1. /\ UNCHANGED <<pc, len, current, shown, lost, index>>
        /\ DOMAIN fence' = DOMAIN fence
    BY <1>9 DEF DrawEnds, IInv, TypeOK, NoFences
  <2> QED
    BY <2>1, QueueUnchanged DEF Shows
<1>10. CASE Release
  BY <1>10, ReleaseShows
<1> QED
  BY <1>1, <1>2, <1>3, <1>4, <1>5, <1>6, <1>7, <1>8, <1>9, <1>10
     DEF Next, Render, Device

-----------------------------------------------------------------------------
(* What a fence that is not signalled waits for.                           *)

\* A submitted fence belongs to a draw in flight.  One that is reset is the
\* current call's, or a failed call left it so.
Owed ==
    \A s \in DOMAIN fence :
        /\ fence[s] = "submitted" => \E k \in 1 .. Len(draws) : draws[k].slot = s
        /\ fence[s] = "reset" => \/ failed \/ pc = "undefined"
                                 \/ pc \in {"acquire", "upload", "submit"} /\ s = current

\* The draw that is submitted has the current slot.
LEMMA SubmitOwes == IInv /\ Owed /\ Submit => Owed'
<1> SUFFICES ASSUME IInv, Owed, Submit PROVE Owed'
  OBVIOUS
<1>1. CASE pc' = "undefined" /\ UNCHANGED <<draws, fence>>
  BY <1>1 DEF Owed
<1> DEFINE d == [slot |-> current, image |-> index, waited |-> waited]
<1>2. CASE /\ pc' = "present"
           /\ draws' = Append(draws, d)
           /\ fence' = [fence EXCEPT ![current] = "submitted"]
  <2>1. d \in Draws /\ draws \in Seq(Draws)
    BY DEF IInv, TypeOK, Draws
  <2>2. /\ Len(draws) \in Nat /\ Len(draws') = Len(draws) + 1
        /\ \A i \in 1 .. Len(draws) : draws'[i] = draws[i]
        /\ draws'[Len(draws) + 1] = d
    BY <1>2, <2>1, Appended
  <2>3. draws'[Len(draws) + 1].slot = current
    BY <2>2
  <2>4. \A k \in 1 .. Len(draws) : k \in 1 .. Len(draws') /\ draws'[k].slot = draws[k].slot
    BY <2>2
  <2>5. Len(draws) + 1 \in 1 .. Len(draws')
    BY <2>2
  <2> HIDE DEF d
  <2> SUFFICES ASSUME NEW s \in DOMAIN fence
               PROVE  /\ fence'[s] = "submitted" => \E k \in 1 .. Len(draws') : draws'[k].slot = s
                      /\ fence'[s] = "reset" => failed'
    BY <1>2 DEF Owed
  <2>6. CASE s = current
    BY <1>2, <2>3, <2>5, <2>6
  <2>7. CASE s # current
    <3>1. fence'[s] = fence[s] /\ pc = "submit" /\ failed' = failed
      BY <1>2, <2>7 DEF Submit
    <3> QED
      BY <2>4, <2>7, <3>1 DEF Owed
  <2> QED
    BY <2>6, <2>7
<1> QED
  BY <1>1, <1>2 DEF Submit

\* A draw that ends signals its fence; the others have theirs.
LEMMA DrawEndsOwes == IInv /\ Owed /\ DrawEnds => Owed'
<1> SUFFICES ASSUME IInv, Owed, DrawEnds PROVE Owed'
  OBVIOUS
<1>1. /\ draws \in Seq(Draws) /\ draws # <<>> /\ draws' = Tail(draws)
      /\ UNCHANGED <<pc, current, failed>>
  BY DEF IInv, TypeOK, DrawEnds
<1>2. /\ Len(draws) \in Nat \ {0} /\ Len(draws') = Len(draws) - 1
      /\ Head(draws) = draws[1]
      /\ \A i \in 1 .. Len(draws) - 1 : draws'[i] = draws[i + 1]
  BY <1>1, Shortened
<1>3. DOMAIN fence' = DOMAIN fence
      /\ \A s \in DOMAIN fence :
            fence'[s] = IF s = draws[1].slot /\ fence[s] = "submitted" THEN "signalled" ELSE fence[s]
  BY <1>2 DEF DrawEnds
<1> SUFFICES ASSUME NEW s \in DOMAIN fence
             PROVE  /\ fence'[s] = "submitted" => \E k \in 1 .. Len(draws') : draws'[k].slot = s
                    /\ fence'[s] = "reset" => fence[s] = "reset"
  BY <1>1, <1>3 DEF Owed
<1>4. ASSUME fence'[s] = "submitted"
      PROVE  \E k \in 1 .. Len(draws') : draws'[k].slot = s
  <2>1. fence[s] = "submitted" /\ s # draws[1].slot
    BY <1>3, <1>4
  <2>2. PICK k \in 1 .. Len(draws) : draws[k].slot = s
    BY <2>1 DEF Owed
  <2>3. k # 1
    BY <2>1, <2>2
  <2>4. k - 1 \in 1 .. Len(draws') /\ (k - 1) + 1 = k /\ k - 1 \in 1 .. Len(draws) - 1
    BY <1>2, <2>2, <2>3
  <2>5. draws'[k - 1] = draws[k]
    BY <1>2, <2>4
  <2> QED
    BY <2>2, <2>4, <2>5
<1> QED
  BY <1>3, <1>4

\* Every step keeps the fences owed.
LEMMA OwedStep == IInv /\ Owed /\ [Next]_vars => Owed'
<1> SUFFICES ASSUME IInv, Owed, [Next]_vars PROVE Owed'
  OBVIOUS
<1>1. CASE UNCHANGED vars \/ Begin \/ WaitFails \/ Acquire \/ Upload \/ UploadFails \/ Release
  BY <1>1 DEF Owed, vars, device, Begin, WaitFails, Acquire, Upload, UploadFails, Release, Return
<1>2. CASE AcquireFails \/ SubmitFails \/ Present \/ PresentFails
  BY <1>2 DEF Owed, device, AcquireFails, SubmitFails, Present, PresentFails, Return
<1>3. CASE WaitFence
  BY <1>3 DEF Owed, WaitFence
<1>4. ASSUME Rebuild PROVE Owed'
  BY <1>4 DEF Owed, Rebuild, NoFences
<1>5. CASE Submit
  BY <1>5, SubmitOwes
<1>6. CASE DrawEnds
  BY <1>6, DrawEndsOwes
<1> QED
  BY <1>1, <1>2, <1>3, <1>4, <1>5, <1>6
     DEF Next, Render, Device, AcquireOutOfDate, PresentOutOfDate

-----------------------------------------------------------------------------
(* The theorems.                                                           *)

\* The invariant, for every set of swapchain lengths and any number of frames.
THEOREM Invariance == Spec => []IInv
  BY Initially, Step, PTL DEF Spec

\* Type correctness.
THEOREM TypeCorrect == Spec => []TypeOK
<1>1. IInv => TypeOK
  BY DEF IInv
<1> QED
  BY <1>1, Invariance, PTL

\* The third invariant: what each fence that is not signalled waits for.
THEOREM FenceInvariance == Spec => []Owed
<1>1. Init => Owed
  BY DEF Init, Owed
<1>2. IInv /\ Owed /\ [Next]_vars => Owed'
  BY OwedStep
<1> QED
  BY <1>1, <1>2, Invariance, PTL DEF Spec

\* The fence of a slot (VulkanRenderer.cc:39-46) keeps render from using the
\* slot's fence and semaphore under a draw in flight, and the wait for it, which
\* has no timeout, is for a draw that is in flight, unless a call has failed.
THEOREM FenceGuards == Spec => []FenceGuardsSlot
<1>1. IInv /\ Owed => FenceGuardsSlot
  <2> SUFFICES ASSUME IInv, Owed PROVE FenceGuardsSlot
    OBVIOUS
  <2>1. ASSUME pc = "wait"
        PROVE  \/ fence[current] = "signalled"
               \/ \E k \in 1 .. Len(draws) : draws[k].slot = current
               \/ failed /\ Stuck
    <3>1. current \in DOMAIN fence
      BY <2>1 DEF IInv, Steps
    <3>2. fence[current] \in {"signalled", "submitted", "reset"}
      BY <3>1 DEF IInv, TypeOK, NoFences
    <3> QED
      BY <2>1, <3>1, <3>2 DEF Owed, Stuck
  <2>2. ASSUME pc \in {"acquire", "upload", "submit"}
        PROVE  \A k \in 1 .. Len(draws) : draws[k].slot # current
    BY <2>2 DEF IInv, DrawsFenced, Steps
  <2> QED
    BY <2>1, <2>2 DEF FenceGuardsSlot
<1> QED
  BY <1>1, Invariance, FenceInvariance, PTL

\* An upload overwrites the texture under the draw of one frame at most
\* (VulkanRenderer.cc:82, 1263).
THEOREM OnePicture == Spec => []OnePictureInFlight
<1>1. IInv => OnePictureInFlight
  BY DEF IInv
<1> QED
  BY <1>1, Invariance, PTL

\* The second invariant: what the screen holds, slot by slot.
THEOREM ScreenInvariance == Spec => []Shows
<1>1. Init => Shows
  <2> SUFFICES ASSUME Init PROVE Shows
    OBVIOUS
  <2>1. Len(shown) = 0 /\ Taken = {}
    BY DEF Init, Taken
  <2> QED
    BY <2>1 DEF Init, Shows, Queued
<1>2. IInv /\ Shows /\ [Next]_vars => Shows'
  BY ShowsStep
<1> QED
  BY <1>1, <1>2, Invariance, PTL DEF Spec

\* render signals a slot's render_complete semaphore (VulkanRenderer.cc:84, 97)
\* only after the present that waited on it (106, 110) has been shown, though
\* the slots go round (116) and the images come back in an order of their own.
THEOREM SemaphoresFree == Spec => []SemaphoreFree
<1>1. IInv /\ Shows => SemaphoreFree
  <2> SUFFICES ASSUME IInv, Shows, pc = "submit", NEW k \in 1 .. Len(shown),
                      shown[k].slot = current
               PROVE  FALSE
    BY DEF SemaphoreFree
  <2>1. index \in Slots /\ index \notin Taken
    BY DEF IInv, Steps, Shows
  <2>2. Age(shown[k].slot, current) <= Cardinality(Taken) /\ Cardinality(Taken) < len
        /\ Cardinality(Taken) \in Nat /\ len \in Nat
    BY <2>1, RoomLeft, SlotsFinite DEF Shows, Queued
  <2>3. Age(current, current) = len
    BY <2>2 DEF Age, IInv, TypeOK
  <2> QED
    BY <2>2, <2>3
<1> QED
  BY <1>1, Invariance, ScreenInvariance, PTL

\* A call that fails between vkResetFences and vkQueueSubmit silences the
\* renderer for good (VulkanRenderer.cc:46, 77, 103).
THEOREM StuckStays == Spec => StuckForever
<1>1. IInv /\ [Next]_vars => (Stuck => Stuck')
  <2> SUFFICES ASSUME IInv, [Next]_vars, Stuck PROVE Stuck'
    OBVIOUS
  <2>1. CASE UNCHANGED vars
    BY <2>1 DEF Stuck, vars
  <2>2. CASE Render
    BY <2>2 DEF Stuck, Render, Begin, WaitFence, WaitFails, Acquire, AcquireFails,
           AcquireOutOfDate, Upload, UploadFails, Submit, SubmitFails, Present,
           PresentOutOfDate, PresentFails, Return, device
  <2>3. CASE DrawEnds
    BY <2>3 DEF Stuck, DrawEnds
  <2>4. CASE Release
    BY <2>4 DEF Stuck, Release
  <2> QED
    BY <2>1, <2>2, <2>3, <2>4 DEF Next, Device
<1> QED
  BY <1>1, Invariance, PTL DEF Spec, StuckForever

=============================================================================
