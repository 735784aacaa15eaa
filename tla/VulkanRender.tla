---------------------------- MODULE VulkanRender ----------------------------
(***************************************************************************)
(* VulkanRenderer::render against the graphics queue and the screen.  The  *)
(* render node's gate lets one call in at a time (module FramePipeline);   *)
(* a call waits for the fence of its slot, acquires an image, copies the   *)
(* camera's picture into the one texture all draws sample, submits a draw  *)
(* and presents the image.  Frames number slots by current_index, command  *)
(* buffers by image.                                                       *)
(***************************************************************************)
EXTENDS Integers, Sequences

CONSTANTS
    Lens,           \* what vkGetSwapchainImagesKHR may say; three were asked for
    MaxFrames       \* bound: calls of render

ASSUME RenderAssumption == Lens \subseteq Nat \ (0 .. 2) /\ MaxFrames \in Nat

VARIABLES
    pc,             \* where render is; undefined: it has read past a vector
    frames,         \* calls so far
    len,            \* swapchain_len
    current,        \* current_index
    index,          \* the image acquired
    waited,         \* this frame's vkQueueWaitIdle was reached and returned
    fence,          \* camera_fences: signalled, submitted with a draw, or reset
                    \* and not submitted
    recorded,       \* record_default_commands ran on these command buffers
    draws,          \* draws submitted and not finished
    shown,          \* images queued for the screen and not released by it
    lost,           \* images acquired that no present queued
    failed          \* history: a call returned between reset and submit

vars == <<pc, frames, len, current, index, waited, fence, recorded, draws,
          shown, lost, failed>>
device == <<fence, draws, shown, lost>>

Slots == 0 .. len - 1
NoFences == [s \in {} |-> "signalled"]
Draws == [slot : Nat, image : Nat, waited : BOOLEAN]
Presents == [slot : Nat, image : Nat]

TypeOK ==
    /\ pc \in {"idle", "wait", "acquire", "upload", "submit", "present",
               "undefined"}
    /\ frames \in 0 .. MaxFrames
    /\ len \in Lens
    /\ current \in Nat /\ index \in Nat
    /\ waited \in BOOLEAN /\ recorded \in BOOLEAN /\ failed \in BOOLEAN
    /\ fence \in [Slots -> {"signalled", "submitted", "reset"}] \/ fence = NoFences
    /\ draws \in Seq(Draws)
    /\ shown \in Seq(Presents)
    /\ lost \subseteq Slots

\* After create().
Init ==
    /\ pc = "idle" /\ frames = 0
    /\ len \in Lens
    /\ current = 0 /\ index = 0 /\ waited = FALSE
    /\ fence = [s \in Slots |-> "signalled"]
    /\ recorded = TRUE
    /\ draws = <<>> /\ shown = <<>> /\ lost = {}
    /\ failed = FALSE

-----------------------------------------------------------------------------
(* render                                                                  *)

Return == pc' = "idle" /\ UNCHANGED frames

\* The frame is found (a lost one changes nothing here); the fence of the slot
\* is looked up without a test of current_index.
Begin ==
    /\ pc = "idle" /\ frames < MaxFrames
    /\ frames' = frames + 1
    /\ pc' = IF current \in DOMAIN fence THEN "wait" ELSE "undefined"
    /\ UNCHANGED <<len, current, index, waited, device, recorded, failed>>

\* Mutant of WaitFence: the wait has a timeout and its result is not looked at.
WaitFenceTimeout ==
    /\ pc = "wait"
    /\ pc' = "acquire"
    /\ fence' = [fence EXCEPT ![current] = "reset"]
    /\ UNCHANGED <<frames, len, current, index, waited, recorded, draws, shown,
                   lost, failed>>

\* vkWaitForFences, for ever, and vkResetFences.
WaitFence ==
    /\ pc = "wait" /\ fence[current] = "signalled"
    /\ pc' = "acquire"
    /\ fence' = [fence EXCEPT ![current] = "reset"]
    /\ UNCHANGED <<frames, len, current, index, waited, recorded, draws, shown,
                   lost, failed>>

\* Either of them fails.
WaitFails ==
    /\ pc = "wait" /\ Return
    /\ UNCHANGED <<len, current, index, waited, device, recorded, failed>>

\* Images the screen can hand out.
Free == Slots \ (lost \cup {shown[k].image : k \in 1 .. Len(shown)})

\* vkAcquireNextImageKHR, without a timeout.
Acquire ==
    /\ pc = "acquire"
    /\ index' \in Free
    /\ pc' = "upload"
    /\ UNCHANGED <<frames, len, current, waited, device, recorded, failed>>

AcquireFails ==
    /\ pc = "acquire" /\ Return
    /\ failed' = TRUE
    /\ UNCHANGED <<len, current, index, waited, device, recorded>>

\* destroy(true) and recreate(): the device is idle first; there may be no
\* fences again, and current_index stays.  Nobody records the new buffers.
Rebuild ==
    /\ len' \in Lens
    /\ fence' \in {NoFences, [s \in 0 .. len' - 1 |-> "signalled"]}
    /\ recorded' = FALSE
    /\ draws' = <<>> /\ shown' = <<>> /\ lost' = {}

\* Out of date: recreate fails, or render goes on with index UINT32_MAX.
AcquireOutOfDate ==
    /\ pc = "acquire"
    /\ Rebuild
    /\ \/ Return
       \/ fence' # NoFences /\ pc' = "undefined" /\ UNCHANGED frames
    /\ UNCHANGED <<current, index, waited, failed>>

\* Mutant of Upload: the copy is submitted and nobody waits.
UploadNoWait ==
    /\ pc = "upload"
    /\ pc' = "submit" /\ waited' = TRUE
    /\ UNCHANGED <<frames, len, current, index, device, recorded, failed>>

\* update_camera_texture copies the picture and waits until the queue is idle
\* (end_single_command).
Upload ==
    /\ pc = "upload" /\ draws = <<>>
    /\ pc' = "submit" /\ waited' = TRUE
    /\ UNCHANGED <<frames, len, current, index, device, recorded, failed>>

\* No staging buffer, no submission, or the wait fails; render does not look at
\* the result.
UploadFails ==
    /\ pc = "upload"
    /\ pc' = "submit" /\ waited' = FALSE
    /\ UNCHANGED <<frames, len, current, index, device, recorded, failed>>

\* Mutant of Submit: the fence is not passed to vkQueueSubmit.
SubmitNoFence ==
    /\ pc = "submit"
    /\ pc' = "present"
    /\ draws' = Append(draws, [slot |-> current, image |-> index,
                               waited |-> waited])
    /\ UNCHANGED <<frames, len, current, index, waited, fence, recorded, shown,
                   lost, failed>>

\* vkQueueSubmit; a command buffer that was never recorded is undefined
\* behaviour, of which drawing nothing is one outcome.
Submit ==
    /\ pc = "submit"
    /\ \/ /\ pc' = "present"
          /\ draws' = Append(draws, [slot |-> current, image |-> index,
                                     waited |-> waited])
          /\ fence' = [fence EXCEPT ![current] = "submitted"]
       \/ /\ ~recorded
          /\ pc' = "undefined"
          /\ UNCHANGED <<draws, fence>>
    /\ UNCHANGED <<frames, len, current, index, waited, recorded, shown, lost,
                   failed>>

SubmitFails ==
    /\ pc = "submit" /\ Return
    /\ failed' = TRUE
    /\ lost' = lost \cup {index}
    /\ UNCHANGED <<len, current, index, waited, fence, recorded, draws, shown>>

\* Mutant of NextSlot: one slot is left out.
NextSlotShort == current' = (current + 1) % (len - 1)

\* The slot moves on before vkQueuePresentKHR, with the old length.
NextSlot == current' = (current + 1) % len

Present ==
    /\ pc = "present" /\ Return
    /\ NextSlot
    /\ shown' = Append(shown, [slot |-> current, image |-> index])
    /\ UNCHANGED <<len, index, waited, fence, recorded, draws, lost, failed>>

PresentOutOfDate ==
    /\ pc = "present" /\ Return
    /\ NextSlot
    /\ Rebuild
    /\ UNCHANGED <<index, waited, failed>>

PresentFails ==
    /\ pc = "present" /\ Return
    /\ NextSlot
    /\ lost' = lost \cup {index}
    /\ UNCHANGED <<len, index, waited, fence, recorded, draws, shown, failed>>

Render ==
    \/ Begin \/ WaitFence \/ WaitFails
    \/ Acquire \/ AcquireFails \/ AcquireOutOfDate
    \/ Upload \/ UploadFails
    \/ Submit \/ SubmitFails
    \/ Present \/ PresentOutOfDate \/ PresentFails

-----------------------------------------------------------------------------
(* The device (external).                                                  *)

\* Draws finish in the order of their submission and signal the fence they were
\* submitted with.
DrawEnds ==
    /\ draws # <<>>
    /\ fence' = [fence EXCEPT ![Head(draws).slot] =
                    IF @ = "submitted" THEN "signalled" ELSE @]
    /\ draws' = Tail(draws)
    /\ UNCHANGED <<pc, frames, len, current, index, waited, recorded, shown,
                   lost, failed>>

\* Presentation in FIFO mode: the screen shows the images in their order, each
\* when it is drawn, and then gives it back.
Release ==
    /\ shown # <<>>
    /\ \A k \in 1 .. Len(draws) : draws[k].image # Head(shown).image
    /\ shown' = Tail(shown)
    /\ UNCHANGED <<pc, frames, len, current, index, waited, fence, recorded,
                   draws, lost, failed>>

Device == DrawEnds \/ Release

Next == Render \/ Device

Spec == Init /\ [][Next]_vars

\* The render node runs on, the device finishes what it was given; no failure
\* is owed.
FairSpec ==
    /\ Spec
    /\ WF_vars(WaitFence \/ Acquire \/ Upload \/ Submit \/ Present)
    /\ WF_vars(DrawEnds) /\ WF_vars(Release)

-----------------------------------------------------------------------------
(* Properties.                                                             *)

\* A call that returned between reset and submit leaves the fence reset.
Stuck ==
    /\ pc \in {"idle", "wait"}
    /\ current \in DOMAIN fence /\ fence[current] = "reset"

\* The fence that a call waits for, without a timeout, is signalled, or will be by
\* a draw that the device still works on, unless a call failed after its reset;
\* and from the reset to the next submission no draw in flight uses the slot:
\* neither its semaphore nor its fence are touched under one.
FenceGuardsSlot ==
    /\ pc = "wait" =>
        \/ fence[current] = "signalled"
        \/ \E k \in 1 .. Len(draws) : draws[k].slot = current
        \/ failed /\ Stuck
    /\ pc \in {"acquire", "upload", "submit"} =>
        \A k \in 1 .. Len(draws) : draws[k].slot # current

\* There is one texture for all frames.  A draw joins another in flight only
\* if its copy failed or was not waited for, so that the picture copied over
\* by an upload is needed by the frame before at most.
OnePictureInFlight ==
    \A k \in 2 .. Len(draws) : ~draws[k].waited

\* render_complete_semaphores go by slot, not by image: the present that waits
\* on one has been shown before a draw signals it again.
SemaphoreFree ==
    pc = "submit" => \A k \in 1 .. Len(shown) : shown[k].slot # current

\* Once that is so no later frame is drawn: every call waits for a fence that nobody will
\* signal, with the render gate closed.
StuckForever == [][Stuck => Stuck']_vars

\* Otherwise every call returns, unless all images were lost to failed presents
\* or a vector was read past its end.
RenderReturns ==
    pc # "idle" ~>
        \/ pc \in {"idle", "undefined"}
        \/ failed
        \/ pc = "acquire" /\ lost = Slots

=============================================================================
