------------------------------ MODULE FrameStore ------------------------------
(***************************************************************************)
(* What Repository promises the threads that share it, whoever they are:   *)
(* frames are numbered in order, a stored frame stays until somebody       *)
(* erases it while nobody has it pinned (isDetecting, isTracking,          *)
(* isRendering), and a frame that left never comes back: no number is      *)
(* given twice.  The one operation that ignores the pins is the clearing   *)
(* of a whole camera.                                                      *)
(***************************************************************************)
EXTENDS Naturals

VARIABLES stored, next, pinned

vars == <<stored, next, pinned>>

Init == stored = {} /\ next = 0 /\ pinned = {}

Insert == /\ stored' = stored \cup {next}
          /\ next' = next + 1
          /\ pinned' = pinned

Pin == \E s \in 0 .. next - 1 :
          pinned' = pinned \cup {s} /\ UNCHANGED <<stored, next>>

Unpin == \E s \in pinned :
          pinned' = pinned \ {s} /\ UNCHANGED <<stored, next>>

Erase == \E s \in stored \ pinned :
          stored' = stored \ {s} /\ UNCHANGED <<next, pinned>>

Clear == stored' = {} /\ UNCHANGED <<next, pinned>>

Next == Insert \/ Pin \/ Unpin \/ Erase \/ Clear

Spec == Init /\ [][Next]_vars

=============================================================================
