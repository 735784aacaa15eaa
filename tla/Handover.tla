------------------------------- MODULE Handover -------------------------------
(***************************************************************************)
(* What a detector and a renderer on two threads owe each other about the  *)
(* objects the one makes and the other shows, with no lock between them:   *)
(* objects are made in the order of their numbers, shown one at a time,    *)
(* and deleted once; the one that is shown goes only when the renderer     *)
(* lets go of it, and nothing is shown that has been deleted.  An object   *)
(* is its number.                                                          *)
(***************************************************************************)
EXTENDS Naturals

VARIABLES
    live,       \* the objects made and not deleted
    shown,      \* the one that is drawn, 0 for none
    newest      \* no object made so far has a higher number

vars == <<live, shown, newest>>

Init == live = {} /\ shown = 0 /\ newest = 0

Make == /\ newest' \in Nat /\ newest' > newest
        /\ live' = live \cup {newest'}
        /\ shown' = shown

\* A frame in which nothing is found.
Skip == /\ newest' \in Nat /\ newest' > newest
        /\ UNCHANGED <<live, shown>>

\* Somebody deletes an object that was never shown, or is not any more.
Discard == \E b \in live \ {shown} :
              live' = live \ {b} /\ UNCHANGED <<shown, newest>>

\* The renderer deletes what it has shown, and shows another object or none.
Replace == \E b \in (live \cup {0}) \ {shown} :
              /\ shown' = b
              /\ live' = live \ {shown}
              /\ newest' = newest

Next == Make \/ Skip \/ Discard \/ Replace

Spec == Init /\ [][Next]_vars

===============================================================================
