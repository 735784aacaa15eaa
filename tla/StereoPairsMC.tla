---------------------------- MODULE StereoPairsMC ----------------------------
(***************************************************************************)
(* StereoPairs for TLC.  The router's instances are alike, and a behaviour *)
(* is followed up to the first pair that is joined while another with one  *)
(* of its keys is there: the properties speak of what comes before it, and *)
(* HalvesSpec, which speaks of all, is proved.                             *)
(***************************************************************************)
EXTENDS StereoPairs, TLC

RouterSymmetry == Permutations(Routers)

KeysKeptApart == apart

=============================================================================
