------------------------ MODULE MCFingerprintRegistry ------------------------
(***************************************************************************)
(* Instances of FingerprintRegistry for TLC.                               *)
(***************************************************************************)
EXTENDS FingerprintRegistry, TLC

Symmetry == Permutations(PrintID) \cup Permutations(Request)
===============================================================================
