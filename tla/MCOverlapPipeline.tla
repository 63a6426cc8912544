--------------------------- MODULE MCOverlapPipeline ---------------------------
(***************************************************************************)
(* OverlapPipeline for TLC: two uploads, alike in everything.              *)
(***************************************************************************)
EXTENDS OverlapPipeline, TLC

Symmetry == Permutations(Overlap)
=================================================================================
