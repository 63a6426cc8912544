---------------------------- MODULE MCOverlapSystem ----------------------------
(***************************************************************************)
(* OverlapSystem for TLC: two uploads, one service.                        *)
(***************************************************************************)
EXTENDS OverlapSystem
================================================================================
