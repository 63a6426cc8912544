--------------------------- MODULE MCSeparationPage ---------------------------
(***************************************************************************)
(* Instances of SeparationPage for TLC.                                    *)
(***************************************************************************)
EXTENDS SeparationPage, TLC
===============================================================================
