---------------------------- MODULE MCUserAccounts ----------------------------
(***************************************************************************)
(* Instances of UserAccounts for TLC.  Accounts are numbers, so that each  *)
(* can be given its e-mail address.                                        *)
(***************************************************************************)
EXTENDS UserAccounts, TLC

OwnEmail    == [ a \in Account |-> a ]   \* every account has an address of its own
Symmetry    == Permutations(Doc) \cup Permutations(Request)
===============================================================================
