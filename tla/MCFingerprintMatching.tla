------------------------ MODULE MCFingerprintMatching ------------------------
(***************************************************************************)
(* Instances of FingerprintMatching for TLC.  Picture 1 is clear, matches  *)
(* itself well and picture 2 just enough; picture 2 is poor and, as a      *)
(* probe, matches nothing; picture 0 gives no template; picture 3 would    *)
(* match picture 1 if its template could be read back.                     *)
(***************************************************************************)
EXTENDS FingerprintMatching, TLC

Likeness ==
    [ pair \in Image \X Image |->
        CASE pair \in { << 1, 1 >>, << 1, 3 >> } -> 3
          [] pair = << 1, 2 >> -> 2
          [] OTHER -> 1 ]

Symmetry == Permutations(PrintID)

\* The audit logs and the answered registrations influence nothing that the searches do.
SearchView == << prints, files, rejected, admin, search, results, steady >>
===============================================================================
