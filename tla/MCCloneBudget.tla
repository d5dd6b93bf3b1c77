--------------------------- MODULE MCCloneBudget ----------------------------
(***************************************************************************)
(* Four repositories under a ceiling of 4: one listed without a size,      *)
(* which can beat its guess of MaxKb; two listed with sizes that do not    *)
(* fit together with that guess; one listed as larger than MaxKb.  A tree  *)
(* turns out smaller than its reservation, or larger than the ceiling      *)
(* allows once others are in.                                              *)
(***************************************************************************)
EXTENDS CloneBudget

MCRepos == {"unlisted", "small", "large", "tooLarge"}
MCKb == [r \in MCRepos |-> CASE r = "unlisted" -> 0 [] r = "small" -> 1
                             [] r = "large" -> 2 [] r = "tooLarge" -> 9]
=============================================================================
