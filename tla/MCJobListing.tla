----------------------------- MODULE MCJobListing ----------------------------
(***************************************************************************)
(* Values for the constants of JobListing.                                 *)
(***************************************************************************)
EXTENDS JobListing

MCFilters == {NoFilter, "pending", "completed"}
MCLimits == {NoNumber, 0, 1}

Symmetry == Permutations(Jobs)
==============================================================================
