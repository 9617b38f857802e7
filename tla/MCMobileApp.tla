----------------------------- MODULE MCMobileApp -----------------------------
(***************************************************************************)
(* MobileApp on a small instance for TLC.                                  *)
(***************************************************************************)
EXTENDS MobileAppProperties, TLC

\* Elements of these sets are only ever compared for equality.
Symmetry == Permutations(User) \cup Permutations(Task)
=============================================================================
