----------------------------- MODULE MCShimCalls -----------------------------
(***************************************************************************)
(* The instance of ShimCalls for TLC.  The calls differ in nothing but     *)
(* their names, and so do the threads; no property is a liveness property. *)
(***************************************************************************)
EXTENDS ShimCalls, TLC

Symmetry == Permutations(Calls) \cup Permutations(Threads)
=============================================================================
