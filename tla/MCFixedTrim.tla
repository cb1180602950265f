----------------------------- MODULE MCFixedTrim -----------------------------
(***************************************************************************)
(* Instances of FixedTrim for TLC: no to MaxSlices slices.  One digit of a *)
(* radix of three names three slices; the fourth is "10", before "2".      *)
(***************************************************************************)
EXTENDS FixedTrim
=============================================================================
