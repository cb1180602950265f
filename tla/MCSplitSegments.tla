--------------------------- MODULE MCSplitSegments ---------------------------
(***************************************************************************)
(* Instances of SplitSegments for TLC.                                     *)
(***************************************************************************)
EXTENDS SplitSegments

SplitCallsOf(counts, workers) ==
  [op : {"MapSettledOrderedUntilError"}, n : counts, workers : workers]

\* No to three groups on one and two workers.
SplitCalls == SplitCallsOf(0 .. 3, {1, 2})

\* Two groups on two workers.
TwoGroups == SplitCallsOf({2}, {2})
=============================================================================
