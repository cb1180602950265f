---------------------------- MODULE MCWorkerPool ----------------------------
(***************************************************************************)
(* Instances of WorkerPool for TLC: every function, no to three items, and *)
(* worker arguments below, at and above the items and the CPUs.            *)
(***************************************************************************)
EXTENDS WorkerPool

AllCalls == [op : Ops, n : 0 .. 3, workers : {-1, 1, 2, 3}]

\* The call of the test at processor_test.go:542: one worker.
OneWorkerCalls ==
  {[op |-> "MapSettledOrderedUntilError", n |-> n, workers |-> 1] : n \in 1 .. 2}
=============================================================================
