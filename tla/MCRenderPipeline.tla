-------------------------- MODULE MCRenderPipeline --------------------------
(***************************************************************************)
(* The instance of RenderPipeline for TLC: recordings of up to three       *)
(* packets with up to three samples, some of another stream.               *)
(***************************************************************************)
EXTENDS RenderPipeline

ShortRecordings == UNION {[1 .. n -> 0 .. 3] : n \in 0 .. 3}
=============================================================================
