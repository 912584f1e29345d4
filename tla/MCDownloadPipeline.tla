------------------------ MODULE MCDownloadPipeline --------------------------
(***************************************************************************)
(* Instances of DownloadPipeline for TLC: what the environment may do in   *)
(* each run.                                                               *)
(***************************************************************************)
EXTENDS DownloadPipeline, TLC

RequestSymmetry == Permutations(Requests)

=============================================================================
