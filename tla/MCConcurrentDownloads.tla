----------------------- MODULE MCConcurrentDownloads ------------------------
(***************************************************************************)
(* Instances of ConcurrentDownloads for TLC.                               *)
(***************************************************************************)
EXTENDS ConcurrentDownloads, TLC

RequestSymmetry == Permutations(Requests)

=============================================================================
