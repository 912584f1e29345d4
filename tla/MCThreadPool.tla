---------------------------- MODULE MCThreadPool ----------------------------
(***************************************************************************)
(* Instances of ThreadPool for TLC.  Workers and slots are numbers, so     *)
(* only the clients are interchangeable.                                   *)
(***************************************************************************)
EXTENDS ThreadPool, TLC

ClientSymmetry == Permutations(Clients)

=============================================================================
