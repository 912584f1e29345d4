---------------------------- MODULE MCNvrSession ----------------------------
(***************************************************************************)
(* Instances of NvrSession for TLC.                                        *)
(***************************************************************************)
EXTENDS NvrSession, TLC

RequestSymmetry == Permutations(Requests)

=============================================================================
