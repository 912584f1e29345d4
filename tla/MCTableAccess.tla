--------------------------- MODULE MCTableAccess ----------------------------
(***************************************************************************)
(* Instances of TableAccess for TLC.                                       *)
(***************************************************************************)
EXTENDS TableAccess

=============================================================================
