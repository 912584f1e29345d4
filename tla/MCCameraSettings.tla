-------------------------- MODULE MCCameraSettings --------------------------
(***************************************************************************)
(* Instance of CameraSettings for TLC.                                     *)
(***************************************************************************)
EXTENDS CameraSettings, TLC

\* HD1 and 960H depend on the standard, 32 is not a name; 10 is a code mode
\* without the prefix.
TwoSettings == {[resolution |-> 1, frame |-> 25, code |-> 7],
                [resolution |-> 32, frame |-> 15, code |-> 10]}

TwoChannels == {0, 1}

CameraSymmetry == Permutations(Requests)

=============================================================================
