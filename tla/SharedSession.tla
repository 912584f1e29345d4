--------------------------- MODULE SharedSession ---------------------------
(***************************************************************************)
(* NvrSession when nobody waits for anybody: requests of several pool      *)
(* threads at a time, camera operations, releases and failed conversions   *)
(* in the middle of downloads.  Sessions are lost then; this module says   *)
(* to whom, and who can not be to blame.  It adds two history variables    *)
(* and changes nothing else.                                               *)
(***************************************************************************)
EXTENDS NvrSession

VARIABLES
  alone,  (* requests no other was in flight with since they began          *)
  sound   (* rows written and started by a request that was alone, whose    *)
          (* session has not been ended since                               *)

svars == <<vars, alone, sound>>

SInit == Init /\ alone = {} /\ sound = {}

Begins(r) == pc[r] = "idle" /\ pc'[r] # "idle"

Remember ==
  /\ alone' = {r \in Requests :
                 /\ r \in alone \/ Begins(r)
                 /\ pc'[r] = "idle" \/ \A q \in Requests : q = r \/ pc'[q] = "idle"}
  /\ sound' = {i \in Fetching' :
                 /\ i \in sound \/ phase[i] = "none"
                 /\ loginHandle'[i] \in sessions'
                 /\ \A r \in Requests : row'[r] = i => r \in alone'}

SNext == Next /\ Remember

SSpec == SInit /\ [][SNext]_svars

(***************************************************************************)
(* A recording whose request had g_nvrcontrol to itself, and that has kept *)
(* its session so far, loses it in five ways only: CLIENT_Cleanup of a     *)
(* camera operation, the second logout of a failed conversion, DRelease    *)
(* without DInit, DM_Convert for a recording whose own request was not     *)
(* alone or whose own session was lost, and the logout of a request that   *)
(* was not alone.  A request that was alone from its login to its logout   *)
(* never harms another, nor does the normal end of its recording.          *)
(***************************************************************************)
Harm ==
  \/ \E r \in Requests : CameraCleanup(r)
  \/ \E i \in Rows : ConversionFails(i)
  \/ \E r \in Requests : pc[r] = "idle" /\ DRelease(r)
  \/ \E i \in Rows \ sound : DM_Convert(i)
  \/ \E r \in Requests \ alone :
       LogoutFailed(r) \/ SpeedLogout(r) \/ DRelease(r) \/ CameraLogout(r)

LossHasCause ==
  [][(\E i \in sound \cap Fetching' : loginHandle[i] \notin sessions') => Harm]_svars

=============================================================================
