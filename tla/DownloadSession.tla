-------------------------- MODULE DownloadSession ---------------------------
(***************************************************************************)
(* What a download expects of the NVR: a session of its own, open from the *)
(* moment its row is written until the recording was fetched, or until it  *)
(* could not be started, and closed then.                                  *)
(***************************************************************************)
CONSTANT Recordings

VARIABLES
  phase,  (* how far each recording is                                      *)
  open    (* the recordings whose session is open                           *)

vars == <<phase, open>>

Init ==
  /\ phase = [i \in Recordings |-> "none"]
  /\ open = {}

Become(i, from, to) == phase[i] = from /\ phase' = [phase EXCEPT ![i] = to]

Begin(i)  == Become(i, "none", "begin")       /\ open' = open \cup {i}
Start(i)  == Become(i, "begin", "running")    /\ i \in open /\ UNCHANGED open
Refuse(i) == Become(i, "begin", "refused")    /\ open' = open \ {i}
End(i)    == Become(i, "running", "ended")    /\ i \in open /\ UNCHANGED open
Stop(i)   == Become(i, "ended", "stopped")    /\ open' = open \ {i}
Finish(i) == Become(i, "stopped", "finished") /\ UNCHANGED open

Next ==
  \E i \in Recordings : Begin(i) \/ Start(i) \/ Refuse(i) \/ End(i) \/ Stop(i) \/ Finish(i)

Spec == Init /\ [][Next]_vars

=============================================================================
