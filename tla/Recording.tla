------------------------------ MODULE Recording -----------------------------
(***************************************************************************)
(* What the download service promises about its recordings, without SDK    *)
(* handles, globals, threads or files: each recording goes through its own *)
(* life and is not disturbed by the others.                                *)
(***************************************************************************)
CONSTANT Recordings     (* all recordings that may ever be requested        *)

VARIABLE phase          (* how far each recording has come                  *)

Init == phase = [i \in Recordings |-> "none"]

Advance(i, from, to) ==
  /\ phase[i] = from
  /\ phase' = [phase EXCEPT ![i] = to]

Begin(i) == Advance(i, "none", "downloading")

\* The recording moves on, or is given up before its conversion.
Progress(i) ==
  \/ Advance(i, "downloading", "stored")
  \/ Advance(i, "downloading", "failed")
  \/ Advance(i, "stored", "converting")
  \/ Advance(i, "stored", "failed")
  \/ Advance(i, "converting", "converted")

Next == \E i \in Recordings : Begin(i) \/ Progress(i)

SafeSpec == Init /\ [][Next]_phase

\* A recording that was begun never stops half-way.
Spec == SafeSpec /\ \A i \in Recordings : WF_phase(Progress(i))

=============================================================================
