----------------------------- MODULE Statement ------------------------------
(***************************************************************************)
(* What a call of a table function (Download_Table.cpp,                    *)
(* ipcControl_Table.cpp) promises its caller: its statement is executed by *)
(* the database only while the call is under way, and the call reports     *)
(* success only after that.  A call that reports failure promises nothing: *)
(* the statement may have been executed, and more than once.               *)
(***************************************************************************)
EXTENDS Integers

CONSTANT Callers

VARIABLES
  call,     (* "idle", "pending", "succeeded" or "failed"                   *)
  executed  (* how often the statement of a pending call was executed       *)

vars == <<call, executed>>

Init ==
  /\ call = [t \in Callers |-> "idle"]
  /\ executed = [t \in Callers |-> 0]

Begin(t) ==
  /\ call[t] = "idle"
  /\ call' = [call EXCEPT ![t] = "pending"]
  /\ UNCHANGED executed

Execute(t) ==
  /\ call[t] = "pending"
  /\ executed' = [executed EXCEPT ![t] = @ + 1]
  /\ UNCHANGED call

Succeed(t) ==
  /\ call[t] = "pending" /\ executed[t] > 0
  /\ call' = [call EXCEPT ![t] = "succeeded"]
  /\ executed' = [executed EXCEPT ![t] = 0]

Fail(t) ==
  /\ call[t] = "pending"
  /\ call' = [call EXCEPT ![t] = "failed"]
  /\ executed' = [executed EXCEPT ![t] = 0]

Finish(t) ==
  /\ call[t] \in {"succeeded", "failed"}
  /\ call' = [call EXCEPT ![t] = "idle"]
  /\ UNCHANGED executed

Next == \E t \in Callers : Begin(t) \/ Execute(t) \/ Succeed(t) \/ Fail(t) \/ Finish(t)

Spec == Init /\ [][Next]_vars

=============================================================================
