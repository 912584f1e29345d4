--------------------------- MODULE RequestService ---------------------------
(***************************************************************************)
(* What the web service promises its clients, without slots, thread states *)
(* or wakeups: an accepted connection is answered once, by one server, or  *)
(* refused before any server has started on it.                            *)
(***************************************************************************)
CONSTANTS Clients,   (* remote SOAP clients                                 *)
          Servers,   (* threads that can answer a request                   *)
          Nobody     (* no client: the server has no request                *)

VARIABLES client,    (* what each client is waiting for                     *)
          serving    (* the request each server is committed to             *)

vars == <<client, serving>>

Init ==
  /\ client  = [c \in Clients |-> "away"]
  /\ serving = [w \in Servers |-> Nobody]

Unserved(c) == \A w \in Servers : serving[w] # c

Connect(c) ==
  /\ client[c] \in {"away", "answered", "refused"}
  /\ client' = [client EXCEPT ![c] = "waiting"]
  /\ UNCHANGED serving

Accept(c) ==
  /\ client[c] = "waiting"
  /\ client' = [client EXCEPT ![c] = "accepted"]
  /\ UNCHANGED serving

Refuse(c) ==
  /\ client[c] = "accepted"
  /\ Unserved(c)
  /\ client' = [client EXCEPT ![c] = "refused"]
  /\ UNCHANGED serving

\* A server takes on a request nobody else is committed to.
Commit(w, c) ==
  /\ client[c] = "accepted"
  /\ serving[w] = Nobody
  /\ Unserved(c)
  /\ serving' = [serving EXCEPT ![w] = c]
  /\ UNCHANGED client

\* The answer is the last thing the server does for the request.
Answer(w) ==
  /\ serving[w] # Nobody
  /\ client[serving[w]] = "accepted"
  /\ client' = [client EXCEPT ![serving[w]] = "answered"]
  /\ serving' = [serving EXCEPT ![w] = Nobody]

Next ==
  \/ \E c \in Clients : Connect(c) \/ Accept(c) \/ Refuse(c)
  \/ \E w \in Servers, c \in Clients : Commit(w, c)
  \/ \E w \in Servers : Answer(w)

Settle(c) ==
  \/ Refuse(c)
  \/ \E w \in Servers : serving[w] = c /\ Answer(w)

\* Every accepted connection is settled, one way or the other.
Spec ==
  /\ Init
  /\ [][Next]_vars
  /\ \A c \in Clients : WF_vars(Settle(c))

SafeSpec == Init /\ [][Next]_vars

=============================================================================
