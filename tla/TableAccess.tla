---------------------------- MODULE TableAccess -----------------------------
(***************************************************************************)
(* The calls of Download_Table.cpp on the table downLoad, with the         *)
(* retries of database/pub.cpp below them.  Every call opens a connection  *)
(* of its own, sends one statement and closes the connection; a select     *)
(* copies each row into an item through m_download_column_value_map, which *)
(* all callers of g_Download share.  Most calls are made under             *)
(* m_mutex_checking, but not the select mons__DownLoadByTime replies with, *)
(* nor the updates by id and by handle.                                    *)
(*                                                                         *)
(* The functions of ipcControl_Table.cpp follow the same pattern on a      *)
(* table object of their own.  GetLatestInsertId reads one value without   *)
(* the map and counts as a writer here.                                    *)
(***************************************************************************)
EXTENDS Integers, FiniteSets

CONSTANTS
  Readers,   (* threads that select rows                                    *)
  Writers,   (* threads that insert or update                               *)
  Nobody,    (* no thread                                                   *)
  Locked,    (* the threads that call under m_mutex_checking                *)
  MaxRow,    (* rows of the table                                           *)
  MaxColumn, (* columns copied, 14 in the code                              *)
  Retries,   (* retry_counter, 30 in the code                               *)
  Env        (* what may happen, a subset of Hazards                        *)

Hazards ==
  {"connectFails", \* mysql_real_connect fails
   "queryFails",   \* mysql_query fails and the statement was not executed
   "answerLost",   \* mysql_query fails after the statement was executed
   "fetchFails"}   \* mysql_fetch_row returns NULL before the last row

Callers == Readers \cup Writers

ASSUME TableAssumption ==
  /\ Readers \cap Writers = {}
  /\ Nobody \notin Callers
  /\ Locked \subseteq Callers
  /\ MaxRow \in Nat
  /\ MaxColumn \in Nat \ {0}
  /\ Retries \in Nat \ {0}
  /\ Env \subseteq Hazards

Rows    == 1 .. MaxRow
Columns == 1 .. MaxColumn

VARIABLES
  m_mutex_checking, (* its holder                                           *)
  pc,         (* control point of each caller                               *)
  tries,      (* index, the loop of Connect                                 *)
  rounds,     (* index, the loop of MysqlQuery                              *)
  conn,       (* "NULL", "failed" (allocated, not connected) or "open"      *)
  ret,        (* what the call returns                                      *)
  executed,   (* history: executions of the statement of this call          *)
  unanswered, (* history: those whose answer was lost                       *)
  selected,   (* the rows the statement selects                             *)
  todo,       (* those not fetched yet                                      *)
  column,     (* column_index                                               *)
  map,        (* m_download_column_value_map: the item of each column       *)
  item,       (* item[t][i][c]: the row whose column c is in the item that *)
              (* caller t allocated for row i, 0 while it is empty          *)
  overlapped  (* history: another caller fetched rows at the same time      *)

connection == <<tries, rounds, conn>>
outcome    == <<ret, executed, unanswered>>
result     == <<selected, todo, column, map, item, overlapped>>
vars == <<m_mutex_checking, pc, connection, outcome, result>>

Empty == [c \in Columns |-> 0]

Init ==
  /\ m_mutex_checking = Nobody
  /\ pc = [t \in Callers |-> "idle"]
  /\ tries = [t \in Callers |-> 0]
  /\ rounds = [t \in Callers |-> 0]
  /\ conn = [t \in Callers |-> "NULL"]
  /\ ret = [t \in Callers |-> -1]
  /\ executed = [t \in Callers |-> 0]
  /\ unanswered = [t \in Callers |-> 0]
  /\ selected = [t \in Callers |-> {}]
  /\ todo = [t \in Callers |-> {}]
  /\ column = [t \in Callers |-> 1]
  /\ map = [c \in Columns |-> <<Nobody, 0>>]
  /\ item = [t \in Callers |-> [i \in Rows |-> Empty]]
  /\ overlapped = [t \in Callers |-> FALSE]

-----------------------------------------------------------------------------
Goto(t, label) == pc' = [pc EXCEPT ![t] = label]

\* The call returns: its locals end, and the caller releases the mutex before
\* it looks at the rows.
Leave(t) ==
  /\ m_mutex_checking' = IF m_mutex_checking = t THEN Nobody ELSE m_mutex_checking
  /\ tries' = [tries EXCEPT ![t] = 0]
  /\ rounds' = [rounds EXCEPT ![t] = 0]
  /\ executed' = [executed EXCEPT ![t] = 0]
  /\ unanswered' = [unanswered EXCEPT ![t] = 0]
  /\ Goto(t, "returned")

\* Mutant: the mutex of a caller that has it locks nobody else out.
CallUnlocked(t) ==
  /\ pc[t] = "idle"
  /\ IF t \in Locked /\ m_mutex_checking = Nobody
       THEN m_mutex_checking' = t
       ELSE UNCHANGED m_mutex_checking
  /\ Goto(t, "connect")
  /\ UNCHANGED <<connection, outcome, result>>

\* A caller takes m_mutex_checking or does not, and calls.
Call(t) ==
  /\ pc[t] = "idle"
  /\ IF t \in Locked
       THEN m_mutex_checking = Nobody /\ m_mutex_checking' = t
       ELSE UNCHANGED m_mutex_checking
  /\ Goto(t, "connect")
  /\ UNCHANGED <<connection, outcome, result>>

(***************************************************************************)
(* Connect.  An attempt that fails leaves a connection behind that the     *)
(* next one overwrites and nobody releases.                                *)
(***************************************************************************)
Connected(t) ==
  /\ pc[t] = "connect"
  /\ conn' = [conn EXCEPT ![t] = "open"]
  /\ tries' = [tries EXCEPT ![t] = 0]
  /\ Goto(t, "query")
  /\ UNCHANGED <<m_mutex_checking, rounds, outcome, result>>

AttemptFails(t) ==
  /\ "connectFails" \in Env
  /\ pc[t] \in {"connect", "reconnect"}
  /\ tries[t] + 1 < Retries
  /\ tries' = [tries EXCEPT ![t] = @ + 1]
  /\ conn' = [conn EXCEPT ![t] = "failed"]
  /\ UNCHANGED <<m_mutex_checking, pc, rounds, outcome, result>>

\* Mutant: the early return leaves m_mutex_checking locked.
ConnectFailsLocked(t) ==
  /\ "connectFails" \in Env
  /\ pc[t] = "connect"
  /\ tries[t] + 1 = Retries
  /\ Goto(t, "returned")
  /\ UNCHANGED <<m_mutex_checking, connection, outcome, result>>

\* The table function returns without DisConnected: the last attempt leaks too.
ConnectFails(t) ==
  /\ "connectFails" \in Env
  /\ pc[t] = "connect"
  /\ tries[t] + 1 = Retries
  /\ conn' = [conn EXCEPT ![t] = "NULL"]
  /\ Leave(t)
  /\ UNCHANGED <<ret, result>>

(***************************************************************************)
(* MysqlQuery.  The branch for *conn = NULL (193-237) is not reached.      *)
(***************************************************************************)
\* Mutant: the call goes on when the query failed.
QueryFailsQuietly(t) ==
  /\ "queryFails" \in Env
  /\ pc[t] = "query"
  /\ ret' = [ret EXCEPT ![t] = 0]
  /\ Goto(t, "disconnect")
  /\ UNCHANGED <<m_mutex_checking, connection, executed, unanswered, result>>

\* DisConnected, then the loop of Connect begins anew.
QueryFails(t) ==
  /\ "queryFails" \in Env
  /\ pc[t] = "query"
  /\ conn' = [conn EXCEPT ![t] = "NULL"]
  /\ Goto(t, "reconnect")
  /\ UNCHANGED <<m_mutex_checking, tries, rounds, outcome, result>>

AnswerLost(t) ==
  /\ "answerLost" \in Env
  /\ pc[t] = "query"
  /\ executed' = [executed EXCEPT ![t] = @ + 1]
  /\ unanswered' = [unanswered EXCEPT ![t] = @ + 1]
  /\ conn' = [conn EXCEPT ![t] = "NULL"]
  /\ Goto(t, "reconnect")
  /\ UNCHANGED <<m_mutex_checking, tries, rounds, ret, result>>

\* Mutant: the last round returns as the first Connect does, without DisConnected.
ReconnectedForgetsClose(t) ==
  /\ pc[t] = "reconnect"
  /\ conn' = [conn EXCEPT ![t] = "open"]
  /\ IF rounds[t] + 1 < Retries
       THEN /\ tries' = [tries EXCEPT ![t] = 0]
            /\ rounds' = [rounds EXCEPT ![t] = @ + 1]
            /\ Goto(t, "query")
            /\ UNCHANGED <<m_mutex_checking, executed, unanswered>>
       ELSE Leave(t)
  /\ UNCHANGED <<ret, result>>

\* After the last round the new connection is only closed.
Reconnected(t) ==
  /\ pc[t] = "reconnect"
  /\ conn' = [conn EXCEPT ![t] = "open"]
  /\ tries' = [tries EXCEPT ![t] = 0]
  /\ rounds' = [rounds EXCEPT ![t] = @ + 1]
  /\ Goto(t, IF rounds[t] + 1 < Retries THEN "query" ELSE "disconnect")
  /\ UNCHANGED <<m_mutex_checking, outcome, result>>

ReconnectFails(t) ==
  /\ "connectFails" \in Env
  /\ pc[t] = "reconnect"
  /\ tries[t] + 1 = Retries
  /\ conn' = [conn EXCEPT ![t] = "failed"]
  /\ Goto(t, "disconnect")
  /\ UNCHANGED <<m_mutex_checking, tries, rounds, outcome, result>>

Written(t) ==
  /\ pc[t] = "query" /\ t \in Writers
  /\ executed' = [executed EXCEPT ![t] = @ + 1]
  /\ rounds' = [rounds EXCEPT ![t] = 0]
  /\ ret' = [ret EXCEPT ![t] = 0]
  /\ Goto(t, "disconnect")
  /\ UNCHANGED <<m_mutex_checking, tries, conn, unanswered, result>>

(***************************************************************************)
(* Selects.                                                                *)
(***************************************************************************)
Fetching == {t \in Readers : pc[t] \in {"fetch", "map", "store"}}

Unguarded(u, t) == ~({u, t} \subseteq Locked)

Selected(t, S) ==
  /\ pc[t] = "query" /\ t \in Readers
  /\ executed' = [executed EXCEPT ![t] = @ + 1]
  /\ rounds' = [rounds EXCEPT ![t] = 0]
  /\ ret' = [ret EXCEPT ![t] = 0]
  /\ selected' = [selected EXCEPT ![t] = S]
  /\ todo' = [todo EXCEPT ![t] = S]
  /\ overlapped' = [u \in Callers |-> \/ overlapped[u]
                                     \/ (u \in Fetching /\ Unguarded(u, t))
                                     \/ (u = t /\ \E v \in Fetching : Unguarded(v, t))]
  /\ Goto(t, "fetch")
  /\ UNCHANGED <<m_mutex_checking, tries, conn, unanswered, column, map, item>>

First(S, i) == i \in S /\ \A j \in S : i <= j

\* NewSpaceDownload allocates an empty item.
NewSpaceDownload(t, i) ==
  /\ pc[t] = "fetch" /\ First(todo[t], i)
  /\ item' = [item EXCEPT ![t][i] = Empty]
  /\ Goto(t, "map")
  /\ UNCHANGED <<m_mutex_checking, connection, outcome, selected, todo, column, map, overlapped>>

NextColumn(t, label) ==
  /\ column' = [column EXCEPT ![t] = IF @ < MaxColumn THEN @ + 1 ELSE 1]
  /\ Goto(t, IF column[t] < MaxColumn THEN pc[t] ELSE label)

\* MapItemVarToArray
MapItemVarToArray(t, i) ==
  /\ pc[t] = "map" /\ First(todo[t], i)
  /\ map' = [map EXCEPT ![column[t]] = <<t, i>>]
  /\ NextColumn(t, "store")
  /\ UNCHANGED <<m_mutex_checking, connection, outcome, selected, todo, item, overlapped>>

Allocated(t, i) ==
  \/ i \in selected[t] \ todo[t]
  \/ pc[t] \in {"map", "store"} /\ First(todo[t], i)

\* strcpy into whatever item the map points to by now.  Its owner may have
\* deleted it: the column is lost then.
StoreColumn(t, i) ==
  LET at == map[column[t]]
  IN  /\ pc[t] = "store" /\ First(todo[t], i)
      /\ item' = IF at \in Callers \X Rows /\ Allocated(at[1], at[2])
                   THEN [item EXCEPT ![at[1]][at[2]][column[t]] = i] ELSE item
      /\ todo' = [todo EXCEPT ![t] = IF column[t] < MaxColumn THEN @ ELSE @ \ {i}]
      /\ NextColumn(t, "fetch")
      /\ UNCHANGED <<m_mutex_checking, connection, outcome, selected, map, overlapped>>

\* No more rows: a failure looks the same as the end.
FetchEnds(t) ==
  /\ pc[t] = "fetch"
  /\ todo[t] = {} \/ "fetchFails" \in Env
  /\ Goto(t, "disconnect")
  /\ UNCHANGED <<m_mutex_checking, connection, outcome, result>>

DisConnected(t) ==
  /\ pc[t] = "disconnect"
  /\ conn' = [conn EXCEPT ![t] = "NULL"]
  /\ Leave(t)
  /\ UNCHANGED <<ret, result>>

\* The caller is done with the rows.
Finish(t) ==
  /\ pc[t] = "returned"
  /\ ret' = [ret EXCEPT ![t] = -1]
  /\ selected' = [selected EXCEPT ![t] = {}]
  /\ todo' = [todo EXCEPT ![t] = {}]
  /\ item' = [item EXCEPT ![t] = [i \in Rows |-> Empty]]
  /\ overlapped' = [overlapped EXCEPT ![t] = FALSE]
  /\ Goto(t, "idle")
  /\ UNCHANGED <<m_mutex_checking, connection, executed, unanswered, column, map>>

-----------------------------------------------------------------------------
Step(t) ==
  \/ Connected(t) \/ AttemptFails(t) \/ ConnectFails(t)
  \/ QueryFails(t) \/ AnswerLost(t) \/ Reconnected(t) \/ ReconnectFails(t)
  \/ Written(t)
  \/ \E S \in SUBSET Rows : Selected(t, S)
  \/ \E i \in Rows : NewSpaceDownload(t, i) \/ MapItemVarToArray(t, i) \/ StoreColumn(t, i)
  \/ FetchEnds(t) \/ DisConnected(t) \/ Finish(t)

Next == \E t \in Callers : Call(t) \/ Step(t)

Spec == Init /\ [][Next]_vars

(***************************************************************************)
(* Threads are scheduled, and mysql_query and mysql_real_connect return.   *)
(* Nothing is assumed of who gets m_mutex_checking.                        *)
(***************************************************************************)
FairSpec == Spec /\ \A t \in Callers : WF_vars(Step(t))

-----------------------------------------------------------------------------
TypeOK ==
  /\ m_mutex_checking \in Callers \cup {Nobody}
  /\ pc \in [Callers -> {"idle", "connect", "query", "reconnect", "fetch", "map", "store",
                          "disconnect", "returned"}]
  /\ tries \in [Callers -> 0 .. Retries - 1]
  /\ rounds \in [Callers -> 0 .. Retries]
  /\ conn \in [Callers -> {"NULL", "failed", "open"}]
  /\ ret \in [Callers -> {-1, 0}]
  /\ executed \in [Callers -> Nat]
  /\ unanswered \in [Callers -> Nat]
  /\ selected \in [Callers -> SUBSET Rows]
  /\ todo \in [Callers -> SUBSET Rows]
  /\ column \in [Callers -> Columns]
  /\ map \in [Columns -> (Callers \X Rows) \cup {<<Nobody, 0>>}]
  /\ item \in [Callers -> [Rows -> [Columns -> Rows \cup {0}]]]
  /\ overlapped \in [Callers -> BOOLEAN]

InCall(t) == pc[t] \notin {"idle", "returned"}

(***************************************************************************)
(* However often Connect fails and MysqlQuery repeats its statement:       *)
(* mysql_query and mysql_fetch_row run on a connection that was made, no   *)
(* connection to the database outlives the call that made it, and callers  *)
(* under m_mutex_checking exclude each other.                              *)
(***************************************************************************)
ConnectionDiscipline(t) ==
  /\ pc[t] \in {"query", "fetch", "map", "store"} => conn[t] = "open"
  /\ conn[t] = "open" => pc[t] \in {"query", "fetch", "map", "store", "disconnect"}
  /\ t \in Locked => (InCall(t) <=> m_mutex_checking = t)
  /\ t \notin Locked => m_mutex_checking # t

(***************************************************************************)
(* A statement is executed again only when an answer to it was lost, and   *)
(* a call that returns 0 had the answer to its last execution.             *)
(***************************************************************************)
RepeatedOnlyUnanswered ==
  \A t \in Callers : InCall(t) =>
    /\ executed[t] = unanswered[t] + (IF ret[t] = 0 THEN 1 ELSE 0)
    /\ unanswered[t] <= Retries

(***************************************************************************)
(* A select that returns 0 hands out items with every column from the      *)
(* right row, also when the fetch breaks off, and however many selects of  *)
(* other threads came before or wait for m_mutex_checking.  Only a caller  *)
(* without the mutex that fetched rows of its own meanwhile can have put   *)
(* columns of its rows into them, or taken theirs.                         *)
(***************************************************************************)
Done(t) == pc[t] \in {"disconnect", "returned"} /\ ret[t] = 0

FetchedWhole ==
  \A t \in Readers : Done(t) /\ ~overlapped[t] =>
    \A i \in selected[t] \ todo[t] : \A c \in Columns : item[t][i][c] = i

(***************************************************************************)
(* m_mutex_checking is released again and again, though the calls made     *)
(* under it retry and the database may fail for ever.                      *)
(***************************************************************************)
MutexReleased == []<>(m_mutex_checking = Nobody)

(***************************************************************************)
(* The inductive invariant.  A statement is repeated only while MysqlQuery *)
(* has rounds left.  A reader that fetches with another one, or fetches    *)
(* beside a caller without the mutex, is marked overlapped; the columns a  *)
(* reader has mapped point to its own item, or to the item of a reader     *)
(* that is marked or has selected nothing yet; the rows a reader that is   *)
(* not marked has fetched are whole.                                       *)
(***************************************************************************)
Rounds(t) ==
  /\ pc[t] \in {"connect", "query", "reconnect"} => ret[t] = -1 /\ rounds[t] < Retries
  /\ pc[t] = "connect" => unanswered[t] = 0 /\ rounds[t] = 0
  /\ pc[t] = "query" => unanswered[t] <= rounds[t]
  /\ pc[t] = "reconnect" => unanswered[t] <= rounds[t] + 1
  /\ pc[t] = "idle" => ret[t] = -1 /\ rounds[t] = 0
  /\ pc[t] \in {"idle", "returned"} => executed[t] = 0 /\ unanswered[t] = 0 /\ rounds[t] = 0

Progress(t) ==
  /\ pc[t] \in {"idle", "connect", "query", "reconnect"} => selected[t] = {} /\ todo[t] = {}
  /\ todo[t] \subseteq selected[t]
  /\ pc[t] \in {"map", "store"} => todo[t] # {}
  /\ pc[t] \notin {"map", "store"} => column[t] = 1

Mapped(t) ==
  CASE pc[t] = "map"   -> 1 .. column[t] - 1
    [] pc[t] = "store" -> Columns
    [] OTHER           -> {}

MapInv(t) ==
  \A c \in Mapped(t) :
    /\ map[c] \in Callers \X Rows
    /\ map[c][1] = t \/ overlapped[map[c][1]] \/ selected[map[c][1]] = {}

Undisturbed(t) ==
  ~overlapped[t] =>
    /\ \A i \in selected[t] \ todo[t], c \in Columns : item[t][i][c] = i
    /\ \A i \in Rows : First(todo[t], i) =>
         /\ \A c \in Mapped(t) : map[c] = <<t, i>>
         /\ pc[t] = "store" => \A c \in 1 .. column[t] - 1 : item[t][i][c] = i

RowsInv ==
  /\ \A t \in Writers : selected[t] = {} /\ pc[t] \notin {"fetch", "map", "store"}
  /\ \A t, u \in Fetching : t # u => overlapped[t]
  /\ \A t \in Readers : MapInv(t) /\ Undisturbed(t)

TableInv ==
  /\ TypeOK
  /\ \A t \in Callers : ConnectionDiscipline(t) /\ Rounds(t) /\ Progress(t)
  /\ RowsInv

(***************************************************************************)
(* Refinement: a call executes its statement while it is under way.        *)
(***************************************************************************)
Statements == INSTANCE Statement
  WITH call <- [t \in Callers |-> IF pc[t] = "idle" THEN "idle"
                                  ELSE IF InCall(t) THEN "pending"
                                  ELSE IF ret[t] = 0 THEN "succeeded" ELSE "failed"]

ImplementsStatement == Statements!Spec

=============================================================================
