-------------------------- MODULE TableAccessProofs -------------------------
(***************************************************************************)
(* Proofs about TableAccess, for every number of callers, rows, columns    *)
(* and retries, and whichever callers hold m_mutex_checking.               *)
(***************************************************************************)
EXTENDS TableAccess, TLAPS

(***************************************************************************)
(* The columns of an empty item.                                           *)
(***************************************************************************)
LEMMA EmptyItem == Empty \in [Columns -> Rows \cup {0}]
BY DEF Empty

(***************************************************************************)
(* Every step keeps the types.                                             *)
(***************************************************************************)
LEMMA TypeStep ==
  ASSUME TypeOK, \A t \in Callers : Rounds(t), [Next]_vars
  PROVE  TypeOK'
<1>1. ASSUME NEW t \in Callers, Call(t) \/ Step(t)
      PROVE  TypeOK'
  <2>1. CASE Call(t)
    BY <2>1, <1>1, TableAssumption DEF Call, TypeOK, connection, outcome, result, Goto, Leave
  <2>2. CASE Connected(t)
    BY <2>2, <1>1, TableAssumption DEF Connected, TypeOK, connection, outcome, result, Goto, Leave
  <2>3. CASE AttemptFails(t)
    BY <2>3, <1>1, TableAssumption
      DEF AttemptFails, TypeOK, connection, outcome, result, Goto, Leave
  <2>4. CASE ConnectFails(t)
    BY <2>4, <1>1, TableAssumption
      DEF ConnectFails, TypeOK, connection, outcome, result, Goto, Leave
  <2>5. CASE QueryFails(t)
    BY <2>5, <1>1, TableAssumption
      DEF QueryFails, TypeOK, connection, outcome, result, Goto, Leave
  <2>6. CASE AnswerLost(t)
    BY <2>6, <1>1, TableAssumption
      DEF AnswerLost, TypeOK, connection, outcome, result, Goto, Leave
  <2>7. CASE Reconnected(t)
    BY <2>7, <1>1, TableAssumption
      DEF Reconnected, Rounds, TypeOK, connection, outcome, result, Goto, Leave
  <2>8. CASE ReconnectFails(t)
    BY <2>8, <1>1, TableAssumption
      DEF ReconnectFails, TypeOK, connection, outcome, result, Goto, Leave
  <2>9. CASE Written(t)
    BY <2>9, <1>1, TableAssumption DEF Written, TypeOK, connection, outcome, result, Goto, Leave
  <2>10. ASSUME NEW S \in SUBSET Rows, Selected(t, S)
        PROVE  TypeOK'
    BY <2>10, <1>1, TableAssumption DEF Selected, TypeOK, connection, outcome, result, Goto, Leave
  <2>11. ASSUME NEW i \in Rows, NewSpaceDownload(t, i)
        PROVE  TypeOK'
    BY <2>11, <1>1, TableAssumption, EmptyItem
      DEF NewSpaceDownload, TypeOK, connection, outcome, result, Goto, Leave
  <2>12. ASSUME NEW i \in Rows, MapItemVarToArray(t, i)
        PROVE  TypeOK'
    BY <2>12, <1>1, TableAssumption
      DEF MapItemVarToArray, NextColumn, Columns, TypeOK, connection, outcome, result, Goto, Leave
  <2>13. ASSUME NEW i \in Rows, StoreColumn(t, i)
        PROVE  TypeOK'
    <3>1. column' \in [Callers -> Columns]
      <4>1. column' = [column EXCEPT ![t] = IF column[t] < MaxColumn THEN column[t] + 1 ELSE 1]
        BY <2>13 DEF StoreColumn, NextColumn
      <4>2. column \in [Callers -> Columns] /\ column[t] \in Columns
        BY <1>1 DEF TypeOK
      <4>3. (IF column[t] < MaxColumn THEN column[t] + 1 ELSE 1) \in Columns
        BY <4>2, TableAssumption DEF Columns
      <4> QED BY <4>1, <4>2, <4>3
    <3>2. item' \in [Callers -> [Rows -> [Columns -> Rows \cup {0}]]]
      <4> DEFINE at == map[column[t]]
      <4>1. /\ column[t] \in Columns
            /\ \/ item' = item
               \/ at \in Callers \X Rows /\ item' = [item EXCEPT ![at[1]][at[2]][column[t]] = i]
        BY <2>13, <1>1 DEF StoreColumn, TypeOK
      <4>2. CASE item' = item
        BY <4>2, <1>1 DEF TypeOK
      <4>3. CASE at \in Callers \X Rows /\ item' = [item EXCEPT ![at[1]][at[2]][column[t]] = i]
        <5>1. PICK u \in Callers, j \in Rows : at = <<u, j>>
          BY <4>3
        <5>2. item' = [item EXCEPT ![u][j][column[t]] = i]
          BY <4>3, <5>1
        <5> QED BY <5>2, <4>1, <2>13 DEF TypeOK
      <4> QED BY <4>1, <4>2, <4>3
    <3>3. pc' \in [Callers -> {"idle", "connect", "query", "reconnect", "fetch", "map", "store",
                               "disconnect", "returned"}]
      BY <2>13, <1>1, TableAssumption DEF StoreColumn, NextColumn, Goto, TypeOK
    <3>4. todo' \in [Callers -> SUBSET Rows]
      BY <2>13, <1>1, TableAssumption DEF StoreColumn, TypeOK
    <3> QED BY <2>13, <1>1, <3>1, <3>2, <3>3, <3>4 DEF StoreColumn, TypeOK, connection, outcome
  <2>14. CASE FetchEnds(t)
    BY <2>14, <1>1, TableAssumption
      DEF FetchEnds, TypeOK, connection, outcome, result, Goto, Leave
  <2>15. CASE DisConnected(t)
    BY <2>15, <1>1, TableAssumption
      DEF DisConnected, TypeOK, connection, outcome, result, Goto, Leave
  <2>16. CASE Finish(t)
    BY <2>16, <1>1, TableAssumption, EmptyItem
      DEF Finish, TypeOK, connection, outcome, result, Goto, Leave
  <2> QED
    BY <1>1, <2>1, <2>2, <2>3, <2>4, <2>5, <2>6, <2>7, <2>8, <2>9, <2>10,
       <2>11, <2>12, <2>13, <2>14, <2>15, <2>16 DEF Step
<1>2. CASE UNCHANGED vars
  BY <1>2, TableAssumption DEF vars, TypeOK, connection, outcome, result, Goto, Leave
<1> QED BY <1>1, <1>2 DEF Next

(***************************************************************************)
(* Every step keeps a caller's hold on its connection and on the mutex.    *)
(***************************************************************************)
LEMMA DisciplineStep ==
  ASSUME TypeOK, \A t \in Callers : ConnectionDiscipline(t), [Next]_vars
  PROVE  (\A c \in Callers : ConnectionDiscipline(c))'
<1>1. ASSUME NEW t \in Callers, Call(t) \/ Step(t)
      PROVE  (\A c \in Callers : ConnectionDiscipline(c))'
  <2>1. CASE Call(t)
    BY <2>1, <1>1, TableAssumption
      DEF Call, TypeOK, ConnectionDiscipline, InCall, NextColumn, connection, outcome, result,
          Goto, Leave
  <2>2. CASE Connected(t)
    BY <2>2, <1>1, TableAssumption
      DEF Connected, TypeOK, ConnectionDiscipline, InCall, NextColumn, connection, outcome, result,
          Goto, Leave
  <2>3. CASE AttemptFails(t)
    BY <2>3, <1>1, TableAssumption
      DEF AttemptFails, TypeOK, ConnectionDiscipline, InCall, NextColumn, connection, outcome,
          result, Goto, Leave
  <2>4. CASE ConnectFails(t)
    BY <2>4, <1>1, TableAssumption
      DEF ConnectFails, TypeOK, ConnectionDiscipline, InCall, NextColumn, connection, outcome,
          result, Goto, Leave
  <2>5. CASE QueryFails(t)
    BY <2>5, <1>1, TableAssumption
      DEF QueryFails, TypeOK, ConnectionDiscipline, InCall, NextColumn, connection, outcome,
          result, Goto, Leave
  <2>6. CASE AnswerLost(t)
    BY <2>6, <1>1, TableAssumption
      DEF AnswerLost, TypeOK, ConnectionDiscipline, InCall, NextColumn, connection, outcome,
          result, Goto, Leave
  <2>7. CASE Reconnected(t)
    BY <2>7, <1>1, TableAssumption
      DEF Reconnected, TypeOK, ConnectionDiscipline, InCall, NextColumn, connection, outcome,
          result, Goto, Leave
  <2>8. CASE ReconnectFails(t)
    BY <2>8, <1>1, TableAssumption
      DEF ReconnectFails, TypeOK, ConnectionDiscipline, InCall, NextColumn, connection, outcome,
          result, Goto, Leave
  <2>9. CASE Written(t)
    BY <2>9, <1>1, TableAssumption
      DEF Written, TypeOK, ConnectionDiscipline, InCall, NextColumn, connection, outcome, result,
          Goto, Leave
  <2>10. ASSUME NEW S \in SUBSET Rows, Selected(t, S)
        PROVE  (\A c \in Callers : ConnectionDiscipline(c))'
    BY <2>10, <1>1, TableAssumption
      DEF Selected, TypeOK, ConnectionDiscipline, InCall, NextColumn, connection, outcome, result,
          Goto, Leave
  <2>11. ASSUME NEW i \in Rows, NewSpaceDownload(t, i)
        PROVE  (\A c \in Callers : ConnectionDiscipline(c))'
    BY <2>11, <1>1, TableAssumption
      DEF NewSpaceDownload, TypeOK, ConnectionDiscipline, InCall, NextColumn, connection, outcome,
          result, Goto, Leave
  <2>12. ASSUME NEW i \in Rows, MapItemVarToArray(t, i)
        PROVE  (\A c \in Callers : ConnectionDiscipline(c))'
    BY <2>12, <1>1, TableAssumption
      DEF MapItemVarToArray, TypeOK, ConnectionDiscipline, InCall, NextColumn, connection, outcome,
          result, Goto, Leave
  <2>13. ASSUME NEW i \in Rows, StoreColumn(t, i)
        PROVE  (\A c \in Callers : ConnectionDiscipline(c))'
    BY <2>13, <1>1, TableAssumption
      DEF StoreColumn, TypeOK, ConnectionDiscipline, InCall, NextColumn, connection, outcome,
          result, Goto, Leave
  <2>14. CASE FetchEnds(t)
    BY <2>14, <1>1, TableAssumption
      DEF FetchEnds, TypeOK, ConnectionDiscipline, InCall, NextColumn, connection, outcome, result,
          Goto, Leave
  <2>15. CASE DisConnected(t)
    BY <2>15, <1>1, TableAssumption
      DEF DisConnected, TypeOK, ConnectionDiscipline, InCall, NextColumn, connection, outcome,
          result, Goto, Leave
  <2>16. CASE Finish(t)
    BY <2>16, <1>1, TableAssumption
      DEF Finish, TypeOK, ConnectionDiscipline, InCall, NextColumn, connection, outcome, result,
          Goto, Leave
  <2> QED
    BY <1>1, <2>1, <2>2, <2>3, <2>4, <2>5, <2>6, <2>7, <2>8, <2>9, <2>10,
       <2>11, <2>12, <2>13, <2>14, <2>15, <2>16 DEF Step
<1>2. CASE UNCHANGED vars
  BY <1>2, TableAssumption
    DEF vars, TypeOK, ConnectionDiscipline, InCall, NextColumn, connection, outcome, result, Goto,
        Leave
<1> QED BY <1>1, <1>2 DEF Next

(***************************************************************************)
(* Every step keeps the count of executions whose answer was lost below the *)
(* rounds of MysqlQuery.                                                   *)
(***************************************************************************)
LEMMA RoundsStep ==
  ASSUME TypeOK, \A t \in Callers : Rounds(t), [Next]_vars
  PROVE  (\A c \in Callers : Rounds(c))'
<1>1. ASSUME NEW t \in Callers, Call(t) \/ Step(t)
      PROVE  (\A c \in Callers : Rounds(c))'
  <2>1. CASE Call(t)
    BY <2>1, <1>1, TableAssumption
      DEF Call, TypeOK, Rounds, NextColumn, connection, outcome, result, Goto, Leave
  <2>2. CASE Connected(t)
    BY <2>2, <1>1, TableAssumption
      DEF Connected, TypeOK, Rounds, NextColumn, connection, outcome, result, Goto, Leave
  <2>3. CASE AttemptFails(t)
    BY <2>3, <1>1, TableAssumption
      DEF AttemptFails, TypeOK, Rounds, NextColumn, connection, outcome, result, Goto, Leave
  <2>4. CASE ConnectFails(t)
    BY <2>4, <1>1, TableAssumption
      DEF ConnectFails, TypeOK, Rounds, NextColumn, connection, outcome, result, Goto, Leave
  <2>5. CASE QueryFails(t)
    BY <2>5, <1>1, TableAssumption
      DEF QueryFails, TypeOK, Rounds, NextColumn, connection, outcome, result, Goto, Leave
  <2>6. CASE AnswerLost(t)
    BY <2>6, <1>1, TableAssumption
      DEF AnswerLost, TypeOK, Rounds, NextColumn, connection, outcome, result, Goto, Leave
  <2>7. CASE Reconnected(t)
    BY <2>7, <1>1, TableAssumption
      DEF Reconnected, TypeOK, Rounds, NextColumn, connection, outcome, result, Goto, Leave
  <2>8. CASE ReconnectFails(t)
    BY <2>8, <1>1, TableAssumption
      DEF ReconnectFails, TypeOK, Rounds, NextColumn, connection, outcome, result, Goto, Leave
  <2>9. CASE Written(t)
    BY <2>9, <1>1, TableAssumption
      DEF Written, TypeOK, Rounds, NextColumn, connection, outcome, result, Goto, Leave
  <2>10. ASSUME NEW S \in SUBSET Rows, Selected(t, S)
        PROVE  (\A c \in Callers : Rounds(c))'
    BY <2>10, <1>1, TableAssumption
      DEF Selected, TypeOK, Rounds, NextColumn, connection, outcome, result, Goto, Leave
  <2>11. ASSUME NEW i \in Rows, NewSpaceDownload(t, i)
        PROVE  (\A c \in Callers : Rounds(c))'
    BY <2>11, <1>1, TableAssumption
      DEF NewSpaceDownload, TypeOK, Rounds, NextColumn, connection, outcome, result, Goto, Leave
  <2>12. ASSUME NEW i \in Rows, MapItemVarToArray(t, i)
        PROVE  (\A c \in Callers : Rounds(c))'
    BY <2>12, <1>1, TableAssumption
      DEF MapItemVarToArray, TypeOK, Rounds, NextColumn, connection, outcome, result, Goto, Leave
  <2>13. ASSUME NEW i \in Rows, StoreColumn(t, i)
        PROVE  (\A c \in Callers : Rounds(c))'
    BY <2>13, <1>1, TableAssumption
      DEF StoreColumn, TypeOK, Rounds, NextColumn, connection, outcome, result, Goto, Leave
  <2>14. CASE FetchEnds(t)
    BY <2>14, <1>1, TableAssumption
      DEF FetchEnds, TypeOK, Rounds, NextColumn, connection, outcome, result, Goto, Leave
  <2>15. CASE DisConnected(t)
    BY <2>15, <1>1, TableAssumption
      DEF DisConnected, TypeOK, Rounds, NextColumn, connection, outcome, result, Goto, Leave
  <2>16. CASE Finish(t)
    BY <2>16, <1>1, TableAssumption
      DEF Finish, TypeOK, Rounds, NextColumn, connection, outcome, result, Goto, Leave
  <2> QED
    BY <1>1, <2>1, <2>2, <2>3, <2>4, <2>5, <2>6, <2>7, <2>8, <2>9, <2>10,
       <2>11, <2>12, <2>13, <2>14, <2>15, <2>16 DEF Step
<1>2. CASE UNCHANGED vars
  BY <1>2, TableAssumption
    DEF vars, TypeOK, Rounds, NextColumn, connection, outcome, result, Goto, Leave
<1> QED BY <1>1, <1>2 DEF Next

(***************************************************************************)
(* Every step keeps what a caller has selected, fetched and copied in step *)
(* with its control point.                                                 *)
(***************************************************************************)
LEMMA ProgressStep ==
  ASSUME TypeOK, \A t \in Callers : Progress(t), [Next]_vars
  PROVE  (\A c \in Callers : Progress(c))'
<1>1. ASSUME NEW t \in Callers, Call(t) \/ Step(t)
      PROVE  (\A c \in Callers : Progress(c))'
  <2>1. CASE Call(t)
    BY <2>1, <1>1, TableAssumption
      DEF Call, TypeOK, Progress, Fetching, NextColumn, First, Columns, connection, outcome,
          result, Goto, Leave
  <2>2. CASE Connected(t)
    BY <2>2, <1>1, TableAssumption
      DEF Connected, TypeOK, Progress, Fetching, NextColumn, First, Columns, connection, outcome,
          result, Goto, Leave
  <2>3. CASE AttemptFails(t)
    BY <2>3, <1>1, TableAssumption
      DEF AttemptFails, TypeOK, Progress, Fetching, NextColumn, First, Columns, connection,
          outcome, result, Goto, Leave
  <2>4. CASE ConnectFails(t)
    BY <2>4, <1>1, TableAssumption
      DEF ConnectFails, TypeOK, Progress, Fetching, NextColumn, First, Columns, connection,
          outcome, result, Goto, Leave
  <2>5. CASE QueryFails(t)
    BY <2>5, <1>1, TableAssumption
      DEF QueryFails, TypeOK, Progress, Fetching, NextColumn, First, Columns, connection, outcome,
          result, Goto, Leave
  <2>6. CASE AnswerLost(t)
    BY <2>6, <1>1, TableAssumption
      DEF AnswerLost, TypeOK, Progress, Fetching, NextColumn, First, Columns, connection, outcome,
          result, Goto, Leave
  <2>7. CASE Reconnected(t)
    BY <2>7, <1>1, TableAssumption
      DEF Reconnected, TypeOK, Progress, Fetching, NextColumn, First, Columns, connection, outcome,
          result, Goto, Leave
  <2>8. CASE ReconnectFails(t)
    BY <2>8, <1>1, TableAssumption
      DEF ReconnectFails, TypeOK, Progress, Fetching, NextColumn, First, Columns, connection,
          outcome, result, Goto, Leave
  <2>9. CASE Written(t)
    BY <2>9, <1>1, TableAssumption
      DEF Written, TypeOK, Progress, Fetching, NextColumn, First, Columns, connection, outcome,
          result, Goto, Leave
  <2>10. ASSUME NEW S \in SUBSET Rows, Selected(t, S)
        PROVE  (\A c \in Callers : Progress(c))'
    BY <2>10, <1>1, TableAssumption
      DEF Selected, TypeOK, Progress, Fetching, NextColumn, First, Columns, connection, outcome,
          result, Goto, Leave
  <2>11. ASSUME NEW i \in Rows, NewSpaceDownload(t, i)
        PROVE  (\A c \in Callers : Progress(c))'
    BY <2>11, <1>1, TableAssumption
      DEF NewSpaceDownload, TypeOK, Progress, Fetching, NextColumn, First, Columns, connection,
          outcome, result, Goto, Leave
  <2>12. ASSUME NEW i \in Rows, MapItemVarToArray(t, i)
        PROVE  (\A c \in Callers : Progress(c))'
    BY <2>12, <1>1, TableAssumption
      DEF MapItemVarToArray, TypeOK, Progress, Fetching, NextColumn, First, Columns, connection,
          outcome, result, Goto, Leave
  <2>13. ASSUME NEW i \in Rows, StoreColumn(t, i)
        PROVE  (\A c \in Callers : Progress(c))'
    BY <2>13, <1>1, TableAssumption
      DEF StoreColumn, TypeOK, Progress, Fetching, NextColumn, First, Columns, connection, outcome,
          result, Goto, Leave
  <2>14. CASE FetchEnds(t)
    BY <2>14, <1>1, TableAssumption
      DEF FetchEnds, TypeOK, Progress, Fetching, NextColumn, First, Columns, connection, outcome,
          result, Goto, Leave
  <2>15. CASE DisConnected(t)
    BY <2>15, <1>1, TableAssumption
      DEF DisConnected, TypeOK, Progress, Fetching, NextColumn, First, Columns, connection,
          outcome, result, Goto, Leave
  <2>16. CASE Finish(t)
    BY <2>16, <1>1, TableAssumption
      DEF Finish, TypeOK, Progress, Fetching, NextColumn, First, Columns, connection, outcome,
          result, Goto, Leave
  <2> QED
    BY <1>1, <2>1, <2>2, <2>3, <2>4, <2>5, <2>6, <2>7, <2>8, <2>9, <2>10,
       <2>11, <2>12, <2>13, <2>14, <2>15, <2>16 DEF Step
<1>2. CASE UNCHANGED vars
  BY <1>2, TableAssumption
    DEF vars, TypeOK, Progress, Fetching, NextColumn, First, Columns, connection, outcome, result,
        Goto, Leave
<1> QED BY <1>1, <1>2 DEF Next

(***************************************************************************)
(* Every step repeats a statement only if its last answer was lost.        *)
(***************************************************************************)
LEMMA RepeatStep ==
  ASSUME TypeOK, \A t \in Callers : Rounds(t), RepeatedOnlyUnanswered, [Next]_vars
  PROVE  RepeatedOnlyUnanswered'
<1>1. ASSUME NEW t \in Callers, Call(t) \/ Step(t)
      PROVE  RepeatedOnlyUnanswered'
  <2>1. CASE Call(t)
    BY <2>1, <1>1, TableAssumption
      DEF Call, TypeOK, Rounds, RepeatedOnlyUnanswered, InCall, NextColumn, connection, outcome,
          result, Goto, Leave
  <2>2. CASE Connected(t)
    BY <2>2, <1>1, TableAssumption
      DEF Connected, TypeOK, Rounds, RepeatedOnlyUnanswered, InCall, NextColumn, connection,
          outcome, result, Goto, Leave
  <2>3. CASE AttemptFails(t)
    BY <2>3, <1>1, TableAssumption
      DEF AttemptFails, TypeOK, Rounds, RepeatedOnlyUnanswered, InCall, NextColumn, connection,
          outcome, result, Goto, Leave
  <2>4. CASE ConnectFails(t)
    BY <2>4, <1>1, TableAssumption
      DEF ConnectFails, TypeOK, Rounds, RepeatedOnlyUnanswered, InCall, NextColumn, connection,
          outcome, result, Goto, Leave
  <2>5. CASE QueryFails(t)
    BY <2>5, <1>1, TableAssumption
      DEF QueryFails, TypeOK, Rounds, RepeatedOnlyUnanswered, InCall, NextColumn, connection,
          outcome, result, Goto, Leave
  <2>6. CASE AnswerLost(t)
    BY <2>6, <1>1, TableAssumption
      DEF AnswerLost, TypeOK, Rounds, RepeatedOnlyUnanswered, InCall, NextColumn, connection,
          outcome, result, Goto, Leave
  <2>7. CASE Reconnected(t)
    BY <2>7, <1>1, TableAssumption
      DEF Reconnected, TypeOK, Rounds, RepeatedOnlyUnanswered, InCall, NextColumn, connection,
          outcome, result, Goto, Leave
  <2>8. CASE ReconnectFails(t)
    BY <2>8, <1>1, TableAssumption
      DEF ReconnectFails, TypeOK, Rounds, RepeatedOnlyUnanswered, InCall, NextColumn, connection,
          outcome, result, Goto, Leave
  <2>9. CASE Written(t)
    BY <2>9, <1>1, TableAssumption
      DEF Written, TypeOK, Rounds, RepeatedOnlyUnanswered, InCall, NextColumn, connection, outcome,
          result, Goto, Leave
  <2>10. ASSUME NEW S \in SUBSET Rows, Selected(t, S)
        PROVE  RepeatedOnlyUnanswered'
    BY <2>10, <1>1, TableAssumption
      DEF Selected, TypeOK, Rounds, RepeatedOnlyUnanswered, InCall, NextColumn, connection,
          outcome, result, Goto, Leave
  <2>11. ASSUME NEW i \in Rows, NewSpaceDownload(t, i)
        PROVE  RepeatedOnlyUnanswered'
    BY <2>11, <1>1, TableAssumption
      DEF NewSpaceDownload, TypeOK, Rounds, RepeatedOnlyUnanswered, InCall, NextColumn, connection,
          outcome, result, Goto, Leave
  <2>12. ASSUME NEW i \in Rows, MapItemVarToArray(t, i)
        PROVE  RepeatedOnlyUnanswered'
    BY <2>12, <1>1, TableAssumption
      DEF MapItemVarToArray, TypeOK, Rounds, RepeatedOnlyUnanswered, InCall, NextColumn,
          connection, outcome, result, Goto, Leave
  <2>13. ASSUME NEW i \in Rows, StoreColumn(t, i)
        PROVE  RepeatedOnlyUnanswered'
    BY <2>13, <1>1, TableAssumption
      DEF StoreColumn, TypeOK, Rounds, RepeatedOnlyUnanswered, InCall, NextColumn, connection,
          outcome, result, Goto, Leave
  <2>14. CASE FetchEnds(t)
    BY <2>14, <1>1, TableAssumption
      DEF FetchEnds, TypeOK, Rounds, RepeatedOnlyUnanswered, InCall, NextColumn, connection,
          outcome, result, Goto, Leave
  <2>15. CASE DisConnected(t)
    BY <2>15, <1>1, TableAssumption
      DEF DisConnected, TypeOK, Rounds, RepeatedOnlyUnanswered, InCall, NextColumn, connection,
          outcome, result, Goto, Leave
  <2>16. CASE Finish(t)
    BY <2>16, <1>1, TableAssumption
      DEF Finish, TypeOK, Rounds, RepeatedOnlyUnanswered, InCall, NextColumn, connection, outcome,
          result, Goto, Leave
  <2> QED
    BY <1>1, <2>1, <2>2, <2>3, <2>4, <2>5, <2>6, <2>7, <2>8, <2>9, <2>10,
       <2>11, <2>12, <2>13, <2>14, <2>15, <2>16 DEF Step
<1>2. CASE UNCHANGED vars
  BY <1>2, TableAssumption
    DEF vars, TypeOK, Rounds, RepeatedOnlyUnanswered, InCall, NextColumn, connection, outcome,
        result, Goto, Leave
<1> QED BY <1>1, <1>2 DEF Next

(***************************************************************************)
(* What Mapped is at each control point.                                   *)
(***************************************************************************)
LEMMA MappedIs ==
  /\ \A t \in Callers : pc[t] = "map" => Mapped(t) = 1 .. column[t] - 1
  /\ \A t \in Callers : pc[t] = "store" => Mapped(t) = Columns
  /\ \A t \in Callers : pc[t] \notin {"map", "store"} => Mapped(t) = {}
BY DEF Mapped

(***************************************************************************)
(* The same after a step.                                                  *)
(***************************************************************************)
LEMMA MappedIsNext ==
  /\ \A t \in Callers : pc'[t] = "map" => Mapped(t)' = 1 .. column'[t] - 1
  /\ \A t \in Callers : pc'[t] = "store" => Mapped(t)' = Columns
  /\ \A t \in Callers : pc'[t] \notin {"map", "store"} => Mapped(t)' = {}
BY DEF Mapped

(***************************************************************************)
(* A step that leaves the result alone and does not begin to fetch keeps   *)
(* the invariant of the rows.                                              *)
(***************************************************************************)
LEMMA AsideStep ==
  ASSUME TypeOK, RowsInv, UNCHANGED result, NEW t \in Callers,
         \A u \in Callers \ {t} : pc'[u] = pc[u],
         pc'[t] \notin {"fetch", "map", "store"}
  PROVE  RowsInv'
<1>1. Fetching' \subseteq Fetching
  BY TableAssumption DEF Fetching, Callers
<1>2. \A u \in Callers : u # t => Mapped(u)' = Mapped(u)
  BY DEF Mapped, result
<1>3. Mapped(t)' = {}
  BY MappedIsNext
<1>4. \A u \in Readers : MapInv(u)'
  BY <1>2, <1>3 DEF RowsInv, MapInv, result, Callers
<1>5. \A u \in Readers : Undisturbed(u)'
  BY <1>2, <1>3 DEF RowsInv, Undisturbed, First, result, Callers
<1>6. \A u \in Writers : selected'[u] = {} /\ pc'[u] \notin {"fetch", "map", "store"}
  BY DEF RowsInv, Callers, result
<1> QED BY <1>1, <1>4, <1>5, <1>6 DEF RowsInv, result

(***************************************************************************)
(* Callers under m_mutex_checking exclude each other.                      *)
(***************************************************************************)
LEMMA Exclusion ==
  ASSUME \A t \in Callers : ConnectionDiscipline(t),
         NEW t \in Callers, NEW u \in Callers, t # u, InCall(t), InCall(u)
  PROVE  Unguarded(u, t) /\ Unguarded(t, u)
BY DEF ConnectionDiscipline, Unguarded

(***************************************************************************)
(* A select that succeeds marks whoever fetches beside it.                 *)
(***************************************************************************)
LEMMA SelectedStep ==
  ASSUME TypeOK, RowsInv, \A t \in Callers : ConnectionDiscipline(t) /\ Progress(t),
         NEW t \in Callers, NEW S \in SUBSET Rows, Selected(t, S)
  PROVE  RowsInv'
<1>1. /\ pc[t] = "query" /\ t \in Readers /\ t \notin Fetching
      /\ pc' = [pc EXCEPT ![t] = "fetch"]
      /\ selected' = [selected EXCEPT ![t] = S]
      /\ todo' = [todo EXCEPT ![t] = S]
      /\ UNCHANGED <<column, map, item>>
  BY DEF Selected, Goto, Fetching
<1>2. \A u \in Fetching : u \in Callers /\ u # t /\ Unguarded(u, t)
  BY <1>1, Exclusion DEF Fetching, Callers, InCall
<1>3. \A u \in Callers : overlapped[u] \/ u \in Fetching => overlapped'[u]
  BY <1>2 DEF Selected
<1>4. Fetching # {} => overlapped'[t]
  BY <1>2 DEF Selected
<1>5. Fetching' = Fetching \cup {t}
  BY <1>1, TableAssumption DEF Fetching, Callers, TypeOK
<1>6. \A u \in Fetching' : \A v \in Fetching' : u # v => overlapped'[u]
  BY <1>2, <1>3, <1>4, <1>5
<1>7. \A u \in Callers : u # t => Mapped(u)' = Mapped(u)
  BY <1>1 DEF Mapped, TypeOK
<1>8. Mapped(t)' = {}
  BY <1>1, MappedIsNext DEF TypeOK
<1>9. \A u \in Writers : selected'[u] = {} /\ pc'[u] \notin {"fetch", "map", "store"}
  BY <1>1, TableAssumption DEF RowsInv, Callers, TypeOK
<1>10. ASSUME NEW u \in Readers
       PROVE  MapInv(u)'
  <2>1. CASE u = t
    BY <2>1, <1>8 DEF MapInv
  <2>2. CASE u # t
    <3>1. SUFFICES ASSUME NEW c \in Mapped(u)
                   PROVE  /\ map[c] \in Callers \X Rows
                          /\ map[c][1] = u \/ overlapped'[map[c][1]] \/ selected'[map[c][1]] = {}
      BY <2>2, <1>1, <1>7 DEF MapInv, Callers
    <3>2. u \in Fetching
      BY MappedIs DEF Fetching, Callers
    <3>3. /\ map[c] \in Callers \X Rows
          /\ map[c][1] = u \/ overlapped[map[c][1]] \/ selected[map[c][1]] = {}
      BY DEF RowsInv, MapInv
    <3>4. map[c][1] \in Callers
      BY <3>3
    <3>5. CASE map[c][1] = t
      BY <3>2, <3>3, <3>5, <1>4
    <3>6. CASE map[c][1] # t
      BY <3>3, <3>4, <3>6, <1>1, <1>3 DEF TypeOK
    <3> QED BY <3>5, <3>6
  <2> QED BY <2>1, <2>2
<1>11. ASSUME NEW u \in Readers
       PROVE  Undisturbed(u)'
  <2>1. CASE u = t
    BY <2>1, <1>1, <1>8 DEF Undisturbed, TypeOK
  <2>2. CASE u # t
    <3>1. /\ pc'[u] = pc[u] /\ selected'[u] = selected[u] /\ todo'[u] = todo[u]
          /\ Mapped(u)' = Mapped(u) /\ (overlapped[u] => overlapped'[u])
      BY <2>2, <1>1, <1>3, <1>7 DEF Callers, TypeOK
    <3> QED BY <3>1, <1>1 DEF RowsInv, Undisturbed, First
  <2> QED BY <2>1, <2>2
<1> QED BY <1>6, <1>9, <1>10, <1>11 DEF RowsInv

(***************************************************************************)
(* A new item disturbs no row that was fetched.                            *)
(***************************************************************************)
LEMMA NewSpaceDownloadStep ==
  ASSUME TypeOK, RowsInv, \A t \in Callers : Progress(t),
         NEW t \in Callers, NEW i \in Rows, NewSpaceDownload(t, i)
  PROVE  RowsInv'
<1>1. /\ pc[t] = "fetch" /\ First(todo[t], i) /\ i \in todo[t]
      /\ pc' = [pc EXCEPT ![t] = "map"]
      /\ item' = [item EXCEPT ![t][i] = Empty]
      /\ UNCHANGED <<selected, todo, column, map, overlapped>>
  BY DEF NewSpaceDownload, Goto, First
<1>2. Fetching' = Fetching
  BY <1>1, TableAssumption DEF Fetching, Callers, TypeOK
<1>3. column[t] = 1
  BY <1>1 DEF Progress
<1>4. Mapped(t)' = {} /\ Mapped(t) = {}
  <2>1. pc'[t] = "map" /\ column'[t] = 1 /\ 1 .. 1 - 1 = {}
    BY <1>1, <1>3 DEF TypeOK
  <2>2. Mapped(t)' = 1 .. 1 - 1
    BY <2>1, MappedIsNext
  <2> QED BY <1>1, <2>1, <2>2, MappedIs
<1>5. \A u \in Callers : Mapped(u)' = Mapped(u)
  BY <1>1, <1>4 DEF Mapped, TypeOK
<1>6. \A u \in Readers : MapInv(u)'
  BY <1>1, <1>5 DEF RowsInv, MapInv, Callers
<1>7. ASSUME NEW u \in Readers
      PROVE  Undisturbed(u)'
  <2>1. CASE u = t
    BY <2>1, <1>1, <1>4 DEF RowsInv, Undisturbed, First, Callers, TypeOK
  <2>2. CASE u # t
    <3>1. pc'[u] = pc[u] /\ item'[u] = item[u] /\ Mapped(u)' = Mapped(u)
      BY <2>2, <1>1, <1>5 DEF Callers, TypeOK
    <3> QED BY <3>1, <1>1 DEF RowsInv, Undisturbed, First
  <2> QED BY <2>1, <2>2
<1>8. \A u \in Writers : selected'[u] = {} /\ pc'[u] \notin {"fetch", "map", "store"}
  BY <1>1 DEF RowsInv, Callers, TypeOK
<1> QED BY <1>1, <1>2, <1>6, <1>7, <1>8 DEF RowsInv

(***************************************************************************)
(* Whoever maps a column to its own item beside another reader is marked.  *)
(***************************************************************************)
LEMMA MapItemVarToArrayStep ==
  ASSUME TypeOK, RowsInv, \A t \in Callers : Progress(t),
         NEW t \in Callers, NEW i \in Rows, MapItemVarToArray(t, i)
  PROVE  RowsInv'
<1>1. /\ pc[t] = "map" /\ First(todo[t], i) /\ t \in Fetching /\ t \in Readers
      /\ pc' = [pc EXCEPT ![t] = IF column[t] < MaxColumn THEN "map" ELSE "store"]
      /\ column' = [column EXCEPT ![t] = IF column[t] < MaxColumn THEN column[t] + 1 ELSE 1]
      /\ map' = [map EXCEPT ![column[t]] = <<t, i>>]
      /\ UNCHANGED <<selected, todo, item, overlapped>>
  BY DEF MapItemVarToArray, NextColumn, Goto, Fetching, RowsInv, Callers, TypeOK
<1>2. Fetching' = Fetching
  BY <1>1, TableAssumption DEF Fetching, Callers, TypeOK
<1>3. column[t] \in Columns /\ MaxColumn \in Nat \ {0}
  BY TableAssumption DEF TypeOK
<1>4. Mapped(t)' = 1 .. column[t] /\ Mapped(t) = 1 .. column[t] - 1
  <2>1. CASE column[t] < MaxColumn
    BY <2>1, <1>1, <1>3, MappedIsNext, MappedIs DEF TypeOK, Columns
  <2>2. CASE ~(column[t] < MaxColumn)
    BY <2>2, <1>1, <1>3, MappedIsNext, MappedIs DEF TypeOK, Columns
  <2> QED BY <2>1, <2>2
<1>5. \A u \in Callers : u # t => Mapped(u)' = Mapped(u)
  BY <1>1 DEF Mapped, TypeOK
<1>6. \A u \in Readers : u # t /\ Mapped(u) # {} => overlapped[u] /\ overlapped[t]
  <2>1. \A u \in Readers : Mapped(u) # {} => u \in Fetching
    BY MappedIs DEF Fetching, Callers
  <2> QED BY <2>1, <1>1 DEF RowsInv
<1>7. \A u \in Readers : Mapped(u) \subseteq Columns
  <2>1. \A u \in Readers : u \in Callers /\ column[u] \in 1 .. MaxColumn
    BY DEF TypeOK, Callers, Columns
  <2>2. ASSUME NEW u \in Readers
        PROVE  Mapped(u) \subseteq Columns
    <3>1. CASE pc[u] = "map"
      BY <3>1, <2>1, <1>3, MappedIs DEF Columns
    <3>2. CASE pc[u] # "map"
      BY <3>2, <2>1, MappedIs
    <3> QED BY <3>1, <3>2
  <2> QED BY <2>2
<1>8. /\ map'[column[t]] = <<t, i>>
      /\ \A c \in Columns : c # column[t] => map'[c] = map[c]
  BY <1>1, <1>3 DEF TypeOK
<1>9. ASSUME NEW u \in Readers
      PROVE  MapInv(u)'
  <2>1. SUFFICES ASSUME NEW c \in Mapped(u)'
                 PROVE  /\ map'[c] \in Callers \X Rows
                        /\ map'[c][1] = u \/ overlapped[map'[c][1]] \/ selected[map'[c][1]] = {}
    BY <1>1 DEF MapInv
  <2>2. CASE c = column[t]
    BY <2>2, <1>5, <1>6, <1>8 DEF Callers
  <2>3. CASE c # column[t]
    <3>1. c \in Mapped(u)
      BY <2>3, <1>3, <1>4, <1>5 DEF Columns, Callers
    <3>2. map'[c] = map[c]
      BY <3>1, <2>3, <1>7, <1>8
    <3> QED BY <3>1, <3>2 DEF RowsInv, MapInv
  <2> QED BY <2>2, <2>3
<1>10. ASSUME NEW u \in Readers
       PROVE  Undisturbed(u)'
  <2>1. CASE u = t
    <3>1. SUFFICES ASSUME ~overlapped[t]
                   PROVE  Undisturbed(t)'
      BY <2>1, <1>1 DEF Undisturbed
    <3>2. \A j \in Rows : First(todo[t], j) => j = i
      BY <1>1 DEF First, Rows
    <3>3. \A c \in Mapped(t) : map[c] = <<t, i>>
      BY <1>1, <3>1 DEF RowsInv, Undisturbed
    <3>4. \A c \in Mapped(t)' : map'[c] = <<t, i>>
      BY <1>3, <1>4, <1>8, <3>3 DEF Columns
    <3>5. pc'[t] = "store" => column'[t] = 1
      BY <1>1 DEF TypeOK
    <3>6. \A j \in selected[t] \ todo[t], c \in Columns : item[t][j][c] = j
      BY <3>1, <1>1 DEF RowsInv, Undisturbed
    <3>7. \A j \in Rows : First(todo'[t], j) => j = i
      BY <3>2, <1>1
    <3> QED BY <3>4, <3>5, <3>6, <3>7, <1>1 DEF Undisturbed
  <2>2. CASE u # t
    <3>1. Mapped(u) = {} \/ overlapped[u]
      BY <2>2, <1>6
    <3>2. pc'[u] = pc[u] /\ Mapped(u)' = Mapped(u) /\ column'[u] = column[u]
      BY <2>2, <1>1, <1>5 DEF Callers, TypeOK
    <3> QED BY <3>1, <3>2, <1>1 DEF RowsInv, Undisturbed, First
  <2> QED BY <2>1, <2>2
<1>11. \A u \in Writers : selected'[u] = {} /\ pc'[u] \notin {"fetch", "map", "store"}
  BY <1>1 DEF RowsInv, Callers, TypeOK
<1> QED BY <1>1, <1>2, <1>9, <1>10, <1>11 DEF RowsInv

(***************************************************************************)
(* A column is stored in the caller's item, unless the caller is marked.   *)
(***************************************************************************)
LEMMA StoreColumnStep ==
  ASSUME TypeOK, RowsInv, \A t \in Callers : Progress(t),
         NEW t \in Callers, NEW i \in Rows, StoreColumn(t, i)
  PROVE  RowsInv'
<1> DEFINE at == map[column[t]]
<1>1. /\ pc[t] = "store" /\ First(todo[t], i) /\ i \in todo[t] /\ t \in Readers
      /\ pc' = [pc EXCEPT ![t] = IF column[t] < MaxColumn THEN "store" ELSE "fetch"]
      /\ column' = [column EXCEPT ![t] = IF column[t] < MaxColumn THEN column[t] + 1 ELSE 1]
      /\ todo' = [todo EXCEPT ![t] = IF column[t] < MaxColumn THEN todo[t] ELSE todo[t] \ {i}]
      /\ UNCHANGED <<selected, map, overlapped>>
  BY DEF StoreColumn, NextColumn, Goto, First, RowsInv, Callers, TypeOK
<1>2. Fetching' = Fetching
  BY <1>1, TableAssumption DEF Fetching, Callers, TypeOK
<1>3. column[t] \in Columns /\ MaxColumn \in Nat \ {0}
  BY TableAssumption DEF TypeOK
<1>4. Mapped(t) = Columns /\ Mapped(t)' = IF column[t] < MaxColumn THEN Columns ELSE {}
  BY <1>1, MappedIsNext, MappedIs DEF TypeOK
<1>5. \A u \in Callers : u # t => Mapped(u)' = Mapped(u)
  BY <1>1 DEF Mapped, TypeOK
<1>6. /\ at \in Callers \X Rows
      /\ at[1] = t \/ overlapped[at[1]] \/ selected[at[1]] = {}
  <2>1. MapInv(t) /\ column[t] \in Mapped(t)
    BY <1>1, <1>3, <1>4 DEF RowsInv
  <2> QED BY <2>1 DEF MapInv
<1>7. PICK v \in Callers, k \in Rows : at = <<v, k>> /\ at[1] = v /\ at[2] = k
  BY <1>6
<1>8. /\ v = t \/ overlapped[v] \/ selected[v] = {}
      /\ item' = item \/ item' = [item EXCEPT ![v][k][column[t]] = i]
      /\ v = t /\ k = i => item' = [item EXCEPT ![v][k][column[t]] = i]
  <2>1. v = t \/ overlapped[v] \/ selected[v] = {}
    BY <1>6, <1>7
  <2>2. item' = IF Allocated(at[1], at[2])
                 THEN [item EXCEPT ![at[1]][at[2]][column[t]] = i] ELSE item
    BY <1>6 DEF StoreColumn
  <2>3. Allocated(t, i)
    BY <1>1 DEF Allocated
  <2> HIDE DEF at
  <2>4. item' = IF Allocated(v, k) THEN [item EXCEPT ![v][k][column[t]] = i] ELSE item
    BY <2>2, <1>7
  <2> QED BY <2>1, <2>3, <2>4
<1>9. ASSUME NEW u \in Readers
      PROVE  MapInv(u)'
  <2>1. Mapped(u)' \subseteq Mapped(u)
    BY <1>4, <1>5 DEF Callers
  <2>2. MapInv(u) /\ UNCHANGED <<selected, map, overlapped>>
    BY <1>1 DEF RowsInv
  <2> QED BY <2>1, <2>2 DEF MapInv
<1>10. ASSUME NEW u \in Readers, u # t
       PROVE  Undisturbed(u)'
  <2>1. pc'[u] = pc[u] /\ Mapped(u)' = Mapped(u) /\ column'[u] = column[u] /\ todo'[u] = todo[u]
    BY <1>1, <1>5, <1>10 DEF Callers, TypeOK
  <2>2. CASE u = v
    <3>1. overlapped[u] \/ (selected[u] = {} /\ todo[u] = {})
      BY <2>2, <1>8, <1>10 DEF Progress, Callers
    <3> QED BY <3>1, <2>1, <1>1 DEF Undisturbed, First
  <2>3. CASE u # v
    <3>1. item'[u] = item[u]
      <4>1. item \in [Callers -> [Rows -> [Columns -> Rows \cup {0}]]] /\ u \in Callers
        BY DEF Callers, TypeOK
      <4>2. ASSUME NEW y
            PROVE  [item EXCEPT ![v] = y][u] = item[u]
        BY <4>1, <2>3
      <4>3. CASE item' = [item EXCEPT ![v][k][column[t]] = i]
        <5>1. PICK y : item' = [item EXCEPT ![v] = y]
          BY <4>3
        <5> QED BY <4>2, <5>1
      <4> QED BY <1>8, <4>3
    <3> QED BY <3>1, <2>1, <1>1 DEF RowsInv, Undisturbed, First
  <2> QED BY <2>2, <2>3
<1>11. Undisturbed(t)'
  <2>1. SUFFICES ASSUME ~overlapped[t]
                 PROVE  Undisturbed(t)'
    <3>1. overlapped' = overlapped
      BY <1>1
    <3> QED BY <3>1 DEF Undisturbed
  <2>2. \A j \in Rows : First(todo[t], j) => j = i
    <3>1. First(todo[t], i)
      BY <1>1
    <3> QED BY <3>1 DEF First, Rows
  <2>3. /\ \A c \in Columns : map[c] = <<t, i>>
        /\ \A c \in 1 .. column[t] - 1 : item[t][i][c] = i
        /\ \A j \in selected[t] \ todo[t], c \in Columns : item[t][j][c] = j
    <3>1. Undisturbed(t) /\ pc[t] = "store" /\ i \in Rows /\ First(todo[t], i) /\ Mapped(t) = Columns
      BY <1>1, <1>4 DEF RowsInv
    <3> QED BY <3>1, <2>1 DEF Undisturbed
  <2>4. v = t /\ k = i
    BY <2>3, <1>3, <1>7
  <2>5. item' = [item EXCEPT ![t][i][column[t]] = i]
    BY <2>4, <1>8
  <2>6. /\ item'[t][i][column[t]] = i
        /\ \A c \in Columns : c # column[t] => item'[t][i][c] = item[t][i][c]
        /\ \A j \in Rows : j # i => item'[t][j] = item[t][j]
    BY <2>5, <1>3 DEF TypeOK
  <2>7. \A c \in 1 .. column[t] : item'[t][i][c] = i
    BY <2>3, <2>6, <1>3 DEF Columns
  <2>8. selected[t] \subseteq Rows
    BY DEF TypeOK
  <2>9. CASE column[t] < MaxColumn
    <3>1. pc'[t] = "store" /\ column'[t] = column[t] + 1 /\ todo'[t] = todo[t] /\ Mapped(t)' = Columns
      BY <2>9, <1>1, <1>4 DEF TypeOK
    <3>2. 1 .. column'[t] - 1 = 1 .. column[t]
      BY <3>1, <1>3 DEF Columns
    <3>3. \A j \in selected[t] \ todo[t], c \in Columns : item'[t][j][c] = j
      BY <2>3, <2>6, <2>8, <1>1
    <3>4. \A j \in Rows : First(todo'[t], j) => j = i
      BY <3>1, <2>2
    <3> QED BY <3>1, <3>2, <3>3, <3>4, <2>3, <2>7, <1>1 DEF Undisturbed
  <2>10. CASE ~(column[t] < MaxColumn)
    <3>1. pc'[t] = "fetch" /\ todo'[t] = todo[t] \ {i} /\ Mapped(t)' = {}
      BY <2>10, <1>1, <1>4 DEF TypeOK
    <3>2. 1 .. column[t] = Columns
      BY <2>10, <1>3 DEF Columns
    <3>3. \A j \in selected[t] \ todo'[t], c \in Columns : item'[t][j][c] = j
      <4>1. SUFFICES ASSUME NEW j \in selected[t] \ todo'[t], NEW c \in Columns
                     PROVE  item'[t][j][c] = j
        OBVIOUS
      <4>2. CASE j = i
        BY <4>2, <3>2, <2>7
      <4>3. CASE j # i
        BY <4>3, <3>1, <2>3, <2>6, <2>8
      <4> QED BY <4>2, <4>3
    <3> QED BY <3>1, <3>3, <1>1 DEF Undisturbed
  <2> QED BY <2>9, <2>10
<1>12. \A u \in Writers : selected'[u] = {} /\ pc'[u] \notin {"fetch", "map", "store"}
  BY <1>1 DEF RowsInv, Callers, TypeOK
<1> QED BY <1>1, <1>2, <1>9, <1>10, <1>11, <1>12 DEF RowsInv

(***************************************************************************)
(* A caller that is done with its rows is no longer marked.                *)
(***************************************************************************)
LEMMA FinishStep ==
  ASSUME TypeOK, RowsInv, NEW t \in Callers, Finish(t)
  PROVE  RowsInv'
<1>1. /\ pc[t] = "returned" /\ pc' = [pc EXCEPT ![t] = "idle"]
      /\ selected' = [selected EXCEPT ![t] = {}]
      /\ todo' = [todo EXCEPT ![t] = {}]
      /\ item' = [item EXCEPT ![t] = [i \in Rows |-> Empty]]
      /\ overlapped' = [overlapped EXCEPT ![t] = FALSE]
      /\ UNCHANGED <<column, map>>
  BY DEF Finish, Goto, connection
<1>2. Fetching' = Fetching /\ t \notin Fetching
  BY <1>1, TableAssumption DEF Fetching, Callers, TypeOK
<1>3. Mapped(t)' = {} /\ \A u \in Callers : u # t => Mapped(u)' = Mapped(u)
  BY <1>1 DEF Mapped, TypeOK
<1>4. \A u, v \in Fetching' : u # v => overlapped'[u]
  BY <1>1, <1>2 DEF RowsInv, Fetching, TypeOK, Callers
<1>5. \A u \in Writers : selected'[u] = {} /\ pc'[u] \notin {"fetch", "map", "store"}
  BY <1>1 DEF RowsInv, TypeOK, Callers
<1>6. ASSUME NEW u \in Readers
      PROVE  MapInv(u)'
  <2>1. SUFFICES ASSUME NEW c \in Mapped(u)'
                 PROVE  /\ map[c] \in Callers \X Rows
                        /\ map[c][1] = u \/ overlapped'[map[c][1]] \/ selected'[map[c][1]] = {}
    BY <1>1 DEF MapInv
  <2>2. c \in Mapped(u)
    BY <1>3 DEF Callers
  <2>3. /\ map[c] \in Callers \X Rows
        /\ map[c][1] = u \/ overlapped[map[c][1]] \/ selected[map[c][1]] = {}
    BY <2>2 DEF RowsInv, MapInv
  <2>4. map[c][1] \in Callers
    BY <2>3
  <2>5. CASE map[c][1] = t
    BY <2>3, <2>5, <1>1 DEF TypeOK
  <2>6. CASE map[c][1] # t
    BY <2>3, <2>4, <2>6, <1>1 DEF TypeOK
  <2> QED BY <2>5, <2>6
<1>7. ASSUME NEW u \in Readers
      PROVE  Undisturbed(u)'
  <2>1. CASE u = t
    BY <2>1, <1>1, <1>3 DEF Undisturbed, First, TypeOK
  <2>2. CASE u # t
    <3>1. /\ pc'[u] = pc[u] /\ selected'[u] = selected[u] /\ todo'[u] = todo[u]
          /\ item'[u] = item[u] /\ Mapped(u)' = Mapped(u) /\ overlapped'[u] = overlapped[u]
      BY <2>2, <1>1, <1>3 DEF Callers, TypeOK
    <3> QED BY <3>1, <1>1 DEF RowsInv, Undisturbed, First
  <2> QED BY <2>1, <2>2
<1> QED BY <1>4, <1>5, <1>6, <1>7 DEF RowsInv

(***************************************************************************)
(* Every step keeps the invariant of the rows.                             *)
(***************************************************************************)
LEMMA RowsStep ==
  ASSUME TypeOK, RowsInv,
         \A t \in Callers : ConnectionDiscipline(t) /\ Progress(t), [Next]_vars
  PROVE  RowsInv'
<1>1. ASSUME NEW t \in Callers, Call(t) \/ Step(t)
      PROVE  RowsInv'
  <2>1. CASE \/ Call(t) \/ Connected(t) \/ AttemptFails(t) \/ ConnectFails(t) \/ QueryFails(t)
             \/ AnswerLost(t) \/ Reconnected(t) \/ ReconnectFails(t) \/ Written(t)
             \/ FetchEnds(t) \/ DisConnected(t)
    <3>1. UNCHANGED result /\ \A u \in Callers \ {t} : pc'[u] = pc[u]
      BY <2>1
        DEF Call, Connected, AttemptFails, ConnectFails, QueryFails, AnswerLost, Reconnected,
        ReconnectFails, Written, FetchEnds, DisConnected, Goto, Leave, TypeOK
    <3>2. pc'[t] \notin {"fetch", "map", "store"}
      BY <2>1
        DEF Call, Connected, AttemptFails, ConnectFails, QueryFails, AnswerLost, Reconnected,
        ReconnectFails, Written, FetchEnds, DisConnected, Goto, Leave, TypeOK
    <3> QED BY <3>1, <3>2, AsideStep
  <2>2. ASSUME NEW S \in SUBSET Rows, Selected(t, S)
        PROVE  RowsInv'
    BY <2>2, SelectedStep
  <2>3. ASSUME NEW i \in Rows,
               NewSpaceDownload(t, i) \/ MapItemVarToArray(t, i) \/ StoreColumn(t, i)
        PROVE  RowsInv'
    BY <2>3, NewSpaceDownloadStep, MapItemVarToArrayStep, StoreColumnStep
  <2>4. CASE Finish(t)
    BY <2>4, FinishStep
  <2> QED BY <1>1, <2>1, <2>2, <2>3, <2>4 DEF Step
<1>2. CASE UNCHANGED vars
  <2>1. UNCHANGED <<pc, column, selected, todo, map, item, overlapped>>
    BY <1>2 DEF vars, result
  <2> QED BY <2>1 DEF RowsInv, Fetching, MapInv, Undisturbed, Mapped, First
<1> QED BY <1>1, <1>2 DEF Next

(***************************************************************************)
(* TableInv holds initially and every step keeps it.                       *)
(***************************************************************************)
LEMMA TableInit == Init => TableInv
<1>1. ASSUME Init PROVE TypeOK
  <2>1. 1 \in Columns /\ 0 \in 0 .. Retries - 1 /\ 0 \in 0 .. Retries
    BY TableAssumption DEF Columns
  <2> QED BY <1>1, <2>1, EmptyItem DEF Init, TypeOK
<1>2. ASSUME Init PROVE \A t \in Callers : ConnectionDiscipline(t) /\ Rounds(t) /\ Progress(t)
  BY <1>2, TableAssumption DEF Init, ConnectionDiscipline, Rounds, Progress, InCall, Callers
<1>3. ASSUME Init PROVE RowsInv
  <2>1. \A t \in Callers : Mapped(t) = {}
    BY <1>3, MappedIs DEF Init
  <2> QED BY <1>3, <2>1 DEF Init, RowsInv, MapInv, Undisturbed, First, Fetching, Callers
<1> QED BY <1>1, <1>2, <1>3 DEF TableInv

LEMMA TableStep ==
  ASSUME TableInv, [Next]_vars
  PROVE  TableInv'
BY TypeStep, DisciplineStep, RoundsStep, ProgressStep, RowsStep DEF TableInv

(***************************************************************************)
(* However often connections fail and statements are repeated, TableInv    *)
(* holds: types, the discipline of connections and of m_mutex_checking,    *)
(* and the rows of readers that nobody disturbed.                          *)
(***************************************************************************)
THEOREM TableInvariant == Spec => []TableInv
BY TableInit, TableStep, PTL DEF Spec

(***************************************************************************)
(* A statement is executed again only when an answer to it was lost, and   *)
(* the retries of MysqlQuery bound how often that happens.                 *)
(***************************************************************************)
THEOREM StatementsRepeated == Spec => []RepeatedOnlyUnanswered
<1>1. Init => RepeatedOnlyUnanswered
  BY TableAssumption DEF Init, RepeatedOnlyUnanswered, InCall
<1>2. TableInv /\ RepeatedOnlyUnanswered /\ [Next]_vars => RepeatedOnlyUnanswered'
  BY RepeatStep DEF TableInv
<1> QED BY <1>1, <1>2, TableInvariant, PTL DEF Spec

(***************************************************************************)
(* Whatever fails: the rows a successful select hands out are whole, or    *)
(* some caller without the mutex fetched rows at the same time.            *)
(***************************************************************************)
THEOREM FetchesWhole == Spec => []FetchedWhole
<1>1. TableInv => FetchedWhole
  BY DEF FetchedWhole, TableInv, RowsInv, Undisturbed
<1> QED BY <1>1, TableInvariant, PTL

(***************************************************************************)
(* A call seen from outside.                                               *)
(***************************************************************************)
Seen(t) == IF pc[t] = "idle" THEN "idle"
           ELSE IF InCall(t) THEN "pending"
           ELSE IF ret[t] = 0 THEN "succeeded" ELSE "failed"

CallView == [t \in Callers |-> Seen(t)]

(***************************************************************************)
(* Every step of a call is a step of Statement.                            *)
(***************************************************************************)
LEMMA StatementStep ==
  ASSUME TypeOK, \A t \in Callers : Rounds(t), RepeatedOnlyUnanswered, [Next]_vars
  PROVE  [Statements!Next]_(Statements!vars)
<1>1. ASSUME NEW t \in Callers, Call(t) \/ Step(t)
      PROVE  [Statements!Next]_(Statements!vars)
  <2>1. \A u \in Callers : u # t => pc'[u] = pc[u] /\ ret'[u] = ret[u]
    BY <1>1 DEF Call, Step, Connected, AttemptFails, ConnectFails, QueryFails, AnswerLost,
      Reconnected, ReconnectFails, Written, Selected, NewSpaceDownload, MapItemVarToArray,
      StoreColumn, FetchEnds, DisConnected, Finish, NextColumn, Goto, Leave, outcome, TypeOK
  <2>2. CallView' = [CallView EXCEPT ![t] = Seen(t)']
    BY <2>1 DEF CallView, Seen, InCall
  <2>3. \A v : Seen(t)' = v => CallView' = [CallView EXCEPT ![t] = v]
    BY <2>2
  <2>4. CASE Call(t)
    <3>1. Seen(t) = "idle" /\ Seen(t)' = "pending" /\ executed' = executed
      BY <2>4 DEF Call, Seen, InCall, Goto, outcome, TypeOK
    <3>2. Statements!Begin(t)
      BY <3>1, <2>3 DEF Statements!Begin, CallView, Seen
    <3> QED BY <3>2 DEF Statements!Next
  <2>5. CASE AnswerLost(t) \/ Written(t) \/ \E S \in SUBSET Rows : Selected(t, S)
    <3>1. Seen(t) = "pending" /\ Seen(t)' = "pending" /\ executed' = [executed EXCEPT ![t] = @ + 1]
      BY <2>5 DEF AnswerLost, Written, Selected, Seen, InCall, Goto, TypeOK
    <3>2. CallView' = CallView
      BY <3>1, <2>3 DEF CallView
    <3>3. Statements!Execute(t)
      BY <3>1, <3>2 DEF Statements!Execute, CallView, Seen
    <3> QED BY <3>3 DEF Statements!Next
  <2>6. CASE ConnectFails(t) \/ DisConnected(t)
    <3>1. /\ Seen(t) = "pending" /\ executed' = [executed EXCEPT ![t] = 0] /\ InCall(t)
          /\ Seen(t)' = (IF ret[t] = 0 THEN "succeeded" ELSE "failed")
      BY <2>6 DEF ConnectFails, DisConnected, Seen, InCall, Goto, Leave, TypeOK
    <3>2. CASE ret[t] = 0
      <4>1. executed[t] > 0
        BY <3>1, <3>2 DEF RepeatedOnlyUnanswered, TypeOK
      <4>2. Statements!Succeed(t)
        BY <3>1, <3>2, <4>1, <2>3 DEF Statements!Succeed, CallView, Seen
      <4> QED BY <4>2 DEF Statements!Next
    <3>3. CASE ret[t] # 0
      <4>1. Statements!Fail(t)
        BY <3>1, <3>3, <2>3 DEF Statements!Fail, CallView, Seen
      <4> QED BY <4>1 DEF Statements!Next
    <3> QED BY <3>2, <3>3
  <2>7. CASE Finish(t)
    <3>1. Seen(t) \in {"succeeded", "failed"} /\ Seen(t)' = "idle" /\ executed' = executed
      BY <2>7 DEF Finish, Seen, InCall, Goto, TypeOK
    <3>2. Statements!Finish(t)
      BY <3>1, <2>3 DEF Statements!Finish, CallView, Seen
    <3> QED BY <3>2 DEF Statements!Next
  <2>8. CASE \/ Connected(t) \/ AttemptFails(t) \/ QueryFails(t) \/ Reconnected(t)
             \/ ReconnectFails(t) \/ FetchEnds(t)
             \/ \E i \in Rows : NewSpaceDownload(t, i) \/ MapItemVarToArray(t, i) \/ StoreColumn(t, i)
    <3>1. Seen(t) = "pending" /\ Seen(t)' = "pending" /\ executed' = executed
      BY <2>8 DEF Connected, AttemptFails, QueryFails, Reconnected, ReconnectFails, FetchEnds,
        NewSpaceDownload, MapItemVarToArray, StoreColumn, NextColumn, Goto, outcome, Seen,
        InCall, TypeOK
    <3>2. CallView' = CallView
      BY <3>1, <2>3 DEF CallView
    <3> QED BY <3>1, <3>2 DEF Statements!vars, CallView, Seen
  <2> QED BY <1>1, <2>4, <2>5, <2>6, <2>7, <2>8 DEF Step
<1>2. CASE UNCHANGED vars
  BY <1>2 DEF vars, outcome, Statements!vars, InCall
<1> QED BY <1>1, <1>2 DEF Next

(***************************************************************************)
(* Calls implement Statement: the database executes a statement only while *)
(* its call is under way, and success is reported only after that.         *)
(***************************************************************************)
THEOREM CallsImplementStatement == Spec => ImplementsStatement
<1>1. Init => Statements!Init
  BY DEF Init, Statements!Init
<1>2. /\ TableInv /\ RepeatedOnlyUnanswered /\ [Next]_vars
      => [Statements!Next]_(Statements!vars)
  BY StatementStep DEF TableInv
<1> QED
  BY <1>1, <1>2, TableInvariant, StatementsRepeated, PTL
    DEF Spec, ImplementsStatement, Statements!Spec

=============================================================================
