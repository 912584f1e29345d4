----------------------- MODULE DownloadPipelineProofs -----------------------
(***************************************************************************)
(* Proofs about DownloadPipeline, for any number of requests, rows,        *)
(* handles, threads and restarts and for any behaviour of the environment  *)
(* that the theorems name.                                                 *)
(***************************************************************************)
EXTENDS DownloadPipeline, FiniteSetTheorems, TLAPS

(***************************************************************************)
(* What "%d" prints is never larger than what it was given.                *)
(***************************************************************************)
LEMMA PrintIntBound ==
  ASSUME NEW h \in 0 .. MaxHandle
  PROVE  PrintInt(h) \in 0 .. MaxHandle /\ PrintInt(h) <= h
<1>1. h \in Nat /\ MaxHandle \in Nat /\ IntRange \in Nat \ {0}
  BY PipelineAssumption
<1>2. h % IntRange \in 0 .. IntRange - 1
  BY <1>1
<1>3. h % IntRange <= h
  <2>1. CASE h < IntRange
    BY <1>1, <2>1
  <2>2. CASE h >= IntRange
    BY <1>1, <1>2, <2>2
  <2> QED
    BY <1>1, <2>1, <2>2
<1> QED
  BY <1>1, <1>2, <1>3 DEF PrintInt

\* An empty table, no request and no thread.
LEMMA TypeInit == Init => PipelineInv
<1> SUFFICES ASSUME Init PROVE PipelineInv
  OBVIOUS
<1>1. TypeOK
  <2>1. /\ MaxRow \in Nat /\ MaxHandle \in Nat /\ MaxThread \in Nat /\ MaxRestart \in Nat
        /\ 0 \in 0 .. MaxRow /\ 0 \in 0 .. MaxHandle /\ 0 \in 0 .. MaxThread
        /\ 0 \in 0 .. MaxRestart
    BY PipelineAssumption
  <2> QED
    BY <2>1 DEF Init, TypeOK, NoIds
<1>2. \A r \in Requests : ~HasRow(r)
  BY DEF Init, HasRow
<1>3. \A t \in Threads : tpc[t] = "none"
  BY DEF Init
<1> QED
  BY <1>1, <1>2, <1>3 DEF PipelineInv

\* One case per action: what each writes has the type of the variable.
\* Rows found through a request are rows because PipelineInv says so.
LEMMA TypeStep ==
  ASSUME PipelineInv, [Next]_vars
  PROVE  TypeOK'
<1>1. /\ MaxRow \in Nat /\ MaxHandle \in Nat /\ MaxThread \in Nat /\ MaxRestart \in Nat
      /\ 0 \in 0 .. MaxRow /\ 0 \in 0 .. MaxHandle /\ 0 \in 0 .. MaxThread
      /\ \A i \in Rows : i \in 0 .. MaxRow
      /\ \A h \in Handles : h \in 0 .. MaxHandle
      /\ \A t \in Threads : t \in 0 .. MaxThread
  BY PipelineAssumption DEF Rows, Handles, Threads
<1>2. /\ TypeOK /\ last \in 0 .. MaxRow /\ restarts \in 0 .. MaxRestart
      /\ \A r \in Requests : HasRow(r) => id[r] \in Rows /\ id[r] \in 1 .. last
  <2>1. TypeOK /\ last \in 0 .. MaxRow /\ restarts \in 0 .. MaxRestart
    BY DEF PipelineInv, TypeOK
  <2>2. \A r \in Requests : HasRow(r) => id[r] \in 1 .. last
    BY DEF PipelineInv
  <2> QED
    BY <1>1, <2>1, <2>2 DEF Rows
<1>3. ASSUME NEW r \in Requests, CheckCount(r)
      PROVE  TypeOK'
  BY <1>1, <1>2, <1>3
  DEF TypeOK, CheckCount, Goto, Downloading, table, files, globals, sdk,
       convert, threads, monitor
<1>4. ASSUME NEW r \in Requests, Login(r)
      PROVE  TypeOK'
  BY <1>1, <1>2, <1>4
  DEF TypeOK, Login, Goto, table, files, globals, sdk, convert, threads,
       monitor
<1>5. ASSUME NEW r \in Requests, SetTimes(r)
      PROVE  TypeOK'
  BY <1>1, <1>2, <1>5
  DEF TypeOK, SetTimes, Goto, table, files, sdk, convert, threads, monitor
<1>6. ASSUME NEW r \in Requests, Compose(r)
      PROVE  TypeOK'
  BY <1>1, <1>2, <1>6, PrintIntBound
  DEF TypeOK, Compose, Goto, table, files, globals, sdk, convert, threads,
       monitor
<1>7. ASSUME NEW r \in Requests, Insert(r)
      PROVE  TypeOK'
  <2>1. last + 1 \in Rows /\ last + 1 \in 0 .. MaxRow
    BY <1>1, <1>2, <1>7 DEF Insert, Rows
  <2> QED
    BY <1>1, <1>2, <1>7, <2>1
    DEF TypeOK, Insert, Goto, SetById, files, globals, sdk, convert, threads,
        monitor
<1>8. ASSUME NEW r \in Requests, NEW h \in Handles, StartDownload(r, h)
      PROVE  TypeOK'
  BY <1>1, <1>2, <1>8
  DEF TypeOK, StartDownload, Goto, NewHandle, table, convert, threads,
       monitor, HasRow
<1>9. ASSUME NEW r \in Requests, StartFails(r)
      PROVE  TypeOK'
  BY <1>1, <1>2, <1>9
  DEF TypeOK, StartFails, Goto, table, files, sdk, convert, threads, monitor
<1>10. ASSUME NEW r \in Requests, Publish(r)
      PROVE  TypeOK'
  BY <1>1, <1>2, <1>10
  DEF TypeOK, Publish, Goto, table, files, sdk, convert, threads, monitor
<1>31. ASSUME NEW r \in Requests, Format(r)
      PROVE  TypeOK'
  BY <1>1, <1>2, <1>31
  DEF TypeOK, Format, Goto, table, files, globals, sdk, convert, threads, monitor
<1>11. ASSUME NEW r \in Requests, Register(r)
      PROVE  TypeOK'
  BY <1>1, <1>2, <1>11
  DEF TypeOK, Register, Goto, SetById, files, globals, sdk, convert, threads,
       monitor
<1>12. ASSUME NEW r \in Requests, Test(r)
      PROVE  TypeOK'
  BY <1>1, <1>2, <1>12
  DEF TypeOK, Test, Goto, table, files, globals, sdk, convert, threads,
       monitor
<1>13. ASSUME NEW r \in Requests, MarkFailed(r)
      PROVE  TypeOK'
  BY <1>1, <1>2, <1>13
  DEF TypeOK, MarkFailed, Goto, SetById, files, globals, sdk, convert,
       threads, monitor
<1>14. ASSUME NEW r \in Requests, Reply(r)
      PROVE  TypeOK'
  <2>1. PICK i \in {j \in 1 .. last : DownLoadID[j] = m_downloadID} \cup {0} :
          reply' = [reply EXCEPT ![r] = i]
    BY <1>14 DEF Reply
  <2>2. i \in 0 .. MaxRow
    BY <1>1, <1>2, <2>1
  <2>3. reply' \in [Requests -> 0 .. MaxRow]
    BY <1>2, <2>1, <2>2 DEF TypeOK
  <2> QED
    BY <1>1, <1>2, <1>14, <2>3
    DEF TypeOK, Reply, Goto, table, files, globals, sdk, convert, threads,
        monitor
<1>15. ASSUME NEW h \in Handles, EndCallback(h)
      PROVE  TypeOK'
  BY <1>1, <1>2, <1>15
  DEF TypeOK, EndCallback, SetByDownloadID, globals, requests, convert,
       threads, monitor
<1>16. ASSUME Select
      PROVE  TypeOK'
  BY <1>1, <1>2, <1>16
  DEF TypeOK, Select, ToConvert, table, files, globals, requests, sdk,
       threads, monitor
<1>17. ASSUME NEW i \in Rows, NEW t \in Threads, StartThread(i, t)
      PROVE  TypeOK'
  BY <1>1, <1>2, <1>17
  DEF TypeOK, StartThread, First, table, files, globals, requests, monitor
<1>18. ASSUME Poll
      PROVE  TypeOK'
  <2>1. dpc' \in {"select", "next"}
    BY <1>18 DEF Poll
  <2>2. seenId' \in [Rows -> 0 .. MaxHandle]
    <3>1. seenId \in [Rows -> 0 .. MaxHandle] /\ NoIds \in [Rows -> 0 .. MaxHandle]
      BY <1>1, <1>2 DEF TypeOK, NoIds
    <3>2. seenId' = NoIds \/ seenId' = seenId
      BY <1>18 DEF Poll
    <3> QED
      BY <3>1, <3>2
  <2>3. UNCHANGED <<table, files, globals, requests, sdk, todo, threads, monitor, restarts>>
    BY <1>18 DEF Poll
  <2> QED
    BY <1>2, <2>1, <2>2, <2>3
    DEF TypeOK, table, files, globals, requests, sdk, threads, monitor
<1>19. ASSUME NEW t \in Threads, Lock(t)
      PROVE  TypeOK'
  BY <1>1, <1>2, <1>19
  DEF TypeOK, Lock, table, files, globals, requests, sdk, convert, monitor
<1>20. ASSUME NEW t \in Threads, OpenFails(t)
      PROVE  TypeOK'
  BY <1>1, <1>2, <1>20
  DEF TypeOK, OpenFails, SetByDownloadID, files, globals, requests, sdk,
       convert, monitor
<1>21. ASSUME NEW t \in Threads, MarkBegin(t)
      PROVE  TypeOK'
  BY <1>1, <1>2, <1>21
  DEF TypeOK, MarkBegin, SetByDownloadID, files, globals, requests, sdk,
       convert, monitor
<1>22. ASSUME NEW t \in Threads, RecordFails(t)
      PROVE  TypeOK'
  BY <1>1, <1>2, <1>22
  DEF TypeOK, RecordFails, table, files, globals, requests, sdk, convert,
       monitor
<1>23. ASSUME NEW t \in Threads, Play(t)
      PROVE  TypeOK'
  BY <1>1, <1>2, <1>23
  DEF TypeOK, Play, covertavitomp4, table, globals, requests, sdk, convert,
       monitor
<1>24. ASSUME NEW t \in Threads, MarkEnd(t)
      PROVE  TypeOK'
  BY <1>1, <1>2, <1>24
  DEF TypeOK, MarkEnd, SetById, files, globals, requests, sdk, convert,
       monitor
<1>25. ASSUME NEW t \in Threads, RemoveFiles(t)
      PROVE  TypeOK'
  BY <1>1, <1>2, <1>25
  DEF TypeOK, RemoveFiles, table, globals, requests, sdk, convert, monitor
<1>26. ASSUME PingFails
      PROVE  TypeOK'
  BY <1>1, <1>2, <1>26
  DEF TypeOK, PingFails, table, files, globals, requests, sdk, convert,
       threads
<1>27. ASSUME NEW i \in Rows, FailRow(i)
      PROVE  TypeOK'
  BY <1>1, <1>2, <1>27
  DEF TypeOK, FailRow, SetByDownloadID, First, files, globals, requests, sdk,
       convert, threads
<1>28. ASSUME NEW i \in Rows, RemoveRaw(i)
      PROVE  TypeOK'
  BY <1>1, <1>2, <1>28
  DEF TypeOK, RemoveRaw, First, NoIds, table, globals, requests, sdk, convert,
       threads
<1>29. ASSUME Restart
      PROVE  TypeOK'
  <2>1. restarts' \in 0 .. MaxRestart
    BY <1>1, <1>2, <1>29 DEF Restart
  <2> QED
    BY <1>1, <1>2, <1>29, <2>1 DEF TypeOK, Restart, NoIds, table, files
<1>30. CASE UNCHANGED vars
  BY <1>2, <1>30 DEF TypeOK, vars, table, files, globals, requests, sdk, convert,
       threads, monitor
<1> QED
  BY <1>3, <1>4, <1>5, <1>6, <1>7, <1>8, <1>9, <1>10, <1>11, <1>12, <1>13,
       <1>14, <1>15, <1>16, <1>17, <1>18, <1>19, <1>20, <1>21, <1>22, <1>23,
       <1>24, <1>25, <1>26, <1>27, <1>28, <1>29, <1>30, <1>31
  DEF Next, RequestStep, DM_Convert, ConvertPackageFormat, DM_SetState

(***************************************************************************)
(* Who leaves what alone: only requests and restarts touch the locals of   *)
(* requests, the owners of rows and max(id); only conversion threads,      *)
(* their creation and restarts touch the threads and their mutex.          *)
(***************************************************************************)
LEMMA OthersKeepRequests ==
  ASSUME \/ \E h \in Handles : EndCallback(h)
         \/ DM_Convert
         \/ \E t \in Threads : ConvertPackageFormat(t)
         \/ PingFails
         \/ DM_SetState
         \/ UNCHANGED vars
  PROVE  UNCHANGED <<requests, last, owner, DownLoadID, globals, target, range>>
<1>1. ASSUME NEW h \in Handles, EndCallback(h)
      PROVE  UNCHANGED <<requests, last, owner, DownLoadID, globals, target, range>>
  BY <1>1 DEF EndCallback, requests, globals
<1>2. ASSUME DM_Convert
      PROVE  UNCHANGED <<requests, last, owner, DownLoadID, globals, target, range>>
  BY <1>2 DEF DM_Convert, Select, Poll, StartThread, requests, globals, table, sdk
<1>3. ASSUME NEW t \in Threads, ConvertPackageFormat(t)
      PROVE  UNCHANGED <<requests, last, owner, DownLoadID, globals, target, range>>
  BY <1>3 DEF ConvertPackageFormat, Lock, OpenFails, MarkBegin, RecordFails, Play, MarkEnd,
              RemoveFiles, requests, globals, table, sdk
<1>4. ASSUME PingFails
      PROVE  UNCHANGED <<requests, last, owner, DownLoadID, globals, target, range>>
  BY <1>4 DEF PingFails, requests, globals, table, sdk
<1>5. ASSUME DM_SetState
      PROVE  UNCHANGED <<requests, last, owner, DownLoadID, globals, target, range>>
  BY <1>5 DEF DM_SetState, FailRow, RemoveRaw, requests, globals, table, sdk
<1>6. ASSUME UNCHANGED vars
      PROVE  UNCHANGED <<requests, last, owner, DownLoadID, globals, target, range>>
  BY <1>6 DEF vars, requests, globals, table, sdk
<1> QED
  BY <1>1, <1>2, <1>3, <1>4, <1>5, <1>6

\* Everything but conversion threads, their creation and restarts.
LEMMA OthersKeepThreads ==
  ASSUME \/ \E r \in Requests : CheckCount(r) \/ RequestStep(r)
         \/ \E h \in Handles : EndCallback(h)
         \/ Select \/ Poll
         \/ PingFails
         \/ DM_SetState
         \/ UNCHANGED vars
  PROVE  UNCHANGED <<tpc, m_mutex_coverting>>
<1>1. ASSUME NEW r \in Requests, CheckCount(r) \/ RequestStep(r)
      PROVE  UNCHANGED <<tpc, m_mutex_coverting>>
  BY <1>1 DEF CheckCount, RequestStep, Login, SetTimes, Compose, Insert, StartDownload,
              StartFails, Publish, Format, Register, Test, MarkFailed, Reply, threads
<1>2. ASSUME \/ \E h \in Handles : EndCallback(h)
             \/ Select \/ Poll \/ PingFails \/ DM_SetState \/ UNCHANGED vars
      PROVE  UNCHANGED <<tpc, m_mutex_coverting>>
  BY <1>2 DEF EndCallback, Select, Poll, PingFails, DM_SetState, FailRow, RemoveRaw, vars,
              threads
<1> QED
  BY <1>1, <1>2

\* A request past its insert keeps its row: max(id) never decreases but
\* for restarts, which end all requests.
LEMMA RowsKept ==
  ASSUME PipelineInv, [Next]_vars
  PROVE  \A r \in Requests : HasRow(r)' => id'[r] \in 1 .. last'
<1>1. /\ rpc \in [Requests -> {"idle", "login", "times", "compose", "insert", "start", "publish",
                               "format", "register", "test", "fail", "reply", "replied"}]
      /\ id \in [Requests -> 0 .. MaxRow]
      /\ last \in Nat
      /\ \A r \in Requests : HasRow(r) => id[r] \in 1 .. last
  <2>1. TypeOK /\ \A r \in Requests : HasRow(r) => id[r] \in 1 .. last
    BY DEF PipelineInv
  <2>2. last \in 0 .. MaxRow /\ MaxRow \in Nat
    BY <2>1, PipelineAssumption DEF TypeOK
  <2>3. last \in Nat
    BY <2>2
  <2> QED
    BY <2>1, <2>3 DEF TypeOK
<1>2. ASSUME NEW q \in Requests, CheckCount(q)
      PROVE  \A r \in Requests : HasRow(r)' => id'[r] \in 1 .. last'
  BY <1>1, <1>2 DEF CheckCount, Goto, HasRow, table
<1>3. ASSUME NEW q \in Requests, Login(q) \/ SetTimes(q) \/ Compose(q)
      PROVE  \A r \in Requests : HasRow(r)' => id'[r] \in 1 .. last'
  BY <1>1, <1>3 DEF Login, SetTimes, Compose, Goto, HasRow, table
<1>4. ASSUME NEW q \in Requests, Insert(q)
      PROVE  \A r \in Requests : HasRow(r)' => id'[r] \in 1 .. last'
  BY <1>1, <1>4 DEF Insert, Goto, HasRow
<1>5. ASSUME NEW q \in Requests, NEW h \in Handles, StartDownload(q, h)
      PROVE  \A r \in Requests : HasRow(r)' => id'[r] \in 1 .. last'
  BY <1>1, <1>5 DEF StartDownload, Goto, HasRow, table
<1>6. ASSUME NEW q \in Requests,
             \/ StartFails(q) \/ Publish(q) \/ Format(q) \/ Register(q)
             \/ Test(q) \/ MarkFailed(q) \/ Reply(q)
      PROVE  \A r \in Requests : HasRow(r)' => id'[r] \in 1 .. last'
  BY <1>1, <1>6
  DEF StartFails, Publish, Format, Register, Test, MarkFailed, Reply, Goto, HasRow, table
<1>7. ASSUME Restart
      PROVE  \A r \in Requests : HasRow(r)' => id'[r] \in 1 .. last'
  BY <1>7 DEF Restart, HasRow
<1>8. ASSUME UNCHANGED <<requests, last, owner, DownLoadID, globals, target, range>>
      PROVE  \A r \in Requests : HasRow(r)' => id'[r] \in 1 .. last'
  BY <1>1, <1>8 DEF requests, HasRow
<1> QED
  BY <1>2, <1>3, <1>4, <1>5, <1>6, <1>7, <1>8, OthersKeepRequests DEF Next, RequestStep

\* Between its lock and its unlock a thread holds m_mutex_coverting.
LEMMA MutexKept ==
  ASSUME PipelineInv, [Next]_vars
  PROVE  \A t \in Threads : tpc'[t] \in {"open", "play", "mark"} => m_mutex_coverting' = t
<1>1. /\ tpc \in [Threads -> {"none", "lock", "open", "play", "mark", "remove", "done"}]
      /\ \A t \in Threads : tpc[t] \in {"open", "play", "mark"} => m_mutex_coverting = t
      /\ \A t \in Threads : t # 0
  <2>1. \A t \in Threads : t # 0
    BY PipelineAssumption DEF Threads
  <2> QED
    BY <2>1 DEF PipelineInv, TypeOK
<1>2. ASSUME NEW u \in Threads, ConvertPackageFormat(u)
      PROVE  \A t \in Threads : tpc'[t] \in {"open", "play", "mark"} => m_mutex_coverting' = t
  BY <1>1, <1>2 DEF ConvertPackageFormat, Lock, OpenFails, MarkBegin, RecordFails, Play,
                    MarkEnd, RemoveFiles
<1>3. ASSUME NEW i \in Rows, NEW u \in Threads, StartThread(i, u)
      PROVE  \A t \in Threads : tpc'[t] \in {"open", "play", "mark"} => m_mutex_coverting' = t
  BY <1>1, <1>3 DEF StartThread
<1>4. ASSUME Restart
      PROVE  \A t \in Threads : tpc'[t] \in {"open", "play", "mark"} => m_mutex_coverting' = t
  BY <1>4 DEF Restart
<1>5. ASSUME UNCHANGED <<tpc, m_mutex_coverting>>
      PROVE  \A t \in Threads : tpc'[t] \in {"open", "play", "mark"} => m_mutex_coverting' = t
  BY <1>1, <1>5
<1> QED
  BY <1>2, <1>3, <1>4, <1>5, OthersKeepThreads DEF Next, DM_Convert

(***************************************************************************)
(* The types, the rows of requests and the holder of m_mutex_coverting are *)
(* as PipelineInv says in every reachable state, whatever the environment  *)
(* does.                                                                   *)
(***************************************************************************)
THEOREM PipelineInvariant == Spec => []PipelineInv
<1>1. PipelineInv /\ [Next]_vars => PipelineInv'
  BY TypeStep, RowsKept, MutexKept DEF PipelineInv
<1> QED
  BY TypeInit, <1>1, PTL DEF Spec

(***************************************************************************)
(* Every variable of the download pipeline keeps its type.                 *)
(***************************************************************************)
THEOREM TypeCorrect == Spec => []TypeOK
<1>1. PipelineInv => TypeOK
  BY DEF PipelineInv
<1> QED
  BY PipelineInvariant, <1>1, PTL

(***************************************************************************)
(* No two conversions ever use PLAY port 0 at the same time, also when     *)
(* rows are converted twice and when recording fails with the mutex held.  *)
(***************************************************************************)
THEOREM PlayPortNeverShared == Spec => []PlayPortExclusive
<1>1. PipelineInv => PlayPortExclusive
  BY DEF PipelineInv, PlayPortExclusive
<1> QED
  BY PipelineInvariant, <1>1, PTL

(***************************************************************************)
(* Both sets the overshoot counts are finite, before and after a step.     *)
(***************************************************************************)
LEMMA SetsFinite ==
  ASSUME NEW D \in SUBSET Rows, NEW A \in SUBSET Requests
  PROVE  /\ IsFiniteSet(D) /\ Cardinality(D) \in Nat
         /\ IsFiniteSet(A) /\ Cardinality(A) \in Nat
         /\ Cardinality(A) <= Cardinality(Requests) /\ Cardinality(Requests) \in Nat
<1>1. IsFiniteSet(Rows)
  <2>1. 1 \in Int /\ MaxRow \in Int
    BY PipelineAssumption
  <2> QED
    BY <2>1, FS_Interval DEF Rows
<1>2. IsFiniteSet(Requests)
  BY PipelineAssumption
<1>3. IsFiniteSet(D) /\ IsFiniteSet(A) /\ Cardinality(A) <= Cardinality(Requests)
  BY <1>1, <1>2, FS_Subset
<1> QED
  BY <1>2, <1>3, FS_CardinalityType

\* So their cardinalities are numbers.
LEMMA CountsFinite ==
  /\ IsFiniteSet(Downloading) /\ Cardinality(Downloading) \in Nat
  /\ IsFiniteSet(Admitted) /\ Cardinality(Admitted) \in Nat
  /\ Cardinality(Admitted) <= Cardinality(Requests) /\ Cardinality(Requests) \in Nat
<1>1. Downloading \in SUBSET Rows /\ Admitted \in SUBSET Requests
  BY DEF Downloading, Admitted
<1> QED
  BY <1>1, SetsFinite

(***************************************************************************)
(* Apart from the count and the insert, no step adds a downloading row or  *)
(* an admitted request.                                                    *)
(***************************************************************************)
LEMMA NothingAdded ==
  ASSUME PipelineInv, [Next]_vars,
         \A r \in Requests : ~CheckCount(r) /\ ~Insert(r)
  PROVE  Downloading' \subseteq Downloading /\ Admitted' \subseteq Admitted
<1>1. /\ state \in [Rows -> {"none", "begin", "end", "failed"}]
      /\ ipcIp \in [Rows -> {" ", "begin", "end", "failed"}]
      /\ rpc \in [Requests -> {"idle", "login", "times", "compose", "insert", "start", "publish",
                               "format", "register", "test", "fail", "reply", "replied"}]
  BY DEF PipelineInv, TypeOK
<1>2. ASSUME NEW r \in Requests, RequestStep(r), ~Insert(r)
      PROVE  Downloading' \subseteq Downloading /\ Admitted' \subseteq Admitted
  <2>1. CASE Login(r) \/ SetTimes(r) \/ Compose(r)
    BY <1>1, <2>1 DEF Login, SetTimes, Compose, Goto, Downloading, Admitted, table
  <2>2. CASE \/ \E h \in Handles : StartDownload(r, h)
             \/ StartFails(r) \/ Publish(r) \/ Format(r)
    BY <1>1, <2>2
    DEF StartDownload, StartFails, Publish, Format, Goto, Downloading, Admitted, table
  <2>3. CASE Register(r) \/ Test(r) \/ Reply(r)
    BY <1>1, <2>3 DEF Register, Test, Reply, Goto, Downloading, Admitted, table
  <2>4. CASE MarkFailed(r)
    BY <1>1, <2>4 DEF MarkFailed, SetById, Goto, Downloading, Admitted
  <2> QED
    BY <1>2, <2>1, <2>2, <2>3, <2>4 DEF RequestStep
<1>3. ASSUME NEW h \in Handles, EndCallback(h)
      PROVE  Downloading' \subseteq Downloading /\ Admitted' \subseteq Admitted
  BY <1>1, <1>3 DEF EndCallback, SetByDownloadID, Downloading, Admitted, requests
<1>4. ASSUME DM_Convert \/ PingFails \/ UNCHANGED vars
      PROVE  Downloading' \subseteq Downloading /\ Admitted' \subseteq Admitted
  BY <1>4 DEF DM_Convert, Select, Poll, StartThread, PingFails, vars, Downloading, Admitted,
              requests, table
<1>5. ASSUME NEW t \in Threads, ConvertPackageFormat(t)
      PROVE  Downloading' \subseteq Downloading /\ Admitted' \subseteq Admitted
  <2>1. CASE Lock(t) \/ RecordFails(t) \/ Play(t) \/ RemoveFiles(t)
    BY <2>1 DEF Lock, RecordFails, Play, RemoveFiles, Downloading, Admitted, requests, table
  <2>2. CASE OpenFails(t) \/ MarkBegin(t)
    <3>1. /\ \A i \in Rows : ipcIp'[i] \in {ipcIp[i], "failed", "begin"}
          /\ UNCHANGED <<state, rpc>>
      BY <1>1, <2>2 DEF OpenFails, MarkBegin, SetByDownloadID, requests
    <3> QED
      BY <3>1 DEF Downloading, Admitted
  <2>3. CASE MarkEnd(t)
    BY <1>1, <2>3 DEF MarkEnd, SetById, Downloading, Admitted, requests
  <2> QED
    BY <1>5, <2>1, <2>2, <2>3 DEF ConvertPackageFormat
<1>6. ASSUME DM_SetState
      PROVE  Downloading' \subseteq Downloading /\ Admitted' \subseteq Admitted
  BY <1>1, <1>6 DEF DM_SetState, FailRow, RemoveRaw, SetByDownloadID, Downloading, Admitted,
                    requests, table
<1>7. ASSUME Restart
      PROVE  Downloading' \subseteq Downloading /\ Admitted' \subseteq Admitted
  BY <1>7 DEF Restart, Downloading, Admitted, table
<1> QED
  BY <1>2, <1>3, <1>4, <1>5, <1>6, <1>7 DEF Next

(***************************************************************************)
(* The step of the induction: a request is admitted only below the limit,  *)
(* and an insert turns an admitted request into a downloading row.         *)
(***************************************************************************)
LEMMA OvershootKept ==
  ASSUME PipelineInv, BoundedOvershoot, [Next]_vars
  PROVE  BoundedOvershoot'
<1>1. Limit \in Nat
  BY PipelineAssumption
<1>2. /\ IsFiniteSet(Downloading') /\ Cardinality(Downloading') \in Nat
      /\ IsFiniteSet(Admitted') /\ Cardinality(Admitted') \in Nat
      /\ Cardinality(Admitted') <= Cardinality(Requests)
  <2>1. Downloading' \in SUBSET Rows /\ Admitted' \in SUBSET Requests
    BY DEF Downloading, Admitted
  <2> QED
    BY <2>1, SetsFinite
<1>3. CASE \E r \in Requests : CheckCount(r)
  <2>1. PICK r \in Requests : CheckCount(r)
    BY <1>3
  <2>2. Downloading' = Downloading
    BY <2>1 DEF CheckCount, Downloading, table
  <2>3. CASE Cardinality(Downloading) >= Limit
    <3>1. Admitted' \subseteq Admitted
      BY <2>1, <2>3 DEF CheckCount, Goto, Admitted, PipelineInv, TypeOK
    <3>2. Cardinality(Admitted') <= Cardinality(Admitted)
      BY <3>1, CountsFinite, FS_Subset
    <3> QED
      BY <1>1, <1>2, <2>2, <3>2, CountsFinite DEF BoundedOvershoot
  <2>4. CASE ~(Cardinality(Downloading) >= Limit)
    BY <1>1, <1>2, <2>2, <2>4, CountsFinite DEF BoundedOvershoot
  <2> QED
    BY <2>3, <2>4
<1>4. CASE \E r \in Requests : Insert(r)
  <2>1. PICK r \in Requests : Insert(r)
    BY <1>4
  <2>2. /\ rpc \in [Requests -> {"idle", "login", "times", "compose", "insert", "start",
                                 "publish", "format", "register", "test", "fail", "reply", "replied"}]
        /\ state \in [Rows -> {"none", "begin", "end", "failed"}]
    BY DEF PipelineInv, TypeOK
  <2>3. r \in Admitted /\ Admitted' = Admitted \ {r}
    BY <2>1, <2>2 DEF Insert, Goto, Admitted
  <2>4. Cardinality(Admitted') = Cardinality(Admitted) - 1
    BY <2>3, CountsFinite, FS_RemoveElement
  <2>5. Downloading' \subseteq Downloading \cup {last + 1}
    BY <2>1, <2>2 DEF Insert, SetById, Downloading
  <2>6. /\ IsFiniteSet(Downloading \cup {last + 1})
        /\ Cardinality(Downloading \cup {last + 1}) \in
             {Cardinality(Downloading), Cardinality(Downloading) + 1}
    BY CountsFinite, FS_AddElement
  <2>7. Cardinality(Downloading') <= Cardinality(Downloading) + 1
    <3>1. Cardinality(Downloading') <= Cardinality(Downloading \cup {last + 1})
      BY <2>5, <2>6, FS_Subset
    <3> QED
      BY <1>2, <2>6, <3>1, CountsFinite
  <2> QED
    BY <1>1, <1>2, <2>4, <2>7, CountsFinite DEF BoundedOvershoot
<1>5. CASE \A r \in Requests : ~CheckCount(r) /\ ~Insert(r)
  <2>1. Downloading' \subseteq Downloading /\ Admitted' \subseteq Admitted
    BY <1>5, NothingAdded
  <2>2. /\ Cardinality(Downloading') <= Cardinality(Downloading)
        /\ Cardinality(Admitted') <= Cardinality(Admitted)
    BY <2>1, CountsFinite, FS_Subset
  <2> QED
    BY <1>1, <1>2, <2>2, CountsFinite DEF BoundedOvershoot
<1> QED
  BY <1>3, <1>4, <1>5

(***************************************************************************)
(* The count and the insert of a request are two critical sections, so     *)
(* requests that overlap can exceed the limit on concurrent downloads; but *)
(* the excess is always less than the number of requesting threads.        *)
(***************************************************************************)
THEOREM OvershootBounded == Spec => []BoundedOvershoot
<1>1. Init => BoundedOvershoot
  <2> SUFFICES ASSUME Init PROVE BoundedOvershoot
    OBVIOUS
  <2>1. Downloading = {} /\ Admitted = {}
    BY DEF Init, Downloading, Admitted
  <2>2. Cardinality(Downloading) = 0 /\ Cardinality(Admitted) = 0
    BY <2>1, FS_EmptySet
  <2> QED
    BY <2>2, CountsFinite, PipelineAssumption DEF BoundedOvershoot
<1>2. PipelineInv /\ BoundedOvershoot /\ [Next]_vars => BoundedOvershoot'
  BY OvershootKept
<1> QED
  BY <1>1, <1>2, PipelineInvariant, PTL DEF Spec

(***************************************************************************)
(* Without overlapping requests the globals are as good as locals: the     *)
(* step of the induction, one action of a request at a time.               *)
(***************************************************************************)
LEMMA RequestInvKept ==
  ASSUME "overlap" \notin Env, PipelineInv, RequestInv, [Next]_vars
  PROVE  RequestInv'
<1>1. /\ rpc \in [Requests -> {"idle", "login", "times", "compose", "insert", "start", "publish",
                               "format", "register", "test", "fail", "reply", "replied"}]
      /\ id \in [Requests -> 0 .. MaxRow]
      /\ temp \in [Requests -> 0 .. MaxHandle]
      /\ reply \in [Requests -> 0 .. MaxRow]
      /\ DownLoadID \in [Rows -> 0 .. MaxHandle]
      /\ owner \in [Rows -> Requests \cup {Nobody}]
      /\ target \in [Handles -> 0 .. MaxRow]
      /\ range \in [Handles -> Requests \cup {Nobody}]
      /\ live \subseteq Handles
  BY DEF PipelineInv, TypeOK
<1>2. /\ last \in Nat /\ MaxRow \in Nat /\ last <= MaxRow
      /\ \A r \in Requests : HasRow(r) => id[r] \in 1 .. last
      /\ \A i \in 1 .. last : i \in Rows
  <2>1. last \in 0 .. MaxRow /\ MaxRow \in Nat
    BY PipelineAssumption DEF PipelineInv, TypeOK
  <2>2. last \in Nat /\ MaxRow \in Nat /\ last <= MaxRow /\ \A i \in 1 .. last : i \in Rows
    BY <2>1 DEF Rows
  <2> QED
    BY <2>2 DEF PipelineInv
<1>3. /\ SingleRequest
      /\ \A r \in Requests : OwnGlobals(r)
      /\ \A h \in live : target[h] \in 1 .. last
  BY DEF RequestInv
<1>4. ASSUME NEW r \in Requests, CheckCount(r)
      PROVE  RequestInv'
  BY <1>1, <1>3, <1>4
  DEF CheckCount, Arrives, Goto, RequestInv, SingleRequest, OwnGlobals,
      HasRow, Free, table, globals, sdk
<1>5. ASSUME NEW r \in Requests, Login(r)
      PROVE  RequestInv'
  BY <1>1, <1>3, <1>5
  DEF Login, Goto, RequestInv, SingleRequest, OwnGlobals,
      HasRow, Free, table, globals, sdk
<1>6. ASSUME NEW r \in Requests, SetTimes(r)
      PROVE  RequestInv'
  BY <1>1, <1>3, <1>6
  DEF SetTimes, Goto, RequestInv, SingleRequest, OwnGlobals,
      HasRow, Free, table, sdk
<1>7. ASSUME NEW r \in Requests, Compose(r)
      PROVE  RequestInv'
  BY <1>1, <1>3, <1>7
  DEF Compose, Goto, RequestInv, SingleRequest, OwnGlobals,
      HasRow, Free, table, globals, sdk
<1>8. ASSUME NEW r \in Requests, Insert(r)
      PROVE  RequestInv'
  <2>1. last + 1 \in Rows /\ last' = last + 1 /\ owner'[last'] = r /\ id'[r] = last'
    BY <1>1, <1>2, <1>8 DEF Insert, SetById, Rows
  <2>2. \A q \in Requests : ~Free(q) => q = r
    BY <1>3, <1>8 DEF Insert, SingleRequest, Free
  <2>3. SingleRequest' /\ \A q \in Requests : OwnGlobals(q)'
    BY <1>1, <1>3, <1>8, <2>1, <2>2
    DEF Insert, Goto, SingleRequest, OwnGlobals, HasRow, Free, globals
  <2>4. \A h \in live' : target'[h] \in 1 .. last'
    <3>1. \A i \in 1 .. last : i \in 1 .. last'
      BY <1>2, <1>8 DEF Insert
    <3> QED
      BY <1>3, <1>8, <3>1 DEF Insert, sdk
  <2> QED
    BY <2>3, <2>4 DEF RequestInv
<1>9. ASSUME NEW r \in Requests, NEW h \in Handles, StartDownload(r, h)
      PROVE  RequestInv'
  <2>1. /\ m_time = r /\ id[r] = last /\ owner[last] = r /\ id[r] \in 1 .. last
        /\ \A q \in Requests : ~Free(q) => q = r
    BY <1>2, <1>3, <1>9 DEF StartDownload, OwnGlobals, HasRow, Free, SingleRequest
  <2>2. \A g \in live' : target'[g] \in 1 .. last'
    BY <1>1, <1>3, <1>9, <2>1 DEF StartDownload, table
  <2>3. SingleRequest' /\ \A q \in Requests : OwnGlobals(q)'
    BY <1>1, <1>3, <1>9, <2>1
    DEF StartDownload, Goto, SingleRequest, OwnGlobals, HasRow, Free, table
  <2> QED
    BY <2>2, <2>3 DEF RequestInv
<1>10. ASSUME NEW r \in Requests, StartFails(r) \/ Publish(r) \/ Format(r)
       PROVE  RequestInv'
  BY <1>1, <1>3, <1>10
  DEF StartFails, Publish, Format, Goto, RequestInv, SingleRequest, OwnGlobals,
      HasRow, Free, table, globals, sdk
<1>11. ASSUME NEW r \in Requests, Register(r)
       PROVE  RequestInv'
  <2>1. /\ \A q \in Requests : ~Free(q) => q = r
        /\ id[r] \in Rows /\ temp[r] = m_downloadID
    BY <1>2, <1>3, <1>11 DEF Register, OwnGlobals, HasRow, Free, SingleRequest
  <2>2. DownLoadID'[id[r]] = m_downloadID
    BY <1>1, <1>11, <2>1 DEF Register, SetById
  <2>3. SingleRequest' /\ \A q \in Requests : OwnGlobals(q)'
    BY <1>1, <1>3, <1>11, <2>1, <2>2
    DEF Register, Goto, SingleRequest, OwnGlobals, HasRow, Free, globals
  <2>4. \A h \in live' : target'[h] \in 1 .. last'
    BY <1>1, <1>3, <1>11 DEF Register, sdk
  <2> QED
    BY <2>3, <2>4 DEF RequestInv
<1>12. ASSUME NEW r \in Requests, Test(r) \/ MarkFailed(r)
       PROVE  RequestInv'
  BY <1>1, <1>3, <1>12
  DEF Test, MarkFailed, Goto, RequestInv, SingleRequest, OwnGlobals, HasRow, Free, table,
      globals, sdk
<1>13. ASSUME NEW r \in Requests, Reply(r)
       PROVE  RequestInv'
  <2>1. /\ \A q \in Requests : ~Free(q) => q = r
        /\ id[r] = last /\ id[r] \in 1 .. last /\ DownLoadID[last] = m_downloadID
    BY <1>2, <1>3, <1>13 DEF Reply, OwnGlobals, HasRow, Free, SingleRequest
  <2>2. PICK i \in {j \in 1 .. last : DownLoadID[j] = m_downloadID} \cup {0} :
          /\ \A j \in {k \in 1 .. last : DownLoadID[k] = m_downloadID} : j <= i
          /\ reply' = [reply EXCEPT ![r] = i]
    BY <1>13 DEF Reply
  <2>3. i = last
    BY <1>2, <2>1, <2>2
  <2>4. SingleRequest' /\ \A q \in Requests : OwnGlobals(q)'
    BY <1>1, <1>3, <1>13, <2>1
    DEF Reply, Goto, SingleRequest, OwnGlobals, HasRow, Free, table, globals
  <2>6. \A h \in live' : target'[h] \in 1 .. last'
    BY <1>3, <1>13 DEF Reply, table, sdk
  <2> QED
    BY <2>4, <2>6 DEF RequestInv
<1>14. ASSUME UNCHANGED <<requests, last, owner, DownLoadID, globals, target, range>>,
              live' \subseteq live
       PROVE  RequestInv'
  BY <1>3, <1>14
  DEF RequestInv, SingleRequest, OwnGlobals, HasRow, Free,
      requests, globals
<1>15. ASSUME \/ \E h \in Handles : EndCallback(h)
              \/ DM_Convert
              \/ \E t \in Threads : ConvertPackageFormat(t)
              \/ PingFails
              \/ DM_SetState
              \/ UNCHANGED vars
       PROVE  live' \subseteq live
  BY <1>15
  DEF EndCallback, DM_Convert, Select, Poll, StartThread, ConvertPackageFormat, Lock,
      OpenFails, MarkBegin, RecordFails, Play, MarkEnd, RemoveFiles, PingFails, DM_SetState,
      FailRow, RemoveRaw, vars, sdk
<1>16. ASSUME Restart
       PROVE  RequestInv'
  BY <1>16
  DEF Restart, RequestInv, SingleRequest, OwnGlobals, HasRow, Free
<1> QED
  BY <1>4, <1>5, <1>6, <1>7, <1>8, <1>9, <1>10, <1>11, <1>12, <1>13, <1>14, <1>15, <1>16,
     OthersKeepRequests
  DEF Next, RequestStep

(***************************************************************************)
(* What the proofs of ConversionProofs need of requests: when they do not  *)
(* overlap, each goes through the globals of DownloadControl.cpp by itself.*)
(***************************************************************************)
LEMMA RequestInvariant ==
  ASSUME "overlap" \notin Env
  PROVE  Spec => []RequestInv
<1>1. Init => RequestInv
  BY DEF Init, RequestInv, SingleRequest, OwnGlobals, HasRow, Free
<1>2. PipelineInv /\ RequestInv /\ [Next]_vars => RequestInv'
  BY RequestInvKept
<1> QED
  BY <1>1, <1>2, PipelineInvariant, PTL DEF Spec

=============================================================================
