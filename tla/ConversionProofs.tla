-------------------------- MODULE ConversionProofs --------------------------
(***************************************************************************)
(* Proofs about the conversion of recordings in DownloadPipeline, when     *)
(* clients send one request at a time and wait for its recording to be     *)
(* settled (OneByOne), the sleep of DM_Convert is long enough and the NVR  *)
(* answers pings.  What holds without OneByOne is in DownloadPipelineProofs *)
(* and ConcurrentDownloadsProofs.                                          *)
(***************************************************************************)
EXTENDS DownloadPipelineProofs

\* Clients that send a request only after the one before was answered and
\* its recording is settled.
OneByOne == "overlap" \notin Env /\ "concurrent" \notin Env

(***************************************************************************)
(* What the other invariants say of the rows and of the request in flight. *)
(***************************************************************************)
Known ==
  /\ PipelineInv /\ RequestInv /\ ConversionInv
  /\ OneByOne /\ "slowThreads" \notin Env /\ "pingFails" \notin Env

LEMMA TypesKnown ==
  ASSUME Known
  PROVE  /\ state      \in [Rows -> {"none", "begin", "end", "failed"}]
         /\ ipcIp      \in [Rows -> {" ", "begin", "end", "failed"}]
         /\ DownLoadID \in [Rows -> 0 .. MaxHandle]
         /\ dav \in [Rows -> {"none", "growing", "whole"}]
         /\ mp4 \in [Rows -> {"none", "partial", "whole"}]
         /\ rpc   \in [Requests -> {"idle", "login", "times", "compose", "insert", "start",
                                    "publish", "format", "register", "test", "fail", "reply", "replied"}]
         /\ id    \in [Requests -> 0 .. MaxRow]
         /\ temp  \in [Requests -> 0 .. MaxHandle]
         /\ live \subseteq Handles
         /\ target \in [Handles -> 0 .. MaxRow]
         /\ todo \subseteq Rows
         /\ seenId \in [Rows -> 0 .. MaxHandle]
         /\ tpc  \in [Threads -> {"none", "lock", "open", "play", "mark", "remove", "done"}]
         /\ trow \in [Threads -> 0 .. MaxRow]
         /\ tid  \in [Threads -> 0 .. MaxHandle]
         /\ dpc \in {"select", "next", "poll"}
         /\ m_mutex_coverting \in 0 .. MaxThread
BY DEF Known, PipelineInv, TypeOK

LEMMA RowsKnown ==
  ASSUME Known
  PROVE  /\ last \in Nat /\ MaxRow \in Nat /\ last <= MaxRow
         /\ \A i \in 1 .. last : i \in Rows
         /\ \A i \in Rows : i \in Nat /\ i > 0
         /\ last > 0 => last \in Rows /\ last \in 1 .. last
         /\ 0 \notin Handles /\ 0 \notin Threads
<1>1. last \in 0 .. MaxRow /\ MaxRow \in Nat
  BY PipelineAssumption DEF Known, PipelineInv, TypeOK
<1> QED
  BY <1>1 DEF Rows, Handles, Threads

LEMMA RequestKnown ==
  ASSUME Known, NEW r \in Requests, ~Free(r)
  PROVE  /\ \A q \in Requests : ~Free(q) => q = r
         /\ HasRow(r) => id[r] = last /\ last > 0
<1>1. \A q \in Requests : ~Free(q) => q = r
  BY DEF Known, RequestInv, SingleRequest
<1>2. HasRow(r) => id[r] = last /\ id[r] \in 1 .. last
  BY DEF Known, RequestInv, OwnGlobals, PipelineInv
<1> QED
  BY <1>1, <1>2, RowsKnown

LEMMA PartsKnown ==
  ASSUME Known
  PROVE  /\ RowsInOrder /\ OneDownload /\ CountInOrder
         /\ \A r \in Requests : OwnDownload(r)
         /\ SelectedRows /\ ConvertedOnce /\ FilesInOrder /\ spc = "idle"
         /\ \A t \in Threads : OwnRow(t)
<1>1. ConversionInv
  BY DEF Known
<1> QED
  BY <1>1 DEF ConversionInv

\* While a request is admitted no row is downloading, waiting or converting.
LEMMA NothingUnsettled ==
  ASSUME Known, Admitted # {}
  PROVE  /\ \A i \in 1 .. last : Taken(i) /\ Settled(i)
         /\ live \subseteq ended
         /\ todo = {}
         /\ \A t \in Threads : tpc[t] \in {"none", "remove", "done"} /\ m_mutex_coverting # t
<1>1. \A i \in 1 .. last : Settled(i) /\ Taken(i)
  <2>1. \A i \in 1 .. last : i \in Rows /\ Settled(i)
    BY RowsKnown, PartsKnown DEF RowsInOrder
  <2>2. \A i \in Rows : Settled(i) => Taken(i)
    BY PartsKnown DEF RowsInOrder, Taken, Settled
  <2> QED
    BY <2>1, <2>2
<1>2. last > 0 => /\ state[last] # "begin"
                  /\ last \notin ToConvert /\ last \notin Converting
  BY <1>1, RowsKnown DEF Settled, Taken, ToConvert, Converting
<1>3. live \subseteq ended
  BY <1>2, PartsKnown DEF OneDownload
<1>4. todo = {}
  <2>1. \A i \in todo : i = last /\ last \in ToConvert /\ i \in Rows
    BY PartsKnown DEF SelectedRows, ToConvert
  <2> QED
    BY <1>2, <2>1, RowsKnown
<1>5. \A t \in Threads : tpc[t] \in {"none", "remove", "done"} /\ m_mutex_coverting # t
  <2> SUFFICES ASSUME NEW t \in Threads
               PROVE  tpc[t] \in {"none", "remove", "done"} /\ m_mutex_coverting # t
    OBVIOUS
  <2>1. OwnRow(t) /\ tpc[t] \in {"none", "lock", "open", "play", "mark", "remove", "done"}
    BY PartsKnown, TypesKnown
  <2>2. tpc[t] # "none" => trow[t] \in 1 .. last
    BY <2>1 DEF OwnRow
  <2>3. tpc[t] # "none" => last > 0
    BY <2>2, RowsKnown
  <2> QED
    BY <1>2, <2>1, <2>3 DEF OwnRow
<1> QED
  BY <1>1, <1>3, <1>4, <1>5

-----------------------------------------------------------------------------
(***************************************************************************)
(* What each part of the invariant depends on.                             *)
(***************************************************************************)
LEMMA RowsFrame ==
  ASSUME RowsInOrder, UNCHANGED <<last, state, ipcIp, DownLoadID>>, Admitted' \subseteq Admitted
  PROVE  RowsInOrder'
BY DEF RowsInOrder, Taken, Settled

LEMMA DownloadFrame ==
  ASSUME OneDownload, UNCHANGED <<last, state, DownLoadID, m_DownloadID, onDisk, sdk, requests>>
  PROVE  OneDownload'
BY DEF OneDownload, sdk, requests

LEMMA OwnDownloadFrame ==
  ASSUME \A r \in Requests : OwnDownload(r),
         UNCHANGED <<last, state, DownLoadID, m_DownloadID, requests>>
  PROVE  \A r \in Requests : OwnDownload(r)'
BY DEF OwnDownload, requests

LEMMA CountFrame ==
  ASSUME CountInOrder, UNCHANGED <<last, state, m_DownloadID, requests, sdk>>
  PROVE  CountInOrder'
BY DEF CountInOrder, sdk, requests

LEMMA SelectedFrame ==
  ASSUME SelectedRows, UNCHANGED <<state, ipcIp, DownLoadID, last, convert, tpc, trow>>
  PROVE  SelectedRows'
BY DEF SelectedRows, ToConvert, convert

LEMMA OwnRowFrame ==
  ASSUME \A t \in Threads : OwnRow(t),
         UNCHANGED <<state, ipcIp, DownLoadID, last, dpc, threads>>
  PROVE  \A t \in Threads : OwnRow(t)'
BY DEF OwnRow, ToConvert, Converting, threads

LEMMA OnceFrame ==
  ASSUME ConvertedOnce, UNCHANGED <<tpc, trow>>
  PROVE  ConvertedOnce'
BY DEF ConvertedOnce

LEMMA FilesFrame ==
  ASSUME FilesInOrder, UNCHANGED <<state, ipcIp, files, tpc, trow>>
  PROVE  FilesInOrder'
BY DEF FilesInOrder, RawKeptUntilConverted, files

\* The part of the invariant about conversions, for the steps of requests.
Conversions ==
  /\ SelectedRows /\ ConvertedOnce /\ FilesInOrder /\ spc = "idle"
  /\ \A t \in Threads : OwnRow(t)

LEMMA ConversionsKept ==
  ASSUME Known, UNCHANGED <<last, state, ipcIp, DownLoadID, files, convert, threads, spc>>
  PROVE  Conversions'
<1>1. UNCHANGED <<dpc, tpc, trow>>
  BY DEF convert, threads
<1> QED
  BY <1>1, PartsKnown, SelectedFrame, OwnRowFrame, OnceFrame, FilesFrame DEF Conversions

-----------------------------------------------------------------------------
(***************************************************************************)
(* The steps of a request.                                                 *)
(***************************************************************************)
LEMMA CheckCountKeeps ==
  ASSUME Known, NEW r \in Requests, CheckCount(r)
  PROVE  ConversionInv'
<1>1. Conversions'
  BY ConversionsKept DEF CheckCount, table, files, convert, threads, monitor
<1>2. \A q \in Requests : rpc[q] \in {"idle", "replied"}
  BY DEF CheckCount, Arrives, Known, OneByOne, Free
<1>3. \A q \in Requests : rpc'[q] \in {"idle", "replied", "login"}
  BY <1>2, TypesKnown DEF CheckCount, Goto
<1>4. \A i \in 1 .. last : Settled(i)
  BY DEF CheckCount, Arrives, Known, OneByOne
<1>5. UNCHANGED <<table, files, globals, sdk>>
  BY DEF CheckCount
<1>6. RowsInOrder'
  BY <1>4, <1>5, PartsKnown DEF RowsInOrder, Taken, Settled, table
<1>7. OneDownload' /\ CountInOrder' /\ \A q \in Requests : OwnDownload(q)'
  BY <1>2, <1>3, <1>5, PartsKnown
  DEF OneDownload, CountInOrder, OwnDownload, table, files, globals, sdk
<1> QED
  BY <1>1, <1>6, <1>7 DEF ConversionInv, Conversions

LEMMA AdmittedKeeps ==
  ASSUME Known, NEW r \in Requests, Login(r) \/ SetTimes(r) \/ Compose(r)
  PROVE  ConversionInv'
<1>1. Conversions'
  BY ConversionsKept DEF Login, SetTimes, Compose, table, files, convert, threads, monitor
<1>2. rpc[r] \in {"login", "times", "compose"} /\ ~Free(r) /\ r \in Admitted
  BY DEF Login, SetTimes, Compose, Free, Admitted
<1>3. \A q \in Requests : q # r => rpc[q] \in {"idle", "replied"}
  BY <1>2, RequestKnown DEF Free
<1>4. \A q \in Requests : q # r => rpc'[q] = rpc[q]
  BY TypesKnown DEF Login, SetTimes, Compose, Goto
<1>5. rpc'[r] \in {"times", "compose", "insert", "idle"}
  BY TypesKnown DEF Login, SetTimes, Compose, Goto
<1>6. UNCHANGED <<table, files, m_DownloadID, sdk>>
  BY DEF Login, SetTimes, Compose, globals
<1>7. Admitted' \subseteq Admitted
  BY <1>2, <1>4 DEF Admitted
<1>8. RowsInOrder'
  BY <1>6, <1>7, PartsKnown, RowsFrame DEF table
<1>9. live \subseteq ended /\ \A i \in 1 .. last : Settled(i) /\ Taken(i)
  BY <1>2, NothingUnsettled
<1>10. last > 0 => state[last] # "begin"
  BY <1>9, RowsKnown DEF Taken
<1>11. OneDownload' /\ CountInOrder' /\ \A q \in Requests : OwnDownload(q)'
  BY <1>3, <1>4, <1>5, <1>6, <1>9, <1>10
  DEF OneDownload, CountInOrder, OwnDownload, table, files, sdk
<1> QED
  BY <1>1, <1>8, <1>11 DEF ConversionInv, Conversions

LEMMA InsertKeeps ==
  ASSUME Known, NEW r \in Requests, Insert(r)
  PROVE  ConversionInv'
<1>1. r \in Admitted /\ ~Free(r)
  BY DEF Insert, Admitted, Free
<1>2. /\ \A i \in 1 .. last : Taken(i) /\ Settled(i)
      /\ live \subseteq ended /\ todo = {}
      /\ \A t \in Threads : tpc[t] \in {"none", "remove", "done"} /\ m_mutex_coverting # t
  BY <1>1, NothingUnsettled
<1>3. last + 1 \in Rows /\ last' = last + 1
  BY RowsKnown DEF Insert, Rows
<1>4. state[last + 1] = "none" /\ ipcIp[last + 1] = " "
  <2>1. \A i \in Rows : i > last => state[i] = "none" /\ ipcIp[i] = " "
    BY PartsKnown DEF RowsInOrder
  <2>2. last + 1 > last
    BY RowsKnown
  <2> QED
    BY <1>3, <2>1, <2>2
<1>5. state'[last + 1] = "begin" /\ \A i \in Rows : i # last + 1 => state'[i] = state[i]
  BY <1>3, TypesKnown DEF Insert, SetById
<1>6. \A i \in Rows : i # last + 1 => DownLoadID'[i] = DownLoadID[i]
  BY <1>3, TypesKnown DEF Insert, SetById
<1>7. /\ rpc'[r] = "start"
      /\ \A q \in Requests : q # r => rpc'[q] \in {"idle", "replied"}
  BY <1>1, RequestKnown, TypesKnown DEF Insert, Goto, Free
<1>8. UNCHANGED <<ipcIp, files, globals, sdk, convert, threads, monitor>>
  BY DEF Insert
<1>9. RowsInOrder'
  <2>1. Admitted' = {}
    BY <1>7 DEF Admitted
  <2>2. \A i \in Rows : i < last' => Taken(i)'
    <3>1. \A i \in Rows : i < last + 1 => i \in 1 .. last /\ i # last + 1
      BY RowsKnown
    <3> QED
      BY <1>2, <1>3, <1>5, <1>8, <3>1 DEF Taken
  <2>3. \A i \in Rows : i > last' => state'[i] = "none" /\ ipcIp'[i] = " "
    <3>1. \A i \in Rows : i > last + 1 => i > last /\ i # last + 1
      BY RowsKnown
    <3>2. \A i \in Rows : i > last => state[i] = "none" /\ ipcIp[i] = " "
      BY PartsKnown DEF RowsInOrder
    <3> QED
      BY <1>3, <1>5, <1>8, <3>1, <3>2
  <2>4. \A i \in Rows : /\ state'[i] = "failed" => DownLoadID'[i] = 0
                        /\ state'[i] = "end" => DownLoadID'[i] # 0
                        /\ ipcIp'[i] # " " => state'[i] = "end"
    BY <1>4, <1>5, <1>6, <1>8, PartsKnown DEF RowsInOrder
  <2> QED
    BY <2>1, <2>2, <2>3, <2>4 DEF RowsInOrder
<1>10. OneDownload'
  BY <1>2, <1>8 DEF OneDownload, sdk
<1>11. CountInOrder' /\ \A q \in Requests : OwnDownload(q)'
  BY <1>3, <1>5, <1>7 DEF CountInOrder, OwnDownload
<1>12. SelectedRows' /\ ConvertedOnce' /\ spc' = "idle"
  BY <1>2, <1>8, PartsKnown DEF SelectedRows, ConvertedOnce, convert, threads, monitor
<1>13. FilesInOrder'
  BY <1>5, <1>8, PartsKnown DEF FilesInOrder, RawKeptUntilConverted, files, threads
<1>14. \A t \in Threads : OwnRow(t)'
  <2>1. \A t \in Threads : /\ tpc[t] # "none" => trow[t] \in 1 .. last
                           /\ tpc[t] \in {"remove", "done"} => ipcIp[trow[t]] # " "
    BY PartsKnown DEF OwnRow
  <2>2. \A i \in 1 .. last : i \in 1 .. last'
    BY <1>3, RowsKnown
  <2> QED
    BY <1>2, <1>8, <2>1, <2>2 DEF OwnRow, threads
<1> QED
  BY <1>9, <1>10, <1>11, <1>12, <1>13, <1>14 DEF ConversionInv

\* The request in flight works on the row inserted last.
LEMMA InFlight ==
  ASSUME Known, NEW r \in Requests, HasRow(r), ~Free(r)
  PROVE  /\ id[r] = last /\ last > 0 /\ last \in Rows
         /\ \A q \in Requests : q # r => rpc[q] \in {"idle", "replied"}
BY RequestKnown, RowsKnown DEF Free

LEMMA StartDownloadKeeps ==
  ASSUME Known, NEW r \in Requests, NEW h \in Handles, StartDownload(r, h)
  PROVE  ConversionInv'
<1>1. rpc[r] = "start" /\ HasRow(r) /\ ~Free(r)
  BY DEF StartDownload, HasRow, Free
<1>2. /\ id[r] = last /\ last > 0 /\ last \in Rows
      /\ \A q \in Requests : q # r => rpc[q] \in {"idle", "replied"}
  BY <1>1, InFlight
<1>3. state[last] = "begin" /\ live \subseteq ended
  BY <1>1, PartsKnown DEF OwnDownload, OneDownload
<1>4. rpc'[r] = "publish" /\ \A q \in Requests : q # r => rpc'[q] \in {"idle", "replied"}
  BY <1>2, TypesKnown DEF StartDownload, Goto
<1>5. target'[h] = last /\ m_DownloadID' = h /\ live' \ ended' = {h}
  BY <1>2, <1>3, TypesKnown DEF StartDownload
<1>6. /\ onDisk' = onDisk \cup {last}
      /\ dav'[last] = "growing" /\ \A i \in Rows : i # last => dav'[i] = dav[i]
  BY <1>2, TypesKnown DEF StartDownload
<1>7. UNCHANGED <<table, mp4, convert, threads, monitor>>
  BY DEF StartDownload
<1>8. RowsInOrder'
  <2>1. Admitted' = {}
    BY <1>4 DEF Admitted
  <2> QED
    BY <1>7, <2>1, PartsKnown, RowsFrame DEF table
<1>9. OneDownload'
  BY <1>2, <1>3, <1>4, <1>5, <1>6, <1>7 DEF OneDownload, table
<1>10. CountInOrder' /\ \A q \in Requests : OwnDownload(q)'
  BY <1>3, <1>4, <1>5, <1>7 DEF CountInOrder, OwnDownload, table
<1>11. FilesInOrder'
  BY <1>3, <1>6, <1>7, PartsKnown DEF FilesInOrder, RawKeptUntilConverted, table, threads
<1>12. SelectedRows' /\ ConvertedOnce' /\ spc' = "idle" /\ \A t \in Threads : OwnRow(t)'
  BY <1>7, PartsKnown, SelectedFrame, OnceFrame, OwnRowFrame DEF table, convert, threads,
                                                                 monitor
<1> QED
  BY <1>8, <1>9, <1>10, <1>11, <1>12 DEF ConversionInv

\* The steps after it that leave the table alone.
LEMMA HandleKeeps ==
  ASSUME Known, NEW r \in Requests,
         StartFails(r) \/ Publish(r) \/ Format(r) \/ Test(r) \/ Reply(r)
  PROVE  ConversionInv'
<1>1. rpc[r] \in {"start", "publish", "format", "test", "reply"} /\ HasRow(r) /\ ~Free(r)
  BY DEF StartFails, Publish, Format, Test, Reply, HasRow, Free
<1>2. /\ last > 0 /\ last \in Rows
      /\ \A q \in Requests : q # r => rpc[q] \in {"idle", "replied"}
  BY <1>1, InFlight
<1>3. \A q \in Requests : q # r => rpc'[q] = rpc[q]
  BY TypesKnown DEF StartFails, Publish, Format, Test, Reply, Goto
<1>4. UNCHANGED <<table, files, sdk, convert, threads, monitor>>
  BY DEF StartFails, Publish, Format, Test, Reply
<1>5. Conversions'
  BY <1>4, ConversionsKept DEF table, monitor
<1>6. OwnDownload(r) /\ OneDownload /\ CountInOrder
  BY PartsKnown
<1>7. CASE StartFails(r)
  <2>1. rpc[r] = "start" /\ rpc'[r] = "publish" /\ m_DownloadID' = 0
    <3>1. rpc' = [rpc EXCEPT ![r] = "publish"]
      BY <1>7 DEF StartFails, Goto
    <3> QED
      BY <1>7, <3>1, TypesKnown DEF StartFails
  <2>2. state[last] = "begin" /\ live \subseteq ended
    BY <1>6, <2>1 DEF OwnDownload, OneDownload
  <2>3. RowsInOrder' /\ OneDownload' /\ CountInOrder' /\ \A q \in Requests : OwnDownload(q)'
    <3>1. Admitted' \subseteq Admitted
      BY <1>3, <2>1 DEF Admitted
    <3> QED
      BY <1>2, <1>3, <1>4, <2>1, <2>2, <3>1, RowsFrame, PartsKnown
      DEF OneDownload, CountInOrder, OwnDownload, table, sdk
  <2> QED
    BY <1>5, <2>3 DEF ConversionInv, Conversions
<1>8. CASE Publish(r)
  <2>1. rpc[r] = "publish" /\ rpc'[r] = "format" /\ m_DownloadID' = m_DownloadID
    BY <1>8, TypesKnown DEF Publish, Goto
  <2>2. Admitted' \subseteq Admitted
    BY <1>3, <2>1 DEF Admitted
  <2>3. RowsInOrder'
    BY <1>4, <2>2, RowsFrame, PartsKnown DEF table
  <2>4. OneDownload' /\ CountInOrder' /\ \A q \in Requests : OwnDownload(q)'
    BY <1>2, <1>3, <1>4, <1>6, <2>1
    DEF OneDownload, CountInOrder, OwnDownload, table, files, sdk
  <2> QED
    BY <1>5, <2>3, <2>4 DEF ConversionInv, Conversions
<1>11. CASE Format(r)
  <2>1. /\ rpc[r] = "format" /\ rpc'[r] = "register"
        /\ temp'[r] = m_DownloadID /\ m_DownloadID' = m_DownloadID
    <3>1. /\ rpc' = [rpc EXCEPT ![r] = "register"]
          /\ temp' = [temp EXCEPT ![r] = m_DownloadID]
      BY <1>11 DEF Format, Goto
    <3> QED
      BY <1>11, <3>1, TypesKnown DEF Format, globals
  <2>2. Admitted' \subseteq Admitted
    BY <1>3, <2>1 DEF Admitted
  <2>3. RowsInOrder'
    BY <1>4, <2>2, RowsFrame, PartsKnown DEF table
  <2>4. OneDownload' /\ CountInOrder' /\ \A q \in Requests : OwnDownload(q)'
    BY <1>2, <1>3, <1>4, <1>6, <2>1
    DEF OneDownload, CountInOrder, OwnDownload, table, files, sdk
  <2> QED
    BY <1>5, <2>3, <2>4 DEF ConversionInv, Conversions
<1>9. CASE Test(r)
  <2>1. /\ rpc[r] = "test" /\ m_DownloadID' = m_DownloadID
        /\ rpc'[r] = IF m_DownloadID = 0 THEN "fail" ELSE "reply"
    BY <1>9, TypesKnown DEF Test, Goto, globals
  <2>2. DownLoadID[last] = m_DownloadID /\ (m_DownloadID = 0 => state[last] = "begin")
    BY <1>2, <1>6, <2>1, PartsKnown DEF OwnDownload, RowsInOrder
  <2>3. Admitted' \subseteq Admitted
    BY <1>3, <2>1 DEF Admitted
  <2>4. RowsInOrder'
    BY <1>4, <2>3, RowsFrame, PartsKnown DEF table
  <2>5. OneDownload' /\ CountInOrder' /\ \A q \in Requests : OwnDownload(q)'
    BY <1>2, <1>3, <1>4, <1>6, <2>1, <2>2
    DEF OneDownload, CountInOrder, OwnDownload, table, files, sdk
  <2> QED
    BY <1>5, <2>4, <2>5 DEF ConversionInv, Conversions
<1>10. CASE Reply(r)
  <2>1. rpc[r] = "reply" /\ m_DownloadID' = m_DownloadID /\ rpc'[r] = "replied"
    BY <1>10, TypesKnown DEF Reply, Goto, globals
  <2>2. Admitted' \subseteq Admitted
    BY <1>3, <2>1 DEF Admitted
  <2>3. RowsInOrder'
    BY <1>4, <2>2, RowsFrame, PartsKnown DEF table
  <2>4. OneDownload' /\ CountInOrder' /\ \A q \in Requests : OwnDownload(q)'
    BY <1>2, <1>3, <1>4, <1>6, <2>1
    DEF OneDownload, CountInOrder, OwnDownload, table, files, sdk
  <2> QED
    BY <1>5, <2>3, <2>4 DEF ConversionInv, Conversions
<1> QED
  BY <1>7, <1>8, <1>9, <1>10, <1>11

LEMMA RegisterKeeps ==
  ASSUME Known, NEW r \in Requests, Register(r)
  PROVE  ConversionInv'
<1>1. rpc[r] = "register" /\ HasRow(r) /\ ~Free(r)
  BY DEF Register, HasRow, Free
<1>2. /\ id[r] = last /\ last > 0 /\ last \in Rows
      /\ \A q \in Requests : q # r => rpc[q] \in {"idle", "replied"}
  BY <1>1, InFlight
<1>3. /\ temp[r] = m_DownloadID
      /\ state[last] = "begin" \/ (state[last] = "end" /\ DownLoadID[last] = m_DownloadID)
  BY <1>1, PartsKnown DEF OwnDownload
<1>4. rpc'[r] = "test" /\ \A q \in Requests : q # r => rpc'[q] = rpc[q]
  BY TypesKnown DEF Register, Goto
<1>5. /\ DownLoadID'[last] = m_DownloadID
      /\ \A i \in Rows : i # last => DownLoadID'[i] = DownLoadID[i]
  BY <1>2, <1>3, TypesKnown DEF Register, SetById
<1>6. UNCHANGED <<last, state, ipcIp, files, globals, sdk, convert, threads, monitor>>
  BY DEF Register
\* A row that is waiting for its conversion or converted keeps its handle.
<1>7. \A i \in Rows : state[i] = "end" => DownLoadID'[i] = DownLoadID[i]
  BY <1>3, <1>5
<1>8. RowsInOrder'
  <2>1. Admitted' = {}
    BY <1>2, <1>4 DEF Admitted
  <2>2. \A i \in Rows : state[i] = "failed" => DownLoadID'[i] = DownLoadID[i]
    BY <1>3, <1>5
  <2> QED
    BY <1>6, <1>7, <2>1, <2>2, PartsKnown DEF RowsInOrder, Taken
<1>9. OneDownload'
  BY <1>2, <1>4, <1>5, <1>6, PartsKnown DEF OneDownload, files, globals, sdk
<1>10. \A q \in Requests : OwnDownload(q)'
  BY <1>2, <1>3, <1>4, <1>5, <1>6 DEF OwnDownload, globals
<1>11. CountInOrder'
  BY <1>1, <1>2, <1>4, <1>6, PartsKnown DEF CountInOrder, globals, sdk
<1>12. SelectedRows'
  BY <1>6, <1>7, PartsKnown DEF SelectedRows, ToConvert, convert, threads
<1>13. \A t \in Threads : OwnRow(t)'
  BY <1>2, <1>6, <1>7, PartsKnown DEF OwnRow, ToConvert, Converting, convert, threads
<1>14. ConvertedOnce' /\ FilesInOrder' /\ spc' = "idle"
  BY <1>6, PartsKnown, OnceFrame, FilesFrame DEF threads, monitor
<1> QED
  BY <1>8, <1>9, <1>10, <1>11, <1>12, <1>13, <1>14 DEF ConversionInv

LEMMA MarkFailedKeeps ==
  ASSUME Known, NEW r \in Requests, MarkFailed(r)
  PROVE  ConversionInv'
<1>1. rpc[r] = "fail" /\ HasRow(r) /\ ~Free(r)
  BY DEF MarkFailed, HasRow, Free
<1>2. /\ id[r] = last /\ last > 0 /\ last \in Rows
      /\ \A q \in Requests : q # r => rpc[q] \in {"idle", "replied"}
  BY <1>1, InFlight
<1>3. m_DownloadID = 0 /\ DownLoadID[last] = 0 /\ state[last] = "begin"
  BY <1>1, PartsKnown DEF OwnDownload
<1>4. \A q \in Requests : rpc'[q] \in {"idle", "replied"}
  BY <1>2, TypesKnown DEF MarkFailed, Goto
<1>5. /\ state'[last] = "failed"
      /\ \A i \in Rows : i # last => state'[i] = state[i]
  BY <1>2, TypesKnown DEF MarkFailed, SetById
<1>6. UNCHANGED <<last, ipcIp, DownLoadID, files, globals, sdk, convert, threads, monitor>>
  BY DEF MarkFailed
<1>7. RowsInOrder'
  <2>1. Admitted' = {}
    BY <1>4 DEF Admitted
  <2>2. RowsInOrder /\ last \in Nat
    BY PartsKnown, RowsKnown
  <2>3. \A i \in Rows : /\ i > last => state'[i] = "none" /\ ipcIp'[i] = " "
                        /\ i < last => Taken(i)'
    BY <1>2, <1>5, <1>6, <2>2 DEF RowsInOrder, Taken
  <2>4. \A i \in Rows : /\ state'[i] = "failed" => DownLoadID'[i] = 0
                        /\ state'[i] = "end" => DownLoadID'[i] # 0
                        /\ ipcIp'[i] # " " => state'[i] = "end"
    BY <1>3, <1>5, <1>6, <2>2 DEF RowsInOrder
  <2> QED
    BY <1>6, <2>1, <2>3, <2>4 DEF RowsInOrder
<1>8. live \subseteq ended
  BY <1>3, RowsKnown, TypesKnown, PartsKnown DEF OneDownload
<1>9. OneDownload' /\ CountInOrder' /\ \A q \in Requests : OwnDownload(q)'
  BY <1>4, <1>5, <1>6, <1>8 DEF OneDownload, CountInOrder, OwnDownload, sdk
<1>10. last \notin ToConvert /\ last \notin Converting
  BY <1>3 DEF ToConvert, Converting
<1>11. SelectedRows'
  BY <1>6, <1>10, PartsKnown DEF SelectedRows, convert
<1>12. \A t \in Threads : OwnRow(t)'
  BY <1>6, <1>10, PartsKnown DEF OwnRow, threads
<1>13. ConvertedOnce' /\ spc' = "idle"
  BY <1>6, PartsKnown, OnceFrame DEF threads, monitor
<1>14. FilesInOrder'
  BY <1>5, <1>6, PartsKnown DEF FilesInOrder, RawKeptUntilConverted, files, threads
<1> QED
  BY <1>7, <1>9, <1>11, <1>12, <1>13, <1>14 DEF ConversionInv

-----------------------------------------------------------------------------
(***************************************************************************)
(* The end of a download.                                                  *)
(***************************************************************************)
LEMMA EndCallbackKeeps ==
  ASSUME Known, NEW h \in Handles, EndCallback(h)
  PROVE  ConversionInv'
<1>1. /\ h \in live \ ended /\ h # 0
      /\ h = m_DownloadID /\ target[h] = last /\ last > 0
      /\ state[last] = "begin" /\ last \in onDisk
      /\ \A r \in Requests : rpc[r] # "start"
      /\ DownLoadID[last] = h \/ \E r \in Requests : rpc[r] \in {"publish", "format", "register"}
  BY RowsKnown, PartsKnown DEF EndCallback, OneDownload
<1>2. last \in Rows /\ last \in 1 .. last
  BY <1>1, RowsKnown
<1>3. UNCHANGED <<last, ipcIp, DownLoadID, onDisk, mp4, globals, requests, convert, threads,
                  monitor>>
  BY DEF EndCallback
<1>4. ipcIp[last] = " "
  BY <1>1, <1>2, PartsKnown DEF RowsInOrder
\* Other rows with the same handle have ended before.
<1>5. \A i \in Rows : i # last => state'[i] = state[i]
  <2> SUFFICES ASSUME NEW i \in Rows, i # last, i <= last, DownLoadID[i] = h
               PROVE  state[i] = "end"
    BY TypesKnown DEF EndCallback, SetByDownloadID
  <2>1. i < last
    BY RowsKnown
  <2> QED
    BY <1>1, <2>1, PartsKnown DEF RowsInOrder, Taken
<1>6. state'[last] = IF DownLoadID[last] = h THEN "end" ELSE "begin"
  <2>1. last <= last
    BY RowsKnown
  <2> QED
    BY <1>1, <1>2, <2>1 DEF EndCallback, SetByDownloadID
<1>7. live' \subseteq ended'
  BY <1>1, PartsKnown DEF EndCallback, OneDownload
<1>8. dav'[last] = "whole" /\ \A i \in Rows : i # last => dav'[i] = dav[i]
  BY <1>1, <1>2, TypesKnown DEF EndCallback
<1>9. RowsInOrder'
  <2>1. Admitted = {} /\ Admitted' = {}
    <3>1. Admitted = {}
      BY <1>1, <1>2, NothingUnsettled DEF Taken
    <3> QED
      BY <1>3, <3>1 DEF Admitted, requests
  <2>2. RowsInOrder /\ last \in Nat
    BY PartsKnown, RowsKnown
  <2>3. \A i \in Rows : /\ i > last => state'[i] = "none" /\ ipcIp'[i] = " "
                        /\ i < last => Taken(i)'
    BY <1>2, <1>3, <1>5, <2>2 DEF RowsInOrder, Taken
  <2>4. \A i \in Rows : /\ state'[i] = "failed" => DownLoadID'[i] = 0
                        /\ state'[i] = "end" => DownLoadID'[i] # 0
                        /\ ipcIp'[i] # " " => state'[i] = "end"
    BY <1>1, <1>3, <1>4, <1>5, <1>6, <2>2 DEF RowsInOrder
  <2> QED
    BY <1>3, <2>1, <2>3, <2>4 DEF RowsInOrder
<1>10. OneDownload'
  BY <1>7 DEF OneDownload
<1>11. \A r \in Requests : OwnDownload(r)'
  BY <1>1, <1>3, <1>6, PartsKnown DEF OwnDownload, requests, globals
<1>12. CountInOrder'
  <2> SUFFICES ASSUME "earlyEnd" \notin Env PROVE state'[last] = "end"
    BY <1>3 DEF CountInOrder
  <2>1. Registered(h)
    BY DEF EndCallback
  <2>2. \A r \in Requests : rpc[r] \in {"publish", "format", "register"} => id[r] = last
    BY InFlight DEF HasRow, Free
  <2>3. DownLoadID[last] = h
    BY <1>1, <2>1, <2>2 DEF Registered
  <2> QED
    BY <1>6, <2>3
<1>13. last \notin ToConvert /\ last \notin Converting
  BY <1>1 DEF ToConvert, Converting
<1>14. SelectedRows'
  BY <1>3, <1>13, PartsKnown DEF SelectedRows, convert
<1>15. \A t \in Threads : OwnRow(t)'
  BY <1>3, <1>13, PartsKnown DEF OwnRow, threads
<1>16. ConvertedOnce' /\ spc' = "idle"
  BY <1>3, PartsKnown, OnceFrame DEF threads, monitor
<1>17. FilesInOrder'
  BY <1>1, <1>3, <1>4, <1>5, <1>8, PartsKnown DEF FilesInOrder, RawKeptUntilConverted, threads
<1> QED
  BY <1>9, <1>10, <1>11, <1>12, <1>14, <1>15, <1>16, <1>17 DEF ConversionInv

-----------------------------------------------------------------------------
(***************************************************************************)
(* DM_Convert and its threads.                                             *)
(***************************************************************************)
LEMMA DownloadsKept ==
  ASSUME Known,
         UNCHANGED <<last, state, ipcIp, DownLoadID, onDisk, m_DownloadID, requests, sdk>>
  PROVE  /\ RowsInOrder' /\ OneDownload' /\ CountInOrder'
         /\ \A r \in Requests : OwnDownload(r)'
<1>1. Admitted' \subseteq Admitted
  BY DEF Admitted, requests
<1> QED
  BY <1>1, PartsKnown, RowsFrame, DownloadFrame, CountFrame, OwnDownloadFrame

LEMMA SelectKeeps ==
  ASSUME Known, Select
  PROVE  ConversionInv'
<1>1. /\ dpc = "select" /\ dpc' = "next" /\ todo' = ToConvert /\ seenId' = DownLoadID
      /\ UNCHANGED <<table, files, globals, requests, sdk, threads, monitor>>
  BY DEF Select
<1>2. RowsInOrder' /\ OneDownload' /\ CountInOrder' /\ \A r \in Requests : OwnDownload(r)'
  BY <1>1, DownloadsKept DEF table, files, globals
\* Only the row inserted last can wait for its conversion.
<1>3. ToConvert \subseteq {last}
  <2>1. \A i \in Rows : i > last \/ i < last => i \notin ToConvert
    BY PartsKnown DEF RowsInOrder, Taken, ToConvert
  <2>2. \A i \in Rows : i > last \/ i < last \/ i = last
    BY RowsKnown
  <2> QED
    BY <2>1, <2>2 DEF ToConvert
\* No thread has it: the threads that are left have marked theirs.
<1>4. ASSUME NEW t \in Threads, tpc[t] # "none", last \in ToConvert
      PROVE  trow[t] # last
  <2>1. OwnRow(t) /\ tpc[t] \in {"none", "lock", "open", "play", "mark", "remove", "done"}
    BY PartsKnown, TypesKnown
  <2>2. ipcIp[last] = " " /\ last \notin Converting
    BY <1>4 DEF ToConvert, Converting
  <2> QED
    BY <1>1, <1>4, <2>1, <2>2 DEF OwnRow
<1>5. SelectedRows'
  BY <1>1, <1>3, <1>4 DEF SelectedRows, ToConvert, table, threads
<1>6. \A t \in Threads : OwnRow(t)'
  BY <1>1, PartsKnown DEF OwnRow, ToConvert, Converting, table, threads
<1>7. ConvertedOnce' /\ FilesInOrder' /\ spc' = "idle"
  BY <1>1, PartsKnown, OnceFrame, FilesFrame DEF table, threads, monitor
<1> QED
  BY <1>2, <1>5, <1>6, <1>7 DEF ConversionInv

\* The row that is started, by its number and its handle.
LEMMA StartThreadKeeps ==
  ASSUME Known, NEW i \in Rows, NEW t \in Threads, StartThread(i, t)
  PROVE  ConversionInv'
<1>1. /\ dpc = "next" /\ dpc' = "poll" /\ i \in todo /\ tpc[t] = "none"
      /\ live' = live \ {seenId[i]} /\ todo' = todo \ {i}
      /\ UNCHANGED <<table, files, globals, requests, ended, target, range, seenId,
                     m_mutex_coverting, monitor>>
  BY DEF StartThread, First
<1>2. /\ i = last /\ i \in ToConvert /\ seenId[i] = DownLoadID[i]
      /\ todo' = {}
      /\ \A u \in Threads : tpc[u] # "none" => trow[u] # i
  BY <1>1, PartsKnown DEF SelectedRows
<1>3. /\ tpc'[t] = "lock" /\ trow'[t] = i /\ tid'[t] = seenId[i]
      /\ \A u \in Threads : u # t => /\ tpc'[u] = tpc[u] /\ trow'[u] = trow[u]
                                     /\ tid'[u] = tid[u]
  BY TypesKnown DEF StartThread
\* Its download has ended.
<1>4. live \subseteq ended
  BY <1>2, PartsKnown DEF OneDownload, ToConvert
<1>5. RowsInOrder'
  <2>1. Admitted' \subseteq Admitted
    BY <1>1 DEF Admitted, requests
  <2> QED
    BY <1>1, <2>1, PartsKnown, RowsFrame DEF table
<1>6. OneDownload' /\ CountInOrder' /\ \A r \in Requests : OwnDownload(r)'
  <2>1. state[last] = "end"
    BY <1>2 DEF ToConvert
  <2> QED
    BY <1>1, <1>4, <2>1, PartsKnown
    DEF OneDownload, CountInOrder, OwnDownload, table, globals, requests
<1>7. SelectedRows'
  BY <1>1, <1>2 DEF SelectedRows
<1>8. i \in 1 .. last
  BY <1>2, RowsKnown
<1>9. OwnRow(t)'
  BY <1>1, <1>2, <1>3, <1>8, PartsKnown DEF OwnRow, ToConvert, table
<1>10. ASSUME NEW u \in Threads, u # t
       PROVE  OwnRow(u)'
  <2>1. OwnRow(u) /\ tpc[u] \notin {"lock", "open"}
    BY <1>1, PartsKnown DEF OwnRow
  <2> QED
    BY <1>1, <1>3, <1>10, <2>1 DEF OwnRow, Converting, table
<1>11. ConvertedOnce'
  BY <1>2, <1>3, PartsKnown DEF ConvertedOnce
<1>12. FilesInOrder' /\ spc' = "idle"
  BY <1>1, <1>3, PartsKnown DEF FilesInOrder, RawKeptUntilConverted, table, files, monitor
<1> QED
  BY <1>5, <1>6, <1>7, <1>9, <1>10, <1>11, <1>12 DEF ConversionInv

\* Poll ends only when the thread it waits for has marked its row: a thread
\* that waits for the mutex waits for one whose row is being converted.
LEMMA PollKeeps ==
  ASSUME Known, Poll
  PROVE  ConversionInv'
<1>1. /\ dpc = "poll" /\ dpc' \in {"select", "next"} /\ Converting = {}
      /\ \A t \in Threads : Underway(t)
      /\ UNCHANGED <<table, files, globals, requests, sdk, todo, threads, monitor>>
  BY DEF Poll, Known
<1>2. RowsInOrder' /\ OneDownload' /\ CountInOrder' /\ \A r \in Requests : OwnDownload(r)'
  BY <1>1, DownloadsKept DEF table, files, globals
<1>3. todo = {} /\ SelectedRows'
  BY <1>1, PartsKnown DEF SelectedRows
<1>4. ASSUME NEW t \in Threads
      PROVE  tpc[t] \notin {"lock", "open"}
  <2>1. \A u \in Threads : m_mutex_coverting # u
    BY <1>1, PartsKnown DEF OwnRow, Underway
  <2>2. m_mutex_coverting = 0
    <3>1. m_mutex_coverting \in 0 .. MaxThread
      BY TypesKnown
    <3> QED
      BY <2>1, <3>1, PipelineAssumption DEF Threads
  <2> QED
    BY <1>1, <2>2 DEF Underway
<1>5. \A t \in Threads : OwnRow(t)'
  BY <1>1, <1>4, PartsKnown DEF OwnRow, Converting, table, threads
<1>6. ConvertedOnce' /\ FilesInOrder' /\ spc' = "idle"
  BY <1>1, PartsKnown, OnceFrame, FilesFrame DEF table, threads, monitor
<1> QED
  BY <1>2, <1>3, <1>5, <1>6 DEF ConversionInv

\* A thread between its start and its last update has the row inserted last,
\* so no other thread is there, nothing is selected and no request admitted.
LEMMA Busy ==
  ASSUME Known, NEW t \in Threads, tpc[t] \in {"lock", "open", "play", "mark"}
  PROVE  /\ trow[t] = last /\ last > 0 /\ last \in Rows /\ last \in 1 .. last
         /\ state[last] = "end" /\ DownLoadID[last] # 0 /\ dav[last] = "whole"
         /\ Admitted = {} /\ live \subseteq ended
         /\ \A u \in Threads : u # t => /\ tpc[u] \in {"none", "remove", "done"}
                                        /\ tpc[u] # "none" => trow[u] # last
<1>1. OwnRow(t)
  BY PartsKnown
<1>2. trow[t] = last /\ last \in 1 .. last /\ last \in ToConvert \cup Converting
  BY <1>1 DEF OwnRow
<1>3. last > 0 /\ last \in Rows
  BY <1>2, RowsKnown
<1>4. state[last] = "end" /\ ipcIp[last] \in {" ", "begin"}
  BY <1>2 DEF ToConvert, Converting
<1>5. DownLoadID[last] # 0 /\ dav[last] = "whole" /\ live \subseteq ended
  BY <1>3, <1>4, PartsKnown DEF RowsInOrder, FilesInOrder, OneDownload
<1>6. Admitted = {}
  BY <1>2, <1>4, NothingUnsettled DEF Settled
<1>7. ASSUME NEW u \in Threads, u # t
      PROVE  /\ tpc[u] \in {"none", "remove", "done"}
             /\ tpc[u] # "none" => trow[u] # last
  <2>1. ASSUME tpc[u] # "none" PROVE trow[u] # last
    BY <1>2, <1>7, <2>1, PartsKnown DEF ConvertedOnce
  <2>2. OwnRow(u) /\ tpc[u] \in {"none", "lock", "open", "play", "mark", "remove", "done"}
    BY PartsKnown, TypesKnown
  <2> QED
    BY <2>1, <2>2 DEF OwnRow
<1> QED
  BY <1>2, <1>3, <1>4, <1>5, <1>6, <1>7

\* Threads that are not busy look only at whether their row is taken up.
LEMMA OthersKeepRow ==
  ASSUME Known, NEW u \in Threads, tpc[u] \in {"none", "remove", "done"},
         tpc'[u] = tpc[u], trow'[u] = trow[u], last' = last,
         ipcIp[trow[u]] # " " => ipcIp'[trow[u]] # " ",
         m_mutex_coverting' # u
  PROVE  OwnRow(u)'
<1>1. OwnRow(u)
  BY PartsKnown
<1> QED
  BY <1>1 DEF OwnRow

LEMMA LockKeeps ==
  ASSUME Known, NEW t \in Threads, Lock(t)
  PROVE  ConversionInv'
<1>1. /\ tpc[t] = "lock" /\ m_mutex_coverting' = t
      /\ UNCHANGED <<table, files, globals, requests, sdk, convert, trow, tid, monitor>>
  BY DEF Lock
<1>2. RowsInOrder' /\ OneDownload' /\ CountInOrder' /\ \A r \in Requests : OwnDownload(r)'
  BY <1>1, DownloadsKept DEF table, files, globals
<1>3. tpc'[t] = "open" /\ \A u \in Threads : u # t => tpc'[u] = tpc[u]
  BY TypesKnown DEF Lock
<1>4. dpc = "poll" /\ todo = {}
  BY <1>1, PartsKnown DEF OwnRow, SelectedRows
<1>5. OwnRow(t)'
  BY <1>1, <1>3, PartsKnown DEF OwnRow, ToConvert, table, convert
<1>6. ASSUME NEW u \in Threads, u # t PROVE OwnRow(u)'
  BY <1>1, <1>3, <1>6, Busy, OthersKeepRow DEF table
<1>7. SelectedRows' /\ spc' = "idle"
  BY <1>1, <1>4, PartsKnown DEF SelectedRows, convert, monitor
<1>8. ConvertedOnce'
  BY <1>1, <1>3, PartsKnown DEF ConvertedOnce
<1>9. FilesInOrder'
  BY <1>1, <1>3, PartsKnown DEF FilesInOrder, RawKeptUntilConverted, table, files
<1> QED
  BY <1>2, <1>5, <1>6, <1>7, <1>8, <1>9 DEF ConversionInv

\* The first update goes by handle: it takes up the thread's own row and may
\* touch others that were taken up before.
LEMMA MarkKeeps ==
  ASSUME Known, NEW t \in Threads, OpenFails(t) \/ MarkBegin(t)
  PROVE  ConversionInv'
<1>1. /\ tpc[t] = "open" /\ m_mutex_coverting = t
      /\ trow[t] = last /\ last > 0 /\ last \in Rows /\ last \in 1 .. last
      /\ state[last] = "end" /\ DownLoadID[last] # 0
      /\ Admitted = {} /\ live \subseteq ended
      /\ \A u \in Threads : u # t => /\ tpc[u] \in {"none", "remove", "done"}
                                     /\ tpc[u] # "none" => trow[u] # last
  <2>1. tpc[t] = "open"
    BY DEF OpenFails, MarkBegin
  <2> QED
    BY <2>1, Busy DEF Known, PipelineInv
<1>2. dpc = "poll" /\ todo = {} /\ tid[t] = DownLoadID[last]
  BY <1>1, PartsKnown DEF OwnRow, SelectedRows
<1>3. PICK value \in {"begin", "failed"} :
        /\ ipcIp' = SetByDownloadID(ipcIp, value, tid[t])
        /\ value = "failed" => OpenFails(t)
        /\ value = "begin" => MarkBegin(t)
  BY DEF OpenFails, MarkBegin
<1>4. UNCHANGED <<last, state, DownLoadID, owner, files, globals, requests, sdk, convert, trow,
                  tid, monitor>>
  BY DEF OpenFails, MarkBegin
<1>5. /\ tpc'[t] = IF value = "begin" THEN "play" ELSE "done"
      /\ \A u \in Threads : u # t => tpc'[u] = tpc[u]
      /\ m_mutex_coverting' = IF value = "begin" THEN t ELSE 0
  BY <1>1, <1>3, TypesKnown DEF OpenFails, MarkBegin
<1>6. /\ ipcIp'[last] = value
      /\ \A i \in Rows : ipcIp'[i] = ipcIp[i] \/ (ipcIp'[i] = value /\ state[i] = "end")
  <2>1. ASSUME NEW i \in Rows, i <= last, DownLoadID[i] = DownLoadID[last]
        PROVE  state[i] = "end"
    <3>1. i = last \/ i < last
      BY <2>1, RowsKnown
    <3> QED
      BY <1>1, <2>1, <3>1, PartsKnown DEF RowsInOrder, Taken
  <2>2. last <= last
    BY RowsKnown
  <2> QED
    BY <1>1, <1>2, <1>3, <2>1, <2>2, TypesKnown DEF SetByDownloadID
<1>7. RowsInOrder'
  <2>1. Admitted' = {}
    BY <1>1, <1>4 DEF Admitted, requests
  <2>2. \A i \in Rows : /\ i > last' => state'[i] = "none" /\ ipcIp'[i] = " "
                        /\ i < last' => Taken(i)'
    BY <1>4, <1>6, PartsKnown DEF RowsInOrder, Taken
  <2>3. \A i \in Rows : /\ state'[i] = "failed" => DownLoadID'[i] = 0
                        /\ state'[i] = "end" => DownLoadID'[i] # 0
                        /\ ipcIp'[i] # " " => state'[i] = "end"
    BY <1>4, <1>6, PartsKnown DEF RowsInOrder
  <2> QED
    BY <2>1, <2>2, <2>3 DEF RowsInOrder
<1>8. OneDownload' /\ CountInOrder' /\ \A r \in Requests : OwnDownload(r)'
  <2>1. UNCHANGED <<m_DownloadID, onDisk>>
    BY <1>4 DEF files, globals
  <2> QED
    BY <1>4, <2>1, PartsKnown, DownloadFrame, CountFrame, OwnDownloadFrame
<1>9. SelectedRows' /\ spc' = "idle"
  BY <1>2, <1>4, PartsKnown DEF SelectedRows, convert, monitor
<1>10. OwnRow(t)'
  <2>1. trow'[t] = last /\ last' = last /\ state'[last] = "end" /\ t # 0
    BY <1>1, <1>4, RowsKnown
  <2>2. CASE value = "begin"
    <3>1. last \in Converting'
      BY <1>1, <1>6, <2>1, <2>2 DEF Converting
    <3>2. tpc'[t] = "play"
      BY <1>5, <2>2
    <3> QED
      BY <1>1, <2>1, <3>1, <3>2 DEF OwnRow
  <2>3. CASE value = "failed"
    <3>1. tpc'[t] = "done" /\ m_mutex_coverting' # t /\ ipcIp'[last] # " "
      BY <1>5, <1>6, <2>1, <2>3
    <3> QED
      BY <1>1, <2>1, <3>1 DEF OwnRow
  <2> QED
    BY <2>2, <2>3
<1>11. ASSUME NEW u \in Threads, u # t PROVE OwnRow(u)'
  <2>1. m_mutex_coverting' # u
    BY <1>5, <1>11, RowsKnown
  <2>2. \A i \in Rows : ipcIp[i] # " " => ipcIp'[i] # " "
    BY <1>6
  <2>3. tpc[u] # "none" => trow[u] \in Rows
    BY RowsKnown, PartsKnown DEF OwnRow
  <2>4. tpc[u] \in {"none", "remove", "done"} /\ tpc'[u] = tpc[u] /\ trow'[u] = trow[u]
    BY <1>1, <1>4, <1>5, <1>11
  <2>5. CASE tpc[u] = "none"
    BY <2>1, <2>4, <2>5 DEF OwnRow
  <2>6. CASE tpc[u] # "none"
    BY <1>4, <2>1, <2>2, <2>3, <2>4, <2>6, OthersKeepRow
  <2> QED
    BY <2>5, <2>6
<1>12. ConvertedOnce'
  BY <1>1, <1>4, <1>5, PartsKnown DEF ConvertedOnce
<1>13. FilesInOrder'
  <2>1. \A i \in Rows : ipcIp'[i] = "end" => ipcIp[i] = "end"
    BY <1>6
  <2> QED
    BY <1>4, <1>5, <2>1, PartsKnown DEF FilesInOrder, RawKeptUntilConverted, files
<1> QED
  BY <1>7, <1>8, <1>9, <1>10, <1>11, <1>12, <1>13 DEF ConversionInv

\* A thread with a row that is being converted: nothing is selected.
LEMMA RecordingBusy ==
  ASSUME Known, NEW t \in Threads, tpc[t] \in {"play", "mark"}
  PROVE  last \in Converting /\ ipcIp[last] = "begin" /\ m_mutex_coverting = t /\ todo = {}
<1>1. last \in Converting
  BY PartsKnown DEF OwnRow
<1>2. m_mutex_coverting = t
  BY DEF Known, PipelineInv
<1>3. ipcIp[last] = "begin" /\ last \notin ToConvert
  BY <1>1 DEF Converting, ToConvert
<1>4. todo = {}
  BY <1>3, PartsKnown DEF SelectedRows
<1> QED
  BY <1>1, <1>2, <1>3, <1>4

LEMMA RecordFailsKeeps ==
  ASSUME Known, NEW t \in Threads, RecordFails(t)
  PROVE  ConversionInv'
<1>1. /\ tpc[t] = "play"
      /\ UNCHANGED <<table, files, globals, requests, sdk, convert, trow, tid,
                     m_mutex_coverting, monitor>>
  BY DEF RecordFails
<1>2. /\ trow[t] = last /\ last \in Rows /\ last \in 1 .. last
      /\ last \in Converting /\ ipcIp[last] = "begin"
      /\ m_mutex_coverting = t /\ todo = {}
  BY <1>1, Busy, RecordingBusy
<1>3. tpc'[t] = "done" /\ \A u \in Threads : u # t => tpc'[u] = tpc[u]
  BY TypesKnown DEF RecordFails
<1>4. RowsInOrder' /\ OneDownload' /\ CountInOrder' /\ \A r \in Requests : OwnDownload(r)'
  BY <1>1, DownloadsKept DEF table, files, globals
<1>5. SelectedRows' /\ spc' = "idle"
  BY <1>1, <1>2, PartsKnown DEF SelectedRows, convert, monitor
<1>6. OwnRow(t)'
  <2>1. trow'[t] = last /\ last' = last /\ ipcIp' = ipcIp /\ state' = state
    BY <1>1, <1>2 DEF table
  <2>2. last \in Converting'
    BY <1>2, <2>1 DEF Converting
  <2> QED
    BY <1>2, <1>3, <2>1, <2>2 DEF OwnRow
<1>7. ASSUME NEW u \in Threads, u # t PROVE OwnRow(u)'
  BY <1>1, <1>2, <1>3, <1>7, Busy, OthersKeepRow DEF table
<1>8. ConvertedOnce'
  BY <1>1, <1>3, PartsKnown DEF ConvertedOnce
<1>9. FilesInOrder'
  BY <1>1, <1>3, PartsKnown DEF FilesInOrder, RawKeptUntilConverted, table, files
<1> QED
  BY <1>4, <1>5, <1>6, <1>7, <1>8, <1>9 DEF ConversionInv

LEMMA PlayKeeps ==
  ASSUME Known, NEW t \in Threads, Play(t)
  PROVE  ConversionInv'
<1>1. /\ tpc[t] = "play"
      /\ UNCHANGED <<table, dav, onDisk, globals, requests, sdk, convert, trow, tid,
                     m_mutex_coverting, monitor>>
  BY DEF Play
<1>2. /\ trow[t] = last /\ last \in Rows /\ last \in 1 .. last /\ dav[last] = "whole"
      /\ last \in Converting /\ ipcIp[last] = "begin"
      /\ m_mutex_coverting = t /\ todo = {}
  BY <1>1, Busy, RecordingBusy
<1>3. tpc'[t] = "mark" /\ \A u \in Threads : u # t => tpc'[u] = tpc[u]
  BY TypesKnown DEF Play
<1>4. RowsInOrder' /\ OneDownload' /\ CountInOrder' /\ \A r \in Requests : OwnDownload(r)'
  BY <1>1, DownloadsKept DEF table, globals
<1>5. SelectedRows' /\ spc' = "idle"
  BY <1>1, <1>2, PartsKnown DEF SelectedRows, convert, monitor
<1>6. OwnRow(t)'
  <2>1. trow'[t] = last /\ last' = last /\ ipcIp' = ipcIp /\ state' = state
    BY <1>1, <1>2 DEF table
  <2>2. last \in Converting'
    BY <1>2, <2>1 DEF Converting
  <2> QED
    BY <1>2, <1>3, <2>1, <2>2 DEF OwnRow
<1>7. ASSUME NEW u \in Threads, u # t PROVE OwnRow(u)'
  BY <1>1, <1>2, <1>3, <1>7, Busy, OthersKeepRow DEF table
<1>8. ConvertedOnce'
  BY <1>1, <1>3, PartsKnown DEF ConvertedOnce
\* The file it reads is whole.
<1>9. ASSUME "mp4Fails" \notin Env
      PROVE  mp4'[last] = "whole" /\ \A i \in Rows : i # last => mp4'[i] = mp4[i]
  <2>1. mp4' = [mp4 EXCEPT ![last] = "whole"]
    BY <1>2, <1>9 DEF Play, covertavitomp4
  <2> QED
    BY <1>2, <2>1, TypesKnown
<1>10. FilesInOrder'
  <2>1. \A i \in Rows : state'[i] = "end" => dav'[i] = "whole"
    BY <1>1, PartsKnown DEF FilesInOrder, table
  <2> SUFFICES ASSUME "mp4Fails" \notin Env
               PROVE  /\ \A u \in Threads : tpc'[u] \in {"mark", "remove"} =>
                           mp4'[trow'[u]] = "whole"
                      /\ RawKeptUntilConverted'
    BY <2>1 DEF FilesInOrder
  <2>2. \A i \in Rows : mp4[i] = "whole" => mp4'[i] = "whole"
    BY <1>9
  <2>3. ASSUME NEW u \in Threads, tpc'[u] \in {"mark", "remove"}
        PROVE  mp4'[trow'[u]] = "whole"
    <3>1. CASE u = t
      BY <1>1, <1>2, <1>9, <3>1
    <3>2. CASE u # t
      <4>1. mp4[trow[u]] = "whole" /\ trow[u] \in 1 .. last
        BY <1>3, <2>3, <3>2, PartsKnown DEF FilesInOrder, OwnRow
      <4> QED
        BY <1>1, <2>2, <4>1, RowsKnown
    <3> QED
      BY <3>1, <3>2
  <2>4. RawKeptUntilConverted'
    BY <1>1, <2>2, PartsKnown DEF FilesInOrder, RawKeptUntilConverted, table
  <2> QED
    BY <2>3, <2>4
<1> QED
  BY <1>4, <1>5, <1>6, <1>7, <1>8, <1>10 DEF ConversionInv

LEMMA MarkEndKeeps ==
  ASSUME Known, NEW t \in Threads, MarkEnd(t)
  PROVE  ConversionInv'
<1>1. /\ tpc[t] = "mark" /\ m_mutex_coverting' = 0
      /\ UNCHANGED <<last, state, DownLoadID, owner, files, globals, requests, sdk, convert,
                     trow, tid, monitor>>
  BY DEF MarkEnd
<1>2. /\ trow[t] = last /\ last \in Rows /\ last \in 1 .. last /\ Admitted = {}
      /\ state[last] = "end" /\ ipcIp[last] = "begin" /\ todo = {}
  BY <1>1, Busy, RecordingBusy
<1>3. tpc'[t] = "remove" /\ \A u \in Threads : u # t => tpc'[u] = tpc[u]
  BY TypesKnown DEF MarkEnd
<1>4. ipcIp'[last] = "end" /\ \A i \in Rows : i # last => ipcIp'[i] = ipcIp[i]
  BY <1>2, TypesKnown DEF MarkEnd, SetById
<1>5. RowsInOrder'
  <2>1. Admitted' = {}
    BY <1>1, <1>2 DEF Admitted, requests
  <2>2. \A i \in Rows : /\ i > last' => state'[i] = "none" /\ ipcIp'[i] = " "
                        /\ i < last' => Taken(i)'
    BY <1>1, <1>2, <1>4, PartsKnown DEF RowsInOrder, Taken
  <2>3. \A i \in Rows : /\ state'[i] = "failed" => DownLoadID'[i] = 0
                        /\ state'[i] = "end" => DownLoadID'[i] # 0
                        /\ ipcIp'[i] # " " => state'[i] = "end"
    BY <1>1, <1>2, <1>4, PartsKnown DEF RowsInOrder
  <2> QED
    BY <2>1, <2>2, <2>3 DEF RowsInOrder
<1>6. OneDownload' /\ CountInOrder' /\ \A r \in Requests : OwnDownload(r)'
  <2>1. UNCHANGED <<m_DownloadID, onDisk>>
    BY <1>1 DEF files, globals
  <2> QED
    BY <1>1, <2>1, PartsKnown, DownloadFrame, CountFrame, OwnDownloadFrame
<1>7. SelectedRows' /\ spc' = "idle"
  BY <1>1, <1>2, PartsKnown DEF SelectedRows, convert, monitor
<1>8. OwnRow(t)'
  <2>1. trow'[t] = last /\ last' = last /\ m_mutex_coverting' # t /\ ipcIp'[last] # " "
    BY <1>1, <1>2, <1>4, RowsKnown
  <2> QED
    BY <1>2, <1>3, <2>1 DEF OwnRow
<1>9. ASSUME NEW u \in Threads, u # t PROVE OwnRow(u)'
  <2>1. tpc[u] \in {"none", "remove", "done"} /\ tpc'[u] = tpc[u] /\ trow'[u] = trow[u]
    BY <1>1, <1>3, <1>9, Busy
  <2>2. tpc[u] # "none" => trow[u] \in Rows
    BY RowsKnown, PartsKnown DEF OwnRow
  <2>3. m_mutex_coverting' # u
    BY <1>1, RowsKnown
  <2>4. \A i \in Rows : ipcIp[i] # " " => ipcIp'[i] # " "
    BY <1>4
  <2>5. CASE tpc[u] = "none"
    BY <2>1, <2>3, <2>5 DEF OwnRow
  <2>6. CASE tpc[u] # "none"
    BY <1>1, <2>1, <2>2, <2>3, <2>4, <2>6, OthersKeepRow
  <2> QED
    BY <2>5, <2>6
<1>10. ConvertedOnce'
  BY <1>1, <1>3, PartsKnown DEF ConvertedOnce
<1>11. FilesInOrder'
  <2>1. \A i \in Rows : state'[i] = "end" => dav'[i] = "whole"
    BY <1>1, PartsKnown DEF FilesInOrder, files
  <2> SUFFICES ASSUME "mp4Fails" \notin Env
               PROVE  /\ \A u \in Threads : tpc'[u] \in {"mark", "remove"} =>
                           mp4'[trow'[u]] = "whole"
                      /\ RawKeptUntilConverted'
    BY <2>1 DEF FilesInOrder
  <2>2. \A u \in Threads : tpc[u] \in {"mark", "remove"} => mp4[trow[u]] = "whole"
    BY PartsKnown DEF FilesInOrder
  <2>3. \A u \in Threads : tpc'[u] \in {"mark", "remove"} => tpc[u] \in {"mark", "remove"}
    BY <1>1, <1>3
  <2>4. \A u \in Threads : tpc'[u] \in {"mark", "remove"} => mp4'[trow'[u]] = "whole"
    BY <1>1, <2>2, <2>3 DEF files
  <2>5. mp4[last] = "whole" /\ RawKeptUntilConverted
    BY <1>1, <1>2, <2>2, PartsKnown DEF FilesInOrder
  <2>6. RawKeptUntilConverted'
    BY <1>1, <1>4, <2>5 DEF RawKeptUntilConverted, files
  <2> QED
    BY <2>4, <2>6
<1> QED
  BY <1>5, <1>6, <1>7, <1>8, <1>9, <1>10, <1>11 DEF ConversionInv

\* The file that is removed is not the one a download fills: its row has been
\* taken up.
LEMMA RemoveFilesKeeps ==
  ASSUME Known, NEW t \in Threads, RemoveFiles(t)
  PROVE  ConversionInv'
<1>1. /\ tpc[t] = "remove" /\ onDisk' = onDisk \ {trow[t]}
      /\ UNCHANGED <<table, dav, mp4, globals, requests, sdk, convert, trow, tid,
                     m_mutex_coverting, monitor>>
  BY DEF RemoveFiles
<1>2. trow[t] \in 1 .. last /\ trow[t] \in Rows /\ ipcIp[trow[t]] # " "
      /\ m_mutex_coverting # t
  <2>1. OwnRow(t)
    BY PartsKnown
  <2>2. trow[t] \in 1 .. last
    BY <1>1, <2>1 DEF OwnRow
  <2> QED
    BY <1>1, <2>1, <2>2, RowsKnown DEF OwnRow
<1>3. tpc'[t] = "done" /\ \A u \in Threads : u # t => tpc'[u] = tpc[u]
  BY TypesKnown DEF RemoveFiles
<1>4. RowsInOrder' /\ CountInOrder' /\ \A r \in Requests : OwnDownload(r)'
  <2>1. Admitted' \subseteq Admitted
    BY <1>1 DEF Admitted, requests
  <2>2. UNCHANGED <<last, state, ipcIp, DownLoadID, m_DownloadID>>
    BY <1>1 DEF table, globals
  <2> QED
    BY <1>1, <2>1, <2>2, PartsKnown, RowsFrame, CountFrame, OwnDownloadFrame
<1>5. OneDownload'
  <2>1. state[trow[t]] = "end"
    BY <1>2, PartsKnown DEF RowsInOrder
  <2>2. state[last] = "begin" => (last \in onDisk => last \in onDisk')
    BY <1>1, <2>1
  <2> QED
    BY <1>1, <2>2, PartsKnown DEF OneDownload, table, globals, requests, sdk
<1>6. SelectedRows' /\ spc' = "idle"
  BY <1>1, <1>3, PartsKnown DEF SelectedRows, ToConvert, table, convert, monitor
<1>7. OwnRow(t)'
  BY <1>1, <1>2, <1>3 DEF OwnRow, table
<1>8. ASSUME NEW u \in Threads, u # t PROVE OwnRow(u)'
  BY <1>1, <1>3, <1>8, PartsKnown DEF OwnRow, ToConvert, Converting, table, convert
<1>9. ConvertedOnce'
  BY <1>1, <1>3, PartsKnown DEF ConvertedOnce
<1>10. FilesInOrder'
  <2>1. \A i \in Rows : state'[i] = "end" => dav'[i] = "whole"
    BY <1>1, PartsKnown DEF FilesInOrder, table
  <2> SUFFICES ASSUME "mp4Fails" \notin Env
               PROVE  /\ \A u \in Threads : tpc'[u] \in {"mark", "remove"} =>
                           mp4'[trow'[u]] = "whole"
                      /\ RawKeptUntilConverted'
    BY <2>1 DEF FilesInOrder
  <2>2. /\ RawKeptUntilConverted
        /\ \A u \in Threads : tpc[u] \in {"mark", "remove"} => mp4[trow[u]] = "whole"
    BY PartsKnown DEF FilesInOrder
  <2>3. mp4[trow[t]] = "whole"
    BY <1>1, <2>2
  <2>4. \A u \in Threads : tpc'[u] \in {"mark", "remove"} => mp4'[trow'[u]] = "whole"
    BY <1>1, <1>3, <2>2
  <2>5. RawKeptUntilConverted'
    BY <1>1, <2>2, <2>3 DEF RawKeptUntilConverted, table
  <2> QED
    BY <2>4, <2>5
<1> QED
  BY <1>4, <1>5, <1>6, <1>7, <1>8, <1>9, <1>10 DEF ConversionInv

-----------------------------------------------------------------------------
(***************************************************************************)
(* A restart: what is left is the table and the files.                     *)
(***************************************************************************)
LEMMA RestartKeeps ==
  ASSUME Known, Restart
  PROVE  ConversionInv'
<1>1. /\ \A r \in Requests : rpc'[r] = "idle"
      /\ \A t \in Threads : tpc'[t] = "none"
      /\ live' = {} /\ todo' = {} /\ m_mutex_coverting' = 0 /\ spc' = "idle"
      /\ UNCHANGED <<table, files>>
  BY DEF Restart
<1>2. RowsInOrder'
  <2>1. Admitted' \subseteq Admitted
    BY <1>1 DEF Admitted
  <2> QED
    BY <1>1, <2>1, PartsKnown, RowsFrame DEF table
<1>3. OneDownload' /\ SelectedRows' /\ ConvertedOnce'
  BY <1>1 DEF OneDownload, SelectedRows, ConvertedOnce
<1>4. \A r \in Requests : OwnDownload(r)'
  BY <1>1 DEF OwnDownload
<1>5. \A t \in Threads : OwnRow(t)'
  BY <1>1, RowsKnown DEF OwnRow
<1>6. FilesInOrder'
  BY <1>1, PartsKnown DEF FilesInOrder, RawKeptUntilConverted, table, files
<1>7. CountInOrder'
  <2>1. restarts \in 0 .. MaxRestart /\ restarts < MaxRestart
    BY DEF Restart, Known, PipelineInv, TypeOK
  <2>2. MaxRestart # 0
    BY <2>1, PipelineAssumption
  <2> QED
    BY <2>2 DEF CountInOrder
<1> QED
  BY <1>1, <1>2, <1>3, <1>4, <1>5, <1>6, <1>7 DEF ConversionInv

LEMMA ConversionInit == Init => ConversionInv
<1> SUFFICES ASSUME Init PROVE ConversionInv
  OBVIOUS
<1>1. \A i \in Rows : i > 0 /\ ~(i < 0)
  BY PipelineAssumption DEF Rows
<1>2. /\ last = 0 /\ spc = "idle" /\ live = {} /\ todo = {} /\ m_mutex_coverting = 0
      /\ \A i \in Rows : state[i] = "none" /\ ipcIp[i] = " " /\ dav[i] = "none"
      /\ \A r \in Requests : rpc[r] = "idle"
      /\ \A t \in Threads : tpc[t] = "none" /\ t # 0
  <2>1. \A t \in Threads : t # 0
    BY PipelineAssumption DEF Threads
  <2> QED
    BY <2>1 DEF Init
<1>3. RowsInOrder
  BY <1>1, <1>2 DEF RowsInOrder, Admitted
<1>4. OneDownload /\ SelectedRows /\ ConvertedOnce
  BY <1>2 DEF OneDownload, SelectedRows, ConvertedOnce
<1>5. (\A r \in Requests : OwnDownload(r)) /\ \A t \in Threads : OwnRow(t)
  BY <1>2 DEF OwnDownload, OwnRow
<1>6. FilesInOrder
  BY <1>2 DEF FilesInOrder, RawKeptUntilConverted
<1>7. CountInOrder
  <2>1. last = 0
    BY <1>2
  <2>2. ~(0 > 0)
    OBVIOUS
  <2>3. ~(last > 0)
    BY <2>1, <2>2
  <2> QED
    BY <2>3 DEF CountInOrder
<1> QED
  BY <1>2, <1>3, <1>4, <1>5, <1>6, <1>7 DEF ConversionInv

LEMMA ConversionStep ==
  ASSUME Known, [Next]_vars
  PROVE  ConversionInv'
<1>1. ASSUME NEW r \in Requests, CheckCount(r) \/ RequestStep(r)
      PROVE  ConversionInv'
  BY <1>1, CheckCountKeeps, AdmittedKeeps, InsertKeeps, StartDownloadKeeps, HandleKeeps,
     RegisterKeeps, MarkFailedKeeps DEF RequestStep
<1>2. ASSUME NEW h \in Handles, EndCallback(h)
      PROVE  ConversionInv'
  BY <1>2, EndCallbackKeeps
<1>3. CASE DM_Convert
  BY <1>3, SelectKeeps, PollKeeps, StartThreadKeeps DEF DM_Convert
<1>4. ASSUME NEW t \in Threads, ConvertPackageFormat(t)
      PROVE  ConversionInv'
  BY <1>4, LockKeeps, MarkKeeps, RecordFailsKeeps, PlayKeeps, MarkEndKeeps, RemoveFilesKeeps
  DEF ConvertPackageFormat
<1>5. ~PingFails /\ ~DM_SetState
  BY PartsKnown DEF Known, PingFails, DM_SetState, FailRow, RemoveRaw
<1>6. CASE Restart
  BY <1>6, RestartKeeps
<1>7. CASE UNCHANGED vars
  <2>1. UNCHANGED <<table, files, globals, requests, sdk, convert, threads, monitor>>
    BY <1>7 DEF vars
  <2>2. UNCHANGED <<last, state, ipcIp, DownLoadID, onDisk, m_DownloadID, spc>>
    BY <2>1 DEF table, files, globals, monitor
  <2> QED
    BY <2>1, <2>2, DownloadsKept, ConversionsKept DEF ConversionInv, Conversions
<1> QED
  BY <1>1, <1>2, <1>3, <1>4, <1>5, <1>6, <1>7 DEF Next

(***************************************************************************)
(* While requests come one by one, only the row inserted last may be       *)
(* downloading, waiting for its conversion or in it, and whoever works on  *)
(* it finds it by its handle.                                              *)
(***************************************************************************)
THEOREM ConversionInvariant ==
  ASSUME OneByOne, "slowThreads" \notin Env, "pingFails" \notin Env
  PROVE  Spec => []ConversionInv
<1>1. Init => ConversionInv
  BY ConversionInit
<1>2. PipelineInv /\ RequestInv /\ ConversionInv /\ [Next]_vars => ConversionInv'
  BY ConversionStep DEF Known
<1>3. Spec => []PipelineInv
  BY PipelineInvariant
<1>4. Spec => []RequestInv
  BY RequestInvariant DEF OneByOne
<1> QED
  BY <1>1, <1>2, <1>3, <1>4, PTL DEF Spec

(***************************************************************************)
(* No .dav file is given to a second conversion thread, whatever the SDK   *)
(* numbers its downloads by, also after conversions that failed and after  *)
(* restarts (the comment in DM_Convert).                                   *)
(***************************************************************************)
THEOREM ConvertsOnce ==
  ASSUME OneByOne, "slowThreads" \notin Env, "pingFails" \notin Env
  PROVE  Spec => []ConvertedOnce
<1>1. ConversionInv => ConvertedOnce
  BY DEF ConversionInv
<1>2. Spec => []ConversionInv
  BY ConversionInvariant
<1> QED
  BY <1>1, <1>2, PTL

(***************************************************************************)
(* As long as covertavitomp4 does its work, ConvertPackageFormat removes   *)
(* the .dav file of a finished download, and reports its row converted,    *)
(* only when the mp4 has the whole recording.                              *)
(***************************************************************************)
THEOREM RawFilesKept ==
  ASSUME OneByOne, "slowThreads" \notin Env, "pingFails" \notin Env,
         "mp4Fails" \notin Env
  PROVE  Spec => []RawKeptUntilConverted
<1>1. ConversionInv => RawKeptUntilConverted
  BY DEF ConversionInv, FilesInOrder
<1>2. Spec => []ConversionInv
  BY ConversionInvariant
<1> QED
  BY <1>1, <1>2, PTL

(***************************************************************************)
(* A row that DM_DownLoadByTime counts against the limit has a download    *)
(* that will end it or a request on its way to start or register one,      *)
(* when handles are stored before downloads end and the program is not     *)
(* killed.                                                                 *)
(***************************************************************************)
THEOREM CountsOnlyDownloads ==
  ASSUME OneByOne, "slowThreads" \notin Env, "pingFails" \notin Env,
         "earlyEnd" \notin Env, MaxRestart = 0
  PROVE  Spec => []CountIsDownloading
<1>1. Known => CountIsDownloading
  <2> SUFFICES ASSUME Known, NEW i \in Rows, state[i] = "begin"
               PROVE  \/ \E h \in live \ ended : target[h] = i
                      \/ \E r \in Requests :
                           id[r] = i /\ rpc[r] \in {"start", "publish", "format", "register", "test", "fail"}
    BY DEF CountIsDownloading, Downloading
  <2>1. i = last /\ last > 0
    <3>1. ~(i > last) /\ ~(i < last)
      BY PartsKnown DEF RowsInOrder, Taken
    <3> QED
      BY <3>1, RowsKnown
  <2>2. \/ \E r \in Requests : rpc[r] \in {"start", "publish", "format", "register", "test", "fail"}
        \/ m_DownloadID \in live \ ended
    BY <2>1, PartsKnown DEF CountInOrder
  <2>3. ASSUME NEW r \in Requests, rpc[r] \in {"start", "publish", "format", "register", "test", "fail"}
        PROVE  id[r] = i
    BY <2>1, <2>3, InFlight DEF HasRow, Free
  <2>4. m_DownloadID \in live \ ended => target[m_DownloadID] = i
    BY <2>1, PartsKnown DEF OneDownload
  <2> QED
    BY <2>2, <2>3, <2>4
<1>2. PipelineInv /\ RequestInv /\ ConversionInv => CountIsDownloading
  BY <1>1 DEF Known
<1>3. Spec => []PipelineInv
  BY PipelineInvariant
<1>4. Spec => []RequestInv
  BY RequestInvariant DEF OneByOne
<1>5. Spec => []ConversionInv
  BY ConversionInvariant
<1> QED
  BY <1>2, <1>3, <1>4, <1>5, PTL

(***************************************************************************)
(* While requests come one by one, DM_Convert stops a download and logs    *)
(* its user out only once the original file has been downloaded.  Without  *)
(* OneByOne it does not hold: EarlyStopsAreStale says which downloads are  *)
(* stopped then.                                                           *)
(***************************************************************************)
THEOREM StopsFinishedDownloads ==
  ASSUME OneByOne, "slowThreads" \notin Env, "pingFails" \notin Env
  PROVE  Spec => StopsOnlyFinished
<1>1. ASSUME Known, [Next]_vars
      PROVE  live \ live' \subseteq ended \/ restarts' # restarts
  <2>1. CASE Restart
    <3>1. restarts \in 0 .. MaxRestart /\ MaxRestart \in Nat
      BY <1>1, PipelineAssumption DEF Known, PipelineInv, TypeOK
    <3>2. restarts' = restarts + 1
      BY <2>1 DEF Restart
    <3> QED
      BY <3>1, <3>2
  <2>2. ASSUME NEW i \in Rows, NEW t \in Threads, StartThread(i, t)
        PROVE  live \subseteq ended
    <3>1. last \in ToConvert
      BY <1>1, <2>2, PartsKnown DEF StartThread, First, SelectedRows
    <3> QED
      BY <1>1, <3>1, PartsKnown DEF OneDownload, ToConvert
  <2>3. ASSUME NEW r \in Requests, CheckCount(r) \/ RequestStep(r)
        PROVE  live \subseteq live'
    BY <2>3 DEF RequestStep, CheckCount, Login, SetTimes, Compose, Insert, StartDownload,
                StartFails, Publish, Format, Register, Test, MarkFailed, Reply, sdk
  <2>4. ASSUME NEW h \in Handles, EndCallback(h)
        PROVE  live' = live
    BY <2>4 DEF EndCallback
  <2>5. ASSUME NEW t \in Threads, ConvertPackageFormat(t)
        PROVE  live' = live
    BY <2>5 DEF ConvertPackageFormat, Lock, OpenFails, MarkBegin, RecordFails, Play, MarkEnd,
                RemoveFiles, sdk
  <2>6. ASSUME Select \/ Poll \/ PingFails \/ DM_SetState \/ UNCHANGED vars
        PROVE  live' = live
    BY <2>6 DEF Select, Poll, PingFails, DM_SetState, FailRow, RemoveRaw, sdk, vars
  <2> QED
    BY <1>1, <2>1, <2>2, <2>3, <2>4, <2>5, <2>6 DEF Next, DM_Convert
<1>2. PipelineInv /\ RequestInv /\ ConversionInv /\ [Next]_vars
        => [live \ live' \subseteq ended \/ restarts' # restarts]_vars
  BY <1>1 DEF Known
<1>3. Spec => []PipelineInv
  BY PipelineInvariant
<1>4. Spec => []RequestInv
  BY RequestInvariant DEF OneByOne
<1>5. Spec => []ConversionInv
  BY ConversionInvariant
<1> QED
  BY <1>2, <1>3, <1>4, <1>5, PTL DEF Spec, StopsOnlyFinished

-----------------------------------------------------------------------------
(***************************************************************************)
(* The refinement.  A handle names the row of its own download, as long as *)
(* the SDK gives each download a new one.                                  *)
(***************************************************************************)
HandlesOwn == \A i \in Rows : state[i] = "end" => DownLoadID[i] \in Handles
                                                  /\ target[DownLoadID[i]] = i

NumberedDownloads == "handleReuse" \notin Env /\ MaxRestart = 0

LEMMA HandleUnused ==
  ASSUME Known, NumberedDownloads, NEW r \in Requests, NEW h \in Handles, StartDownload(r, h)
  PROVE  target[h] = 0
BY DEF StartDownload, NewHandle, First, NumberedDownloads

LEMMA NoRestart ==
  ASSUME Known, NumberedDownloads
  PROVE  ~Restart /\ ~PingFails /\ ~DM_SetState
<1>1. restarts \in 0 .. MaxRestart
  BY DEF Known, PipelineInv, TypeOK
<1>2. ~(restarts < MaxRestart)
  BY <1>1, PipelineAssumption DEF NumberedDownloads
<1> QED
  BY <1>2, PartsKnown DEF Known, Restart, PingFails, DM_SetState, FailRow, RemoveRaw

\* The steps that leave the columns state and ipcIp alone.
Quiet ==
  \/ \E r \in Requests :
       \/ CheckCount(r) \/ Login(r) \/ SetTimes(r) \/ Compose(r) \/ StartFails(r) \/ Publish(r)
       \/ Format(r) \/ Register(r) \/ Test(r) \/ Reply(r)
       \/ \E h \in Handles : StartDownload(r, h)
  \/ DM_Convert
  \/ \E t \in Threads : Lock(t) \/ RecordFails(t) \/ Play(t) \/ RemoveFiles(t)
  \/ UNCHANGED vars

\* The steps that change them, each in one row.
Changing ==
  \/ \E r \in Requests : Insert(r) \/ MarkFailed(r)
  \/ \E h \in Handles : EndCallback(h)
  \/ \E t \in Threads : OpenFails(t) \/ MarkBegin(t) \/ MarkEnd(t)

LEMMA QuietOrChanging ==
  ASSUME Known, NumberedDownloads, [Next]_vars
  PROVE  Quiet \/ Changing
BY NoRestart DEF Next, RequestStep, ConvertPackageFormat, Quiet, Changing

LEMMA QuietKeeps ==
  ASSUME Quiet
  PROVE  UNCHANGED <<state, ipcIp>>
BY DEF Quiet, CheckCount, Login, SetTimes, Compose, StartFails, Publish, Format, Register, Test,
       Reply, StartDownload, DM_Convert, Select, StartThread, Poll, Lock, RecordFails, Play,
       RemoveFiles, table, vars

LEMMA InsertChanges ==
  ASSUME Known, NEW r \in Requests, Insert(r)
  PROVE  /\ last + 1 \in Rows /\ state[last + 1] = "none"
         /\ state' = [state EXCEPT ![last + 1] = "begin"] /\ ipcIp' = ipcIp
<1>1. last + 1 \in Rows
  BY RowsKnown DEF Insert, Rows
<1>2. last + 1 > last
  BY RowsKnown
<1>3. state[last + 1] = "none"
  BY <1>1, <1>2, PartsKnown DEF RowsInOrder
<1> QED
  BY <1>1, <1>3 DEF Insert, SetById

LEMMA MarkFailedChanges ==
  ASSUME Known, NEW r \in Requests, MarkFailed(r)
  PROVE  /\ last \in Rows /\ state[last] = "begin"
         /\ state' = [state EXCEPT ![last] = "failed"] /\ ipcIp' = ipcIp
<1>1. rpc[r] = "fail" /\ HasRow(r) /\ ~Free(r)
  BY DEF MarkFailed, HasRow, Free
<1>2. id[r] = last /\ last \in Rows
  BY <1>1, InFlight
<1>3. state[last] = "begin"
  BY <1>1, PartsKnown DEF OwnDownload
<1> QED
  BY <1>2, <1>3 DEF MarkFailed, SetById

\* The callback finds no row but its own, or none yet.
LEMMA EndCallbackChanges ==
  ASSUME Known, NEW h \in Handles, EndCallback(h)
  PROVE  /\ last \in Rows /\ state[last] = "begin" /\ ipcIp[last] = " " /\ target[h] = last
         /\ ipcIp' = ipcIp
         /\ state' = IF DownLoadID[last] = h THEN [state EXCEPT ![last] = "end"] ELSE state
<1>1. h # 0 /\ target[h] = last /\ last > 0 /\ state[last] = "begin"
  BY RowsKnown, PartsKnown DEF EndCallback, OneDownload
<1>2. last \in Rows /\ last <= last
  BY <1>1, RowsKnown
<1>3. ipcIp[last] = " "
  BY <1>1, <1>2, PartsKnown DEF RowsInOrder
<1>4. ASSUME NEW i \in Rows, i # last, i <= last, DownLoadID[i] = h
      PROVE  state[i] = "end"
  <2>1. i < last
    BY <1>4, RowsKnown
  <2> QED
    BY <1>1, <1>4, <2>1, PartsKnown DEF RowsInOrder, Taken
<1>5. state' = [i \in Rows |-> IF i <= last /\ DownLoadID[i] = h THEN "end" ELSE state[i]]
  BY DEF EndCallback, SetByDownloadID
<1>6. state' = [i \in Rows |-> IF i = last /\ DownLoadID[last] = h THEN "end" ELSE state[i]]
  BY <1>2, <1>4, <1>5
<1>7. state' = IF DownLoadID[last] = h THEN [state EXCEPT ![last] = "end"] ELSE state
  BY <1>2, <1>6, TypesKnown
<1>8. ipcIp' = ipcIp
  BY DEF EndCallback
<1> QED
  BY <1>1, <1>2, <1>3, <1>7, <1>8

\* The first update of a conversion finds its own row alone.
LEMMA MarkChanges ==
  ASSUME Known, HandlesOwn, NEW t \in Threads, OpenFails(t) \/ MarkBegin(t)
  PROVE  /\ last \in Rows /\ state[last] = "end" /\ ipcIp[last] = " " /\ state' = state
         /\ \E value \in {"begin", "failed"} : ipcIp' = [ipcIp EXCEPT ![last] = value]
<1>1. tpc[t] = "open"
  BY DEF OpenFails, MarkBegin
<1>2. last \in ToConvert /\ tid[t] = DownLoadID[last]
  BY <1>1, PartsKnown DEF OwnRow
<1>3. last \in Rows /\ state[last] = "end" /\ ipcIp[last] = " "
  BY <1>2 DEF ToConvert
<1>4. PICK value \in {"begin", "failed"} : ipcIp' = SetByDownloadID(ipcIp, value, tid[t])
  BY DEF OpenFails, MarkBegin
<1>5. ASSUME NEW i \in Rows, i <= last, DownLoadID[i] = DownLoadID[last]
      PROVE  i = last
  <2>1. ASSUME i # last PROVE FALSE
    <3>1. i < last
      BY <1>5, <2>1, RowsKnown
    <3>2. DownLoadID[last] # 0 /\ state[i] = "end"
      BY <1>3, <1>5, <3>1, PartsKnown DEF RowsInOrder, Taken
    <3> QED
      BY <1>3, <1>5, <2>1, <3>2 DEF HandlesOwn
  <2> QED
    BY <2>1
<1>6. last <= last
  BY RowsKnown
<1>7. ipcIp' = [i \in Rows |-> IF i = last THEN value ELSE ipcIp[i]]
  BY <1>2, <1>3, <1>4, <1>5, <1>6 DEF SetByDownloadID
<1>8. ipcIp' = [ipcIp EXCEPT ![last] = value]
  BY <1>3, <1>7, TypesKnown
<1>9. state' = state
  BY DEF OpenFails, MarkBegin
<1> QED
  BY <1>3, <1>8, <1>9

LEMMA MarkEndChanges ==
  ASSUME Known, NEW t \in Threads, MarkEnd(t)
  PROVE  /\ last \in Rows /\ state[last] = "end" /\ ipcIp[last] = "begin" /\ state' = state
         /\ ipcIp' = [ipcIp EXCEPT ![last] = "end"]
<1>1. tpc[t] = "mark" /\ trow[t] = last /\ last \in Rows /\ state[last] = "end"
      /\ ipcIp[last] = "begin"
  BY Busy, RecordingBusy DEF MarkEnd
<1> QED
  BY <1>1 DEF MarkEnd, SetById

LEMMA HandlesKept ==
  ASSUME Known, NumberedDownloads, HandlesOwn, [Next]_vars
  PROVE  HandlesOwn'
<1>1. \A i \in Rows : i # 0
  BY RowsKnown
<1>2. ASSUME NEW r \in Requests, NEW h \in Handles, StartDownload(r, h)
      PROVE  HandlesOwn'
  <2>1. target[h] = 0 /\ UNCHANGED <<state, DownLoadID>>
    BY <1>2, HandleUnused DEF StartDownload, table
  <2>2. \A g \in Handles : g # h => target'[g] = target[g]
    BY <1>2, TypesKnown DEF StartDownload
  <2> QED
    BY <1>1, <2>1, <2>2 DEF HandlesOwn
<1>3. ASSUME NEW r \in Requests, Register(r)
      PROVE  HandlesOwn'
  <2>1. rpc[r] = "register" /\ HasRow(r) /\ ~Free(r)
    BY <1>3 DEF Register, HasRow, Free
  <2>2. id[r] = last /\ last \in Rows
    BY <2>1, InFlight
  <2>3. state[last] = "end" => temp[r] = DownLoadID[last]
    BY <2>1, PartsKnown DEF OwnDownload
  <2>4. DownLoadID' = [DownLoadID EXCEPT ![last] = temp[r]]
    BY <1>3, <2>2 DEF Register, SetById
  <2>5. \A i \in Rows : state[i] = "end" => DownLoadID'[i] = DownLoadID[i]
    BY <2>2, <2>3, <2>4, TypesKnown
  <2>6. UNCHANGED <<state, target>>
    BY <1>3 DEF Register, sdk
  <2> QED
    BY <2>5, <2>6 DEF HandlesOwn
<1>4. ASSUME NEW r \in Requests, Insert(r)
      PROVE  HandlesOwn'
  <2>1. last + 1 \in Rows /\ state' = [state EXCEPT ![last + 1] = "begin"]
    BY <1>4, InsertChanges
  <2>2. /\ DownLoadID' = [DownLoadID EXCEPT ![last + 1] = temp[r]]
        /\ target' = target
    BY <1>4 DEF Insert, SetById, sdk
  <2>3. \A i \in Rows : state'[i] = "end" => state[i] = "end" /\ DownLoadID'[i] = DownLoadID[i]
    BY <2>1, <2>2, TypesKnown
  <2> QED
    BY <2>2, <2>3 DEF HandlesOwn
<1>5. ASSUME NEW r \in Requests, MarkFailed(r)
      PROVE  HandlesOwn'
  <2>1. state' = [state EXCEPT ![last] = "failed"]
    BY <1>5, MarkFailedChanges
  <2>2. \A i \in Rows : state'[i] = "end" => state[i] = "end"
    BY <2>1, TypesKnown
  <2>3. UNCHANGED <<DownLoadID, target>>
    BY <1>5 DEF MarkFailed, sdk
  <2> QED
    BY <2>2, <2>3 DEF HandlesOwn
<1>6. ASSUME NEW h \in Handles, EndCallback(h)
      PROVE  HandlesOwn'
  <2>1. /\ last \in Rows /\ target[h] = last
        /\ state' = IF DownLoadID[last] = h THEN [state EXCEPT ![last] = "end"] ELSE state
    BY <1>6, EndCallbackChanges
  <2>2. UNCHANGED <<DownLoadID, target>>
    BY <1>6 DEF EndCallback
  <2>3. ASSUME NEW i \in Rows, state'[i] = "end"
        PROVE  state[i] = "end" \/ (i = last /\ DownLoadID[last] = h)
    BY <2>1, <2>3, TypesKnown
  <2>4. \A i \in Rows : state'[i] = "end" => DownLoadID[i] \in Handles /\ target[DownLoadID[i]] = i
    BY <1>6, <2>1, <2>3 DEF HandlesOwn
  <2> QED
    BY <2>2, <2>4 DEF HandlesOwn
<1>7. CASE UNCHANGED <<state, DownLoadID, target>>
  BY <1>7 DEF HandlesOwn
<1>8. ASSUME NEW r \in Requests,
             \/ CheckCount(r) \/ Login(r) \/ SetTimes(r) \/ Compose(r) \/ StartFails(r)
             \/ Publish(r) \/ Format(r) \/ Test(r) \/ Reply(r)
      PROVE  UNCHANGED <<state, DownLoadID, target>>
  BY <1>8 DEF CheckCount, Login, SetTimes, Compose, StartFails, Publish, Format, Test, Reply,
              table, sdk
<1>9. ASSUME \/ DM_Convert
             \/ \E t \in Threads : Lock(t) \/ RecordFails(t) \/ Play(t) \/ RemoveFiles(t)
             \/ UNCHANGED vars
      PROVE  UNCHANGED <<state, DownLoadID, target>>
  BY <1>9 DEF DM_Convert, Select, StartThread, Poll, Lock, RecordFails, Play, RemoveFiles,
              table, sdk, vars
<1>10. ASSUME NEW t \in Threads, OpenFails(t) \/ MarkBegin(t) \/ MarkEnd(t)
       PROVE  UNCHANGED <<state, DownLoadID, target>>
  BY <1>10 DEF OpenFails, MarkBegin, MarkEnd, sdk
<1>11. CASE Quiet
  BY <1>2, <1>3, <1>7, <1>8, <1>9, <1>11 DEF Quiet
<1>12. CASE Changing
  BY <1>4, <1>5, <1>6, <1>7, <1>10, <1>12 DEF Changing
<1> QED
  BY <1>11, <1>12, QuietOrChanging

LEMMA PhasesUnchanged ==
  ASSUME UNCHANGED <<state, ipcIp>>
  PROVE  UNCHANGED [i \in Rows |-> Phase(i)]
BY DEF Phase

\* A row whose columns change takes its phase from them, the others keep theirs.
LEMMA OnePhase ==
  ASSUME Known, NEW i \in Rows, NEW from, NEW to, Phase(i) = from, Phase(i)' = to,
         \A j \in Rows : j # i => state'[j] = state[j] /\ ipcIp'[j] = ipcIp[j]
  PROVE  Life!Advance(i, from, to)
<1>1. \A j \in Rows : j # i => Phase(j)' = Phase(j)
  BY DEF Phase
<1> QED
  BY <1>1 DEF Life!Advance

LEMMA LifeStep ==
  ASSUME Known, HandlesOwn, Changing
  PROVE  Life!Next \/ UNCHANGED [i \in Rows |-> Phase(i)]
<1>1. ASSUME NEW r \in Requests, Insert(r)
      PROVE  Life!Next
  <2>1. PICK i \in Rows : i = last + 1
    BY <1>1, InsertChanges
  <2>2. /\ state[i] = "none" /\ ipcIp[i] = " "
        /\ state' = [state EXCEPT ![i] = "begin"] /\ ipcIp' = ipcIp
    BY <1>1, <2>1, InsertChanges, PartsKnown DEF RowsInOrder
  <2>3. /\ state'[i] = "begin" /\ ipcIp'[i] = " "
        /\ \A j \in Rows : j # i => state'[j] = state[j] /\ ipcIp'[j] = ipcIp[j]
    BY <2>1, <2>2, TypesKnown
  <2>4. Phase(i) = "none"
    BY <2>2 DEF Phase
  <2>5. Phase(i)' = "downloading"
    BY <2>3 DEF Phase
  <2> QED
    BY <2>3, <2>4, <2>5, OnePhase DEF Life!Next, Life!Begin
<1>2. ASSUME NEW r \in Requests, MarkFailed(r)
      PROVE  Life!Next
  <2>1. PICK i \in Rows : i = last
    BY <1>2, MarkFailedChanges
  <2>2. /\ state[i] = "begin" /\ ipcIp[i] = " "
        /\ state' = [state EXCEPT ![i] = "failed"] /\ ipcIp' = ipcIp
    BY <1>2, <2>1, MarkFailedChanges, PartsKnown DEF RowsInOrder
  <2>3. /\ state'[i] = "failed" /\ ipcIp'[i] = " "
        /\ \A j \in Rows : j # i => state'[j] = state[j] /\ ipcIp'[j] = ipcIp[j]
    BY <2>1, <2>2, TypesKnown
  <2>4. Phase(i) = "downloading"
    BY <2>2 DEF Phase
  <2>5. Phase(i)' = "failed"
    BY <2>3 DEF Phase
  <2> QED
    BY <2>3, <2>4, <2>5, OnePhase DEF Life!Next, Life!Progress
<1>3. ASSUME NEW h \in Handles, EndCallback(h)
      PROVE  Life!Next \/ UNCHANGED [i \in Rows |-> Phase(i)]
  <2>1. /\ last \in Rows /\ state[last] = "begin" /\ ipcIp[last] = " " /\ ipcIp' = ipcIp
        /\ state' = IF DownLoadID[last] = h THEN [state EXCEPT ![last] = "end"] ELSE state
    BY <1>3, EndCallbackChanges
  <2>2. CASE DownLoadID[last] = h
    <3>1. /\ state'[last] = "end" /\ ipcIp'[last] = " "
          /\ \A j \in Rows : j # last => state'[j] = state[j] /\ ipcIp'[j] = ipcIp[j]
      BY <2>1, <2>2, TypesKnown
    <3>2. last' = last
      BY <1>3 DEF EndCallback
    <3>3. Phase(last) = "downloading"
      BY <2>1 DEF Phase
    <3>4. Phase(last)' = "stored"
      BY <3>1, <3>2 DEF Phase
    <3> QED
      BY <2>1, <3>1, <3>2, <3>3, <3>4, OnePhase DEF Life!Next, Life!Progress
  <2>3. CASE DownLoadID[last] # h
    BY <2>1, <2>3, PhasesUnchanged
  <2> QED
    BY <2>2, <2>3
<1>4. ASSUME NEW t \in Threads, OpenFails(t) \/ MarkBegin(t)
      PROVE  Life!Next
  <2>1. last \in Rows /\ state[last] = "end" /\ ipcIp[last] = " " /\ state' = state
    BY <1>4, MarkChanges
  <2>2. PICK value \in {"begin", "failed"} : ipcIp' = [ipcIp EXCEPT ![last] = value]
    BY <1>4, MarkChanges
  <2>3. /\ state'[last] = "end" /\ ipcIp'[last] = value
        /\ \A j \in Rows : j # last => state'[j] = state[j] /\ ipcIp'[j] = ipcIp[j]
    BY <2>1, <2>2, TypesKnown
  <2>4. last' = last
    BY <1>4 DEF OpenFails, MarkBegin
  <2>5. Phase(last) = "stored"
    BY <2>1 DEF Phase
  <2>6. Phase(last)' = IF value = "begin" THEN "converting" ELSE "failed"
    BY <2>3, <2>4 DEF Phase
  <2>7. Life!Advance(last, "stored", "converting") \/ Life!Advance(last, "stored", "failed")
    BY <2>1, <2>3, <2>4, <2>5, <2>6, OnePhase
  <2> QED
    BY <2>1, <2>7 DEF Life!Next, Life!Progress
<1>5. ASSUME NEW t \in Threads, MarkEnd(t)
      PROVE  Life!Next
  <2>1. /\ last \in Rows /\ state[last] = "end" /\ ipcIp[last] = "begin" /\ state' = state
        /\ ipcIp' = [ipcIp EXCEPT ![last] = "end"]
    BY <1>5, MarkEndChanges
  <2>2. /\ state'[last] = "end" /\ ipcIp'[last] = "end"
        /\ \A j \in Rows : j # last => state'[j] = state[j] /\ ipcIp'[j] = ipcIp[j]
    BY <2>1, TypesKnown
  <2>3. last' = last
    BY <1>5 DEF MarkEnd
  <2>4. Phase(last) = "converting"
    BY <2>1 DEF Phase
  <2>5. Phase(last)' = "converted"
    BY <2>2, <2>3 DEF Phase
  <2> QED
    BY <2>1, <2>2, <2>3, <2>4, <2>5, OnePhase DEF Life!Next, Life!Progress
<1> QED
  BY <1>1, <1>2, <1>3, <1>4, <1>5 DEF Changing

(***************************************************************************)
(* While requests come one by one and downloads are numbered, each         *)
(* recording lives a life of its own, though its row is updated by the     *)
(* handle of its download and by three kinds of threads: no update meant   *)
(* for one row changes another, and none is made twice.  This is the       *)
(* safety part of ImplementsRecording; downloads that overlap break it.    *)
(***************************************************************************)
THEOREM RecordingsImplemented ==
  ASSUME OneByOne, "slowThreads" \notin Env, "pingFails" \notin Env,
         NumberedDownloads
  PROVE  Spec => Life!SafeSpec
<1>1. Init => HandlesOwn
  BY DEF Init, HandlesOwn
<1>2. Init => Life!Init
  <2> SUFFICES ASSUME Init PROVE Life!Init
    OBVIOUS
  <2>1. \A i \in Rows : Phase(i) = "none"
    BY DEF Init, Phase
  <2> QED
    BY <2>1 DEF Life!Init
<1>3. PipelineInv /\ RequestInv /\ ConversionInv /\ HandlesOwn /\ [Next]_vars => HandlesOwn'
  BY HandlesKept DEF Known
<1>4. PipelineInv /\ RequestInv /\ ConversionInv /\ HandlesOwn /\ [Next]_vars
        => [Life!Next]_([i \in Rows |-> Phase(i)])
  BY LifeStep, QuietOrChanging, QuietKeeps, PhasesUnchanged DEF Known
<1>5. Spec => []PipelineInv
  BY PipelineInvariant
<1>6. Spec => []RequestInv
  BY RequestInvariant DEF OneByOne
<1>7. Spec => []ConversionInv
  BY ConversionInvariant
<1> QED
  BY <1>1, <1>2, <1>3, <1>4, <1>5, <1>6, <1>7, PTL DEF Spec, Life!SafeSpec

-----------------------------------------------------------------------------
(***************************************************************************)
(* Progress.  Rows that are settled stay so, DM_Convert never holds an     *)
(* empty selection, and a row under conversion has its thread.             *)
(***************************************************************************)
LEMMA SettledForGood ==
  ASSUME Known, HandlesOwn, Quiet \/ Changing, NEW i \in Rows, Settled(i)
  PROVE  Settled(i)'
<1>1. CASE Quiet
  BY <1>1, QuietKeeps DEF Settled
<1>2. ASSUME NEW r \in Requests, Insert(r)
      PROVE  Settled(i)'
  <2>1. /\ last + 1 \in Rows /\ state[last + 1] = "none" /\ ipcIp[last + 1] = " "
        /\ state' = [state EXCEPT ![last + 1] = "begin"] /\ ipcIp' = ipcIp
    BY <1>2, InsertChanges, PartsKnown DEF RowsInOrder
  <2> QED
    BY <2>1, TypesKnown DEF Settled
<1>3. ASSUME NEW r \in Requests, MarkFailed(r)
      PROVE  Settled(i)'
  <2>1. state' = [state EXCEPT ![last] = "failed"] /\ ipcIp' = ipcIp
    BY <1>3, MarkFailedChanges
  <2> QED
    BY <2>1, TypesKnown DEF Settled
<1>4. ASSUME NEW h \in Handles, EndCallback(h)
      PROVE  Settled(i)'
  <2>1. /\ state[last] = "begin" /\ ipcIp[last] = " " /\ ipcIp' = ipcIp
        /\ state' = IF DownLoadID[last] = h THEN [state EXCEPT ![last] = "end"] ELSE state
    BY <1>4, EndCallbackChanges
  <2> QED
    BY <2>1, TypesKnown DEF Settled
<1>5. ASSUME NEW t \in Threads, OpenFails(t) \/ MarkBegin(t)
      PROVE  Settled(i)'
  <2>1. /\ state[last] = "end" /\ ipcIp[last] = " " /\ state' = state
        /\ \E value \in {"begin", "failed"} : ipcIp' = [ipcIp EXCEPT ![last] = value]
    BY <1>5, MarkChanges
  <2> QED
    BY <2>1, TypesKnown DEF Settled
<1>6. ASSUME NEW t \in Threads, MarkEnd(t)
      PROVE  Settled(i)'
  <2>1. state' = state /\ ipcIp' = [ipcIp EXCEPT ![last] = "end"]
    BY <1>6, MarkEndChanges
  <2> QED
    BY <2>1, TypesKnown DEF Settled
<1> QED
  BY <1>1, <1>2, <1>3, <1>4, <1>5, <1>6 DEF Changing

LEMMA OlderRowsSettled ==
  ASSUME Known, HandlesOwn, Quiet \/ Changing, ProgressInv
  PROVE  \A i \in Rows : i < last' => Settled(i)'
<1>1. ASSUME NEW r \in Requests, Insert(r)
      PROVE  \A i \in Rows : i < last' => Settled(i)
  <2>1. Admitted # {} /\ last' = last + 1
    BY <1>1 DEF Insert, Admitted
  <2>2. \A i \in Rows : i < last + 1 => i \in 1 .. last
    BY RowsKnown DEF Rows
  <2> QED
    BY <2>1, <2>2, NothingUnsettled
<1>2. ASSUME ~\E r \in Requests : Insert(r)
      PROVE  \A i \in Rows : i < last' => Settled(i)
  <2>1. last' = last
    BY <1>2 DEF Quiet, Changing, CheckCount, Login, SetTimes, Compose, StartFails, Publish,
                Format,
                Register, Test, Reply, StartDownload, DM_Convert, Select, StartThread, Poll,
                Lock, RecordFails, Play, RemoveFiles, MarkFailed, EndCallback, OpenFails,
                MarkBegin, MarkEnd, table, vars
  <2> QED
    BY <2>1 DEF ProgressInv
<1> QED
  BY <1>1, <1>2, SettledForGood

LEMMA LastRowBegun ==
  ASSUME Known, HandlesOwn, Quiet \/ Changing, ProgressInv
  PROVE  last' > 0 => state'[last'] # "none"
<1>1. ASSUME NEW r \in Requests, Insert(r)
      PROVE  state'[last'] = "begin"
  <2>1. last + 1 \in Rows /\ state' = [state EXCEPT ![last + 1] = "begin"] /\ last' = last + 1
    BY <1>1, InsertChanges DEF Insert
  <2> QED
    BY <2>1, TypesKnown
<1>2. ASSUME NEW r \in Requests, MarkFailed(r)
      PROVE  last' > 0 => state'[last'] # "none"
  <2>1. last \in Rows /\ state' = [state EXCEPT ![last] = "failed"] /\ last' = last
    BY <1>2, MarkFailedChanges DEF MarkFailed
  <2> QED
    BY <2>1, TypesKnown
<1>3. ASSUME NEW h \in Handles, EndCallback(h)
      PROVE  last' > 0 => state'[last'] # "none"
  <2>1. /\ last \in Rows /\ state[last] = "begin" /\ last' = last
        /\ state' = IF DownLoadID[last] = h THEN [state EXCEPT ![last] = "end"] ELSE state
    BY <1>3, EndCallbackChanges DEF EndCallback
  <2> QED
    BY <2>1, TypesKnown
<1>4. CASE UNCHANGED <<last, state>>
  BY <1>4 DEF ProgressInv
<1>5. ASSUME Quiet \/ \E t \in Threads : OpenFails(t) \/ MarkBegin(t) \/ MarkEnd(t)
      PROVE  UNCHANGED <<last, state>>
  BY <1>5 DEF Quiet, CheckCount, Login, SetTimes, Compose, StartFails, Publish, Format,
              Register, Test,
              Reply, StartDownload, DM_Convert, Select, StartThread, Poll, Lock, RecordFails,
              Play, RemoveFiles, OpenFails, MarkBegin, MarkEnd, table, vars
<1> QED
  BY <1>1, <1>2, <1>3, <1>4, <1>5 DEF Changing

LEMMA SelectionKept ==
  ASSUME Known, Quiet \/ Changing, ProgressInv
  PROVE  dpc' = "next" => todo' # {}
<1>1. CASE DM_Convert
  BY <1>1 DEF DM_Convert, Select, StartThread, Poll
<1>2. CASE ~DM_Convert
  <2>1. UNCHANGED <<dpc, todo>>
    BY <1>2 DEF Quiet, Changing, CheckCount, Login, SetTimes, Compose, Insert, StartFails,
                Publish, Format, Register, Test, Reply, StartDownload, Lock, RecordFails, Play,
                RemoveFiles, MarkFailed, EndCallback, OpenFails, MarkBegin, MarkEnd, convert,
                vars
  <2> QED
    BY <2>1 DEF ProgressInv
<1> QED
  BY <1>1, <1>2

Recorder == \E t \in Threads : tpc[t] \in {"play", "mark"}

LEMMA RecorderKept ==
  ASSUME Known, HandlesOwn, Quiet \/ Changing, "recordFails" \notin Env, ProgressInv,
         (last \in Converting)'
  PROVE  Recorder'
<1>1. last' \in Rows /\ ipcIp'[last'] = "begin" /\ state'[last'] = "end"
  BY DEF Converting
<1>2. ASSUME NEW r \in Requests, Insert(r)
      PROVE  FALSE
  <2>1. last + 1 \in Rows /\ state' = [state EXCEPT ![last + 1] = "begin"] /\ last' = last + 1
    BY <1>2, InsertChanges DEF Insert
  <2> QED
    BY <1>1, <2>1, TypesKnown
<1>3. ASSUME NEW r \in Requests, MarkFailed(r)
      PROVE  FALSE
  <2>1. last \in Rows /\ state' = [state EXCEPT ![last] = "failed"] /\ last' = last
    BY <1>3, MarkFailedChanges DEF MarkFailed
  <2> QED
    BY <1>1, <2>1, TypesKnown
<1>4. ASSUME NEW h \in Handles, EndCallback(h)
      PROVE  FALSE
  <2>1. ipcIp[last] = " " /\ ipcIp' = ipcIp /\ last' = last
    BY <1>4, EndCallbackChanges DEF EndCallback
  <2> QED
    BY <1>1, <2>1
<1>5. ASSUME NEW t \in Threads, MarkEnd(t)
      PROVE  FALSE
  <2>1. last \in Rows /\ ipcIp' = [ipcIp EXCEPT ![last] = "end"] /\ last' = last
    BY <1>5, MarkEndChanges DEF MarkEnd
  <2> QED
    BY <1>1, <2>1, TypesKnown
<1>6. ASSUME NEW t \in Threads, OpenFails(t)
      PROVE  FALSE
  <2>1. tpc[t] = "open" /\ last' = last
    BY <1>6 DEF OpenFails
  <2>2. last \in Rows /\ tid[t] = DownLoadID[last]
    BY <2>1, PartsKnown DEF OwnRow, ToConvert
  <2>3. last <= last
    BY RowsKnown
  <2>4. ipcIp'[last] = "failed"
    BY <1>6, <2>2, <2>3 DEF OpenFails, SetByDownloadID
  <2> QED
    BY <1>1, <2>1, <2>4
<1>7. ASSUME NEW t \in Threads, MarkBegin(t) \/ Play(t)
      PROVE  Recorder'
  <2>1. tpc'[t] \in {"play", "mark"}
    BY <1>7, TypesKnown DEF MarkBegin, Play
  <2> QED
    BY <2>1 DEF Recorder
\* The other steps leave the row as it is, and its thread.
<1>8. ASSUME UNCHANGED <<last, state, ipcIp>>,
             \A t \in Threads : tpc[t] \in {"play", "mark"} => tpc'[t] = tpc[t]
      PROVE  Recorder'
  <2>1. last \in Converting
    BY <1>1, <1>8 DEF Converting
  <2>2. PICK t \in Threads : tpc[t] \in {"play", "mark"}
    BY <2>1 DEF ProgressInv
  <2> QED
    BY <1>8, <2>2 DEF Recorder
<1>9. ASSUME NEW r \in Requests,
             \/ CheckCount(r) \/ Login(r) \/ SetTimes(r) \/ Compose(r) \/ StartFails(r)
             \/ Publish(r) \/ Format(r) \/ Register(r) \/ Test(r) \/ Reply(r)
             \/ \E h \in Handles : StartDownload(r, h)
      PROVE  UNCHANGED <<last, state, ipcIp, tpc>>
  BY <1>9 DEF CheckCount, Login, SetTimes, Compose, StartFails, Publish, Format, Register,
              Test, Reply,
              StartDownload, table, threads
<1>10. CASE DM_Convert \/ UNCHANGED vars
  <2>1. UNCHANGED <<last, state, ipcIp>>
    BY <1>10 DEF DM_Convert, Select, StartThread, Poll, table, vars
  <2>2. CASE Select \/ Poll \/ UNCHANGED vars
    BY <1>8, <2>1, <2>2 DEF Select, Poll, threads, vars
  <2>3. ASSUME NEW i \in Rows, NEW t \in Threads, StartThread(i, t)
        PROVE  Recorder'
    <3>1. tpc[t] = "none" /\ tpc' = [tpc EXCEPT ![t] = "lock"]
      BY <2>3 DEF StartThread, First
    <3> QED
      BY <1>8, <2>1, <3>1, TypesKnown
  <2> QED
    BY <1>10, <2>2, <2>3 DEF DM_Convert
<1>11. ASSUME NEW t \in Threads, Lock(t) \/ RemoveFiles(t)
       PROVE  Recorder'
  <2>1. /\ tpc[t] \notin {"play", "mark"} /\ \A u \in Threads : u # t => tpc'[u] = tpc[u]
        /\ UNCHANGED <<last, state, ipcIp>>
    BY <1>11, TypesKnown DEF Lock, RemoveFiles, table
  <2> QED
    BY <1>8, <2>1
<1>12. \A t \in Threads : ~RecordFails(t)
  BY DEF RecordFails
<1>13. CASE Quiet
  BY <1>7, <1>8, <1>9, <1>10, <1>11, <1>12, <1>13 DEF Quiet
<1>14. CASE Changing
  BY <1>2, <1>3, <1>4, <1>5, <1>6, <1>7, <1>14 DEF Changing
<1> QED
  BY <1>13, <1>14

LEMMA ProgressKept ==
  ASSUME Known, NumberedDownloads, HandlesOwn, "recordFails" \notin Env, ProgressInv,
         [Next]_vars
  PROVE  ProgressInv'
<1>1. Quiet \/ Changing
  BY QuietOrChanging
<1> QED
  BY <1>1, OlderRowsSettled, LastRowBegun, SelectionKept, RecorderKept DEF ProgressInv,
                                                                           Recorder

(***************************************************************************)
(* Where the row inserted last is while it is not settled.                 *)
(***************************************************************************)
LEMMA LastDownloading ==
  ASSUME Known, "earlyEnd" \notin Env, MaxRestart = 0, last > 0, state[last] = "begin"
  PROVE  InRequest(last) \/ InDownload(last)
<1>1. ASSUME NEW r \in Requests, rpc[r] \in {"start", "publish", "format", "register", "test", "fail"}
      PROVE  id[r] = last
  BY <1>1, InFlight DEF HasRow, Free
<1>2. CASE \E r \in Requests : rpc[r] \in {"start", "publish", "format", "register"}
  BY <1>1, <1>2 DEF InRequest
<1>3. CASE m_DownloadID = 0 /\ \E r \in Requests : rpc[r] \in {"test", "fail"}
  BY <1>1, <1>3 DEF InRequest
<1>4. CASE /\ m_DownloadID \in live \ ended
           /\ \A r \in Requests : rpc[r] \notin {"start", "publish", "format", "register"}
  BY <1>4, PartsKnown DEF OneDownload, InDownload
<1> QED
  BY <1>2, <1>3, <1>4, PartsKnown DEF CountInOrder

LEMMA LastStored ==
  ASSUME Known, ProgressInv, last \in ToConvert
  PROVE  AwaitsThread(last) \/ InConversion(last)
<1>1. ipcIp[last] = " " /\ last \in Rows /\ last \notin Converting
  BY DEF ToConvert, Converting
<1>2. Converting = {}
  <2>1. \A i \in Rows : i < last => i \notin Converting
    BY PartsKnown DEF ProgressInv, Converting, Settled, RowsInOrder
  <2>2. \A i \in Rows : i > last => i \notin Converting
    BY PartsKnown DEF RowsInOrder, Converting
  <2>3. \A i \in Rows : i < last \/ i = last \/ i > last
    BY RowsKnown
  <2> QED
    BY <1>1, <2>1, <2>2, <2>3 DEF Converting
<1>3. \A t \in Threads : tpc[t] \notin {"play", "mark"}
  BY <1>1, PartsKnown DEF OwnRow
<1>4. CASE \E t \in Threads : tpc[t] \in {"lock", "open"}
  <2>1. PICK t \in Threads : tpc[t] \in {"lock", "open"}
    BY <1>4
  <2>2. trow[t] = last
    BY <2>1, PartsKnown DEF OwnRow
  <2>3. CASE m_mutex_coverting = 0
    BY <2>1, <2>2, <2>3 DEF InConversion
  <2>4. CASE m_mutex_coverting # 0
    <3>1. PICK u \in Threads : m_mutex_coverting = u
      <4>1. m_mutex_coverting \in 0 .. MaxThread /\ MaxThread \in Nat
        BY TypesKnown, PipelineAssumption
      <4>2. m_mutex_coverting \in Threads
        BY <2>4, <4>1 DEF Threads
      <4> QED
        BY <4>2
    <3>2. tpc[u] = "open"
      BY <1>1, <1>3, <3>1, PartsKnown DEF OwnRow
    <3>3. trow[u] = last
      BY <3>2, PartsKnown DEF OwnRow
    <3> QED
      BY <3>2, <3>3 DEF InConversion
  <2> QED
    BY <2>3, <2>4
<1>5. CASE \A t \in Threads : tpc[t] \notin {"lock", "open"}
  <2>1. \A t \in Threads : tpc[t] \in {"none", "remove", "done"}
    BY <1>3, <1>5, TypesKnown
  <2>2. \A t \in Threads : tpc[t] # "none" => trow[t] # last
    BY <1>1, <2>1, PartsKnown DEF OwnRow
  <2>3. dpc = "next" => last \in todo
    BY PartsKnown DEF ProgressInv, SelectedRows
  <2>4. dpc \in {"select", "next", "poll"}
    BY TypesKnown
  <2> QED
    BY <1>2, <1>5, <2>2, <2>3, <2>4 DEF AwaitsThread
<1> QED
  BY <1>4, <1>5

LEMMA LastConverting ==
  ASSUME Known, ProgressInv, last \in Converting
  PROVE  InConversion(last)
<1>1. PICK t \in Threads : tpc[t] \in {"play", "mark"}
  BY DEF ProgressInv
<1>2. trow[t] = last
  BY <1>1, PartsKnown DEF OwnRow
<1> QED
  BY <1>1, <1>2 DEF InConversion

(***************************************************************************)
(* No recording is left behind and nobody waits in vain: while requests    *)
(* come one at a time and nothing but the login, the start of a download   *)
(* or covertavitomp4 fails, an unsettled recording has a request, a        *)
(* download, DM_Convert or a thread that can take its next step.  It is    *)
(* the safety core of EveryRecordingSettles.                               *)
(***************************************************************************)
THEOREM NobodyWaitsInVain ==
  ASSUME OneByOne, "slowThreads" \notin Env, "pingFails" \notin Env,
         "earlyEnd" \notin Env, "recordFails" \notin Env, NumberedDownloads
  PROVE  Spec => []NobodyStuck
<1>1. Init => HandlesOwn
  BY DEF Init, HandlesOwn
<1>2. Init => ProgressInv
  <2> SUFFICES ASSUME Init PROVE ProgressInv
    OBVIOUS
  <2>1. last = 0
    BY DEF Init
  <2>2. ~(last > 0) /\ \A i \in Rows : ~(i < last)
    BY <2>1, PipelineAssumption DEF Rows
  <2>3. Converting = {} /\ dpc = "select"
    BY DEF Init, Converting
  <2> QED
    BY <2>2, <2>3 DEF ProgressInv
<1>3. PipelineInv /\ RequestInv /\ ConversionInv /\ HandlesOwn /\ [Next]_vars => HandlesOwn'
  BY HandlesKept DEF Known
<1>4. PipelineInv /\ RequestInv /\ ConversionInv /\ HandlesOwn /\ ProgressInv /\ [Next]_vars
        => ProgressInv'
  BY ProgressKept DEF Known
<1>5. PipelineInv /\ RequestInv /\ ConversionInv /\ ProgressInv => NobodyStuck
  <2> SUFFICES ASSUME Known, ProgressInv, NEW i \in 1 .. last, ~Settled(i)
               PROVE  InRequest(i) \/ InDownload(i) \/ AwaitsThread(i) \/ InConversion(i)
    BY DEF Known, NobodyStuck
  <2>1. i = last /\ last \in Rows /\ last > 0
    <3>1. i \in Rows /\ i <= last
      BY RowsKnown
    <3>2. ~(i < last)
      BY <3>1 DEF ProgressInv
    <3> QED
      BY <3>1, <3>2, RowsKnown
  <2>2. state[last] \in {"begin", "end"}
    <3>1. state[last] # "none"
      BY <2>1 DEF ProgressInv
    <3> QED
      BY <2>1, <3>1, TypesKnown DEF Settled
  <2>3. ipcIp[last] \in {" ", "begin"}
    BY <2>1, TypesKnown DEF Settled
  <2>4. CASE state[last] = "begin"
    BY <2>1, <2>4, LastDownloading DEF NumberedDownloads
  <2>5. CASE state[last] = "end"
    BY <2>1, <2>3, <2>5, LastStored, LastConverting DEF ToConvert, Converting
  <2> QED
    BY <2>2, <2>4, <2>5
<1>6. Spec => []PipelineInv
  BY PipelineInvariant
<1>7. Spec => []RequestInv
  BY RequestInvariant DEF OneByOne
<1>8. Spec => []ConversionInv
  BY ConversionInvariant
<1> QED
  BY <1>1, <1>2, <1>3, <1>4, <1>5, <1>6, <1>7, <1>8, PTL DEF Spec

=============================================================================
