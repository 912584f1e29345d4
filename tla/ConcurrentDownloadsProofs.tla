---------------------- MODULE ConcurrentDownloadsProofs ----------------------
(***************************************************************************)
(* Proofs about ConcurrentDownloads: how far requests and recordings that  *)
(* are under way together can confuse each other, for every Env.           *)
(***************************************************************************)
EXTENDS ConcurrentDownloads, DownloadPipelineProofs

(***************************************************************************)
(* A row belongs to the request that inserted it, downloads fill rows that *)
(* exist, and a request is alone as long as the others are free.           *)
(***************************************************************************)
RowsOwned ==
  /\ \A r \in Requests : HasRow(r) => owner[id[r]] = r
  /\ \A h \in live : target[h] \in 1 .. last

AloneInv ==
  /\ RowsOwned
  /\ alone \subseteq Requests
  /\ \A r \in alone : Free(r) \/ \A q \in Requests : q = r \/ Free(q)
  /\ UndisturbedRequest

(***************************************************************************)
(* When the SDK numbers its downloads and the program is not restarted, a  *)
(* handle found anywhere is that of a download that was started.           *)
(***************************************************************************)
Numbered == "handleReuse" \notin Env /\ MaxRestart = 0

Given(h) == h = 0 \/ (h \in Handles /\ target[h] # 0)

HandlesGiven ==
  /\ Given(m_DownloadID) /\ Given(m_downloadID)
  /\ \A r \in Requests : Given(temp[r])
  /\ \A i \in Rows : Given(DownLoadID[i])
  /\ \A h \in live \cup ended : target[h] # 0
  /\ \A g, h \in Handles : g < h /\ target[h] # 0 => target[g] # 0

(***************************************************************************)
(* The rows whose requests had ended before a request came carry none of   *)
(* the handles that the globals hold once it has started its download.     *)
(***************************************************************************)
Started(r) == rpc[r] \in {"publish", "format", "register", "test", "fail", "reply"}

Published(r) == rpc[r] \in {"format", "register", "test", "fail", "reply"}

Elsewhere(h, r) == h = 0 \/ \A i \in before[r] : DownLoadID[i] # h

BeforeInv ==
  /\ \A r \in Requests :
       /\ before[r] \subseteq 1 .. last
       /\ \A q \in Requests : id[q] \in before[r] => Free(q)
       /\ Started(r) => Elsewhere(m_DownloadID, r)
       /\ Published(r) => Elsewhere(m_downloadID, r)
  /\ NoStaleReply

(***************************************************************************)
(* A row found in state 'end' carries the handle of a download that has    *)
(* ended, unless it was inserted with the handle of one in progress.       *)
(***************************************************************************)
Unregistered(r) == rpc[r] \in {"start", "publish", "format", "register"}

StaleInv ==
  /\ \A i \in Rows \ stale : state[i] = "end" => DownLoadID[i] \in ended
  /\ \A i \in todo \ stale : seenId[i] \in ended
  /\ \A r \in Requests :
       Unregistered(r) /\ id[r] \notin stale =>
         state[id[r]] # "end" /\ DownLoadID[id[r]] \notin live \ ended

-----------------------------------------------------------------------------
\* What PipelineInv says of the variables the proofs below touch.
LEMMA Types ==
  ASSUME PipelineInv
  PROVE  /\ rpc   \in [Requests -> {"idle", "login", "times", "compose", "insert", "start",
                                    "publish", "format", "register", "test", "fail", "reply",
                                    "replied"}]
         /\ id    \in [Requests -> 0 .. MaxRow]
         /\ temp  \in [Requests -> 0 .. MaxHandle]
         /\ reply \in [Requests -> 0 .. MaxRow]
         /\ state \in [Rows -> {"none", "begin", "end", "failed"}]
         /\ DownLoadID \in [Rows -> 0 .. MaxHandle]
         /\ owner \in [Rows -> Requests \cup {Nobody}]
         /\ target \in [Handles -> 0 .. MaxRow]
         /\ range \in [Handles -> Requests \cup {Nobody}]
         /\ live \subseteq Handles /\ ended \subseteq Handles
         /\ todo \subseteq Rows
BY DEF PipelineInv, TypeOK

\* Rows and handles are numbers from 1 on, and requests past their insert
\* have a row.
LEMMA RowNumbers ==
  ASSUME PipelineInv
  PROVE  /\ last \in Nat /\ MaxRow \in Nat /\ last <= MaxRow
         /\ \A r \in Requests : HasRow(r) => id[r] \in 1 .. last
         /\ \A i \in 1 .. last : i \in Rows
         /\ 0 \notin Rows /\ 0 \notin Handles
<1>1. last \in 0 .. MaxRow /\ MaxRow \in Nat
  BY PipelineAssumption DEF PipelineInv, TypeOK
<1>2. /\ last \in Nat /\ MaxRow \in Nat /\ last <= MaxRow
      /\ \A i \in 1 .. last : i \in Rows
      /\ 0 \notin Rows /\ 0 \notin Handles
  BY <1>1 DEF Rows, Handles
<1> QED
  BY <1>2 DEF PipelineInv

\* Only requests start downloads.
LEMMA OthersStartNothing ==
  ASSUME \/ \E h \in Handles : EndCallback(h)
         \/ DM_Convert
         \/ \E t \in Threads : ConvertPackageFormat(t)
         \/ PingFails
         \/ DM_SetState
         \/ UNCHANGED vars
  PROVE  live' \subseteq live
BY DEF EndCallback, DM_Convert, Select, Poll, StartThread, ConvertPackageFormat, Lock,
       OpenFails, MarkBegin, RecordFails, Play, MarkEnd, RemoveFiles, PingFails, DM_SetState,
       FailRow, RemoveRaw, vars, sdk

\* The control point and the locals of a request are its own.
LEMMA LocalsOwn ==
  ASSUME PipelineInv, NEW q \in Requests, CheckCount(q) \/ RequestStep(q),
         NEW r \in Requests, r # q
  PROVE  rpc'[r] = rpc[r] /\ id'[r] = id[r] /\ temp'[r] = temp[r] /\ reply'[r] = reply[r]
<1>1. CASE CheckCount(q)
  BY <1>1, Types DEF CheckCount, Goto
<1>2. CASE Login(q) \/ SetTimes(q) \/ Compose(q) \/ Insert(q)
  BY <1>2, Types DEF Login, SetTimes, Compose, Insert, Goto
<1>3. ASSUME NEW h \in Handles, StartDownload(q, h)
      PROVE  rpc'[r] = rpc[r] /\ id'[r] = id[r] /\ temp'[r] = temp[r] /\ reply'[r] = reply[r]
  BY <1>3, Types DEF StartDownload, Goto
<1>4. CASE StartFails(q) \/ Publish(q) \/ Format(q) \/ Register(q)
  BY <1>4, Types DEF StartFails, Publish, Format, Register, Goto
<1>5. CASE Test(q) \/ MarkFailed(q) \/ Reply(q)
  BY <1>5, Types DEF Test, MarkFailed, Reply, Goto
<1> QED
  BY <1>1, <1>2, <1>3, <1>4, <1>5 DEF RequestStep

\* Rows keep their owner, and a download is started for a row of its request.
LEMMA RowsOwnedKept ==
  ASSUME PipelineInv, RowsOwned, [Next]_vars
  PROVE  RowsOwned'
<1>1. /\ \A r \in Requests : HasRow(r) => owner[id[r]] = r
      /\ \A h \in live : target[h] \in 1 .. last
  BY DEF RowsOwned
<1>2. ASSUME NEW q \in Requests, CheckCount(q) \/ Login(q) \/ SetTimes(q) \/ Compose(q)
      PROVE  RowsOwned'
  BY <1>1, <1>2, Types
  DEF CheckCount, Login, SetTimes, Compose, Goto, RowsOwned, HasRow, table, sdk
<1>3. ASSUME NEW q \in Requests, Insert(q)
      PROVE  RowsOwned'
  <2>1. /\ last' = last + 1 /\ last + 1 \in Rows /\ last' \in Nat
        /\ owner' = [owner EXCEPT ![last + 1] = q]
        /\ id' = [id EXCEPT ![q] = last + 1]
    BY <1>3, RowNumbers DEF Insert, SetById, Rows
  <2>2. \A r \in Requests : HasRow(r)' => owner'[id'[r]] = r
    <3>1. ASSUME NEW r \in Requests, r # q, HasRow(r)'
          PROVE  owner'[id'[r]] = r
      <4>1. HasRow(r) /\ id'[r] = id[r]
        BY <1>3, <3>1, LocalsOwn DEF RequestStep, HasRow
      <4>2. id[r] \in 1 .. last /\ owner[id[r]] = r
        BY <1>1, <4>1, RowNumbers
      <4> QED
        BY <2>1, <4>1, <4>2, Types, RowNumbers
    <3>2. owner'[id'[q]] = q
      BY <2>1, Types
    <3> QED
      BY <3>1, <3>2
  <2>3. \A h \in live' : target'[h] \in 1 .. last'
    BY <1>1, <1>3, <2>1, RowNumbers DEF Insert, sdk
  <2> QED
    BY <2>2, <2>3 DEF RowsOwned
<1>4. ASSUME NEW q \in Requests, NEW h \in Handles, StartDownload(q, h)
      PROVE  RowsOwned'
  <2>1. id[q] \in 1 .. last /\ HasRow(q)
    BY <1>4, RowNumbers DEF StartDownload, HasRow
  <2> QED
    BY <1>1, <1>4, <2>1, Types DEF StartDownload, Goto, RowsOwned, HasRow, table
<1>5. ASSUME NEW q \in Requests, StartFails(q) \/ Publish(q) \/ Format(q) \/ Register(q)
      PROVE  RowsOwned'
  BY <1>1, <1>5, Types
  DEF StartFails, Publish, Format, Register, Goto, RowsOwned, HasRow, table, sdk
<1>6. ASSUME NEW q \in Requests, Test(q) \/ MarkFailed(q) \/ Reply(q)
      PROVE  RowsOwned'
  BY <1>1, <1>6, Types DEF Test, MarkFailed, Reply, Goto, RowsOwned, HasRow, table, sdk
<1>7. CASE Restart
  BY <1>7 DEF Restart, RowsOwned, HasRow
<1>8. ASSUME UNCHANGED <<requests, last, owner, DownLoadID, globals, target, range>>,
             live' \subseteq live
      PROVE  RowsOwned'
  BY <1>1, <1>8 DEF RowsOwned, HasRow, requests
<1> QED
  BY <1>2, <1>3, <1>4, <1>5, <1>6, <1>7, <1>8, OthersKeepRequests, OthersStartNothing
  DEF Next, RequestStep

-----------------------------------------------------------------------------
\* A request is admitted by its own count.
LEMMA Admitting ==
  ASSUME PipelineInv, [Next]_vars, NEW r \in Requests, Admits(r)
  PROVE  CheckCount(r)
<1>1. Free(r) /\ ~Free(r)'
  BY DEF Admits
<1>2. ~RequestStep(r)
  BY <1>1 DEF Free, RequestStep, Login, SetTimes, Compose, Insert, StartDownload, StartFails,
              Publish, Format, Register, Test, MarkFailed, Reply
<1>3. \A q \in Requests \ {r} : ~CheckCount(q) /\ ~RequestStep(q)
  BY <1>1, LocalsOwn DEF Free
<1>4. ~Restart
  BY <1>1 DEF Restart, Free
<1>5. ~UNCHANGED requests
  BY <1>1 DEF Free, requests
<1> QED
  BY <1>2, <1>3, <1>4, <1>5, OthersKeepRequests DEF Next

Served(r) == OwnGlobals(r) /\ OwnDownloads(r) /\ OwnReply(r)

\* A request that is alone, or has ended, stays served whatever is done next.
LEMMA ServedKept ==
  ASSUME PipelineInv, RowsOwned, [Next]_vars,
         NEW r \in Requests, Served(r), Free(r) \/ \A q \in Requests : q = r \/ Free(q)
  PROVE  Served(r)'
<1>1. /\ OwnGlobals(r)
      /\ HasRow(r) => \A h \in live : target[h] = id[r] => range[h] = r
      /\ rpc[r] = "replied" => reply[r] = id[r]
  BY DEF Served, OwnDownloads, OwnReply
<1>2. CASE CheckCount(r)
  BY <1>2, Types DEF CheckCount, Goto, Served, OwnGlobals, OwnDownloads, OwnReply, HasRow, Free
<1>3. CASE Login(r) \/ SetTimes(r) \/ Compose(r)
  BY <1>1, <1>3, Types
  DEF Login, SetTimes, Compose, Goto, Served, OwnGlobals, OwnDownloads, OwnReply, HasRow, Free,
      globals
<1>4. CASE Insert(r)
  <2>1. /\ last' = last + 1 /\ last + 1 \in Rows /\ id'[r] = last + 1 /\ owner'[last + 1] = r
        /\ rpc'[r] = "start" /\ rpc[r] = "insert" /\ UNCHANGED <<globals, sdk>>
    BY <1>4, Types, RowNumbers DEF Insert, SetById, Goto, Rows
  <2>2. \A h \in live : target[h] # last + 1
    BY RowNumbers DEF RowsOwned
  <2> QED
    BY <1>1, <2>1, <2>2
    DEF Served, OwnGlobals, OwnDownloads, OwnReply, HasRow, Free, globals, sdk
<1>5. ASSUME NEW h \in Handles, StartDownload(r, h)
      PROVE  Served(r)'
  BY <1>1, <1>5, Types
  DEF StartDownload, Goto, Served, OwnGlobals, OwnDownloads, OwnReply, HasRow, Free, table
<1>6. CASE StartFails(r) \/ Publish(r) \/ Format(r)
  <2>1. CASE StartFails(r)
    BY <1>1, <2>1, Types
    DEF StartFails, Goto, Served, OwnGlobals, OwnDownloads, OwnReply, HasRow, Free, table, sdk
  <2>2. CASE Publish(r)
    BY <1>1, <2>2, Types
    DEF Publish, Goto, Served, OwnGlobals, OwnDownloads, OwnReply, HasRow, Free, table, sdk
  <2>3. CASE Format(r)
    BY <1>1, <2>3, Types
    DEF Format, Goto, Served, OwnGlobals, OwnDownloads, OwnReply, HasRow, Free, table, globals,
        sdk
  <2> QED
    BY <1>6, <2>1, <2>2, <2>3
<1>7. CASE Register(r)
  <2>1. id[r] \in Rows
    BY <1>7, RowNumbers DEF Register, HasRow
  <2> QED
    BY <1>1, <1>7, <2>1, Types
    DEF Register, SetById, Goto, Served, OwnGlobals, OwnDownloads, OwnReply, HasRow, Free,
        globals, sdk
<1>8. CASE Test(r) \/ MarkFailed(r)
  BY <1>1, <1>8, Types
  DEF Test, MarkFailed, Goto, Served, OwnGlobals, OwnDownloads, OwnReply, HasRow, Free, table,
      globals, sdk
<1>9. CASE Reply(r)
  <2>1. id[r] = last /\ id[r] \in 1 .. last /\ DownLoadID[last] = m_downloadID
    BY <1>1, <1>9, RowNumbers DEF Reply, OwnGlobals, HasRow, Free
  <2>2. PICK i \in {j \in 1 .. last : DownLoadID[j] = m_downloadID} \cup {0} :
          /\ \A j \in {k \in 1 .. last : DownLoadID[k] = m_downloadID} : j <= i
          /\ reply' = [reply EXCEPT ![r] = i]
    BY <1>9 DEF Reply
  <2>3. i = last
    BY <2>1, <2>2, RowNumbers
  <2> QED
    BY <1>1, <1>9, <2>1, <2>2, <2>3, Types
    DEF Reply, Goto, Served, OwnGlobals, OwnDownloads, OwnReply, HasRow, Free, sdk
<1>10. ASSUME NEW q \in Requests \ {r}, CheckCount(q)
       PROVE  Served(r)'
  <2>1. UNCHANGED <<table, globals, sdk>>
    BY <1>10 DEF CheckCount
  <2> QED
    BY <1>1, <1>10, <2>1, LocalsOwn
    DEF Served, OwnGlobals, OwnDownloads, OwnReply, HasRow, Free, table, globals, sdk
<1>11. ASSUME NEW q \in Requests \ {r}, RequestStep(q)
       PROVE  Served(r)'
  <2>1. ~Free(q)
    BY <1>11 DEF Free, RequestStep, Login, SetTimes, Compose, Insert, StartDownload, StartFails,
                 Publish, Format, Register, Test, MarkFailed, Reply
  <2>2. /\ Free(r)
        /\ rpc'[r] = rpc[r] /\ id'[r] = id[r] /\ temp'[r] = temp[r] /\ reply'[r] = reply[r]
    BY <1>11, <2>1, LocalsOwn
  <2>3. HasRow(r) => \A h \in live' : target'[h] = id[r] => range'[h] = r
    <3>1. CASE UNCHANGED sdk
      BY <1>1, <3>1 DEF sdk
    <3>2. ASSUME NEW h \in Handles, StartDownload(q, h), HasRow(r)
          PROVE  \A g \in live' : target'[g] = id[r] => range'[g] = r
      <4>1. id[q] # id[r]
        BY <3>2 DEF StartDownload, HasRow, RowsOwned
      <4> QED
        BY <1>1, <3>2, <4>1, Types DEF StartDownload
    <3> QED
      BY <1>11, <3>1, <3>2
      DEF RequestStep, Login, SetTimes, Compose, Insert, StartFails, Publish, Format, Register,
          Test, MarkFailed, Reply
  <2> QED
    BY <1>1, <2>2, <2>3 DEF Served, OwnGlobals, OwnDownloads, OwnReply, HasRow, Free
<1>12. CASE Restart
  BY <1>12 DEF Restart, Served, OwnGlobals, OwnDownloads, OwnReply, HasRow, Free
<1>13. ASSUME UNCHANGED <<requests, last, owner, DownLoadID, globals, target, range>>,
              live' \subseteq live
       PROVE  Served(r)'
  BY <1>1, <1>13
  DEF Served, OwnGlobals, OwnDownloads, OwnReply, HasRow, Free, requests, globals
<1> QED
  BY <1>2, <1>3, <1>4, <1>5, <1>6, <1>7, <1>8, <1>9, <1>10, <1>11, <1>12, <1>13,
     OthersKeepRequests, OthersStartNothing
  DEF Next, RequestStep

\* The step of the induction: a request joins alone when it is admitted and
\* stays while it is, or has ended.
LEMMA AloneKept ==
  ASSUME PipelineInv, AloneInv, [CNext]_cvars
  PROVE  AloneInv'
<1>1. CASE UNCHANGED cvars
  BY <1>1
  DEF cvars, vars, AloneInv, RowsOwned, UndisturbedRequest, OwnGlobals, OwnDownloads, OwnReply,
      HasRow, Free, table, globals, requests, sdk
<1>2. CASE CNext
  <2>1. [Next]_vars
    BY <1>2 DEF CNext
  <2>2. RowsOwned'
    BY <2>1, RowsOwnedKept DEF AloneInv
  <2>3. alone' = {r \in Requests :
                    /\ r \in alone \/ Admits(r)
                    /\ Free(r)' \/ \A q \in Requests : q = r \/ Free(q)'}
    BY <1>2 DEF CNext, Remember
  <2>4. ASSUME NEW r \in alone'
        PROVE  Served(r)'
    <3>1. CASE r \in alone
      BY <2>1, <3>1, ServedKept DEF AloneInv, UndisturbedRequest, Served
    <3>2. CASE Admits(r)
      <4>1. r \in Requests /\ CheckCount(r)
        BY <2>1, <2>3, <3>2, Admitting
      <4> QED
        BY <4>1, Types
        DEF CheckCount, Goto, Served, OwnGlobals, OwnDownloads, OwnReply, HasRow, Free
    <3> QED
      BY <2>3, <3>1, <3>2
  <2>5. UndisturbedRequest'
    BY <2>4 DEF Served, UndisturbedRequest
  <2>6. \A r \in alone' : Free(r)' \/ \A q \in Requests : q = r \/ Free(q)'
    BY <2>3
  <2>7. alone' \subseteq Requests
    BY <2>3
  <2> QED
    BY <2>2, <2>5, <2>6, <2>7 DEF AloneInv, Free
<1> QED
  BY <1>1, <1>2

\* The history variables restrict nothing.
LEMMA SameProgram == CSpec => Spec
<1>1. CInit => Init
  BY DEF CInit
<1>2. [CNext]_cvars => [Next]_vars
  BY DEF CNext, cvars
<1> QED
  BY <1>1, <1>2, PTL DEF CSpec, Spec

(***************************************************************************)
(* Whatever the environment does, a request that no other joins on its way *)
(* goes through the shared globals undisturbed: its download records its   *)
(* own time range and its reply names its own row.                         *)
(***************************************************************************)
THEOREM RequestsUndisturbed == CSpec => []UndisturbedRequest
<1>1. CInit => AloneInv
  BY DEF CInit, Init, AloneInv, RowsOwned, UndisturbedRequest, HasRow
<1>2. PipelineInv /\ AloneInv /\ [CNext]_cvars => AloneInv'
  BY AloneKept
<1>3. CSpec => []PipelineInv
  BY SameProgram, PipelineInvariant
<1>4. AloneInv => UndisturbedRequest
  BY DEF AloneInv
<1> QED
  BY <1>1, <1>2, <1>3, <1>4, PTL DEF CSpec

-----------------------------------------------------------------------------
\* With MaxRestart = 0 the program is never restarted.
LEMMA NoRestart ==
  ASSUME Numbered, PipelineInv
  PROVE  ~Restart
<1>1. restarts \in 0 .. 0
  BY DEF Numbered, PipelineInv, TypeOK
<1> QED
  BY <1>1 DEF Numbered, Restart

\* A new handle was never given out before.
LEMMA NewHandleUnused ==
  ASSUME Numbered, PipelineInv, HandlesGiven,
         NEW q \in Requests, NEW h \in Handles, StartDownload(q, h)
  PROVE  /\ target[h] = 0 /\ \A g \in Handles : g < h => target[g] # 0
         /\ h # 0 /\ id[q] # 0
         /\ \A i \in Rows : DownLoadID[i] # h
         /\ h \notin live /\ h \notin ended
<1>1. target[h] = 0 /\ \A g \in Handles : target[g] = 0 => h <= g
  BY DEF StartDownload, NewHandle, Numbered, First
<1>2. \A g \in Handles : g < h => target[g] # 0
  BY <1>1, RowNumbers DEF Handles
<1>3. h # 0 /\ id[q] # 0
  BY RowNumbers DEF StartDownload, HasRow
<1>4. \A i \in Rows : DownLoadID[i] # h
  BY <1>1, <1>3 DEF HandlesGiven, Given
<1>5. h \notin live /\ h \notin ended
  BY <1>1 DEF HandlesGiven
<1> QED
  BY <1>1, <1>2, <1>3, <1>4, <1>5

\* No handle has been given out at first.
LEMMA HandlesGivenInit == CInit => HandlesGiven
<1> SUFFICES ASSUME CInit PROVE HandlesGiven
  OBVIOUS
<1>1. Given(m_DownloadID) /\ Given(m_downloadID)
  BY DEF CInit, Init, Given
<1>2. (\A r \in Requests : Given(temp[r])) /\ \A i \in Rows : Given(DownLoadID[i])
  BY DEF CInit, Init, Given
<1>3. live \cup ended = {} /\ \A h \in Handles : target[h] = 0
  BY DEF CInit, Init
<1> QED
  BY <1>1, <1>2, <1>3 DEF HandlesGiven

\* Handles travel from the SDK to the globals, the locals and the rows.
LEMMA HandlesGivenKept ==
  ASSUME Numbered, PipelineInv, HandlesGiven, [Next]_vars
  PROVE  HandlesGiven'
<1>1. /\ Given(m_DownloadID) /\ Given(m_downloadID)
      /\ \A r \in Requests : Given(temp[r])
      /\ \A i \in Rows : Given(DownLoadID[i])
      /\ \A h \in live \cup ended : target[h] # 0
      /\ \A g, h \in Handles : g < h /\ target[h] # 0 => target[g] # 0
  BY DEF HandlesGiven
<1>2. ASSUME NEW q \in Requests, CheckCount(q) \/ Login(q) \/ SetTimes(q)
      PROVE  HandlesGiven'
  <2>1. /\ UNCHANGED <<m_DownloadID, m_downloadID, temp, DownLoadID, target>>
        /\ UNCHANGED <<live, ended>>
    BY <1>2 DEF CheckCount, Login, SetTimes, table, globals, sdk
  <2> QED
    BY <1>1, <2>1 DEF HandlesGiven, Given
<1>3. ASSUME NEW q \in Requests, Compose(q)
      PROVE  HandlesGiven'
  <2>1. m_DownloadID \in 0 .. MaxHandle /\ MaxHandle \in Nat
    BY PipelineAssumption DEF PipelineInv, TypeOK
  <2>2. PrintInt(m_DownloadID) \in 0 .. MaxHandle /\ PrintInt(m_DownloadID) <= m_DownloadID
    BY <2>1, PrintIntBound
  <2>3. Given(PrintInt(m_DownloadID))
    <3>1. CASE PrintInt(m_DownloadID) = 0
      BY <3>1 DEF Given
    <3>2. CASE PrintInt(m_DownloadID) # 0
      <4>1. PrintInt(m_DownloadID) \in Handles /\ m_DownloadID \in Handles
        BY <2>1, <2>2, <3>2 DEF Handles
      <4>2. target[m_DownloadID] # 0
        BY <1>1, <2>1, <2>2, <3>2, <4>1 DEF Given, Handles
      <4>3. PrintInt(m_DownloadID) = m_DownloadID \/ PrintInt(m_DownloadID) < m_DownloadID
        BY <2>1, <2>2
      <4> QED
        BY <1>1, <4>1, <4>2, <4>3 DEF Given
    <3> QED
      BY <3>1, <3>2
  <2>4. \A r \in Requests : Given(temp'[r])
    BY <1>1, <1>3, <2>3, Types DEF Compose
  <2>5. /\ UNCHANGED <<m_DownloadID, m_downloadID, DownLoadID, target>>
        /\ UNCHANGED <<live, ended>>
    BY <1>3 DEF Compose, table, globals, sdk
  <2> QED
    BY <1>1, <2>4, <2>5 DEF HandlesGiven, Given
<1>4. ASSUME NEW q \in Requests, Insert(q)
      PROVE  HandlesGiven'
  <2>1. /\ UNCHANGED <<m_DownloadID, m_downloadID, target>>
        /\ UNCHANGED <<live, ended>>
        /\ \A i \in Rows : DownLoadID'[i] \in {DownLoadID[i], temp[q]}
        /\ \A r \in Requests : temp'[r] \in {temp[r], 0}
    BY <1>4, Types DEF Insert, SetById, globals, sdk
  <2> QED
    BY <1>1, <2>1 DEF HandlesGiven, Given
<1>5. ASSUME NEW q \in Requests, NEW h \in Handles, StartDownload(q, h)
      PROVE  HandlesGiven'
  <2>1. /\ m_DownloadID' = h /\ UNCHANGED <<m_downloadID, temp, DownLoadID>>
        /\ live' = live \cup {h} /\ ended' = ended \ {h}
        /\ target' = [target EXCEPT ![h] = id[q]]
    BY <1>5 DEF StartDownload, table
  <2>2. target'[h] # 0 /\ \A g \in Handles : target[g] # 0 => target'[g] # 0
    BY <1>5, <2>1, NewHandleUnused, Types
  <2>3. \A g \in Handles : target'[g] # 0 => g = h \/ target[g] # 0
    BY <2>1, Types
  <2>4. \A g, k \in Handles : g < k /\ target'[k] # 0 => target'[g] # 0
    BY <1>1, <1>5, <2>2, <2>3, NewHandleUnused
  <2>5. \A g \in live' \cup ended' : target'[g] # 0
    BY <1>1, <2>1, <2>2, Types
  <2>6. \A g : Given(g) => Given(g)'
    BY <2>2 DEF Given
  <2>7. Given(m_DownloadID)'
    BY <2>1, <2>2 DEF Given
  <2> QED
    BY <1>1, <2>1, <2>4, <2>5, <2>6, <2>7 DEF HandlesGiven, Given
<1>6. ASSUME NEW q \in Requests, StartFails(q) \/ Publish(q)
      PROVE  HandlesGiven'
  <2>1. /\ m_DownloadID' \in {0, m_DownloadID} /\ m_downloadID' \in {m_downloadID, m_DownloadID}
        /\ UNCHANGED <<temp, DownLoadID, target>>
        /\ UNCHANGED <<live, ended>>
    BY <1>6 DEF StartFails, Publish, table, sdk
  <2> QED
    BY <1>1, <2>1 DEF HandlesGiven, Given
<1>7. ASSUME NEW q \in Requests, Format(q) \/ Register(q)
      PROVE  HandlesGiven'
  <2>1. /\ UNCHANGED <<m_DownloadID, m_downloadID, target>>
        /\ UNCHANGED <<live, ended>>
        /\ \A i \in Rows : DownLoadID'[i] \in {DownLoadID[i], temp[q]}
        /\ \A r \in Requests : temp'[r] \in {temp[r], m_DownloadID, 0}
    BY <1>7, Types DEF Format, Register, SetById, table, globals, sdk
  <2> QED
    BY <1>1, <2>1 DEF HandlesGiven, Given
<1>8. ASSUME NEW q \in Requests, Test(q) \/ MarkFailed(q) \/ Reply(q)
      PROVE  HandlesGiven'
  <2>1. /\ UNCHANGED <<m_DownloadID, m_downloadID, temp, DownLoadID, target>>
        /\ UNCHANGED <<live, ended>>
    BY <1>8 DEF Test, MarkFailed, Reply, table, globals, sdk
  <2> QED
    BY <1>1, <2>1 DEF HandlesGiven, Given
<1>9. ASSUME NEW h \in Handles, EndCallback(h)
      PROVE  HandlesGiven'
  <2>1. h \in live /\ live' = live /\ ended' = ended \cup {h}
        /\ UNCHANGED <<m_DownloadID, m_downloadID, temp, DownLoadID, target>>
    BY <1>9 DEF EndCallback, globals, requests
  <2> QED
    BY <1>1, <2>1 DEF HandlesGiven, Given
<1>10. ASSUME UNCHANGED <<requests, last, owner, DownLoadID, globals, target, range>>,
              live' \subseteq live, ended' = ended
       PROVE  HandlesGiven'
  BY <1>1, <1>10 DEF HandlesGiven, Given, requests, globals
<1>11. ASSUME \/ DM_Convert
              \/ \E t \in Threads : ConvertPackageFormat(t)
              \/ PingFails
              \/ DM_SetState
              \/ UNCHANGED vars
       PROVE  ended' = ended
  BY <1>11
  DEF DM_Convert, Select, Poll, StartThread, ConvertPackageFormat, Lock, OpenFails, MarkBegin,
      RecordFails, Play, MarkEnd, RemoveFiles, PingFails, DM_SetState, FailRow, RemoveRaw, vars,
      sdk
<1> QED
  BY <1>2, <1>3, <1>4, <1>5, <1>6, <1>7, <1>8, <1>9, <1>10, <1>11, NoRestart,
     OthersKeepRequests, OthersStartNothing
  DEF Next, RequestStep

-----------------------------------------------------------------------------
\* What BeforeInv says of one request.
Ahead(r) ==
  /\ before[r] \subseteq 1 .. last
  /\ \A q \in Requests : id[q] \in before[r] => Free(q)
  /\ Started(r) => Elsewhere(m_DownloadID, r)
  /\ Published(r) => Elsewhere(m_downloadID, r)
  /\ rpc[r] = "replied" /\ reply[r] # 0 /\ DownLoadID[reply[r]] # 0 => reply[r] \notin before[r]

\* BeforeInv, one request at a time.
LEMMA AheadIsInv == BeforeInv <=> \A r \in Requests : Ahead(r)
BY DEF BeforeInv, NoStaleReply, Ahead

\* A request that is not being admitted stays ahead of the rows done before it.
LEMMA AheadKept ==
  ASSUME Numbered, PipelineInv, HandlesGiven, BeforeInv, [Next]_vars,
         NEW r \in Requests, before'[r] = before[r], ~Admits(r)
  PROVE  Ahead(r)'
<1>1. /\ before[r] \subseteq 1 .. last
      /\ \A q \in Requests : id[q] \in before[r] => Free(q)
      /\ Started(r) => Elsewhere(m_DownloadID, r)
      /\ Published(r) => Elsewhere(m_downloadID, r)
      /\ rpc[r] = "replied" /\ reply[r] # 0 /\ DownLoadID[reply[r]] # 0 => reply[r] \notin before[r]
      /\ before[r] \subseteq Rows
      /\ 0 \notin before[r] /\ last + 1 \notin before[r]
  BY AheadIsInv, RowNumbers DEF Ahead
<1>2. ASSUME NEW q \in Requests, CheckCount(q)
      PROVE  Ahead(r)'
  <2>1. UNCHANGED <<table, globals>> /\ id'[q] = 0 /\ (q = r => rpc'[r] = "idle")
    <3>1. q = r => rpc'[r] \in {"idle", "login"}
      BY <1>2, Types DEF CheckCount, Goto
    <3>2. q = r => Free(r)
      BY <1>2 DEF CheckCount, Arrives
    <3>3. rpc'[r] # "login" \/ q # r
      BY <3>2 DEF Admits, Free
    <3> QED
      BY <1>2, <3>1, <3>3, Types DEF CheckCount
  <2>2. \A p \in Requests \ {q} : rpc'[p] = rpc[p] /\ id'[p] = id[p] /\ reply'[p] = reply[p]
    BY <1>2, LocalsOwn
  <2> QED
    BY <1>1, <2>1, <2>2 DEF Ahead, Started, Published, Elsewhere, Free, table, globals
<1>3. ASSUME NEW q \in Requests, RequestStep(q)
      PROVE  Ahead(r)'
  <2>1. ~Free(q) /\ id[q] \notin before[r]
    BY <1>1, <1>3
    DEF Free, RequestStep, Login, SetTimes, Compose, Insert, StartDownload, StartFails,
        Publish, Format, Register, Test, MarkFailed, Reply
  <2>2. \A p \in Requests \ {q} : rpc'[p] = rpc[p] /\ id'[p] = id[p] /\ reply'[p] = reply[p]
    BY <1>3, LocalsOwn
  <2>3. CASE Login(q) \/ SetTimes(q) \/ Compose(q)
    <3>1. /\ UNCHANGED <<table, m_DownloadID, m_downloadID, id, reply>>
          /\ rpc'[q] \in {"times", "idle", "compose", "insert"}
      BY <2>3, Types DEF Login, SetTimes, Compose, Goto, globals
    <3> QED
      BY <1>1, <2>1, <2>2, <3>1 DEF Ahead, Started, Published, Elsewhere, Free, table
  <2>4. CASE Insert(q)
    <3>1. /\ UNCHANGED <<m_DownloadID, m_downloadID, reply>>
          /\ id'[q] = last + 1 /\ last' = last + 1 /\ rpc'[q] = "start"
          /\ \A i \in before[r] : DownLoadID'[i] = DownLoadID[i]
      BY <1>1, <2>4, Types DEF Insert, SetById, Goto, globals
    <3>2. before[r] \subseteq 1 .. last'
      BY <1>1, <3>1, RowNumbers
    <3>3. q = r => ~Started(r)'  /\ ~Published(r)' /\ rpc'[r] # "replied"
      BY <3>1 DEF Started, Published
    <3> QED
      BY <1>1, <2>1, <2>2, <3>1, <3>2, <3>3 DEF Ahead, Started, Published, Elsewhere, Free
  <2>5. CASE \E h \in Handles : StartDownload(q, h)
    <3>1. PICK h \in Handles : StartDownload(q, h)
      BY <2>5
    <3>2. /\ m_DownloadID' = h /\ rpc'[q] = "publish"
          /\ UNCHANGED <<m_downloadID, table, id, reply>>
      BY <3>1, Types DEF StartDownload, Goto
    <3>3. \A i \in Rows : DownLoadID[i] # h
      BY <3>1, NewHandleUnused
    <3> QED
      BY <1>1, <2>1, <2>2, <3>2, <3>3 DEF Ahead, Started, Published, Elsewhere, Free, table
  <2>6. CASE StartFails(q)
    <3>1. /\ m_DownloadID' = 0 /\ rpc'[q] = "publish"
          /\ UNCHANGED <<m_downloadID, table, id, reply>>
      BY <2>6, Types DEF StartFails, Goto
    <3> QED
      BY <1>1, <2>1, <2>2, <3>1 DEF Ahead, Started, Published, Elsewhere, Free, table
  <2>7. CASE Publish(q)
    <3>1. /\ m_downloadID' = m_DownloadID /\ rpc[q] = "publish" /\ rpc'[q] = "format"
          /\ UNCHANGED <<m_DownloadID, table, id, reply>>
      BY <2>7, Types DEF Publish, Goto
    <3>2. Started(r) => Started(r) /\ Elsewhere(m_DownloadID, r)
      BY <1>1
    <3>3. Started(r)' => Started(r)
      BY <2>2, <3>1 DEF Started
    <3>4. Published(r)' => Started(r)'
      BY DEF Started, Published
    <3> QED
      BY <1>1, <2>1, <2>2, <3>1, <3>3, <3>4 DEF Ahead, Elsewhere, Free, table
  <2>8. CASE Format(q)
    <3>1. /\ rpc[q] = "format" /\ rpc'[q] = "register" /\ UNCHANGED <<globals, table, id, reply>>
      BY <2>8, Types DEF Format, Goto
    <3> QED
      BY <1>1, <2>1, <2>2, <3>1 DEF Ahead, Started, Published, Elsewhere, Free, table, globals
  <2>9. CASE Register(q)
    <3>1. /\ rpc[q] = "register" /\ rpc'[q] = "test" /\ UNCHANGED <<last, globals, id, reply>>
          /\ \A i \in Rows : i # id[q] => DownLoadID'[i] = DownLoadID[i]
      BY <2>9, Types DEF Register, SetById, Goto
    <3>2. \A i \in before[r] : DownLoadID'[i] = DownLoadID[i]
      BY <1>1, <2>1, <3>1
    <3> QED
      BY <1>1, <2>1, <2>2, <3>1, <3>2 DEF Ahead, Started, Published, Elsewhere, Free, globals
  <2>10. CASE Test(q) \/ MarkFailed(q)
    <3>1. /\ rpc[q] \in {"test", "fail"} /\ rpc'[q] \in {"fail", "reply", "idle"}
          /\ UNCHANGED <<last, DownLoadID, globals, id, reply>>
      BY <2>10, Types DEF Test, MarkFailed, Goto, table
    <3> QED
      BY <1>1, <2>1, <2>2, <3>1 DEF Ahead, Started, Published, Elsewhere, Free, globals
  <2>11. CASE Reply(q)
    <3>1. /\ rpc[q] = "reply" /\ rpc'[q] = "replied"
          /\ UNCHANGED <<last, DownLoadID, globals, id>>
      BY <2>11, Types DEF Reply, Goto, table
    <3>2. reply'[q] # 0 => DownLoadID[reply'[q]] = m_downloadID
      BY <2>11, Types DEF Reply
    <3>3. rpc'[r] = "replied" /\ reply'[r] # 0 /\ DownLoadID[reply'[r]] # 0
            => reply'[r] \notin before[r]
      <4>1. CASE q = r
        BY <1>1, <3>1, <3>2, <4>1 DEF Published, Elsewhere
      <4>2. CASE q # r
        BY <1>1, <2>2, <4>2
      <4> QED
        BY <4>1, <4>2
    <3> QED
      BY <1>1, <2>1, <2>2, <3>1, <3>3 DEF Ahead, Started, Published, Elsewhere, Free, globals
  <2> QED
    BY <1>3, <2>3, <2>4, <2>5, <2>6, <2>7, <2>8, <2>9, <2>10, <2>11 DEF RequestStep
<1>4. CASE UNCHANGED <<requests, last, owner, DownLoadID, globals, target, range>>
  BY <1>1, <1>4 DEF Ahead, Started, Published, Elsewhere, Free, requests, globals
<1> QED
  BY <1>2, <1>3, <1>4, NoRestart, OthersKeepRequests DEF Next

\* The step of the induction; a request being admitted sets its rows apart.
LEMMA BeforeKept ==
  ASSUME Numbered, PipelineInv, HandlesGiven, BeforeInv, [CNext]_cvars
  PROVE  BeforeInv'
<1>1. CASE UNCHANGED cvars
  BY <1>1
  DEF cvars, vars, BeforeInv, NoStaleReply, Started, Published, Elsewhere, Free, table, globals,
      requests
<1>2. CASE CNext
  <2>1. [Next]_vars /\ before' = [r \in Requests |-> IF Admits(r) THEN Done ELSE before[r]]
    BY <1>2 DEF CNext, Remember
  <2>2. ASSUME NEW r \in Requests, Admits(r)
        PROVE  Ahead(r)'
    <3>1. CheckCount(r) /\ before'[r] = Done
      BY <2>1, <2>2, Admitting
    <3>2. /\ UNCHANGED <<table, globals>> /\ id'[r] = 0 /\ rpc'[r] \in {"idle", "login"}
          /\ \A q \in Requests \ {r} : rpc'[q] = rpc[q] /\ id'[q] = id[q]
      <4>1. UNCHANGED <<table, globals>> /\ id'[r] = 0 /\ rpc'[r] \in {"idle", "login"}
        BY <3>1, Types DEF CheckCount, Goto
      <4> QED
        BY <3>1, <4>1, LocalsOwn
    <3>3. /\ Done \subseteq 1 .. last /\ 0 \notin Done
          /\ \A q \in Requests : id[q] \in Done => Free(q)
      BY DEF Done
    <3> QED
      BY <3>1, <3>2, <3>3 DEF Ahead, Started, Published, Free, table
  <2>3. ASSUME NEW r \in Requests, ~Admits(r)
        PROVE  Ahead(r)'
    BY <2>1, <2>3, AheadKept
  <2>4. \A r \in Requests : Ahead(r)'
    BY <2>2, <2>3
  <2> QED
    BY <2>4 DEF Ahead, BeforeInv, NoStaleReply
<1> QED
  BY <1>1, <1>2

(***************************************************************************)
(* When the SDK numbers its downloads and the program runs through, no     *)
(* reply names a recording whose request had ended before the replied one  *)
(* came, however many requests and downloads are under way together.       *)
(***************************************************************************)
THEOREM RepliesNotStale ==
  ASSUME Numbered
  PROVE  CSpec => []NoStaleReply
<1>1. CInit => HandlesGiven /\ BeforeInv
  <2>1. CInit => BeforeInv
    BY DEF CInit, Init, BeforeInv, NoStaleReply, Started, Published
  <2> QED
    BY <2>1, HandlesGivenInit
<1>2. PipelineInv /\ HandlesGiven /\ BeforeInv /\ [CNext]_cvars => HandlesGiven' /\ BeforeInv'
  <2>1. [CNext]_cvars => [Next]_vars
    BY DEF CNext, cvars
  <2> QED
    BY <2>1, HandlesGivenKept, BeforeKept
<1>3. CSpec => []PipelineInv
  BY SameProgram, PipelineInvariant
<1>4. BeforeInv => NoStaleReply
  BY DEF BeforeInv
<1> QED
  BY <1>1, <1>2, <1>3, <1>4, PTL DEF CSpec

-----------------------------------------------------------------------------
\* The conversion threads and DM_SetState mark no row 'end'.
LEMMA OthersEndNothing ==
  ASSUME PipelineInv,
         \/ DM_Convert
         \/ \E t \in Threads : ConvertPackageFormat(t)
         \/ PingFails
         \/ DM_SetState
         \/ UNCHANGED vars
  PROVE  /\ \A i \in Rows : state'[i] = "end" => state[i] = "end"
         /\ ended' = ended /\ live' \subseteq live
<1>1. CASE DM_Convert \/ PingFails \/ UNCHANGED vars
  BY <1>1 DEF DM_Convert, Select, Poll, StartThread, PingFails, vars, table, sdk
<1>2. ASSUME NEW t \in Threads, ConvertPackageFormat(t)
      PROVE  UNCHANGED <<state, ended, live>>
  BY <1>2
  DEF ConvertPackageFormat, Lock, OpenFails, MarkBegin, RecordFails, Play, MarkEnd, RemoveFiles,
      table, sdk
<1>3. CASE DM_SetState
  BY <1>3, Types DEF DM_SetState, FailRow, RemoveRaw, SetByDownloadID, table, sdk
<1> QED
  BY <1>1, <1>2, <1>3

\* Only DM_Convert selects rows.
LEMMA OthersSelectNothing ==
  ASSUME \/ \E r \in Requests : CheckCount(r) \/ RequestStep(r)
         \/ \E h \in Handles : EndCallback(h)
         \/ \E t \in Threads : ConvertPackageFormat(t)
         \/ PingFails
         \/ DM_SetState
         \/ UNCHANGED vars
  PROVE  UNCHANGED <<todo, seenId>>
<1>1. ASSUME NEW r \in Requests, CheckCount(r) \/ RequestStep(r)
      PROVE  UNCHANGED <<todo, seenId>>
  BY <1>1
  DEF CheckCount, RequestStep, Login, SetTimes, Compose, Insert, StartDownload, StartFails,
      Publish, Format, Register, Test, MarkFailed, Reply, convert
<1>2. ASSUME NEW t \in Threads, ConvertPackageFormat(t)
      PROVE  UNCHANGED <<todo, seenId>>
  BY <1>2
  DEF ConvertPackageFormat, Lock, OpenFails, MarkBegin, RecordFails, Play, MarkEnd, RemoveFiles,
      convert
<1>3. ASSUME (\E h \in Handles : EndCallback(h)) \/ PingFails \/ DM_SetState \/ UNCHANGED vars
      PROVE  UNCHANGED <<todo, seenId>>
  BY <1>3 DEF EndCallback, PingFails, DM_SetState, FailRow, RemoveRaw, vars, convert
<1> QED
  BY <1>1, <1>2, <1>3

\* The step of the induction: only an insert gives a row a handle in progress.
LEMMA StaleKept ==
  ASSUME Numbered, PipelineInv, RowsOwned, HandlesGiven, StaleInv, [CNext]_cvars
  PROVE  StaleInv'
<1>1. /\ \A i \in Rows \ stale : state[i] = "end" => DownLoadID[i] \in ended
      /\ \A i \in todo \ stale : seenId[i] \in ended
      /\ \A r \in Requests :
           Unregistered(r) /\ id[r] \notin stale =>
             state[id[r]] # "end" /\ DownLoadID[id[r]] \notin live \ ended
      /\ \A r \in Requests : Unregistered(r) => id[r] \in Rows /\ owner[id[r]] = r
  BY RowNumbers DEF StaleInv, RowsOwned, Unregistered, HasRow
<1>2. stale \subseteq stale'
  BY DEF CNext, Remember, cvars
<1>3. [Next]_vars
  BY DEF CNext, cvars
<1>4. ASSUME NEW q \in Requests, CheckCount(q)
      PROVE  StaleInv'
  <2>1. /\ UNCHANGED <<table, sdk, todo, seenId>> /\ rpc'[q] \in {"idle", "login"}
    BY <1>4, Types DEF CheckCount, Goto, convert
  <2>2. \A r \in Requests : Unregistered(r)' => Unregistered(r) /\ id'[r] = id[r]
    BY <1>4, <2>1, LocalsOwn DEF Unregistered
  <2> QED
    BY <1>1, <1>2, <2>1, <2>2 DEF StaleInv, table, sdk
<1>5. ASSUME NEW q \in Requests, RequestStep(q)
      PROVE  StaleInv'
  <2>1. UNCHANGED <<todo, seenId>>
    BY <1>5, OthersSelectNothing
  <2>2. \A r \in Requests \ {q} : rpc'[r] = rpc[r] /\ id'[r] = id[r]
    BY <1>5, LocalsOwn
  <2>3. CASE Insert(q)
    <3>1. /\ last' = last + 1 /\ last + 1 \in Rows /\ state'[last + 1] = "begin"
          /\ id'[q] = last + 1 /\ UNCHANGED sdk
          /\ \A i \in Rows \ {last + 1} : state'[i] = state[i] /\ DownLoadID'[i] = DownLoadID[i]
      <4>1. last + 1 \in Rows
        BY <2>3, RowNumbers DEF Insert, Rows
      <4> QED
        BY <2>3, <4>1, Types DEF Insert, SetById
    <3>2. last + 1 \notin stale' => DownLoadID'[last + 1] \notin live' \ ended'
      <4>1. ~UNCHANGED cvars
        BY <3>1, RowNumbers DEF cvars, vars, table
      <4>2. last < last + 1 /\ last + 1 <= last'
        BY <3>1, RowNumbers
      <4> QED
        BY <3>1, <4>1, <4>2 DEF CNext, Remember, sdk
    <3>3. \A r \in Requests \ {q} : Unregistered(r) => id[r] # last + 1
      BY RowNumbers DEF Unregistered, HasRow
    <3>4. \A i \in Rows \ stale' : state'[i] = "end" => DownLoadID'[i] \in ended'
      BY <1>1, <1>2, <3>1 DEF sdk
    <3>5. \A r \in Requests :
            Unregistered(r)' /\ id'[r] \notin stale' =>
              state'[id'[r]] # "end" /\ DownLoadID'[id'[r]] \notin live' \ ended'
      <4>1. ASSUME NEW r \in Requests \ {q}, Unregistered(r)', id'[r] \notin stale'
            PROVE  state'[id'[r]] # "end" /\ DownLoadID'[id'[r]] \notin live' \ ended'
        <5>1. Unregistered(r) /\ id'[r] = id[r] /\ id[r] \notin stale
          BY <1>2, <2>2, <4>1 DEF Unregistered
        <5> QED
          BY <1>1, <3>1, <3>3, <5>1 DEF sdk
      <4> QED
        BY <3>1, <3>2, <4>1
    <3> QED
      BY <1>1, <1>2, <2>1, <3>1, <3>4, <3>5 DEF StaleInv, sdk
  <2>4. CASE \E h \in Handles : StartDownload(q, h)
    <3>1. PICK h \in Handles : StartDownload(q, h)
      BY <2>4
    <3>2. /\ UNCHANGED <<table, id>> /\ live' = live \cup {h} /\ ended' = ended \ {h}
          /\ rpc[q] = "start"
      BY <3>1 DEF StartDownload
    <3>3. ended' = ended /\ \A i \in Rows : DownLoadID[i] # h
      BY <3>1, <3>2, NewHandleUnused
    <3>4. \A r \in Requests : Unregistered(r)' => Unregistered(r)
      BY <2>2, <3>2 DEF Unregistered
    <3> QED
      BY <1>1, <1>2, <2>1, <3>2, <3>3, <3>4 DEF StaleInv, table
  <2>5. CASE Register(q)
    <3>1. /\ rpc[q] = "register" /\ rpc'[q] = "test" /\ UNCHANGED <<state, id, sdk>>
          /\ \A i \in Rows \ {id[q]} : DownLoadID'[i] = DownLoadID[i]
      BY <2>5, Types DEF Register, SetById, Goto
    <3>2. \A r \in Requests : Unregistered(r)' => Unregistered(r) /\ r # q
      BY <2>2, <3>1 DEF Unregistered
    <3>3. \A r \in Requests : Unregistered(r)' => id[r] # id[q]
      BY <1>1, <3>1, <3>2 DEF Unregistered
    <3>4. id[q] \notin stale => state[id[q]] # "end"
      BY <1>1, <3>1 DEF Unregistered
    <3>5. \A i \in Rows \ stale' : state'[i] = "end" => DownLoadID'[i] \in ended'
      BY <1>1, <1>2, <3>1, <3>4 DEF sdk
    <3>6. \A r \in Requests :
            Unregistered(r)' /\ id'[r] \notin stale' =>
              state'[id'[r]] # "end" /\ DownLoadID'[id'[r]] \notin live' \ ended'
      BY <1>1, <1>2, <3>1, <3>2, <3>3 DEF sdk
    <3> QED
      BY <1>1, <1>2, <2>1, <3>1, <3>5, <3>6 DEF StaleInv, sdk
  <2>6. CASE MarkFailed(q)
    <3>1. /\ rpc[q] = "fail" /\ rpc'[q] = "idle" /\ UNCHANGED <<DownLoadID, id, sdk>>
          /\ \A i \in Rows : state'[i] = "end" => state[i] = "end"
      BY <2>6, Types DEF MarkFailed, SetById, Goto
    <3>2. \A r \in Requests : Unregistered(r)' => Unregistered(r) /\ state'[id[r]] = state[id[r]]
      <4>1. \A r \in Requests : Unregistered(r)' => Unregistered(r)
        BY <2>2, <3>1 DEF Unregistered
      <4>2. HasRow(q)
        BY <3>1 DEF HasRow
      <4>3. \A r \in Requests : Unregistered(r)' => id[r] # id[q]
        BY <1>1, <2>2, <3>1, <4>1, <4>2 DEF Unregistered, RowsOwned
      <4> QED
        BY <1>1, <2>6, <4>1, <4>3, Types DEF MarkFailed, SetById
    <3> QED
      BY <1>1, <1>2, <2>1, <3>1, <3>2 DEF StaleInv, sdk
  <2>7. CASE Login(q) \/ SetTimes(q) \/ Compose(q) \/ StartFails(q) \/ Publish(q) \/ Format(q)
             \/ Test(q) \/ Reply(q)
    <3>1. UNCHANGED <<table, sdk, id>>
      BY <2>7 DEF Login, SetTimes, Compose, StartFails, Publish, Format, Test, Reply
    <3>2. Unregistered(q)' => Unregistered(q)
      BY <2>7, Types
      DEF Login, SetTimes, Compose, StartFails, Publish, Format, Test, Reply, Goto, Unregistered
    <3>3. \A r \in Requests : Unregistered(r)' => Unregistered(r)
      BY <2>2, <3>2 DEF Unregistered
    <3> QED
      BY <1>1, <1>2, <2>1, <3>1, <3>3 DEF StaleInv, table, sdk
  <2> QED
    BY <1>5, <2>3, <2>4, <2>5, <2>6, <2>7 DEF RequestStep
<1>6. ASSUME NEW h \in Handles, EndCallback(h)
      PROVE  StaleInv'
  <2>1. /\ h \in live \ ended /\ ended' = ended \cup {h} /\ live' = live
        /\ UNCHANGED <<requests, DownLoadID>>
        /\ \A i \in Rows : state'[i] = IF i <= last /\ DownLoadID[i] = h THEN "end" ELSE state[i]
    BY <1>6 DEF EndCallback, SetByDownloadID
  <2>2. UNCHANGED <<todo, seenId>>
    BY <1>6, OthersSelectNothing
  <2>3. \A r \in Requests : Unregistered(r)' => Unregistered(r)
    BY <2>1 DEF Unregistered, requests
  <2> QED
    BY <1>1, <1>2, <2>1, <2>2, <2>3 DEF StaleInv, requests
<1>7. ASSUME \/ DM_Convert
             \/ \E t \in Threads : ConvertPackageFormat(t)
             \/ PingFails
             \/ DM_SetState
             \/ UNCHANGED vars
      PROVE  StaleInv'
  <2>1. /\ UNCHANGED <<requests, DownLoadID>>
        /\ \A i \in Rows : state'[i] = "end" => state[i] = "end"
        /\ ended' = ended /\ live' \subseteq live
    BY <1>7, OthersKeepRequests, OthersEndNothing
  <2>2. \A i \in todo' \ stale' : seenId'[i] \in ended'
    <3>1. CASE UNCHANGED <<todo, seenId>>
      BY <1>1, <1>2, <2>1, <3>1
    <3>2. CASE Select
      BY <1>1, <1>2, <2>1, <3>2 DEF Select, ToConvert
    <3>3. CASE Poll
      <4>1. todo' = todo /\ (todo = {} \/ seenId' = seenId)
        BY <3>3 DEF Poll
      <4> QED
        BY <1>1, <1>2, <2>1, <4>1
    <3>4. ASSUME NEW i \in Rows, NEW t \in Threads, StartThread(i, t)
          PROVE  \A j \in todo' \ stale' : seenId'[j] \in ended'
      <4>1. todo' \subseteq todo /\ seenId' = seenId
        BY <3>4 DEF StartThread
      <4> QED
        BY <1>1, <1>2, <2>1, <4>1
    <3> QED
      BY <1>7, <3>1, <3>2, <3>3, <3>4, OthersSelectNothing DEF DM_Convert
  <2>3. \A r \in Requests : Unregistered(r)' => Unregistered(r)
    BY <2>1 DEF Unregistered, requests
  <2> QED
    BY <1>1, <1>2, <2>1, <2>2, <2>3 DEF StaleInv, requests
<1> QED
  BY <1>3, <1>4, <1>5, <1>6, <1>7, NoRestart DEF Next

(***************************************************************************)
(* When the SDK numbers its downloads and the program runs through, the    *)
(* handle of another download in a row not yet registered is the only      *)
(* reason why DM_Convert ever stops a download that has not ended.         *)
(***************************************************************************)
THEOREM EarlyStopsAreStale ==
  ASSUME Numbered
  PROVE  CSpec => StopsOnlyStale
<1>1. CInit => RowsOwned /\ HandlesGiven /\ StaleInv
  <2>1. CInit => RowsOwned
    BY DEF CInit, Init, RowsOwned, HasRow
  <2>2. CInit => StaleInv
    BY DEF CInit, Init, StaleInv, Unregistered
  <2> QED
    BY <2>1, <2>2, HandlesGivenInit
<1>2. [CNext]_cvars => [Next]_vars
  BY DEF CNext, cvars
<1>3. PipelineInv /\ RowsOwned /\ HandlesGiven /\ StaleInv /\ [CNext]_cvars
        => RowsOwned' /\ HandlesGiven' /\ StaleInv'
  BY <1>2, RowsOwnedKept, HandlesGivenKept, StaleKept
<1>4. CSpec => []PipelineInv
  BY SameProgram, PipelineInvariant
<1>5. PipelineInv /\ StaleInv /\ [CNext]_cvars =>
        [\A h \in (live \ live') \ ended : \E i \in todo \ todo' : seenId[i] = h /\ i \in stale]_cvars
  <2> SUFFICES ASSUME PipelineInv, StaleInv, CNext,
                      NEW h \in (live \ live') \ ended
               PROVE  \E i \in todo \ todo' : seenId[i] = h /\ i \in stale
    OBVIOUS
  <2>1. \E i \in Rows, t \in Threads : StartThread(i, t)
    <3>1. ~(\E r \in Requests : CheckCount(r) \/ RequestStep(r))
      BY DEF CheckCount, RequestStep, Login, SetTimes, Compose, Insert, StartDownload,
             StartFails, Publish, Format, Register, Test, MarkFailed, Reply, sdk
    <3>2. ~(\E t \in Threads : ConvertPackageFormat(t))
      BY DEF ConvertPackageFormat, Lock, OpenFails, MarkBegin, RecordFails, Play, MarkEnd,
             RemoveFiles, sdk
    <3>3. ~(\E g \in Handles : EndCallback(g)) /\ ~PingFails /\ ~DM_SetState /\ ~Select /\ ~Poll
      BY DEF EndCallback, PingFails, DM_SetState, FailRow, RemoveRaw, Select, Poll, sdk
    <3> QED
      BY <3>1, <3>2, <3>3, NoRestart DEF CNext, Next, DM_Convert
  <2>2. PICK i \in Rows, t \in Threads : StartThread(i, t)
    BY <2>1
  <2>3. i \in todo \ todo' /\ seenId[i] = h
    BY <2>2 DEF StartThread, First
  <2> QED
    BY <2>3 DEF StaleInv
<1> QED
  BY <1>1, <1>3, <1>4, <1>5, PTL DEF CSpec, StopsOnlyStale

=============================================================================
