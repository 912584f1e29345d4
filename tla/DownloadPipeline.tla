-------------------------- MODULE DownloadPipeline --------------------------
(***************************************************************************)
(* The life of a recording: requested through mons__DownLoadByTime,        *)
(* downloaded by the NVR SDK into a .dav file, found by the DM_Convert     *)
(* thread, converted by a ConvertPackageFormat thread, failed by the       *)
(* DM_SetState thread when the NVR does not answer a ping.                 *)
(*                                                                         *)
(* The threads meet in the rows of the database table downLoad, in the     *)
(* globals of DownloadControl.cpp and in m_mutex_coverting.  A database    *)
(* statement is one step; so is a section under m_mutex_checking, which    *)
(* never spans another wait.                                               *)
(***************************************************************************)
EXTENDS Integers, FiniteSets

CONSTANTS
  Requests,  (* pool threads that run mons__DownLoadByTime                  *)
  Nobody,    (* no request                                                  *)
  MaxRow,    (* bound: rows ever inserted                                   *)
  MaxHandle, (* bound: download handles of the SDK                          *)
  IntRange,  (* one more than the largest value "%d" prints unchanged       *)
  MaxThread, (* bound: ConvertPackageFormat threads ever created            *)
  MaxRestart,(* bound: restarts of the program                              *)
  Limit,     (* concurrent downloads allowed, 18 in the code                *)
  Env        (* what the environment may do, a subset of Hazards            *)

Hazards ==
  {"overlap",     \* a request arrives while another is being served
   "concurrent",  \* a request arrives before the earlier recordings are settled
   "loginFails",  \* the NVR cannot be pinged or refuses the login
   "startFails",  \* CLIENT_DownloadByTime returns 0
   "earlyEnd",    \* a download ends before its handle is stored in its row
   "slowThreads", \* sleep(10) ends before the new thread has marked its row
   "recordFails", \* PLAY_StartDataRecord fails
   "mp4Fails",    \* covertavitomp4 fails
   "pingFails",   \* DM_SetState finds the NVR unreachable
   "handleReuse"} \* the SDK reuses the handle of a stopped download

ASSUME PipelineAssumption ==
  /\ Nobody \notin Requests
  /\ IsFiniteSet(Requests)
  /\ MaxRow \in Nat /\ MaxHandle \in Nat /\ MaxThread \in Nat /\ MaxRestart \in Nat
  /\ IntRange \in Nat \ {0}
  /\ Limit \in Nat \ {0}
  /\ Env \subseteq Hazards

Rows    == 1 .. MaxRow
Handles == 1 .. MaxHandle
Threads == 1 .. MaxThread

VARIABLES
  \* The table downLoad; ids are assigned in order of insertion.
  last,         (* max(id)                                                  *)
  state,        (* column state                                             *)
  ipcIp,        (* column ipcIp, which tracks the conversion                *)
  DownLoadID,   (* column DownLoadID                                        *)
  \* Files.
  dav,          (* what the SDK has written for each row                    *)
  onDisk,       (* the rows whose .dav file exists                          *)
  mp4,          (* what the conversion has produced for each row            *)
  \* Globals of DownloadControl.cpp and of g_Download.
  m_DownloadID, (* the last handle the SDK returned, 0 for a failure        *)
  m_downloadID, (* its copy in g_Download                                   *)
  m_time,       (* m_start_time and m_end_time: whose range they hold       *)
  m_mutex_coverting, (* its holder, 0 when free                             *)
  \* Requests.
  rpc,          (* control point                                            *)
  id,           (* c, the row the request inserted                          *)
  temp,         (* the handle it is about to write to a row                 *)
  reply,        (* the id answered to the client                            *)
  owner,        (* the request that inserted each row                       *)
  \* The SDK.
  live,         (* handles of downloads not stopped                         *)
  ended,        (* handles whose end was called back                        *)
  target,       (* the row whose file a handle fills                        *)
  range,        (* whose time range it records                              *)
  \* DM_Convert and its threads.
  dpc, todo,    (* control point; the selected rows not yet started         *)
  seenId,       (* their DownLoadID when they were selected                 *)
  tpc, trow, tid, (* ConvertPackageFormat: control point, row, DownLoadID   *)
  \* DM_SetState.
  spc, doomed,  (* control point; the rows it found in state begin          *)
  doomedId,     (* their DownLoadID at that time                            *)
  restarts

table    == <<last, state, ipcIp, DownLoadID, owner>>
files    == <<dav, onDisk, mp4>>
globals  == <<m_DownloadID, m_downloadID, m_time>>
requests == <<rpc, id, temp, reply>>
sdk      == <<live, ended, target, range>>
convert  == <<dpc, todo, seenId>>
threads  == <<tpc, trow, tid, m_mutex_coverting>>
monitor  == <<spc, doomed, doomedId>>
vars == <<table, files, globals, requests, sdk, convert, threads, monitor, restarts>>

\* The locals of an iteration of DM_Convert or DM_SetState end with it.
NoIds == [i \in Rows |-> 0]

Init ==
  /\ last = 0
  /\ state      = [i \in Rows |-> "none"]
  /\ ipcIp      = [i \in Rows |-> " "]
  /\ DownLoadID = [i \in Rows |-> 0]
  /\ owner      = [i \in Rows |-> Nobody]
  /\ dav = [i \in Rows |-> "none"]
  /\ mp4 = [i \in Rows |-> "none"]
  /\ onDisk = {}
  /\ m_DownloadID = 0 /\ m_downloadID = 0 /\ m_time = Nobody
  /\ rpc   = [r \in Requests |-> "idle"]
  /\ id    = [r \in Requests |-> 0]
  /\ temp  = [r \in Requests |-> 0]
  /\ reply = [r \in Requests |-> 0]
  /\ live = {} /\ ended = {}
  /\ target = [h \in Handles |-> 0]
  /\ range  = [h \in Handles |-> Nobody]
  /\ dpc = "select" /\ todo = {}
  /\ seenId = NoIds
  /\ tpc  = [t \in Threads |-> "none"]
  /\ trow = [t \in Threads |-> 0]
  /\ tid  = [t \in Threads |-> 0]
  /\ m_mutex_coverting = 0
  /\ spc = "idle" /\ doomed = {}
  /\ doomedId = NoIds
  /\ restarts = 0

-----------------------------------------------------------------------------
(***************************************************************************)
(* Statements of Download_Table.cpp.                                       *)
(***************************************************************************)
\* Mutant: the where clause is lost.
SetEveryRow(column, value, h) ==
  [i \in Rows |-> IF i <= last THEN value ELSE column[i]]

\* updateDownloadInfoByDownloadID
SetByDownloadID(column, value, h) ==
  [i \in Rows |-> IF i <= last /\ DownLoadID[i] = h THEN value ELSE column[i]]

\* updateDownloadInfoByid
SetById(column, value, i) == [column EXCEPT ![i] = value]

\* select * from downLoad where state = 'begin' and ipcIp = ' '
Downloading == {i \in Rows : state[i] = "begin" /\ ipcIp[i] = " "}

\* Mutant: rows already taken up by a conversion are selected again.
ToConvertAgain == {i \in Rows : state[i] = "end"}

\* Mutant: rows still downloading are selected.
ToConvertEarly == {i \in Rows : state[i] \in {"begin", "end"} /\ ipcIp[i] = " "}

\* GetDownloadInfoBystate
ToConvert == {i \in Rows : state[i] = "end" /\ ipcIp[i] = " "}

\* select * from downLoad where state = 'end' and ipcIp = 'begin'
Converting == {i \in Rows : state[i] = "end" /\ ipcIp[i] = "begin"}

\* sprintf("%d") of a long long.
PrintInt(h) == h % IntRange

First(S, i) == i \in S /\ \A j \in S : i <= j

\* A client sees that its recording is converted, failed or lost.
Settled(i) == state[i] = "failed" \/ ipcIp[i] \in {"end", "failed"}

(***************************************************************************)
(* mons__DownLoadByTime and DM_DownLoadByTime.                             *)
(***************************************************************************)
Goto(r, label) == rpc' = [rpc EXCEPT ![r] = label]

Free(r) == rpc[r] \in {"idle", "replied"}

\* The program serves whatever request arrives; a client that keeps clear of
\* the hazards waits for the other requests and for its earlier recordings.
Arrives(r) ==
  /\ Free(r)
  /\ "overlap" \in Env \/ \A q \in Requests : Free(q)
  /\ "concurrent" \in Env \/ \A i \in 1 .. last : Settled(i)

\* Mutant: the limit itself is let through.
CheckCountOffByOne(r) ==
  /\ Arrives(r)
  /\ last < MaxRow
  /\ Goto(r, IF Cardinality(Downloading) > Limit THEN "idle" ELSE "login")
  /\ id' = [id EXCEPT ![r] = 0]
  /\ reply' = [reply EXCEPT ![r] = 0]
  /\ UNCHANGED <<table, files, globals, temp, sdk, convert, threads, monitor, restarts>>

\* The count is taken under m_mutex_checking and compared after it.  A camera
\* that is not found before that ends the request with nothing changed.
CheckCount(r) ==
  /\ Arrives(r)
  /\ last < MaxRow
  /\ Goto(r, IF Cardinality(Downloading) >= Limit THEN "idle" ELSE "login")
  /\ id' = [id EXCEPT ![r] = 0]
  /\ reply' = [reply EXCEPT ![r] = 0]
  /\ UNCHANGED <<table, files, globals, temp, sdk, convert, threads, monitor, restarts>>

\* Ping and login; a failure is answered with a fault.
Login(r) ==
  /\ rpc[r] = "login"
  /\ \/ Goto(r, "times")
     \/ "loginFails" \in Env /\ Goto(r, "idle")
  /\ UNCHANGED <<table, files, globals, id, temp, reply, sdk, convert, threads, monitor, restarts>>

\* Mutant: the range is left in local variables.
SetTimesForgotten(r) ==
  /\ rpc[r] = "times"
  /\ Goto(r, "compose")
  /\ UNCHANGED <<table, files, globals, id, temp, reply, sdk, convert, threads, monitor,
                 restarts>>

SetTimes(r) ==
  /\ rpc[r] = "times"
  /\ m_time' = r
  /\ Goto(r, "compose")
  /\ UNCHANGED <<table, files, m_DownloadID, m_downloadID, id, temp, reply, sdk, convert,
                 threads, monitor, restarts>>

\* The new row is filled in with the handle of the previous download.
Compose(r) ==
  /\ rpc[r] = "compose"
  /\ temp' = [temp EXCEPT ![r] = PrintInt(m_DownloadID)]
  /\ Goto(r, "insert")
  /\ UNCHANGED <<table, files, globals, id, reply, sdk, convert, threads, monitor, restarts>>

\* insertDownloadInfo and GetLatestInsertId, under m_mutex_checking.
Insert(r) ==
  /\ rpc[r] = "insert"
  /\ last < MaxRow
  /\ last' = last + 1
  /\ state' = SetById(state, "begin", last + 1)
  /\ DownLoadID' = SetById(DownLoadID, temp[r], last + 1)
  /\ temp' = [temp EXCEPT ![r] = 0]
  /\ owner' = SetById(owner, r, last + 1)
  /\ id' = [id EXCEPT ![r] = last + 1]
  /\ Goto(r, "start")
  /\ UNCHANGED <<ipcIp, files, globals, reply, sdk, convert, threads, monitor, restarts>>

\* The SDK numbers its downloads, or takes any handle not in use.
NewHandle(h) ==
  IF "handleReuse" \in Env THEN h \notin live ELSE First({g \in Handles : target[g] = 0}, h)

\* CLIENT_DownloadByTime with whatever range the globals hold by now.
StartDownload(r, h) ==
  /\ rpc[r] = "start"
  /\ NewHandle(h)
  /\ live' = live \cup {h}
  /\ ended' = ended \ {h}
  /\ target' = [target EXCEPT ![h] = id[r]]
  /\ range' = [range EXCEPT ![h] = m_time]
  /\ m_DownloadID' = h
  /\ dav' = [dav EXCEPT ![id[r]] = "growing"]
  /\ onDisk' = onDisk \cup {id[r]}
  /\ Goto(r, "publish")
  /\ UNCHANGED <<table, mp4, m_downloadID, m_time, id, temp, reply, convert, threads, monitor,
                 restarts>>

\* Mutant: a failed start is stored as -1.
StartFailsMinusOne(r) ==
  /\ rpc[r] = "start"
  /\ "startFails" \in Env
  /\ m_DownloadID' = -1
  /\ Goto(r, "publish")
  /\ UNCHANGED <<table, files, m_downloadID, m_time, id, temp, reply, sdk, convert, threads,
                 monitor, restarts>>

StartFails(r) ==
  /\ rpc[r] = "start"
  /\ "startFails" \in Env
  /\ m_DownloadID' = 0
  /\ Goto(r, "publish")
  /\ UNCHANGED <<table, files, m_downloadID, m_time, id, temp, reply, sdk, convert, threads,
                 monitor, restarts>>

\* Mutant: only the first handle is copied.
PublishOnce(r) ==
  /\ rpc[r] = "publish"
  /\ m_downloadID' = IF m_downloadID = 0 THEN m_DownloadID ELSE m_downloadID
  /\ Goto(r, "format")
  /\ UNCHANGED <<table, files, m_DownloadID, m_time, id, temp, reply, sdk, convert, threads,
                 monitor, restarts>>

\* The handle is read back from the global, not from the call, twice.
Publish(r) ==
  /\ rpc[r] = "publish"
  /\ m_downloadID' = m_DownloadID
  /\ Goto(r, "format")
  /\ UNCHANGED <<table, files, m_DownloadID, m_time, id, temp, reply, sdk, convert, threads,
                 monitor, restarts>>

Format(r) ==
  /\ rpc[r] = "format"
  /\ temp' = [temp EXCEPT ![r] = m_DownloadID]
  /\ Goto(r, "register")
  /\ UNCHANGED <<table, files, globals, id, reply, sdk, convert, threads, monitor, restarts>>

Register(r) ==
  /\ rpc[r] = "register"
  /\ DownLoadID' = SetById(DownLoadID, temp[r], id[r])
  /\ temp' = [temp EXCEPT ![r] = 0]
  /\ Goto(r, "test")
  /\ UNCHANGED <<last, state, ipcIp, owner, files, globals, id, reply, sdk, convert,
                 threads, monitor, restarts>>

\* Mutant: a failed start is answered like a good one.
TestForgotten(r) ==
  /\ rpc[r] = "test"
  /\ Goto(r, "reply")
  /\ UNCHANGED <<table, files, globals, id, temp, reply, sdk, convert, threads, monitor, restarts>>

Test(r) ==
  /\ rpc[r] = "test"
  /\ Goto(r, IF m_DownloadID = 0 THEN "fail" ELSE "reply")
  /\ UNCHANGED <<table, files, globals, id, temp, reply, sdk, convert, threads, monitor, restarts>>

MarkFailed(r) ==
  /\ rpc[r] = "fail"
  /\ state' = SetById(state, "failed", id[r])
  /\ Goto(r, "idle")
  /\ UNCHANGED <<last, ipcIp, DownLoadID, owner, files, globals, id, temp, reply, sdk, convert,
                 threads, monitor, restarts>>

\* select * from downLoad where DownLoadID = m_downloadID: the last row wins.
Reply(r) ==
  LET found == {i \in 1 .. last : DownLoadID[i] = m_downloadID}
  IN  /\ rpc[r] = "reply"
      /\ \E i \in found \cup {0} :
           /\ \A j \in found : j <= i
           /\ reply' = [reply EXCEPT ![r] = i]
      /\ Goto(r, "replied")
      /\ UNCHANGED <<table, files, globals, id, temp, sdk, convert, threads, monitor, restarts>>

RequestStep(r) ==
  \/ Login(r) \/ SetTimes(r) \/ Compose(r) \/ Insert(r)
  \/ \E h \in Handles : StartDownload(r, h)
  \/ StartFails(r) \/ Publish(r) \/ Format(r) \/ Register(r) \/ Test(r) \/ MarkFailed(r)
  \/ Reply(r)

(***************************************************************************)
(* DownLoadPos with dwDownLoadSize = -1: the download is complete.         *)
(***************************************************************************)
Registered(h) ==
  \A r \in Requests : id[r] = target[h] => rpc[r] \notin {"publish", "format", "register"}

EndCallback(h) ==
  /\ h \in live \ ended
  /\ "earlyEnd" \in Env \/ Registered(h)
  /\ ended' = ended \cup {h}
  /\ dav' = [dav EXCEPT ![target[h]] = "whole"]
  /\ state' = SetByDownloadID(state, "end", h)
  /\ UNCHANGED <<last, ipcIp, DownLoadID, owner, onDisk, mp4, globals, requests, live, target,
                 range, convert, threads, monitor, restarts>>

(***************************************************************************)
(* DM_Convert.                                                             *)
(***************************************************************************)
Select ==
  /\ dpc = "select"
  /\ ToConvert # {}
  /\ todo' = ToConvert
  /\ seenId' = DownLoadID
  /\ dpc' = "next"
  /\ UNCHANGED <<table, files, globals, requests, sdk, threads, monitor, restarts>>

\* CLIENT_StopDownload, CLIENT_Logout, and a detached thread for the row.
StartThread(i, t) ==
  /\ dpc = "next"
  /\ First(todo, i)
  /\ First({u \in Threads : tpc[u] = "none"}, t)
  /\ live' = live \ {seenId[i]}
  /\ tpc' = [tpc EXCEPT ![t] = "lock"]
  /\ trow' = [trow EXCEPT ![t] = i]
  /\ tid' = [tid EXCEPT ![t] = seenId[i]]
  /\ todo' = todo \ {i}
  /\ dpc' = "poll"
  /\ UNCHANGED <<table, files, globals, requests, ended, target, range, seenId,
                 m_mutex_coverting, monitor, restarts>>

\* The new thread has marked its row, has given up or waits for another.
Underway(t) ==
  \/ tpc[t] \notin {"lock", "open"}
  \/ tpc[t] = "lock" /\ m_mutex_coverting # 0

\* The inner loop ends when no row is being converted.
Poll ==
  /\ dpc = "poll"
  /\ "slowThreads" \in Env \/ \A t \in Threads : Underway(t)
  /\ Converting = {}
  /\ IF todo = {}
     THEN dpc' = "select" /\ seenId' = NoIds
     ELSE dpc' = "next" /\ UNCHANGED seenId
  /\ UNCHANGED <<table, files, globals, requests, sdk, todo, threads, monitor, restarts>>

DM_Convert == Select \/ Poll \/ \E i \in Rows, t \in Threads : StartThread(i, t)

(***************************************************************************)
(* ConvertPackageFormat.                                                   *)
(***************************************************************************)
\* Mutant: the mutex is not waited for.
LockAnyway(t) ==
  /\ tpc[t] = "lock"
  /\ m_mutex_coverting' = t
  /\ tpc' = [tpc EXCEPT ![t] = "open"]
  /\ UNCHANGED <<table, files, globals, requests, sdk, convert, trow, tid, monitor, restarts>>

Lock(t) ==
  /\ tpc[t] = "lock"
  /\ m_mutex_coverting = 0
  /\ m_mutex_coverting' = t
  /\ tpc' = [tpc EXCEPT ![t] = "open"]
  /\ UNCHANGED <<table, files, globals, requests, sdk, convert, trow, tid, monitor, restarts>>

OpenFails(t) ==
  /\ tpc[t] = "open"
  /\ trow[t] \notin onDisk
  /\ ipcIp' = SetByDownloadID(ipcIp, "failed", tid[t])
  /\ m_mutex_coverting' = 0
  /\ tpc' = [tpc EXCEPT ![t] = "done"]
  /\ UNCHANGED <<last, state, DownLoadID, owner, files, globals, requests, sdk, convert, trow,
                 tid, monitor, restarts>>

\* Mutant: the row is reported converted before it is.
MarkBeginAsEnd(t) ==
  /\ tpc[t] = "open"
  /\ trow[t] \in onDisk
  /\ ipcIp' = SetByDownloadID(ipcIp, "end", tid[t])
  /\ tpc' = [tpc EXCEPT ![t] = "play"]
  /\ UNCHANGED <<last, state, DownLoadID, owner, files, globals, requests, sdk, convert, trow,
                 tid, m_mutex_coverting, monitor, restarts>>

MarkBegin(t) ==
  /\ tpc[t] = "open"
  /\ trow[t] \in onDisk
  /\ ipcIp' = SetByDownloadID(ipcIp, "begin", tid[t])
  /\ tpc' = [tpc EXCEPT ![t] = "play"]
  /\ UNCHANGED <<last, state, DownLoadID, owner, files, globals, requests, sdk, convert, trow,
                 tid, m_mutex_coverting, monitor, restarts>>

\* startConvert fails: the thread returns without unlocking.
RecordFails(t) ==
  /\ "recordFails" \in Env
  /\ tpc[t] = "play"
  /\ tpc' = [tpc EXCEPT ![t] = "done"]
  /\ UNCHANGED <<table, files, globals, requests, sdk, convert, trow, tid, m_mutex_coverting,
                 monitor, restarts>>

\* A .dav file that is still being written gives a part of the recording.
covertavitomp4(i) == IF dav[i] = "whole" THEN "whole" ELSE "partial"

\* From startConvert to covertavitomp4, whose result is not looked at.
Play(t) ==
  /\ tpc[t] = "play"
  /\ \/ mp4' = [mp4 EXCEPT ![trow[t]] = covertavitomp4(trow[t])]
     \/ "mp4Fails" \in Env /\ mp4' = mp4
  /\ tpc' = [tpc EXCEPT ![t] = "mark"]
  /\ UNCHANGED <<table, dav, onDisk, globals, requests, sdk, convert, trow, tid,
                 m_mutex_coverting, monitor, restarts>>

\* Mutant: the unlock is lost on the good path too.
MarkEndKeepsMutex(t) ==
  /\ tpc[t] = "mark"
  /\ ipcIp' = SetById(ipcIp, "end", trow[t])
  /\ tpc' = [tpc EXCEPT ![t] = "remove"]
  /\ UNCHANGED <<last, state, DownLoadID, owner, files, globals, requests, sdk, convert, trow,
                 tid, m_mutex_coverting, monitor, restarts>>

MarkEnd(t) ==
  /\ tpc[t] = "mark"
  /\ ipcIp' = SetById(ipcIp, "end", trow[t])
  /\ m_mutex_coverting' = 0
  /\ tpc' = [tpc EXCEPT ![t] = "remove"]
  /\ UNCHANGED <<last, state, DownLoadID, owner, files, globals, requests, sdk, convert, trow,
                 tid, monitor, restarts>>

RemoveFiles(t) ==
  /\ tpc[t] = "remove"
  /\ onDisk' = onDisk \ {trow[t]}
  /\ tpc' = [tpc EXCEPT ![t] = "done"]
  /\ UNCHANGED <<table, dav, mp4, globals, requests, sdk, convert, trow, tid,
                 m_mutex_coverting, monitor, restarts>>

ConvertPackageFormat(t) ==
  Lock(t) \/ OpenFails(t) \/ MarkBegin(t) \/ RecordFails(t) \/ Play(t) \/ MarkEnd(t)
  \/ RemoveFiles(t)

(***************************************************************************)
(* DM_SetState.                                                            *)
(***************************************************************************)
PingFails ==
  /\ "pingFails" \in Env
  /\ spc = "idle"
  /\ {i \in Rows : state[i] = "begin"} # {}
  /\ doomed' = {i \in Rows : state[i] = "begin"}
  /\ doomedId' = DownLoadID
  /\ spc' = "fail"
  /\ UNCHANGED <<table, files, globals, requests, sdk, convert, threads, restarts>>

FailRow(i) ==
  /\ spc = "fail"
  /\ First(doomed, i)
  /\ state' = SetByDownloadID(state, "failed", doomedId[i])
  /\ spc' = "remove"
  /\ UNCHANGED <<last, ipcIp, DownLoadID, owner, files, globals, requests, sdk, convert,
                 threads, doomed, doomedId, restarts>>

RemoveRaw(i) ==
  /\ spc = "remove"
  /\ First(doomed, i)
  /\ onDisk' = onDisk \ {i}
  /\ doomed' = doomed \ {i}
  /\ IF doomed = {i}
     THEN spc' = "idle" /\ doomedId' = NoIds
     ELSE spc' = "fail" /\ UNCHANGED doomedId
  /\ UNCHANGED <<table, dav, mp4, globals, requests, sdk, convert, threads, restarts>>

DM_SetState == \E i \in Rows : FailRow(i) \/ RemoveRaw(i)

(***************************************************************************)
(* The program is killed and started again: rows and files stay.           *)
(***************************************************************************)
Restart ==
  /\ restarts < MaxRestart
  /\ restarts' = restarts + 1
  /\ m_DownloadID' = 0 /\ m_downloadID' = 0 /\ m_time' = Nobody
  /\ rpc'   = [r \in Requests |-> "idle"]
  /\ id'    = [r \in Requests |-> 0]
  /\ temp'  = [r \in Requests |-> 0]
  /\ reply' = [r \in Requests |-> 0]
  /\ live' = {} /\ ended' = {}
  /\ target' = [h \in Handles |-> 0]
  /\ range'  = [h \in Handles |-> Nobody]
  /\ dpc' = "select" /\ todo' = {}
  /\ seenId' = NoIds
  /\ tpc'  = [t \in Threads |-> "none"]
  /\ trow' = [t \in Threads |-> 0]
  /\ tid'  = [t \in Threads |-> 0]
  /\ m_mutex_coverting' = 0
  /\ spc' = "idle" /\ doomed' = {}
  /\ doomedId' = NoIds
  /\ UNCHANGED <<table, files>>

-----------------------------------------------------------------------------
Next ==
  \/ \E r \in Requests : CheckCount(r) \/ RequestStep(r)
  \/ \E h \in Handles : EndCallback(h)
  \/ DM_Convert
  \/ \E t \in Threads : ConvertPackageFormat(t)
  \/ PingFails
  \/ DM_SetState
  \/ Restart

Spec == Init /\ [][Next]_vars

(***************************************************************************)
(* Threads are scheduled, and the NVR finishes the downloads it started.   *)
(***************************************************************************)
Fairness ==
  /\ \A r \in Requests : WF_vars(RequestStep(r))
  /\ \A h \in Handles : WF_vars(EndCallback(h))
  /\ WF_vars(DM_Convert)
  /\ \A t \in Threads : WF_vars(ConvertPackageFormat(t))
  /\ WF_vars(DM_SetState)

FairSpec == Spec /\ Fairness

-----------------------------------------------------------------------------
TypeOK ==
  /\ last \in 0 .. MaxRow
  /\ state      \in [Rows -> {"none", "begin", "end", "failed"}]
  /\ ipcIp      \in [Rows -> {" ", "begin", "end", "failed"}]
  /\ DownLoadID \in [Rows -> 0 .. MaxHandle]
  /\ owner      \in [Rows -> Requests \cup {Nobody}]
  /\ dav \in [Rows -> {"none", "growing", "whole"}]
  /\ mp4 \in [Rows -> {"none", "partial", "whole"}]
  /\ onDisk \subseteq Rows
  /\ m_DownloadID \in 0 .. MaxHandle
  /\ m_downloadID \in 0 .. MaxHandle
  /\ m_time \in Requests \cup {Nobody}
  /\ rpc   \in [Requests -> {"idle", "login", "times", "compose", "insert", "start", "publish",
                             "format", "register", "test", "fail", "reply", "replied"}]
  /\ id    \in [Requests -> 0 .. MaxRow]
  /\ temp  \in [Requests -> 0 .. MaxHandle]
  /\ reply \in [Requests -> 0 .. MaxRow]
  /\ live \subseteq Handles
  /\ ended \subseteq Handles
  /\ target \in [Handles -> 0 .. MaxRow]
  /\ range  \in [Handles -> Requests \cup {Nobody}]
  /\ dpc \in {"select", "next", "poll"}
  /\ todo \subseteq Rows
  /\ seenId \in [Rows -> 0 .. MaxHandle]
  /\ tpc  \in [Threads -> {"none", "lock", "open", "play", "mark", "remove", "done"}]
  /\ trow \in [Threads -> 0 .. MaxRow]
  /\ tid  \in [Threads -> 0 .. MaxHandle]
  /\ m_mutex_coverting \in 0 .. MaxThread
  /\ spc \in {"idle", "fail", "remove"}
  /\ doomed \subseteq Rows
  /\ doomedId \in [Rows -> 0 .. MaxHandle]
  /\ restarts \in 0 .. MaxRestart

(***************************************************************************)
(* The count and the insert are two critical sections.  Requests that pass *)
(* the count together overshoot the limit, but never by more than the      *)
(* other requests in flight, whatever is lost, failed or restarted.        *)
(***************************************************************************)
Admitted == {r \in Requests : rpc[r] \in {"login", "times", "compose", "insert"}}

BoundedOvershoot == Cardinality(Downloading) + Cardinality(Admitted) < Limit + Cardinality(Requests)

(***************************************************************************)
(* PLAY port 0 is used by one conversion at a time, also after one failed. *)
(***************************************************************************)
PlayPortExclusive ==
  \A t, u \in Threads : tpc[t] \in {"play", "mark"} /\ tpc[u] \in {"play", "mark"} => t = u

(***************************************************************************)
(* The comment in DM_Convert: no .dav file is converted twice.             *)
(***************************************************************************)
ConvertedOnce ==
  \A t, u \in Threads : t # u /\ tpc[t] # "none" /\ tpc[u] # "none" => trow[t] # trow[u]

(***************************************************************************)
(* DM_Convert stops a download and logs its user out once the original     *)
(* file has been downloaded.                                               *)
(***************************************************************************)
StopsOnlyFinished == [][live \ live' \subseteq ended \/ restarts' # restarts]_vars

(***************************************************************************)
(* A row that counts as downloading has a download that will end it, or a  *)
(* request that has yet to start or to register it.                        *)
(***************************************************************************)
CountIsDownloading ==
  \A i \in Downloading :
    \/ \E h \in live \ ended : target[h] = i
    \/ \E r \in Requests :
         id[r] = i /\ rpc[r] \in {"start", "publish", "format", "register", "test", "fail"}

(***************************************************************************)
(* The raw file of a finished download is kept until its mp4 is complete,  *)
(* and a row is reported converted only then.                              *)
(***************************************************************************)
RawKeptUntilConverted ==
  \A i \in Rows : dav[i] = "whole" /\ (ipcIp[i] = "end" \/ i \notin onDisk) => mp4[i] = "whole"

(***************************************************************************)
(* Every recording that was begun ends up converted or failed: the         *)
(* request, the SDK, DM_Convert and its threads never wait for each other. *)
(***************************************************************************)
EveryRecordingSettles == \A i \in Rows : state[i] = "begin" ~> Settled(i)

(***************************************************************************)
(* Nobody waits in vain: as long as a recording is not settled, a request  *)
(* has yet to start, register or fail it, or its download will call back   *)
(* and find its row, or DM_Convert will come round to it, or its thread    *)
(* can take its next step.  The wait for m_mutex_coverting, the polling    *)
(* of DM_Convert and the wait for the SDK never close a circle, and no     *)
(* recording is dropped between two of them.                               *)
(***************************************************************************)
InRequest(i) ==
  \E r \in Requests :
    /\ id[r] = i
    /\ \/ rpc[r] \in {"start", "publish", "format", "register"}
       \/ rpc[r] \in {"test", "fail"} /\ m_DownloadID = 0

InDownload(i) == \E h \in live \ ended : target[h] = i /\ DownLoadID[i] = h

AwaitsThread(i) ==
  /\ i \in ToConvert
  /\ \A t \in Threads : tpc[t] # "none" => trow[t] # i
  /\ \/ dpc = "select"
     \/ dpc = "next" /\ i \in todo
     \/ dpc = "poll" /\ Converting = {} /\ \A t \in Threads : tpc[t] \notin {"lock", "open"}

InConversion(i) ==
  \E t \in Threads :
    /\ trow[t] = i
    /\ tpc[t] \in {"open", "play", "mark"} \/ (tpc[t] = "lock" /\ m_mutex_coverting = 0)

NobodyStuck ==
  \A i \in 1 .. last :
    Settled(i) \/ InRequest(i) \/ InDownload(i) \/ AwaitsThread(i) \/ InConversion(i)

(***************************************************************************)
(* The inductive invariants.  PipelineInv holds whatever the environment   *)
(* does: a request past its insert has a row, and the holder of            *)
(* m_mutex_coverting is the only thread between its lock and its unlock    *)
(* (a thread that failed to record has left that section but still holds   *)
(* the mutex).  RequestInv is what the other invariants need of requests   *)
(* that do not overlap: the globals a request goes through are its own for *)
(* as long as it needs them.                                               *)
(***************************************************************************)
HasRow(r) ==
  rpc[r] \in {"start", "publish", "format", "register", "test", "fail", "reply", "replied"}

PipelineInv ==
  /\ TypeOK
  /\ \A r \in Requests : HasRow(r) => id[r] \in 1 .. last
  /\ \A t \in Threads : tpc[t] \in {"open", "play", "mark"} => m_mutex_coverting = t

SingleRequest == \A q, r \in Requests : Free(q) \/ Free(r) \/ q = r

OwnGlobals(r) ==
  /\ rpc[r] \in {"compose", "insert", "start"} => m_time = r
  /\ HasRow(r) /\ ~Free(r) => id[r] = last /\ owner[last] = r
  /\ rpc[r] = "format" => m_downloadID = m_DownloadID
  /\ rpc[r] = "register" => temp[r] = m_downloadID
  /\ rpc[r] \in {"test", "reply"} => DownLoadID[id[r]] = m_downloadID

RequestInv ==
  /\ SingleRequest
  /\ \A r \in Requests : OwnGlobals(r)
  /\ \A h \in live : target[h] \in 1 .. last

(***************************************************************************)
(* What makes a recording be converted once, when requests do not overlap, *)
(* sleep(10) is long enough and the NVR answers pings: only the row        *)
(* inserted last may still be downloading or waiting for its conversion,   *)
(* only its download may not have ended, and it is found by its handle as  *)
(* long as somebody looks for it.  Until its row is marked, DM_Convert     *)
(* waits for the conversion thread it has started.                         *)
(***************************************************************************)
Taken(i) == state[i] = "failed" \/ (state[i] = "end" /\ ipcIp[i] # " ")

RowsInOrder ==
  /\ \A i \in Rows : i > last => state[i] = "none" /\ ipcIp[i] = " "
  /\ \A i \in Rows : i < last => Taken(i)
  /\ \A i \in Rows : state[i] = "failed" => DownLoadID[i] = 0
  /\ \A i \in Rows : state[i] = "end" => DownLoadID[i] # 0
  /\ \A i \in Rows : ipcIp[i] # " " => state[i] = "end"
  /\ Admitted # {} => \A i \in 1 .. last : Settled(i)

OneDownload ==
  \A h \in live \ ended :
    /\ h = m_DownloadID /\ target[h] = last
    /\ last > 0 /\ state[last] = "begin" /\ last \in onDisk
    /\ \A r \in Requests : rpc[r] # "start"
    /\ DownLoadID[last] = h \/ \E r \in Requests : rpc[r] \in {"publish", "format", "register"}

OwnDownload(r) ==
  /\ rpc[r] = "start" => state[last] = "begin"
  /\ rpc[r] \in {"publish", "format", "register"} =>
       state[last] = "begin" \/ (state[last] = "end" /\ DownLoadID[last] = m_DownloadID)
  /\ rpc[r] = "register" => temp[r] = m_DownloadID
  /\ rpc[r] = "test" => DownLoadID[last] = m_DownloadID /\ state[last] \in {"begin", "end"}
  /\ rpc[r] = "fail" => m_DownloadID = 0 /\ DownLoadID[last] = 0 /\ state[last] = "begin"

SelectedRows ==
  /\ dpc # "next" => todo = {}
  /\ \A i \in todo :
       /\ i = last /\ i \in ToConvert /\ seenId[i] = DownLoadID[i]
       /\ \A t \in Threads : tpc[t] # "none" => trow[t] # i

OwnRow(t) ==
  /\ tpc[t] # "none" => trow[t] \in 1 .. last
  /\ tpc[t] \in {"lock", "open"} =>
       dpc = "poll" /\ trow[t] = last /\ last \in ToConvert /\ tid[t] = DownLoadID[last]
  /\ tpc[t] \in {"play", "mark"} => trow[t] = last /\ last \in Converting
  /\ tpc[t] \in {"remove", "done"} => ipcIp[trow[t]] # " "
  /\ m_mutex_coverting = t =>
       \/ tpc[t] \in {"open", "play", "mark"}
       \/ tpc[t] = "done" /\ trow[t] = last /\ last \in Converting

\* The files, when a conversion that fails is noticed.
FilesInOrder ==
  /\ \A i \in Rows : state[i] = "end" => dav[i] = "whole"
  /\ "mp4Fails" \notin Env =>
       /\ \A t \in Threads : tpc[t] \in {"mark", "remove"} => mp4[trow[t]] = "whole"
       /\ RawKeptUntilConverted

\* The count, when handles are stored before downloads end and the program
\* is not killed.
CountInOrder ==
  "earlyEnd" \notin Env /\ MaxRestart = 0 /\ last > 0 /\ state[last] = "begin" =>
    \/ \E r \in Requests : rpc[r] = "start"
    \/ /\ m_DownloadID = 0
       /\ \E r \in Requests :
            rpc[r] \in {"publish", "format", "register", "test", "fail"}
    \/ m_DownloadID \in live \ ended

ConversionInv ==
  /\ spc = "idle"
  /\ RowsInOrder
  /\ OneDownload
  /\ \A r \in Requests : OwnDownload(r)
  /\ SelectedRows
  /\ \A t \in Threads : OwnRow(t)
  /\ ConvertedOnce
  /\ FilesInOrder
  /\ CountInOrder

(***************************************************************************)
(* What NobodyStuck needs besides, when nothing can fail between the two   *)
(* updates of a conversion and each download has a number of its own: the  *)
(* rows before the last are settled for good and the last has begun,       *)
(* DM_Convert never holds an empty selection, and a row under conversion   *)
(* has its thread.                                                         *)
(***************************************************************************)
ProgressInv ==
  /\ \A i \in Rows : i < last => Settled(i)
  /\ last > 0 => state[last] # "none"
  /\ dpc = "next" => todo # {}
  /\ last \in Converting => \E t \in Threads : tpc[t] \in {"play", "mark"}

(***************************************************************************)
(* Refinement: the phase of a recording, as the two columns tell it.       *)
(***************************************************************************)
Phase(i) ==
  CASE state[i] = "none"                       -> "none"
    [] state[i] = "begin"                      -> "downloading"
    [] state[i] = "end" /\ ipcIp[i] = " "      -> "stored"
    [] state[i] = "end" /\ ipcIp[i] = "begin"  -> "converting"
    [] state[i] = "end" /\ ipcIp[i] = "end"    -> "converted"
    [] state[i] = "failed" \/ ipcIp[i] = "failed" -> "failed"

Life == INSTANCE Recording
          WITH Recordings <- Rows, phase <- [i \in Rows |-> Phase(i)]

\* The rows, which are updated by the handle of their download and by three
\* kinds of threads, live the independent lives of the abstract recordings.
ImplementsRecording == Life!Spec

=============================================================================
