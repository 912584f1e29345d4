# Formal verification of NvrControl

NvrControl is the server that drives a cinema's network video recorder (NVR).
A theatre management system calls its SOAP interface to download the
recording of a hall and a time range, to change camera settings and to set the
NVR's clock.  The program is `src/NvrControl/NvrControl` (`main.cpp` and what
its Makefile builds); the sources are GBK encoded and line numbers below are
those of the files as they are.

This directory holds TLA+ modules that model the program, TLC configurations
that check them on small instances, and proofs checked by TLAPS for every
value of the constants.

    tlc -workers 2 -config MCThreadPool.cfg MCThreadPool
    tlc -workers 2 -config MCCameraSettings_shared.cfg MCCameraSettings
    tlapm TableAccessProofs.tla

## Inventory

| Component | State | Operations | What is hard |
|---|---|---|---|
| **Worker pool and SOAP server** (`threadManage/`, `webservice/C_SoapServer.cpp`) | per worker: `m_iState`, `m_iResumeCount`, `m_iRunType`, `m_pGsoap`, `m_bQuit`; the array `csoapSon[]`; the cursor `m_itIdl` | `suspend`, `resume`, `IsIdlState`, `GetIdlThread`, the accept loop, `process_request`, `DeInit` | a condition variable without a predicate loop; two mutexes for one state field; slots filled and cleared without a lock; shutdown while requests run |
| **Download and conversion** (`downloadControl/`, `mons__DownLoadByTime`) | table `downLoad`; globals `m_DownloadID`, `m_start_time`, `m_end_time`, `g_Download.m_downloadID`; `m_mutex_checking`, `m_mutex_coverting`; `.dav` and `.mp4` files | `DM_DownLoadByTime`, `DownLoadPos`, `DM_Convert`, `ConvertPackageFormat`, `DM_SetState` | four kinds of threads meet in table rows found by an SDK handle that is stored late; requests pass data through globals; crashes leave rows behind |
| **NVR session** (`Nvr/Nvr_Control.cpp`) | `g_nvrcontrol.m_lLoginHandle`, used by downloads and time control; a handle of their own in camera operations; the process-wide SDK | `DM_Login`, `DM_Logout`, `DM_InitSDK`, `DM_Cleanup` | one handle for the logins of all downloads; `DM_Logout` ignores its argument; the SDK is cleaned up under running downloads; early returns that do not log out |
| **Camera settings** (`ipcControl/`) | table `ipc`; the NVR's encoder configuration | `DM_SetIpcInfo`, `DM_GetIpcInfo`, `DM_GetIpcVedioQuality`, `DM_SetIpcVedioQuality`, `DM_GetIpcResoluRatio`, the resolution tables | two tables that must be inverse of each other; a lookup whose failure is ignored and becomes channel 0; sessions that other operations end under way |
| **Database access** (`database/pub.cpp`, `Download_Table.cpp`, `ipcControl_Table.cpp`) | a connection per statement; `m_download_column_value_map` | `Connect`, `MysqlQuery`, `DisConnected`, the table functions | retries of statements that may have been executed; a map that all selects share; a mutex held during minutes of retries; callers that ignore failure |
| **Time control** (`timeControl/`) | the NVR's clock, the NTP server | `DM_Init`, `DM_Release`, `GetSystemTime`, `SetSystemTime`, `SetNvtServer` | logs in and out with the handle of the downloads in progress |
| **SOAP operations** (`webservice/C_SoapFunction.cpp`) | none of their own | `mons__...` | run on a worker each and therefore beside each other |
| **Start-up** (`main.cpp`) | the configuration globals | `readValue`, thread creation | the web service starts before the SDK is initialised and the globals are loaded |
| **Timed tasks** (`timeTask/`) | `C_Task::m_iTaskState`, the task list | `AddTask`, `GetIdleTask`, `DeleteTask`, `RunTasks`, `Exec` | linked, but nothing in the program adds a task |
| **Error log** (`log/`) | one open file per day | `WriteLog`, `ReInitLog` | the switch at midnight, which nothing calls |
| Configuration, file manager | - | ini parsing, shell and file system calls | not modelled: sequential text processing and pure I/O |

Components interact through calls inside one thread (a SOAP operation runs on a
worker and calls the download, camera or time component), through callbacks on
SDK threads (`DownLoadPos`), through the database, through globals, and through
the SDK, of which there is one for the process.

The hazards this code is exposed to are listed in `PROJECT.json`, each at its
line with the properties that would catch it.

## Modules

| Module | Models |
|---|---|
| `ThreadPool` | the worker pool and the accept loop |
| `RequestService` | what the web service promises its clients; `ThreadPool` implements it |
| `DownloadPipeline` | the life of a recording, from the request to the mp4 |
| `ConcurrentDownloads` | `DownloadPipeline` with histories: how far requests and recordings under way together confuse each other |
| `Recording` | what the download service promises about a recording; `DownloadPipeline` implements it |
| `NvrSession` | who is logged in at the NVR, and with which handle |
| `SharedSession` | `NvrSession` with histories: whose session is lost when everything overlaps |
| `DownloadSession` | what a download expects of its session; `NvrSession` implements it |
| `TableAccess` | one statement with its retries, and the copying of selected rows |
| `Statement` | what a call of a table function promises; `TableAccess` implements it |
| `CameraSettings` | cameras, channels and their encoder configurations |
| `...Proofs` | TLAPS proofs about the module of that name; `ServiceProofs` continues those of `ThreadPool`, `ConversionProofs` those of `DownloadPipeline`, and `NvrSessionProofs` includes those about `SharedSession` |
| `MC...` | instances for TLC: symmetry sets and small sets of values; the `.cfg` files give the constants |

The modules divide the program along its shared state.  `DownloadPipeline`
keeps the table and the files, `NvrSession` follows the same requests with
nothing but their handles and logins, `TableAccess` opens up what the others
take as one step: a database statement.

`Env` in four of the modules is the set of hazards an instance is exposed to:
what the environment may do, or what clients may do at an unfortunate moment.
A property is checked and proved for every `Env` without the hazards that
break it; which these are is said below, module by module.  They were found
with TLC, one hazard at a time.  Some of them are no accident but ordinary use:
nothing in the program keeps two requests apart.  For those, two modules of
their own (`ConcurrentDownloads`, `SharedSession`) state what still holds when
they are allowed.

Operators whose comment starts with "Mutant" belong to no next-state relation.
Each is an action or an operator with a plausible mistake in it; put in the
place of the original it must make TLC report the property it is listed with
in `PROJECT.json`.

### ThreadPool

State variables carry the names of the fields they model.  A worker is a
position in `m_ThreadDataList`; `wpc[w]` is its control point in `Threadfunc`,
`suspend` or `process_request`.  `csoapSon[s]` is `"NULL"`, `"open"` or
`"freed"` (the context was freed and the pointer not yet cleared);
`slotClient[s]` is the connection the context carries.  `m_itIdl = N` is
`m_ThreadDataList.end()`.

Steps are chosen where other threads can interfere.  `suspend` is two steps:
`Suspend` makes the new state visible to `IsIdlState`, which uses another mutex
(`m_CS`), and `Park` blocks; `Resume` needs `m_ThreadCS`, so it waits while the
worker is between them.  `process_request` is four steps (serve, free, clear
the slot, reset the worker).  `GetIdlThread` examines one worker per step.
`DeInit` is modelled to the end, although `main` can not reach it today, because
it is the only code that stops the pool.  `GetFinishThread`, `GetTimeoutThead`
and `GetThreadData` have no caller and are left out.  A worker that reaches the
last branch of `Threadfunc` dereferences the NULL `m_pTask`; it becomes
`"crashed"` and the program stops.  When `soap_copy` fails the code goes on
without closing the connection (`CopyFails`): that client is never answered, which
breaks `NobodyForgotten` and the liveness of the service and nothing else.

`RequestService` is the abstract specification: clients connect and are
accepted; a server commits to a client nobody else has committed to and
answers it once; a client nobody has committed to may be refused; every
accepted client is settled.  `ThreadPool` implements it with `serving` mapped to
the client of the slot a worker was handed, until the answer is sent.

### DownloadPipeline

A row of the table is an index into `state`, `ipcIp` and `DownLoadID`, the
columns that steer the pipeline (`ipcIp` is used by the code to track the
conversion).  A database statement is one step and succeeds, so does a section
under `m_mutex_checking`.  The two globals `m_start_time` and `m_end_time` are
one variable that says whose range they hold.  `live` and `ended` are the SDK's
downloads not yet stopped and those whose end was called back.

`rpc[r]` is the control point of a pool thread in `mons__DownLoadByTime`; the
order of its actions is that of the code: count, log in, set the range, compose
the row from the *previous* handle (`Compose`), insert, start the download, copy
the handle to `g_Download` (`Publish`), read the global again to format the
update (`Format`), store it in the row (`Register`), test it, look the row up for
the reply.  A camera that is not found (`DownloadControl.cpp:239-247`) ends the
request before it changes anything.  The program serves a request whenever one
comes; `Arrives`, which is the clients' part and not code, keeps requests apart in
the instances without `overlap` and `concurrent`.  `DM_Convert` works
on a snapshot (`todo`, `seenId`), starts a detached thread per row and polls;
`DM_SetState` works on a snapshot too (`doomed`, `doomedId`).

| Hazard | What happens | What no longer holds |
|---|---|---|
| `overlap` | a request while another one is being served | `CountIsDownloading`, `ConversionInv`, `NobodyStuck`, `ConvertedOnce`, `RawKeptUntilConverted`, `EveryRecordingSettles`, `ImplementsRecording`, `StopsOnlyFinished` |
| `concurrent` | a request while an earlier recording is not settled | the same but `CountIsDownloading` and `ConvertedOnce` |
| `loginFails`, `startFails` | the NVR refuses | - |
| `earlyEnd` | a download ends before its handle is stored | `CountIsDownloading`, `NobodyStuck`, `EveryRecordingSettles` |
| `slowThreads` | `sleep(10)` is shorter than the start of a thread | `ConversionInv` and what follows from it: `ConvertedOnce`, `RawKeptUntilConverted`, `StopsOnlyFinished`, `ImplementsRecording`; `NobodyStuck`, `EveryRecordingSettles` |
| `recordFails` | `startConvert` fails, the mutex stays locked | `NobodyStuck`, `EveryRecordingSettles` |
| `mp4Fails` | `covertavitomp4` fails, its result is ignored | `RawKeptUntilConverted` |
| `pingFails` | `DM_SetState` finds the NVR unreachable | the same as for `slowThreads` |
| `handleReuse` | the SDK hands out the handle of a stopped download | `ImplementsRecording`, `NobodyStuck`: the row of the old download is marked 'begin' again |
| restarts | the program is killed | `CountIsDownloading`, `ImplementsRecording`, `NobodyStuck`, `EveryRecordingSettles` |

It is the map of what the code relies on: a request must not overlap an
unsettled recording, and no step of a conversion may fail.  `PipelineInv`,
`BoundedOvershoot`, `PlayPortExclusive` and the properties of
`ConcurrentDownloads` hold with every one of them, the two of these that follow
handles (`NoStaleReply`, `StopsOnlyStale`) as long as handles are not reused and
the program is not restarted.

`Recording` is the abstract specification: every recording goes through
none, downloading, stored, converting, converted, or is given up as failed,
alone, and never stops half-way.  `DownloadPipeline` implements it with the phase
read from the two columns.

### ConcurrentDownloads

The code allows 18 downloads at a time and serves requests beside each other,
but passes handle and time range through globals and inserts a row with the
handle of another download.  `ConcurrentDownloads` adds three histories to
`DownloadPipeline`, changes none of its steps, and says how far the confusion
reaches:

- `UndisturbedRequest`: a request that no other was in flight with from its
  count to its reply (`alone`) reads from the globals what it wrote, records its
  own range and is answered with its own row, though other requests overlapped
  before it came, wait in the pool after it, and their recordings go on under it.
- `NoStaleReply`: a request that was overtaken may be answered with the row of
  the other, but never with a recording whose request had ended before it
  arrived (`before`).
- `StopsOnlyStale`: `DM_Convert` stops a download in progress only for a row that
  was inserted with the handle of a download in progress (`stale`); TLC shows in
  the run `download_stop` that it does.

### NvrSession

`sessions` are the handles logged in at the NVR, `m_lLoginHandle` is the field
of the one `g_nvrcontrol`, `own[r]` that of the `NvrControl` a camera operation
creates.  A request is a download (`DownloadLogin` to `Start` or
`LogoutFailed`), a change of the download speed, the `DInit` and `DRelease` of
a client of time control, or a camera operation with its ping, login, queries,
logout and `CLIENT_Cleanup`.  A row of the table is reduced to its column
`loginHandle`, the session its download was really started in (`uses`) and how
far it is (`phase`).  `DM_Login` is two steps, since it reads the shared handle
again to see whether it succeeded.  The web service runs before `InitSDK`, and
a camera operation may initialise the SDK first.

Of the SDK, which is not part of the repository, the module assumes what the
code takes for granted: `CLIENT_Login` returns a handle that is not in use, or 0
when it refuses or the NVR's sessions are used up; `CLIENT_Logout` of a handle
that is not logged in does nothing; `CLIENT_Cleanup` ends every session of the
process; a download whose session was ended never finishes.

| Hazard | What happens | What no longer holds |
|---|---|---|
| `overlap` | two requests at a time | every property of the module but `TypeOK` |
| `strayRelease` | a client calls `DRelease` without `DInit` while recordings are fetched | `SessionInv`, `DownloadKeepsSession`, `ImplementsDownloadSession` |
| `failDuringDownload` | a conversion fails while another recording is fetched (`DownloadControl.cpp:952`) | the same |
| `cameraDuringDownload` | a camera operation while recordings are fetched | the same |
| `loginFails`, `startFails`, `queryFails` | the NVR refuses | - |

Without those four, several recordings may still be fetched at a time, logins
fail, the NVR run out of sessions, and conversions end in any order.
`NoSessionLeak` names the one early return that leaves a session behind
(`DM_GetIpcResoluRatio`, `ipcControl.cpp:461-467`) in the history variable `left`.

`SharedSession` allows everything.  It adds the histories `alone`, as above, and
`sound`, the recordings that were logged in and started by a request that was
alone and have kept their session since.  `LossHasCause` says that such a
recording loses its session in five ways only (`Harm`): a camera operation cleans
up the SDK; a conversion fails and logs out again; a client calls `DRelease`
without `DInit`; `DM_Convert` finishes a recording that was itself not sound, whose
row may name any session; a request that overlapped another logs out.  So a
request that was alone harms nobody, nor does the normal end of its recording.
This one is proved and has no run.

`DownloadSession` gives each recording a session of its own, open from the
moment its row is written until it was fetched or refused.

### TableAccess

A call of a table function is `Connect`, `MysqlQuery`, the fetching of rows and
`DisConnected`, with `tries` and `rounds` the two loop counters of `pub.cpp`.
A query that fails may have been executed or not (`AnswerLost`, `QueryFails`).
A select allocates an empty item for each row, stores the addresses of its
fields in `m_download_column_value_map` one column after the other and copies
the row through that map: `map[c]` is the item column `c` points to by now, and
`item[t][i][c]` is the row whose column the item really holds.  `Locked` are the
threads that make their call under `m_mutex_checking`; the reply of
`mons__DownLoadByTime` does not.

`FetchedWhole` says that every row in the list a select hands out is complete and
is the row it should be, unless another thread fetched at the same time and one of
the two did not hold the mutex (`overlapped`).  It holds also for a list that a
lost connection has cut short (`fetchFails`), which the code takes for the end of
the rows.  The reply of `mons__DownLoadByTime`, which lacks the mutex, does mix up
rows with the threads it meets; the theorem covers every set `Locked`, while the
run has readers under the mutex only.

It is assumed that `mysql_init` returns a connection.  A caller may delete its
list while the map still points into it, and another one without the mutex
writes there: a use of freed memory, modelled as a column that is lost.  No
property depends on what becomes of it.

`Statement` is the abstract call: executed only while it is under way, reported
successful only after that; a failed call may have been executed any number of
times.

### CameraSettings

`ipc` is the table as the list of rows `DM_SetIpcInfo` inserted (it inserts one
for every call); the select of `DM_GetIpcInfo` copies all rows of a camera into
one item, so the last one counts.  `config[c]` is the encoder configuration of
a channel at the NVR.  A request looks up its channel, pings, logs in, asks for
the protocol and the video standard, then sets or gets the configuration, logs
out and cleans up the SDK, which ends the sessions of every other request
(`own`).  A resolution is its index in `rsName`; `ResolutionSizetoInt` and
`ResolutionInttoSize` are the two tables, which depend on the standard.

Four things the code does are kept as they are.  The result of `DM_GetIpcInfo`
is overwritten, so a camera without a row works on channel 0.  `emCompression`
is set from names with the prefix `VIDEO_FORMAT_` and reported without it.  A
resolution name that is not known sets 0 x 0 and reports failure.  If the NVR
does not tell its standard, PAL is taken.

`CLIENT_PacketData` is assumed to succeed.  `standardFails` breaks
`SuccessMeansSet`; the other hazards break nothing.

## Runs

| Run (`.cfg`) | Instance | What it checks and shows |
|---|---|---|
| `pool` (`MCThreadPool.cfg`) | 2 workers, 2 contexts, 2 clients that come back, shutdown at any moment | `PoolInv`, `WorkerProtocol`, `NobodyForgotten`; under fairness `SearchReturns`, `ShutdownCompletes` and `ImplementsService`: every accepted client is answered or refused |
| `pool_spurious` | the same with spurious wakeups and failing `soap_copy` | `SlotOwnership`, `NoUseAfterFree`, `NoLostWakeup`, `ShutdownInOrder`, `ImplementsSafeService`: even then no context is shared or used after it was freed, no resume is lost, nobody is answered twice, and `DeInit` deletes a worker only after it left |
| `pool_hang` (violation) | 2 workers, 3 contexts, 3 clients, services that may never return | `FullPoolReported` fails: `GetIdlThread` started with its cursor on the first worker goes round for ever instead of returning `ERROR_THREAD_LIST_FULL` |
| `download` (`MCDownloadPipeline_sequential.cfg`) | 2 requesters one at a time, 3 rows, refused logins and failed starts | `CountIsDownloading`, `ConversionInv`, `NobodyStuck`; under fairness `EveryRecordingSettles` and `ImplementsRecording` |
| `download_faults` | 1 requester that does not wait for its recordings, 2 rows, limit 2, handles that do not fit `%d`, everything that fails in the table above | `PipelineInv`, `PlayPortExclusive` |
| `download_overlap` (`MCConcurrentDownloads_overlap.cfg`) | 2 overlapping requesters, 3 rows, recordings in progress together, handles that do not fit `%d` | `BoundedOvershoot`, `UndisturbedRequest`, `NoStaleReply`, `StopsOnlyStale` |
| `download_restart` | 3 rows, 3 threads, 1 restart, reused handles that do not fit `%d`, failed conversions | `ConversionInv`, `ConvertedOnce`, `RawKeptUntilConverted`, `StopsOnlyFinished` |
| `download_duplicate` (violation) | 1 row, 2 conversion threads, `slowThreads` | a row is converted twice |
| `download_stop` (violation) | 1 requester, 2 rows, limit 2 | a download in progress is stopped |
| `session` (`MCNvrSession_quiet.cfg`) | 2 requesters one at a time, 2 rows, 3 sessions; logins, starts and queries fail | `SessionInv`, `DownloadKeepsSession`, `NoSessionLeak`; under fairness `SessionsEnd`; `ImplementsDownloadSession` |
| `table` (`MCTableAccess_retry.cfg`) | 2 selects under the mutex (`DM_Convert`, `DM_SetState`) of 2 rows with 3 columns and an update without it; 2 retries; connections, queries and fetches fail, answers are lost | `TableInv`, `RepeatedOnlyUnanswered`, `FetchedWhole`, `ImplementsStatement`; under fairness `MutexReleased` |
| `camera` (`MCCameraSettings_shared.cfg`) | 2 requests side by side, 2 cameras, channels 0 and 1, a setting that depends on the standard and one with an unknown name | `CameraInv`, `ReadsWhatWasSet`, `SuccessMeansSet`, `OnlyOwnChannel` |

### Bounds

- Two workers and two slots are the least for which a cursor can wrap, one
  worker can be busy while another is idle, and two slots can be confused.
  Clients come back, so each slot and each worker is used again.  `pool_hang`
  needs a third client because two keep both workers busy.
- Two requesters are enough for every pairwise race on the globals.  Two rows
  are the least for a row to be found by another row's handle; the sequential,
  the restart and the overlap runs have a third, so that a row follows a failed
  one and is followed by one that starts, and so that a request which is alone
  comes after two that overlapped.
- Each row needs at most one handle and, when nothing is selected twice, one
  conversion thread: `MaxHandle` and `MaxThread` equal `MaxRow`.  The violation
  of `ConvertedOnce` needs one thread more.  `download_overlap` has a single
  thread, since its properties are about requests.
- `Limit` is 1 (18 in the code) so that two requests already meet it; where one
  requester has two recordings in progress, in `download_faults` and
  `download_stop`, it is 2.
- `IntRange` is 2 in `download_faults`, `download_overlap` and
  `download_restart`, so that `"%d"` changes handles 2 and 3; elsewhere it is
  larger than any handle.
- One restart separates rows left by a killed program from new ones.
- In `session` two recordings take two of three sessions; with the third
  another operation runs beside them, and a session left behind makes the next
  login meet the limit.
- In `table` with two rows a select must not leave a column of the first in the
  second, nor one reader's in another's list; the three columns let a reader be
  interrupted both while it maps and while it stores.  With two retries a
  statement is repeated and a retry fails for good; the code has 30.
- In `camera` two rows of `ipc` map a camera twice or two cameras to channels
  of each other.  The tables themselves are not scaled down: all 32 resolutions
  in both standards are in the module, and the proof compares every pair.

When a bound is reached no new request, row, handle or thread appears and the
system comes to rest; that is why the download and session runs do not check for
deadlock.  `pool` and `pool_spurious` do not because the pool ends after its
shutdown or with a crash.  `pool_hang`, `table` and `camera` do check it.

### Claims that fail and are not run

These follow directly from the code and contradict nothing that the repository
says of itself, so they are no findings:

- Overlapping requests exceed the limit itself (`BoundedOvershoot` says by how
  much), and `DM_SetState` sets a download to failed that has ended since it
  took its snapshot.
- A request that overlaps another one may download the other's time range: the
  second overwrites `m_start_time` and `m_end_time` (`DownloadControl.cpp:383-396`)
  before the first has passed them to the SDK (718), and it may be answered with
  the other's row (720, `C_SoapFunction.cpp:79`).  `UndisturbedRequest` and
  `NoStaleReply` say who is safe from this.
- The four hazards of `NvrSession` end sessions of downloads in progress.
- A camera request whose session is ended before it asked for the protocol
  falls into the branch for older devices, which knows no channels, and reports
  success though nothing was set (`ipcControl.cpp:791-803`, `895-967`).
- The reply of `DM_GetIpcVedioQuality` names a configuration that could not be
  read D1, and cannot be given back to `DM_SetIpcVedioQuality`, which wants the
  prefix of the code mode; the bit rate is stored in the flag `abBitRate` (838).

## Fairness

`ThreadPool`: every worker, the accept loop and `DeInit` are scheduled
(`Scheduling`), `soap_accept` returns when a connection is pending, and a
service call returns (`ServiceEnds`: gSOAP's send and receive timeouts are set
to 5 seconds, `C_SoapServer.cpp:33-34`).  No fairness is assumed of clients, of
spurious wakeups, of allocation failures or of the shutdown.  The run
`pool_hang` drops `ServiceEnds`, because an operation may wait for the NVR
without a timeout.

`DownloadPipeline`: requests, `DM_Convert`, conversion threads and `DM_SetState`
are scheduled, and the NVR ends the downloads it started.  New requests,
failures and restarts are never forced.

`NvrSession`: `main` gets to `InitSDK`, a request that was begun is served, the
NVR ends the downloads whose session lives, and `DM_Convert` and the conversion
threads are scheduled.  Nothing makes a client send a request or call
`DRelease`: `SessionsEnd` excepts the session of a client that does not.

`TableAccess`: a call that was begun goes on, since `mysql_query` and
`mysql_real_connect` return in the end.  Nothing is assumed of who gets the
mutex, and the database may fail for ever.

`CameraSettings` has safety properties only and needs no fairness.

## Proofs

The proofs hold for every number of workers, contexts, clients, requests, rows,
handles, threads, restarts, columns, retries, cameras and channels.  They assume
no more than the named assumption of the module on its constants
(`PoolAssumption`, `PipelineAssumption`, `SessionAssumption`,
`TableAssumption`, `CameraAssumption`: the bounds are numbers, the value that
stands for nobody is no thread), which TLC evaluates in the runs, and what each
theorem says of `Env`.

**ThreadPoolProofs.**  The safety properties are not inductive: that a slot has
one owner depends on which worker the accept loop has locked and on what was
assigned to it.  There are three inductive invariants.  `SlotInvariant` proves
`SlotInv` whatever happens, spurious wakeups included: a worker that was woken
too early runs beside its dispatcher and may crash, but its run type, context and
quit flag still are one of three combinations, it is only ever taken before it has
looked at them, and every slot keeps its one owner.  `SlotsOwned` and
`ServedContextsOpen` follow from it, so they need no assumption.  On it rests
`WakeInvariant`, which is unconditional too: only a worker whose resume count is
armed shows itself idle, and nobody but its dispatcher ends its lock;
`WakeupsKept` follows.  `PoolInvariant` proves the stronger `PoolInv`, which says
for each worker which values its state, resume count, run type and context can
have at each control point, both while it is locked by a dispatcher and after.  It assumes `~SpuriousWakeups`, because
`suspend` waits without a predicate loop: a worker woken unasked finds run type
2 and dereferences NULL, so that `WorkersFollowProtocol`, which follows from
`PoolInv`, does not hold otherwise.  The proofs go by thread (`WorkerKeepsInv`,
`AcceptKeepsInv`, `DeInitKeepsInv` for `PoolInv`), then by action.

`ThreadPoolProofs` ends with the shutdown.  `DeInit` counts rounds of its search, not workers.
`ShutdownInv` says besides `ShutdownInOrder` that nobody is told to quit before
the workers are collected and that QUIT_STATE is the last thing a worker says;
with `SlotInv`, by which the worker a search returned had not been told yet,
the number of workers told equals the counter, and when it reaches `N` they are
all (`CollectedFinite`).  `ShutdownOrdered` holds for every value of the constants.

**ServiceProofs.**  A worker serves the client of its context from the moment its
run type and context are assigned until it answers.  `ServiceInv` says that this
client is still waiting, that no other worker serves it, and that the client the
accept loop is finding a worker for is served by nobody and sits in the context
the loop has filled.  It rests on `SlotInv`, which says who owns the context.  In
the refinement `AssignRequest` is the commitment of a server, `SoapServe` the
answer, and the early ends of the accept loop (no free context, no worker) the
refusals; every other step leaves clients and commitments alone, which has one
lemma per group of actions.  `PoolImplementsService` is the result, for every
value of the constants.

`AcceptedAttended` is the other direction, `NobodyForgotten`: whoever was accepted
and not settled is in the hands of the accept loop or of a worker
(`ClientsInHand`, which has the same lemmas by group of actions), and by
`WakeInv` that worker runs or is about to be resumed by the loop.  It assumes
`~CopyMayFail`, since a failing `soap_copy` loses the client.

**DownloadPipelineProofs.**  `PipelineInvariant` holds for every `Env`, that is
whatever overlaps, fails or restarts.  Besides the types it says that a request
past its insert has a row, and that a conversion thread between its lock and its
unlock is the holder of `m_mutex_coverting`; `PlayPortNeverShared` follows.
`OvershootBounded` is inductive given the types: a request is admitted only
below the limit, and an insert turns one admitted request into one row, so the
sum of both cardinalities never exceeds the limit less one plus the number of
requests.  The
lemma `RequestInvariant`, which the proofs of the next module rest on, says without
`overlap` that the globals belong to the one request in flight between the points
where it writes and reads them.

**ConcurrentDownloadsProofs.**  `RequestsUndisturbed` holds for every `Env`: rows
have owners, a request that is alone knows every other one to be free, and no
other step writes the globals.  `RepliesNotStale` and `EarlyStopsAreStale` hold
for every `Env` in which the SDK numbers its downloads, without restarts
(`Numbered`).  Then a handle found anywhere is one that was given out
(`HandlesGiven`), so one that is given out now is in no row.  From this,
`BeforeInv` says that the rows whose requests ended before a request came carry
none of the handles it can find in the globals once its own download has
started; and `StaleInv` says that a row in state 'end' carries the handle of a
download that has ended, unless it was inserted with the handle of one in
progress.  Neither assumption can be left out: with reused handles an old row is found
by the handle of a new download, and TLC finds both properties violated; after a
restart the old handles are given out again, and the restart itself ends the
downloads in progress.

**ConversionProofs.**  That a recording is converted once is not inductive: it
rests on who may still find its row.  `ConversionInv` says, with
`OneByOne` (neither `overlap` nor `concurrent` in `Env`) and without
`"slowThreads"` and `"pingFails"`, that all rows but the
last are settled or taken up, so that an update by a stale or reused handle can
hit no other row that is still waiting; that the only download not ended is the
last row's; that what `DM_Convert` has selected is that row, in no thread's hands
yet; and that a thread between its start and its last update has it, while
`DM_Convert` polls.  It includes what the files look like, for a conversion that
does not ignore failures, and who stands behind a counted row, for a program that
is not killed.  The proof has a lemma per action; `Busy` and `NothingUnsettled`
say why two of the threads cannot meet.  `ConvertsOnce`, `RawFilesKept`,
`CountsOnlyDownloads` and `StopsFinishedDownloads` follow, each with the
assumptions of its property in the table above.  They are theorems about clients
that wait for their recordings; what is left of the last one otherwise is
`EarlyStopsAreStale`.  `RecordingsImplemented` is the
safety part of `ImplementsRecording`: with handles the SDK gives out once
(`NumberedDownloads`) an update by handle changes one row, and each step is a
step of `Recording` or changes no phase.

`NobodyWaitsInVain` is the safety core of `EveryRecordingSettles`: an unsettled
recording always has a request, a download, `DM_Convert` or a thread that can take
its next step (`NobodyStuck`), so that what is left to TLC is that those steps are
taken.  Besides `ConversionInv` it needs `ProgressInv`: rows before the last are
settled, the last has begun, `DM_Convert` never holds an empty selection, and a
row that is marked as being converted has its thread.  It is proved without the
hazards that break it in the table above (`overlap`, `concurrent`, `earlyEnd`, `slowThreads`,
`recordFails`, `pingFails`, `handleReuse`, restarts); TLC finds a violation with
each of them, so none of these assumptions can be left out.

**NvrSessionProofs.**  `SessionTypeCorrect` and `LossesHaveCauses` hold for every
`Env`, the rest without the four hazards that end other people's sessions
(`OneAtATime`).  That a download
keeps its session is not inductive: it depends on what `m_lLoginHandle` is when
somebody logs out.  `SessionInv` says that the handles of the recordings being
fetched are logged in and differ, and that while a request still needs the
shared handle it is its own row's or nobody's.  `DownloadsKeepSession`, `NoLeak`
and the refinement `SessionsImplementDownloadSession` follow, the last with a
step of `DownloadSession` for each step of a row.

`LossesHaveCauses` is `LossHasCause` of `SharedSession`, with everything allowed.
Its invariant is `SharedInv`: a sound recording has its session and no other
sound one has the same (`Kept`), and while a request is alone `m_lLoginHandle` is
its own row's or 0 and no sound recording of another request has it
(`HasItself`).  It is the same argument made for one request instead of all: what
the others do before and after does not matter, as long as nobody is in between.

**TableAccessProofs.**  `TableInvariant` proves `TableInv` inductive for every
`Env`: `Rounds` bounds how often a statement can have been repeated at each
control point, and `MapInv` and `Undisturbed` say whose item the shared map
points to, which needs that two readers fetch at the same time only if one of
them lacks the mutex, and then know it.  `StatementsRepeated` follows, and
`FetchesWhole`, for every `Env` and every set of callers with and without the
mutex.  `CallsImplementStatement` is the refinement.

**CameraSettingsProofs.**  `SizesDistinct` says that no two resolutions share a
size in either standard, so that each table undoes the other
(`NameOfSize`).  `CameraInvariant` proves `CameraInv` for every `Env`: what a
request knows of the NVR and the table stays true while others change both.
`SettingsRead` and `OwnChannels` follow, and `SuccessesAreSets`, which assumes
`"standardFails" \notin Env`.

Model-checked only: everything about liveness (`SearchReturns`,
`ShutdownCompletes`, `EveryRecordingSettles`, `SessionsEnd`, `MutexReleased`, and
the liveness parts of `ImplementsService` and `ImplementsRecording`), because
`ENABLED` and fairness are out of reach of the installed provers.  Three of them
have a safety core that is proved: `ShutdownInOrder` for `ShutdownCompletes`,
`NobodyForgotten` for `ImplementsService`, `NobodyStuck` for
`EveryRecordingSettles`.  Every invariant and every safety part of a refinement
that a passing run checks is stated by a theorem; some of them under assumptions
on `Env` that the run meets.

## Not modelled

Wording and layout of log lines, replies and file names; the fields of a
recording that steer nothing (hall, position, cinema); the bit rate of a camera;
the frame loop inside `covertavitomp4`; the clock of the NVR; parsing of the ini
files; the shell commands of the file manager.

Code that is linked and never runs is left out too, since a model of it would
have no step to take: the timed tasks (nothing calls `AddTask`),
`C_LogManage::ReInitLog`, `SetNvtServer`, the delete functions of
`ipcControl_Table.cpp`, `GetFinishThread`, `GetTimeoutThead`, the camera modes
declared in `ipcControl.h` and the stubs of `C_SoapFunction.cpp`, whose bodies
are `#if 0`.

By far the largest part of the repository is not this program.  The NetSDK
headers (twice, in the source directory and in `so/`), the gSOAP runtime and
what it generates, and the logging library are third party.  `jobs/`,
`contentcheck/`, `Server/` and most of `utility/` belong to another product and
are not built by the Makefile.  Of the code that is built, is not generated and
has a caller, what the modules leave out is listed above.

Two limits of the models themselves: statements succeed in `DownloadPipeline`,
and `TableAccess` knows no values of columns, so that what a failed or repeated
statement does to a recording is in neither (three of the hazards in
`PROJECT.json` say so); and the configuration `main` reads after it has started
the web service is constant everywhere.
