----------------------------- MODULE NvrSession -----------------------------
(***************************************************************************)
(* The sessions the program holds at the NVR.  Downloads, the download     *)
(* speed and time control log in and out through one object,               *)
(* g_nvrcontrol, whose m_lLoginHandle every login overwrites; a camera     *)
(* operation has an NvrControl of its own, but initialises and cleans up   *)
(* the SDK of the whole process.                                           *)
(*                                                                         *)
(* A call of the SDK and the accesses to m_lLoginHandle around it are one  *)
(* step, except DM_Login, which reads the handle again to see whether it   *)
(* has logged in.  GetSystemTime and SetSystemTime only read the handle.   *)
(***************************************************************************)
EXTENDS Integers

CONSTANTS
  Requests,  (* pool threads that serve a request                           *)
  MaxRow,    (* bound: rows of the table downLoad                           *)
  MaxLogin,  (* sessions the NVR grants at a time                           *)
  Env        (* what may happen, a subset of Hazards                        *)

Hazards ==
  {"overlap",              \* requests of several pool threads at a time
   "loginFails",           \* CLIENT_Login returns 0
   "startFails",           \* CLIENT_DownloadByTime returns 0
   "queryFails",           \* CLIENT_QueryDevState fails
   "strayRelease",         \* DRelease without DInit while recordings are fetched
   "failDuringDownload",   \* a conversion fails while recordings are fetched
   "cameraDuringDownload"} \* a camera operation while recordings are fetched

ASSUME SessionAssumption ==
  /\ MaxRow \in Nat
  /\ MaxLogin \in Nat
  /\ Env \subseteq Hazards

Rows    == 1 .. MaxRow
Handles == 1 .. MaxLogin

VARIABLES
  started,        (* main is past DM_InitSDK and its threads run            *)
  initialised,    (* the SDK is initialised                                 *)
  sessions,       (* handles logged in at the NVR                           *)
  m_lLoginHandle, (* of g_nvrcontrol; 0 after a failed login                *)
  pc,             (* control point of each request                          *)
  row,            (* c, the row a download request inserted                 *)
  own,            (* m_lLoginHandle of a camera operation's NvrControl      *)
  phase,          (* how far the recording of each row is                   *)
  loginHandle,    (* column loginHandle                                     *)
  uses,           (* the session a download was started in                  *)
  left            (* history: sessions left behind by an early return       *)

device   == <<initialised, sessions, left>>
requests == <<pc, row, own>>
table    == <<phase, loginHandle, uses>>
vars == <<started, device, m_lLoginHandle, requests, table>>

Init ==
  /\ started = FALSE /\ initialised = FALSE
  /\ sessions = {} /\ left = {}
  /\ m_lLoginHandle = 0
  /\ pc  = [r \in Requests |-> "idle"]
  /\ row = [r \in Requests |-> 0]
  /\ own = [r \in Requests |-> 0]
  /\ phase       = [i \in Rows |-> "none"]
  /\ loginHandle = [i \in Rows |-> 0]
  /\ uses        = [i \in Rows |-> 0]

-----------------------------------------------------------------------------
(***************************************************************************)
(* The SDK.                                                                *)
(***************************************************************************)
\* CLIENT_Login returns a handle not in use, or 0: before CLIENT_Init, when
\* the NVR has no session left to grant, or when it refuses.
Granted == IF initialised THEN Handles \ sessions ELSE {}

LoginResult(h) == h \in Granted \/ (h = 0 /\ (Granted = {} \/ "loginFails" \in Env))

\* CLIENT_Login.
Open(h) == sessions' = sessions \cup ({h} \cap Handles) /\ UNCHANGED <<initialised, left>>

\* CLIENT_Logout: nothing happens if the handle is not logged in.
Close(h) == sessions' = sessions \ {h} /\ left' = left \ {h} /\ UNCHANGED initialised

(***************************************************************************)
(* Requests.                                                               *)
(***************************************************************************)
Goto(r, label) == pc' = [pc EXCEPT ![r] = label]

MayStart(r) ==
  /\ pc[r] = "idle"
  /\ "overlap" \in Env \/ \A q \in Requests : pc[q] = "idle"

Fetching == {i \in Rows : phase[i] \in {"begin", "running", "ended"}}

Quiet(hazard) == hazard \in Env \/ Fetching = {}

\* Up to the assignment of m_lLoginHandle, also when the login failed.
DM_Login(r, h, label) ==
  LoginResult(h) /\ Open(h) /\ m_lLoginHandle' = h /\ Goto(r, label)

\* main initialises the SDK after it has started the web service.
InitSDK ==
  /\ ~started
  /\ started' = TRUE
  /\ initialised' = TRUE
  /\ UNCHANGED <<sessions, left, m_lLoginHandle, requests, table>>

(***************************************************************************)
(* DM_DownLoadByTime.                                                      *)
(***************************************************************************)
NewRow == {i \in Rows : phase[i] = "none" /\ \A j \in Rows : j < i => phase[j] # "none"}

DownloadLogin(r, h) ==
  /\ MayStart(r)
  /\ NewRow # {}
  /\ DM_Login(r, h, "tested")
  /\ UNCHANGED <<started, row, own, table>>

\* Mutant: the result of DM_Login is not looked at, as in the camera operations.
LoginNotTested(r) ==
  /\ pc[r] = "tested"
  /\ Goto(r, "compose")
  /\ UNCHANGED <<started, device, m_lLoginHandle, row, own, table>>

\* DM_Login returns what m_lLoginHandle tells it by now.
LoginTest(r) ==
  /\ pc[r] = "tested"
  /\ Goto(r, IF m_lLoginHandle = 0 THEN "idle" ELSE "compose")
  /\ UNCHANGED <<started, device, m_lLoginHandle, row, own, table>>

\* The row is inserted with the handle g_nvrcontrol has by now.
Compose(r, i) ==
  /\ pc[r] = "compose"
  /\ i \in NewRow
  /\ row' = [row EXCEPT ![r] = i]
  /\ phase' = [phase EXCEPT ![i] = "begin"]
  /\ loginHandle' = [loginHandle EXCEPT ![i] = m_lLoginHandle]
  /\ Goto(r, "start")
  /\ UNCHANGED <<started, device, m_lLoginHandle, own, uses>>

\* CLIENT_DownloadByTime.
Start(r) ==
  /\ pc[r] = "start"
  /\ m_lLoginHandle \in sessions
  /\ uses' = [uses EXCEPT ![row[r]] = m_lLoginHandle]
  /\ phase' = [phase EXCEPT ![row[r]] = "running"]
  /\ row' = [row EXCEPT ![r] = 0]
  /\ Goto(r, "idle")
  /\ UNCHANGED <<started, device, m_lLoginHandle, own, loginHandle>>

StartFails(r) ==
  /\ pc[r] = "start"
  /\ m_lLoginHandle \notin sessions \/ "startFails" \in Env
  /\ Goto(r, "failed")
  /\ UNCHANGED <<started, device, m_lLoginHandle, row, own, table>>

\* Mutant: the request forgets to log out.
LogoutForgotten(r) ==
  /\ pc[r] = "failed"
  /\ phase' = [phase EXCEPT ![row[r]] = "refused"]
  /\ row' = [row EXCEPT ![r] = 0]
  /\ Goto(r, "idle")
  /\ UNCHANGED <<started, device, m_lLoginHandle, own, loginHandle, uses>>

\* The row is marked failed and g_nvrcontrol logged out.
LogoutFailed(r) ==
  /\ pc[r] = "failed"
  /\ phase' = [phase EXCEPT ![row[r]] = "refused"]
  /\ row' = [row EXCEPT ![r] = 0]
  /\ Close(m_lLoginHandle)
  /\ Goto(r, "idle")
  /\ UNCHANGED <<started, m_lLoginHandle, own, loginHandle, uses>>

(***************************************************************************)
(* DM_SetNvrDownloadSpeed logs in, sets the strategy and logs out, whether *)
(* it could be set or not.                                                 *)
(***************************************************************************)
SpeedLogin(r, h) ==
  /\ MayStart(r)
  /\ DM_Login(r, h, "speed")
  /\ UNCHANGED <<started, row, own, table>>

SpeedTest(r) ==
  /\ pc[r] = "speed"
  /\ Goto(r, IF m_lLoginHandle = 0 THEN "idle" ELSE "speedSet")
  /\ UNCHANGED <<started, device, m_lLoginHandle, row, own, table>>

\* Mutant: a strategy that could not be set leaves the session behind.
SpeedReturns(r) ==
  /\ pc[r] = "speedSet"
  /\ Goto(r, "idle")
  /\ UNCHANGED <<started, device, m_lLoginHandle, row, own, table>>

SpeedLogout(r) ==
  /\ pc[r] = "speedSet"
  /\ Close(m_lLoginHandle)
  /\ Goto(r, "idle")
  /\ UNCHANGED <<started, m_lLoginHandle, row, own, table>>

(***************************************************************************)
(* Time control: a client logs in with DInit and out with DRelease.        *)
(***************************************************************************)
DInit(r, h) ==
  /\ MayStart(r)
  /\ DM_Login(r, h, IF h = 0 THEN "idle" ELSE "timeControl")
  /\ UNCHANGED <<started, row, own, table>>

DRelease(r) ==
  /\ pc[r] = "timeControl" \/ (MayStart(r) /\ Quiet("strayRelease"))
  /\ Close(m_lLoginHandle)
  /\ Goto(r, "idle")
  /\ UNCHANGED <<started, m_lLoginHandle, row, own, table>>

(***************************************************************************)
(* The camera operations: DM_GetIpcResoluRatio, which returns when the     *)
(* query fails, and DM_GetIpcVedioQuality and DM_SetIpcVedioQuality, which *)
(* go on.  All three initialise the SDK, return when the NVR does not      *)
(* answer a ping, and go on when the login fails.                          *)
(***************************************************************************)
CameraInit(r) ==
  /\ MayStart(r)
  /\ Quiet("cameraDuringDownload")
  /\ initialised' = TRUE
  /\ Goto(r, "ping")
  /\ UNCHANGED <<started, sessions, left, m_lLoginHandle, row, own, table>>

CameraPing(r) ==
  /\ pc[r] = "ping"
  /\ Goto(r, "login") \/ Goto(r, "idle")
  /\ UNCHANGED <<started, device, m_lLoginHandle, row, own, table>>

CameraLogin(r, h) ==
  /\ pc[r] = "login"
  /\ LoginResult(h)
  /\ Open(h)
  /\ own' = [own EXCEPT ![r] = h]
  /\ Goto(r, "query")
  /\ UNCHANGED <<started, m_lLoginHandle, row, table>>

CameraQuery(r) ==
  /\ pc[r] = "query"
  /\ Goto(r, "logout")
  /\ UNCHANGED <<started, device, m_lLoginHandle, row, own, table>>

\* DM_GetIpcResoluRatio returns without logging out.
QueryFails(r) ==
  /\ pc[r] = "query"
  /\ own[r] \notin sessions \/ "queryFails" \in Env
  /\ left' = left \cup ({own[r]} \cap sessions)
  /\ own' = [own EXCEPT ![r] = 0]
  /\ Goto(r, "idle")
  /\ UNCHANGED <<started, initialised, sessions, m_lLoginHandle, row, table>>

CameraLogout(r) ==
  /\ pc[r] = "logout"
  /\ Close(own[r])
  /\ own' = [own EXCEPT ![r] = 0]
  /\ Goto(r, "cleanup")
  /\ UNCHANGED <<started, m_lLoginHandle, row, table>>

\* CLIENT_Cleanup ends every session of the process.
CameraCleanup(r) ==
  /\ pc[r] = "cleanup"
  /\ initialised' = FALSE
  /\ sessions' = {} /\ left' = {}
  /\ Goto(r, "idle")
  /\ UNCHANGED <<started, m_lLoginHandle, row, own, table>>

(***************************************************************************)
(* The download ends in the SDK; DM_Convert stops it and logs out the      *)
(* handle in its row; ConvertPackageFormat logs out once more when it      *)
(* fails.                                                                  *)
(***************************************************************************)
EndDownload(i) ==
  /\ phase[i] = "running"
  /\ uses[i] \in sessions
  /\ phase' = [phase EXCEPT ![i] = "ended"]
  /\ UNCHANGED <<started, device, m_lLoginHandle, requests, loginHandle, uses>>

\* Mutant: like the other operations, it logs g_nvrcontrol out.
DM_ConvertLogsOutGlobal(i) ==
  /\ started
  /\ phase[i] = "ended"
  /\ phase' = [phase EXCEPT ![i] = "stopped"]
  /\ Close(m_lLoginHandle)
  /\ UNCHANGED <<started, m_lLoginHandle, requests, loginHandle, uses>>

DM_Convert(i) ==
  /\ started
  /\ phase[i] = "ended"
  /\ phase' = [phase EXCEPT ![i] = "stopped"]
  /\ Close(loginHandle[i])
  /\ UNCHANGED <<started, m_lLoginHandle, requests, loginHandle, uses>>

Converted(i) ==
  /\ phase[i] = "stopped"
  /\ phase' = [phase EXCEPT ![i] = "finished"]
  /\ UNCHANGED <<started, device, m_lLoginHandle, requests, loginHandle, uses>>

ConversionFails(i) ==
  /\ phase[i] = "stopped"
  /\ "failDuringDownload" \in Env
       \/ (Fetching = {} /\ \A r \in Requests : pc[r] = "idle")
  /\ phase' = [phase EXCEPT ![i] = "finished"]
  /\ Close(m_lLoginHandle)
  /\ UNCHANGED <<started, m_lLoginHandle, requests, loginHandle, uses>>

-----------------------------------------------------------------------------
\* A request comes from a client, which need not send one.
Begin(r) ==
  \/ \E h \in Handles \cup {0} : DownloadLogin(r, h) \/ SpeedLogin(r, h) \/ DInit(r, h)
  \/ CameraInit(r)
  \/ DRelease(r)

Serve(r) ==
  \/ LoginTest(r) \/ Start(r) \/ StartFails(r) \/ LogoutFailed(r)
  \/ \E i \in Rows : Compose(r, i)
  \/ SpeedTest(r) \/ SpeedLogout(r)
  \/ CameraPing(r)
  \/ \E h \in Handles \cup {0} : CameraLogin(r, h)
  \/ CameraQuery(r) \/ QueryFails(r) \/ CameraLogout(r) \/ CameraCleanup(r)

Convert(i) == DM_Convert(i) \/ Converted(i) \/ ConversionFails(i)

Next ==
  \/ InitSDK
  \/ \E r \in Requests : Begin(r) \/ Serve(r)
  \/ \E i \in Rows : EndDownload(i) \/ Convert(i)

Spec == Init /\ [][Next]_vars

(***************************************************************************)
(* Threads are scheduled and the NVR sends the recordings it has begun to. *)
(***************************************************************************)
Fairness ==
  /\ WF_vars(InitSDK)
  /\ \A r \in Requests : WF_vars(Serve(r))
  /\ \A i \in Rows : WF_vars(EndDownload(i)) /\ WF_vars(Convert(i))

FairSpec == Spec /\ Fairness

-----------------------------------------------------------------------------
TypeOK ==
  /\ started \in BOOLEAN /\ initialised \in BOOLEAN
  /\ sessions \subseteq Handles
  /\ left \subseteq sessions
  /\ m_lLoginHandle \in Handles \cup {0}
  /\ pc  \in [Requests -> {"idle", "tested", "compose", "start", "failed", "speed", "speedSet",
                           "timeControl", "ping", "login", "query", "logout", "cleanup"}]
  /\ row \in [Requests -> Rows \cup {0}]
  /\ own \in [Requests -> Handles \cup {0}]
  /\ phase \in [Rows -> {"none", "begin", "refused", "running", "ended", "stopped", "finished"}]
  /\ loginHandle \in [Rows -> Handles \cup {0}]
  /\ uses \in [Rows -> Handles \cup {0}]

(***************************************************************************)
(* A download in progress keeps the session it was started in, though      *)
(* every other operation logs out through the same m_lLoginHandle.         *)
(***************************************************************************)
DownloadKeepsSession == \A i \in Rows : phase[i] = "running" => uses[i] \in sessions

(***************************************************************************)
(* Every session of the program can still be logged out by somebody: a row *)
(* DM_Convert has yet to stop, the request that logged in, or its client.  *)
(* Only DM_GetIpcResoluRatio leaves one behind, when its query fails.      *)
(***************************************************************************)
Global == {"tested", "compose", "start", "failed", "speed", "speedSet", "timeControl"}

NoSessionLeak ==
  \A h \in sessions \ left :
    \/ \E i \in Fetching : loginHandle[i] = h
    \/ \E r \in Requests : pc[r] \in Global /\ m_lLoginHandle = h
    \/ \E r \in Requests : pc[r] \in {"query", "logout"} /\ own[r] = h

(***************************************************************************)
(* And it is logged out in the end, unless a client of time control never  *)
(* calls DRelease.                                                         *)
(***************************************************************************)
SessionsEnd ==
  \A h \in Handles :
    h \in sessions ~> \/ h \notin sessions \ left
                     \/ \E r \in Requests : pc[r] = "timeControl" /\ m_lLoginHandle = h

(***************************************************************************)
(* The inductive invariant, for requests that are served one at a time and *)
(* a camera, a stray DRelease or a failed conversion that does not come in *)
(* the middle of a download: the handles of the recordings being fetched   *)
(* are logged in and differ, and m_lLoginHandle is none of them while a    *)
(* request needs it for another.                                           *)
(***************************************************************************)
OwnHandle(r) ==
  /\ pc[r] \in {"compose", "start", "failed", "speedSet"} => m_lLoginHandle \in sessions
  /\ pc[r] \in {"tested", "speed", "timeControl"} => m_lLoginHandle \in sessions \cup {0}
  /\ pc[r] \in Global => \A i \in Fetching : loginHandle[i] = m_lLoginHandle => i = row[r]
  /\ pc[r] \in {"start", "failed"} =>
       row[r] \in Rows /\ phase[row[r]] = "begin" /\ loginHandle[row[r]] = m_lLoginHandle
  /\ pc[r] \notin {"start", "failed"} => row[r] = 0
  /\ pc[r] \in {"ping", "login", "query", "logout", "cleanup"} => Fetching = {}

SessionInv ==
  /\ TypeOK
  /\ \A q, r \in Requests : pc[q] = "idle" \/ pc[r] = "idle" \/ q = r
  /\ \A r \in Requests : OwnHandle(r)
  /\ \A i \in Fetching : loginHandle[i] \in sessions
  /\ \A i \in Fetching : phase[i] # "begin" => uses[i] = loginHandle[i]
  /\ \A i, j \in Fetching : loginHandle[i] = loginHandle[j] => i = j

(***************************************************************************)
(* Refinement: a download behaves as if it had a session of its own, which *)
(* is open for exactly as long as the recording is fetched.                *)
(***************************************************************************)
Life == INSTANCE DownloadSession
          WITH Recordings <- Rows,
               open <- {i \in Fetching : /\ loginHandle[i] \in sessions
                                         /\ phase[i] = "begin" \/ uses[i] = loginHandle[i]}

ImplementsDownloadSession == Life!Spec

=============================================================================
