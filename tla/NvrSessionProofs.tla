-------------------------- MODULE NvrSessionProofs --------------------------
(***************************************************************************)
(* Proofs about NvrSession, for any number of requests, rows and sessions. *)
(***************************************************************************)
EXTENDS SharedSession, TLAPS

(***************************************************************************)
(* What the theorems about Spec ask of the environment: requests are       *)
(* served one at a time, and no camera operation, stray DRelease or failed *)
(* conversion comes in the middle of a download.  Logins, starts and       *)
(* queries may fail as they like.  The code does not see to any of this;   *)
(* LossesHaveCauses, at the end, asks for none of it.                      *)
(***************************************************************************)
OneAtATime ==
  Env \cap {"overlap", "strayRelease", "failDuringDownload", "cameraDuringDownload"} = {}

Labels == {"idle", "tested", "compose", "start", "failed", "speed", "speedSet",
           "timeControl", "ping", "login", "query", "logout", "cleanup"}

LEMMA HandleTypes == 0 \notin Handles /\ 0 \notin Rows
BY DEF Handles, Rows

LEMMA LoginResultType ==
  ASSUME NEW h, LoginResult(h)
  PROVE  /\ h \in Handles \cup {0}
         /\ h # 0 => h \in Handles /\ h \notin sessions
BY HandleTypes DEF LoginResult, Granted

\* No session, no request, no row.
LEMMA SessionInit == Init => SessionInv
<1> SUFFICES ASSUME Init PROVE SessionInv
  OBVIOUS
<1>1. TypeOK
  BY DEF Init, TypeOK
<1>2. Fetching = {}
  BY DEF Init, Fetching
<1>3. \A r \in Requests : pc[r] = "idle" /\ row[r] = 0
  BY DEF Init
<1>4. \A r \in Requests : OwnHandle(r)
  BY <1>2, <1>3 DEF OwnHandle, Global
<1> QED
  BY <1>1, <1>2, <1>3, <1>4 DEF SessionInv

\* One case per action, whatever the environment does.
LEMMA TypeStep == TypeOK /\ [Next]_vars => TypeOK'
<1> SUFFICES ASSUME TypeOK, [Next]_vars PROVE TypeOK'
  OBVIOUS
<1> USE DEF TypeOK
<1>1. CASE InitSDK
  BY <1>1 DEF InitSDK, requests, table
<1>2. ASSUME NEW r \in Requests, NEW h \in Handles \cup {0},
             DownloadLogin(r, h) \/ SpeedLogin(r, h) \/ DInit(r, h)
      PROVE  TypeOK'
  <2>1. /\ sessions' \subseteq Handles /\ left' \subseteq sessions' /\ m_lLoginHandle' = h
        /\ UNCHANGED <<started, initialised, row, own, table>>
    BY <1>2 DEF DownloadLogin, SpeedLogin, DInit, DM_Login, Open
  <2>2. pc' \in [Requests -> Labels]
    BY <1>2 DEF DownloadLogin, SpeedLogin, DInit, DM_Login, Goto, Labels
  <2> QED
    BY <2>1, <2>2 DEF table, Labels
<1>3. ASSUME NEW r \in Requests, CameraInit(r) \/ DRelease(r) PROVE TypeOK'
  <2>1. CASE CameraInit(r)
    BY <2>1 DEF CameraInit, Goto, table
  <2>2. CASE DRelease(r)
    BY <2>2 DEF DRelease, Close, Goto, table
  <2> QED
    BY <1>3, <2>1, <2>2
<1>4. ASSUME NEW r \in Requests, LoginTest(r) \/ SpeedTest(r) \/ StartFails(r)
                                 \/ CameraPing(r) \/ CameraQuery(r)
      PROVE  TypeOK'
  <2>1. pc' \in [Requests -> Labels]
    BY <1>4 DEF LoginTest, SpeedTest, StartFails, CameraPing, CameraQuery, Goto, Labels
  <2>2. UNCHANGED <<started, device, m_lLoginHandle, row, own, table>>
    BY <1>4 DEF LoginTest, SpeedTest, StartFails, CameraPing, CameraQuery
  <2> QED
    BY <2>1, <2>2 DEF device, table, Labels
<1>5. ASSUME NEW r \in Requests, Start(r) PROVE TypeOK'
  BY <1>5 DEF Start, Goto, device
<1>6. ASSUME NEW r \in Requests, LogoutFailed(r) PROVE TypeOK'
  BY <1>6 DEF LogoutFailed, Close, Goto
<1>7. ASSUME NEW r \in Requests, NEW i \in Rows, Compose(r, i) PROVE TypeOK'
  BY <1>7 DEF Compose, Goto, device
<1>8. ASSUME NEW r \in Requests, SpeedLogout(r) PROVE TypeOK'
  BY <1>8 DEF SpeedLogout, Close, Goto, table
<1>9. ASSUME NEW r \in Requests, NEW h \in Handles \cup {0}, CameraLogin(r, h) PROVE TypeOK'
  BY <1>9 DEF CameraLogin, Open, Goto, table
<1>10. ASSUME NEW r \in Requests, QueryFails(r) PROVE TypeOK'
  BY <1>10 DEF QueryFails, Goto, table
<1>11. ASSUME NEW r \in Requests, CameraLogout(r) PROVE TypeOK'
  BY <1>11 DEF CameraLogout, Close, Goto, table
<1>12. ASSUME NEW r \in Requests, CameraCleanup(r) PROVE TypeOK'
  BY <1>12 DEF CameraCleanup, Goto, table
<1>13. ASSUME NEW i \in Rows, EndDownload(i) \/ Convert(i) PROVE TypeOK'
  <2>1. CASE EndDownload(i)
    BY <2>1 DEF EndDownload, device, requests
  <2>2. CASE DM_Convert(i)
    BY <2>2 DEF DM_Convert, Close, requests
  <2>3. CASE Converted(i)
    BY <2>3 DEF Converted, device, requests
  <2>4. CASE ConversionFails(i)
    BY <2>4 DEF ConversionFails, Close, requests
  <2> QED
    BY <1>13, <2>1, <2>2, <2>3, <2>4 DEF Convert
<1>14. CASE UNCHANGED vars
  BY <1>14 DEF vars, device, requests, table
<1> QED
  BY <1>1, <1>2, <1>3, <1>4, <1>5, <1>6, <1>7, <1>8, <1>9, <1>10, <1>11, <1>12, <1>13, <1>14
     DEF Next, Begin, Serve

(***************************************************************************)
(* Whatever the environment does, every variable of the session model      *)
(* keeps its type: a session left behind is still one the NVR has granted. *)
(***************************************************************************)
THEOREM SessionTypeCorrect == Spec => []TypeOK
<1>1. Init => TypeOK
  BY SessionInit DEF SessionInv
<1>2. TypeOK /\ [Next]_vars => TypeOK'
  BY TypeStep
<1> QED
  BY <1>1, <1>2, PTL DEF Spec

(***************************************************************************)
(* SessionInv says little about an idle request: no row, and that is all.  *)
(***************************************************************************)
LEMMA OthersIdle ==
  ASSUME SessionInv, NEW r \in Requests, pc[r] # "idle"
  PROVE  \A q \in Requests : q # r => pc[q] = "idle" /\ row[q] = 0
BY DEF SessionInv, OwnHandle

LEMMA StartsAlone ==
  ASSUME OneAtATime, NEW r \in Requests, MayStart(r)
  PROVE  \A q \in Requests : pc[q] = "idle"
BY DEF OneAtATime, MayStart

\* What a step of r has to show when the other requests are idle.
LEMMA AloneInv ==
  ASSUME TypeOK', NEW r \in Requests,
         \A q \in Requests : q # r => pc'[q] = "idle" /\ row'[q] = 0,
         OwnHandle(r)',
         (\A i \in Fetching : loginHandle[i] \in sessions)',
         (\A i \in Fetching : phase[i] # "begin" => uses[i] = loginHandle[i])',
         (\A i, j \in Fetching : loginHandle[i] = loginHandle[j] => i = j)'
  PROVE  SessionInv'
<1>1. \A q \in Requests : OwnHandle(q)'
  <2>1. ASSUME NEW q \in Requests, q # r PROVE OwnHandle(q)'
    BY <2>1 DEF OwnHandle, Global
  <2> QED
    BY <2>1
<1> QED
  BY <1>1 DEF SessionInv

(***************************************************************************)
(* One case per action.  A login takes a handle that no recording has; a   *)
(* logout of a request or of DM_Convert closes the one handle that belongs *)
(* to the row it has just given up.                                        *)
(***************************************************************************)
LEMMA SessionStep ==
  ASSUME OneAtATime, SessionInv, [Next]_vars
  PROVE  SessionInv'
<1>0. TypeOK /\ TypeOK'
  BY TypeStep DEF SessionInv
<1>0a. /\ \A r \in Requests : OwnHandle(r)
       /\ \A i \in Fetching : loginHandle[i] \in sessions
       /\ \A i \in Fetching : phase[i] # "begin" => uses[i] = loginHandle[i]
       /\ \A i, j \in Fetching : loginHandle[i] = loginHandle[j] => i = j
       /\ \A r \in Requests : pc[r] # "idle" =>
            \A q \in Requests : q # r => pc[q] = "idle" /\ row[q] = 0
       /\ \A r \in Requests : pc[r] \notin {"start", "failed"} => row[r] = 0
  BY OthersIdle DEF SessionInv, OwnHandle
<1>1. CASE InitSDK
  <2>1. UNCHANGED <<sessions, m_lLoginHandle, pc, row, phase, loginHandle, uses>>
    BY <1>1 DEF InitSDK, requests, table
  <2> QED
    BY <1>0, <2>1 DEF SessionInv, OwnHandle, Fetching
<1>2. ASSUME NEW r \in Requests, NEW h \in Handles \cup {0},
             DownloadLogin(r, h) \/ SpeedLogin(r, h) \/ DInit(r, h)
      PROVE  SessionInv'
  <2>1. /\ LoginResult(h) /\ Open(h) /\ m_lLoginHandle' = h
        /\ \A q \in Requests : pc[q] = "idle" /\ row[q] = 0
        /\ UNCHANGED <<row, phase, loginHandle, uses>>
        /\ \E l \in {"tested", "speed", "timeControl", "idle"} : Goto(r, l)
    BY <1>2, <1>0a, StartsAlone DEF DownloadLogin, SpeedLogin, DInit, DM_Login, table
  <2>2. /\ sessions' = sessions \cup ({h} \cap Handles)
        /\ h # 0 => h \notin sessions
        /\ Fetching' = Fetching
    BY <2>1, LoginResultType DEF Open, Fetching
  <2>3. /\ \A q \in Requests : q # r => pc'[q] = "idle" /\ row'[q] = 0
        /\ pc'[r] \in {"tested", "speed", "timeControl", "idle"} /\ row'[r] = 0
    BY <1>0, <2>1 DEF Goto, TypeOK
  <2>4. \A i \in Fetching : loginHandle[i] # h
    BY <1>0a, <2>2, HandleTypes, <1>0 DEF TypeOK
  <2>5. OwnHandle(r)'
    BY <2>1, <2>2, <2>3, <2>4 DEF OwnHandle, Global
  <2> QED
    BY <1>0, <1>0a, <2>1, <2>2, <2>3, <2>5, AloneInv
<1>3. ASSUME NEW r \in Requests, CameraInit(r) PROVE SessionInv'
  <2>1. /\ \A q \in Requests : pc[q] = "idle" /\ row[q] = 0
        /\ Fetching = {} /\ Fetching' = {}
        /\ Goto(r, "ping") /\ row' = row
    BY <1>3, <1>0a, StartsAlone DEF CameraInit, Quiet, OneAtATime, Fetching, table
  <2>2. /\ \A q \in Requests : q # r => pc'[q] = "idle" /\ row'[q] = 0
        /\ pc'[r] = "ping" /\ row'[r] = 0
    BY <1>0, <2>1 DEF Goto, TypeOK
  <2>3. OwnHandle(r)'
    BY <2>1, <2>2 DEF OwnHandle, Global
  <2> QED
    BY <1>0, <2>1, <2>2, <2>3, AloneInv
<1>4. ASSUME NEW r \in Requests, DRelease(r) PROVE SessionInv'
  <2>1. /\ \A q \in Requests : q # r => pc[q] = "idle" /\ row[q] = 0
        /\ row[r] = 0
        /\ Close(m_lLoginHandle) /\ Goto(r, "idle") /\ UNCHANGED <<row, phase, loginHandle, uses>>
    BY <1>4, <1>0a, StartsAlone DEF DRelease, MayStart, table
  <2>2. \A i \in Fetching : loginHandle[i] # m_lLoginHandle
    <3>1. CASE pc[r] = "timeControl"
      BY <1>0a, <3>1, <2>1, HandleTypes DEF OwnHandle, Global, Fetching
    <3>2. CASE Quiet("strayRelease")
      BY <3>2 DEF Quiet, OneAtATime
    <3> QED
      BY <1>4, <3>1, <3>2 DEF DRelease
  <2>3. /\ Fetching' = Fetching /\ sessions' = sessions \ {m_lLoginHandle}
        /\ \A q \in Requests : pc'[q] = "idle" /\ row'[q] = 0
    BY <1>0, <2>1 DEF Close, Fetching, Goto, TypeOK
  <2>4. OwnHandle(r)'
    BY <2>3 DEF OwnHandle, Global
  <2> QED
    BY <1>0, <1>0a, <2>1, <2>2, <2>3, <2>4, AloneInv
<1>5. ASSUME NEW r \in Requests, LoginTest(r) \/ SpeedTest(r) PROVE SessionInv'
  <2>1. /\ pc[r] \in {"tested", "speed"} /\ row[r] = 0
        /\ UNCHANGED <<sessions, m_lLoginHandle, row, phase, loginHandle, uses>>
        /\ \E l \in {"compose", "speedSet", "idle"} :
             Goto(r, l) /\ (l # "idle" => m_lLoginHandle # 0)
    BY <1>5, <1>0a DEF LoginTest, SpeedTest, device, table
  <2>2. /\ \A q \in Requests : q # r => pc'[q] = "idle" /\ row'[q] = 0
        /\ pc'[r] \in {"compose", "speedSet", "idle"} /\ row'[r] = 0
        /\ pc'[r] # "idle" => m_lLoginHandle # 0
        /\ Fetching' = Fetching
    BY <1>0, <1>0a, <2>1 DEF Goto, TypeOK, Fetching
  <2>3. OwnHandle(r)'
    BY <1>0a, <2>1, <2>2 DEF OwnHandle, Global
  <2> QED
    BY <1>0, <1>0a, <2>1, <2>2, <2>3, AloneInv
<1>6. ASSUME NEW r \in Requests, NEW i \in Rows, Compose(r, i) PROVE SessionInv'
  <2>1. /\ pc[r] = "compose" /\ row[r] = 0 /\ phase[i] = "none"
        /\ row'[r] = i /\ pc'[r] = "start"
        /\ phase' = [phase EXCEPT ![i] = "begin"]
        /\ loginHandle' = [loginHandle EXCEPT ![i] = m_lLoginHandle]
        /\ UNCHANGED <<sessions, m_lLoginHandle, uses>>
    BY <1>6, <1>0, <1>0a DEF Compose, NewRow, Goto, device, TypeOK
  <2>2. \A q \in Requests : q # r => pc'[q] = "idle" /\ row'[q] = 0
    BY <1>6, <1>0, <1>0a, <2>1 DEF Compose, Goto, TypeOK
  <2>3. /\ Fetching' = Fetching \cup {i} /\ i \notin Fetching
        /\ loginHandle'[i] = m_lLoginHandle
        /\ phase'[i] = "begin"
        /\ \A j \in Fetching : loginHandle'[j] = loginHandle[j] /\ phase'[j] = phase[j]
    BY <1>0, <2>1 DEF Fetching, TypeOK
  <2>4. m_lLoginHandle \in sessions /\ \A j \in Fetching : loginHandle[j] # m_lLoginHandle
    BY <1>0a, <2>1, HandleTypes DEF OwnHandle, Global, Fetching
  <2>5. OwnHandle(r)'
    BY <2>1, <2>3, <2>4 DEF OwnHandle, Global
  <2> QED
    BY <1>0, <1>0a, <2>1, <2>2, <2>3, <2>4, <2>5, AloneInv
<1>7. ASSUME NEW r \in Requests, Start(r) PROVE SessionInv'
  <2>1. /\ pc[r] = "start" /\ row[r] \in Rows /\ phase[row[r]] = "begin"
        /\ loginHandle[row[r]] = m_lLoginHandle
        /\ row'[r] = 0 /\ pc'[r] = "idle"
        /\ phase' = [phase EXCEPT ![row[r]] = "running"]
        /\ uses' = [uses EXCEPT ![row[r]] = m_lLoginHandle]
        /\ UNCHANGED <<sessions, m_lLoginHandle, loginHandle>>
    BY <1>7, <1>0, <1>0a DEF Start, Goto, device, TypeOK, OwnHandle
  <2>2. \A q \in Requests : q # r => pc'[q] = "idle" /\ row'[q] = 0
    BY <1>7, <1>0, <1>0a, <2>1 DEF Start, Goto, TypeOK
  <2>3. /\ Fetching' = Fetching /\ row[r] \in Fetching
        /\ \A j \in Fetching : j # row[r] => phase'[j] = phase[j] /\ uses'[j] = uses[j]
        /\ uses'[row[r]] = m_lLoginHandle
    BY <1>0, <2>1 DEF Fetching, TypeOK
  <2>4. OwnHandle(r)'
    BY <2>1 DEF OwnHandle, Global
  <2>5. \A j \in Fetching' : phase'[j] # "begin" => uses'[j] = loginHandle'[j]
    BY <1>0a, <2>1, <2>3
  <2> QED
    BY <1>0, <1>0a, <2>1, <2>2, <2>3, <2>4, <2>5, AloneInv
<1>8. ASSUME NEW r \in Requests, StartFails(r) PROVE SessionInv'
  <2>1. /\ pc[r] = "start" /\ pc'[r] = "failed"
        /\ UNCHANGED <<sessions, m_lLoginHandle, row, phase, loginHandle, uses>>
    BY <1>8, <1>0 DEF StartFails, Goto, device, table, TypeOK
  <2>2. /\ \A q \in Requests : q # r => pc'[q] = "idle" /\ row'[q] = 0
        /\ Fetching' = Fetching
    BY <1>8, <1>0, <1>0a, <2>1 DEF StartFails, Goto, TypeOK, Fetching
  <2>3. OwnHandle(r)'
    BY <1>0a, <2>1, <2>2 DEF OwnHandle, Global
  <2> QED
    BY <1>0, <1>0a, <2>1, <2>2, <2>3, AloneInv
<1>9. ASSUME NEW r \in Requests, LogoutFailed(r) PROVE SessionInv'
  <2>1. /\ pc[r] = "failed" /\ row[r] \in Rows /\ phase[row[r]] = "begin"
        /\ \A j \in Fetching : loginHandle[j] = m_lLoginHandle => j = row[r]
        /\ row'[r] = 0 /\ pc'[r] = "idle"
        /\ phase' = [phase EXCEPT ![row[r]] = "refused"]
        /\ sessions' = sessions \ {m_lLoginHandle}
        /\ UNCHANGED <<m_lLoginHandle, loginHandle, uses>>
    BY <1>9, <1>0, <1>0a DEF LogoutFailed, Close, Goto, TypeOK, OwnHandle, Global
  <2>2. \A q \in Requests : q # r => pc'[q] = "idle" /\ row'[q] = 0
    BY <1>9, <1>0, <1>0a, <2>1 DEF LogoutFailed, Goto, TypeOK
  <2>3. /\ Fetching' = Fetching \ {row[r]}
        /\ \A j \in Fetching' : phase'[j] = phase[j]
    BY <1>0, <2>1 DEF Fetching, TypeOK
  <2>4. OwnHandle(r)'
    BY <2>1 DEF OwnHandle, Global
  <2> QED
    BY <1>0, <1>0a, <2>1, <2>2, <2>3, <2>4, AloneInv
<1>10. ASSUME NEW r \in Requests, SpeedLogout(r) PROVE SessionInv'
  <2>1. /\ pc[r] = "speedSet" /\ row[r] = 0 /\ pc'[r] = "idle"
        /\ \A j \in Fetching : loginHandle[j] # m_lLoginHandle
        /\ sessions' = sessions \ {m_lLoginHandle}
        /\ UNCHANGED <<m_lLoginHandle, row, phase, loginHandle, uses>>
    BY <1>10, <1>0, <1>0a, HandleTypes
       DEF SpeedLogout, Close, Goto, TypeOK, OwnHandle, Global, table, Fetching
  <2>2. /\ \A q \in Requests : q # r => pc'[q] = "idle" /\ row'[q] = 0
        /\ Fetching' = Fetching
    BY <1>10, <1>0, <1>0a, <2>1 DEF SpeedLogout, Goto, TypeOK, Fetching
  <2>3. OwnHandle(r)'
    BY <2>1 DEF OwnHandle, Global
  <2> QED
    BY <1>0, <1>0a, <2>1, <2>2, <2>3, AloneInv
<1>11. ASSUME NEW r \in Requests,
              \/ CameraPing(r) \/ CameraQuery(r) \/ QueryFails(r)
              \/ CameraLogout(r) \/ CameraCleanup(r)
              \/ \E h \in Handles \cup {0} : CameraLogin(r, h)
       PROVE  SessionInv'
  <2>1. /\ pc[r] \in {"ping", "login", "query", "logout", "cleanup"}
        /\ UNCHANGED <<row, phase, loginHandle, uses>>
        /\ \E l \in {"login", "query", "logout", "cleanup", "idle"} : Goto(r, l)
    BY <1>11 DEF CameraPing, CameraLogin, CameraQuery, QueryFails, CameraLogout, CameraCleanup, table
  <2>2. /\ row[r] = 0 /\ Fetching = {} /\ Fetching' = {}
        /\ pc'[r] \in {"login", "query", "logout", "cleanup", "idle"}
        /\ \A q \in Requests : q # r => pc'[q] = "idle" /\ row'[q] = 0
    BY <1>0, <1>0a, <2>1 DEF OwnHandle, Goto, TypeOK, Fetching
  <2>3. OwnHandle(r)'
    BY <2>1, <2>2 DEF OwnHandle, Global
  <2> QED
    BY <1>0, <2>2, <2>3, AloneInv
<1>12. ASSUME NEW i \in Rows, EndDownload(i) \/ Converted(i) PROVE SessionInv'
  <2>1. /\ UNCHANGED <<sessions, m_lLoginHandle, pc, row, loginHandle, uses>>
        /\ \/ phase[i] = "running" /\ phase' = [phase EXCEPT ![i] = "ended"]
           \/ phase[i] = "stopped" /\ phase' = [phase EXCEPT ![i] = "finished"]
    BY <1>12 DEF EndDownload, Converted, device, requests
  <2>2. /\ Fetching' = Fetching
        /\ \A j \in Rows : phase'[j] = "begin" <=> phase[j] = "begin"
    BY <1>0, <2>1 DEF Fetching, TypeOK
  <2>3. \A r \in Requests : OwnHandle(r)'
    BY <1>0a, <2>1, <2>2 DEF OwnHandle
  <2>4. (\A j \in Fetching : phase[j] # "begin" => uses[j] = loginHandle[j])'
    BY <1>0a, <2>1, <2>2 DEF Fetching
  <2> QED
    BY <1>0, <1>0a, <2>1, <2>2, <2>3, <2>4 DEF SessionInv
<1>13. ASSUME NEW i \in Rows, DM_Convert(i) PROVE SessionInv'
  <2>1. /\ UNCHANGED <<m_lLoginHandle, pc, row, loginHandle, uses>>
        /\ phase[i] = "ended" /\ phase' = [phase EXCEPT ![i] = "stopped"]
        /\ sessions' = sessions \ {loginHandle[i]}
    BY <1>13 DEF DM_Convert, Close, requests
  <2>2. /\ Fetching' = Fetching \ {i} /\ i \in Fetching
        /\ \A j \in Rows : j # i => phase'[j] = phase[j]
    BY <1>0, <2>1 DEF Fetching, TypeOK
  <2>3. \A r \in Requests : OwnHandle(r)'
    <3>1. SUFFICES ASSUME NEW r \in Requests PROVE OwnHandle(r)'
      OBVIOUS
    <3>2. pc[r] \in Global => loginHandle[i] # m_lLoginHandle
      BY <1>0a, <2>1, <2>2, HandleTypes DEF OwnHandle, Global
    <3>3. Fetching = {} => Fetching' = {}
      BY <2>2
    <3>4. pc[r] \in {"start", "failed"} => row[r] # i /\ phase'[row[r]] = phase[row[r]]
      BY <1>0a, <2>1, <2>2 DEF OwnHandle
    <3> QED
      BY <1>0a, <2>1, <2>2, <3>2, <3>3, <3>4 DEF OwnHandle, Global
  <2>4. (\A j \in Fetching : loginHandle[j] \in sessions)'
    BY <1>0a, <2>1, <2>2
  <2> QED
    BY <1>0, <1>0a, <2>1, <2>2, <2>3, <2>4 DEF SessionInv
<1>14. ASSUME NEW i \in Rows, ConversionFails(i) PROVE SessionInv'
  <2>1. /\ UNCHANGED <<m_lLoginHandle, pc, row, loginHandle, uses>>
        /\ phase[i] = "stopped" /\ phase' = [phase EXCEPT ![i] = "finished"]
        /\ Fetching = {} /\ \A r \in Requests : pc[r] = "idle"
    BY <1>14 DEF ConversionFails, Close, requests, OneAtATime
  <2>2. Fetching' = {}
    BY <1>0, <2>1 DEF Fetching, TypeOK
  <2> QED
    BY <1>0, <1>0a, <2>1, <2>2 DEF SessionInv, OwnHandle, Global
<1>15. CASE UNCHANGED vars
  BY <1>0, <1>15 DEF vars, device, requests, table, SessionInv, OwnHandle, Fetching
<1> QED
  BY <1>1, <1>2, <1>3, <1>4, <1>5, <1>6, <1>7, <1>8, <1>9, <1>10, <1>11, <1>12, <1>13, <1>14, <1>15
     DEF Next, Begin, Serve, Convert

(***************************************************************************)
(* When requests are served one at a time and nothing comes in the middle  *)
(* of a download that logs g_nvrcontrol out or cleans the SDK up, the      *)
(* handles of the recordings being fetched are logged in and differ.       *)
(***************************************************************************)
THEOREM SessionInvariant ==
  ASSUME OneAtATime
  PROVE  Spec => []SessionInv
<1>1. SessionInv /\ [Next]_vars => SessionInv'
  BY SessionStep
<1> QED
  BY <1>1, SessionInit, PTL DEF Spec

(***************************************************************************)
(* Under OneAtATime, a download in progress keeps the session it was       *)
(* started in.                                                             *)
(***************************************************************************)
THEOREM DownloadsKeepSession ==
  ASSUME OneAtATime
  PROVE  Spec => []DownloadKeepsSession
<1>1. SessionInv => DownloadKeepsSession
  BY DEF SessionInv, DownloadKeepsSession, Fetching
<1> QED
  BY <1>1, SessionInvariant, PTL

(***************************************************************************)
(* Who can still log a session out.                                        *)
(***************************************************************************)
Owned(h) ==
  \/ \E i \in Fetching : loginHandle[i] = h
  \/ \E r \in Requests : pc[r] \in Global /\ m_lLoginHandle = h
  \/ \E r \in Requests : pc[r] \in {"query", "logout"} /\ own[r] = h

LEMMA LeakStep ==
  ASSUME OneAtATime, SessionInv, SessionInv', NoSessionLeak, [Next]_vars
  PROVE  NoSessionLeak'
<1> SUFFICES ASSUME NEW h \in (sessions \ left)' PROVE Owned(h)'
  BY DEF NoSessionLeak, Owned
<1>0. /\ TypeOK /\ TypeOK' /\ h \in Handles /\ h # 0
      /\ \A g \in sessions \ left : Owned(g)
      /\ \A r \in Requests : OwnHandle(r)
      /\ \A r \in Requests : pc[r] # "idle" => \A q \in Requests : q # r => pc[q] = "idle"
  BY HandleTypes DEF SessionInv, TypeOK, NoSessionLeak, Owned
<1>1. ASSUME UNCHANGED <<device, m_lLoginHandle, phase, loginHandle, pc, own>> PROVE Owned(h)'
  BY <1>0, <1>1 DEF device, Owned, Fetching
<1>2. CASE InitSDK
  BY <1>0, <1>2 DEF InitSDK, requests, table, Owned, Fetching
<1>3. ASSUME NEW r \in Requests, NEW g \in Handles \cup {0},
             DownloadLogin(r, g) \/ SpeedLogin(r, g) \/ DInit(r, g)
      PROVE  Owned(h)'
  <2>1. /\ \A q \in Requests : pc[q] = "idle"
        /\ sessions' = sessions \cup ({g} \cap Handles) /\ left' = left /\ m_lLoginHandle' = g
        /\ UNCHANGED <<own, phase, loginHandle>>
        /\ g # 0 => pc'[r] \in Global
    BY <1>0, <1>3, StartsAlone
       DEF DownloadLogin, SpeedLogin, DInit, DM_Login, Open, Goto, table, TypeOK, Global
  <2>2. CASE h = g
    BY <1>0, <2>1, <2>2 DEF Owned
  <2>3. CASE h # g
    <3>1. \E i \in Fetching : loginHandle[i] = h
      BY <1>0, <2>1, <2>3 DEF Owned, Global
    <3> QED
      BY <2>1, <3>1 DEF Owned, Fetching
  <2> QED
    BY <2>2, <2>3
<1>4. ASSUME NEW r \in Requests, CameraInit(r) PROVE Owned(h)'
  <2>1. /\ \A q \in Requests : pc[q] = "idle"
        /\ UNCHANGED <<sessions, left, phase, loginHandle>>
    BY <1>4, StartsAlone DEF CameraInit, table
  <2>2. \E i \in Fetching : loginHandle[i] = h
    BY <1>0, <2>1 DEF Owned, Global
  <2> QED
    BY <2>1, <2>2 DEF Owned, Fetching
\* Steps that close m_lLoginHandle and leave the request idle.
<1>5. ASSUME NEW r \in Requests, DRelease(r) \/ SpeedLogout(r) \/ LogoutFailed(r)
      PROVE  Owned(h)'
  <2>1. /\ \A q \in Requests : q # r => pc[q] = "idle"
        /\ sessions' = sessions \ {m_lLoginHandle} /\ left' = left \ {m_lLoginHandle}
        /\ loginHandle' = loginHandle
        /\ pc[r] \notin {"query", "logout"}
    BY <1>0, <1>5, StartsAlone DEF DRelease, SpeedLogout, LogoutFailed, Close, table, MayStart
  <2>2. PICK i \in Fetching : loginHandle[i] = h
    BY <1>0, <2>1 DEF Owned, Global
  <2>3. i \in Fetching'
    <3>1. CASE LogoutFailed(r)
      <4>1. /\ loginHandle[row[r]] = m_lLoginHandle
            /\ phase' = [phase EXCEPT ![row[r]] = "refused"]
        BY <1>0, <3>1 DEF LogoutFailed, OwnHandle
      <4>2. row[r] # i
        BY <2>1, <2>2, <4>1
      <4> QED
        BY <1>0, <4>1, <4>2 DEF Fetching, TypeOK
    <3>2. CASE DRelease(r) \/ SpeedLogout(r)
      BY <3>2 DEF DRelease, SpeedLogout, table, Fetching
    <3> QED
      BY <1>5, <3>1, <3>2
  <2> QED
    BY <2>1, <2>2, <2>3 DEF Owned
<1>6. ASSUME NEW r \in Requests, LoginTest(r) \/ SpeedTest(r) \/ StartFails(r) PROVE Owned(h)'
  <2>1. /\ UNCHANGED <<device, m_lLoginHandle, own, phase, loginHandle>>
        /\ pc[r] \in Global
        /\ m_lLoginHandle # 0 => pc'[r] \in Global
    BY <1>0, <1>6 DEF LoginTest, SpeedTest, StartFails, Goto, table, TypeOK, Global, OwnHandle
  <2>2. Owned(h) /\ \A q \in Requests : q # r => pc[q] = "idle"
    BY <1>0, <2>1 DEF device, Global
  <2>3. CASE \E i \in Fetching : loginHandle[i] = h
    BY <2>1, <2>3 DEF Owned, Fetching
  <2>4. CASE m_lLoginHandle = h
    BY <1>0, <2>1, <2>4 DEF Owned
  <2> QED
    BY <2>1, <2>2, <2>3, <2>4 DEF Owned, Global
<1>7. ASSUME NEW r \in Requests, NEW i \in Rows, Compose(r, i) PROVE Owned(h)'
  <2>1. /\ UNCHANGED <<device, m_lLoginHandle, own>>
        /\ pc[r] = "compose" /\ pc'[r] = "start" /\ phase[i] = "none"
        /\ \A q \in Requests : q # r => pc[q] = "idle"
        /\ phase' = [phase EXCEPT ![i] = "begin"]
        /\ loginHandle' = [loginHandle EXCEPT ![i] = m_lLoginHandle]
    BY <1>0, <1>7 DEF Compose, NewRow, Goto, TypeOK
  <2>2. \A j \in Fetching : j \in Fetching' /\ loginHandle'[j] = loginHandle[j]
    BY <1>0, <2>1 DEF Fetching, TypeOK
  <2>3. Owned(h)
    BY <1>0, <2>1 DEF device
  <2> QED
    BY <2>1, <2>2, <2>3 DEF Owned, Global
<1>8. ASSUME NEW r \in Requests, Start(r) PROVE Owned(h)'
  <2>1. /\ UNCHANGED <<device, m_lLoginHandle, own, loginHandle>>
        /\ pc[r] = "start" /\ row[r] \in Rows /\ phase[row[r]] = "begin"
        /\ loginHandle[row[r]] = m_lLoginHandle
        /\ \A q \in Requests : q # r => pc[q] = "idle"
        /\ phase' = [phase EXCEPT ![row[r]] = "running"]
    BY <1>0, <1>8 DEF Start, OwnHandle
  <2>2. Fetching' = Fetching /\ row[r] \in Fetching
    BY <1>0, <2>1 DEF Fetching, TypeOK
  <2>3. Owned(h)
    BY <1>0, <2>1 DEF device
  <2> QED
    BY <2>1, <2>2, <2>3 DEF Owned, Global
<1>9. ASSUME NEW r \in Requests, CameraPing(r) \/ CameraQuery(r) PROVE Owned(h)'
  <2>1. /\ UNCHANGED <<device, m_lLoginHandle, own, phase, loginHandle>>
        /\ pc[r] \in {"ping", "query"} /\ (pc[r] = "query" => pc'[r] = "logout")
        /\ \A q \in Requests : q # r => pc[q] = "idle"
    BY <1>0, <1>9 DEF CameraPing, CameraQuery, Goto, table, TypeOK
  <2>2. Owned(h)
    BY <1>0, <2>1 DEF device
  <2> QED
    BY <2>1, <2>2 DEF Owned, Global, Fetching
<1>10. ASSUME NEW r \in Requests, NEW g \in Handles \cup {0}, CameraLogin(r, g) PROVE Owned(h)'
  <2>1. /\ pc[r] = "login" /\ pc'[r] = "query" /\ own'[r] = g
        /\ sessions' = sessions \cup ({g} \cap Handles) /\ left' = left
        /\ UNCHANGED <<m_lLoginHandle, phase, loginHandle>>
        /\ \A q \in Requests : q # r => pc[q] = "idle"
    BY <1>0, <1>10 DEF CameraLogin, Open, Goto, table, TypeOK
  <2>2. CASE h = g
    BY <2>1, <2>2 DEF Owned
  <2>3. CASE h # g
    <3>1. \E i \in Fetching : loginHandle[i] = h
      BY <1>0, <2>1, <2>3 DEF Owned, Global
    <3> QED
      BY <2>1, <3>1 DEF Owned, Fetching
  <2> QED
    BY <2>2, <2>3
<1>11. ASSUME NEW r \in Requests, QueryFails(r) \/ CameraLogout(r) PROVE Owned(h)'
  <2>1. /\ pc[r] \in {"query", "logout"} /\ h # own[r] /\ h \in sessions \ left
        /\ UNCHANGED <<phase, loginHandle>>
        /\ \A q \in Requests : q # r => pc[q] = "idle"
    BY <1>0, <1>11 DEF QueryFails, CameraLogout, Close, table
  <2>2. \E i \in Fetching : loginHandle[i] = h
    BY <1>0, <2>1 DEF Owned, Global
  <2> QED
    BY <2>1, <2>2 DEF Owned, Fetching
<1>12. ASSUME NEW r \in Requests, CameraCleanup(r) PROVE Owned(h)'
  BY <1>12 DEF CameraCleanup
<1>13. ASSUME NEW i \in Rows, EndDownload(i) \/ Converted(i) \/ ConversionFails(i)
       PROVE  Owned(h)'
  <2>1. /\ UNCHANGED <<pc, own, m_lLoginHandle, loginHandle>> /\ h \in sessions \ left
        /\ \/ phase[i] = "running" /\ phase' = [phase EXCEPT ![i] = "ended"]
           \/ phase[i] = "stopped" /\ phase' = [phase EXCEPT ![i] = "finished"]
    BY <1>13 DEF EndDownload, Converted, ConversionFails, Close, requests, device
  <2>2. Fetching' = Fetching
    BY <1>0, <2>1 DEF Fetching, TypeOK
  <2> QED
    BY <1>0, <2>1, <2>2 DEF Owned
<1>14. ASSUME NEW i \in Rows, DM_Convert(i) PROVE Owned(h)'
  <2>1. /\ UNCHANGED <<pc, own, m_lLoginHandle, loginHandle>>
        /\ h \in sessions \ left /\ h # loginHandle[i]
        /\ phase[i] = "ended" /\ phase' = [phase EXCEPT ![i] = "stopped"]
    BY <1>14 DEF DM_Convert, Close, requests
  <2>2. Fetching' = Fetching \ {i}
    BY <1>0, <2>1 DEF Fetching, TypeOK
  <2> QED
    BY <1>0, <2>1, <2>2 DEF Owned
<1>15. CASE UNCHANGED vars
  BY <1>1, <1>15 DEF vars, requests, table
<1> QED
  BY <1>2, <1>3, <1>4, <1>5, <1>6, <1>7, <1>8, <1>9, <1>10, <1>11, <1>12, <1>13, <1>14, <1>15
     DEF Next, Begin, Serve, Convert

(***************************************************************************)
(* Every session of the program can still be logged out by somebody, but   *)
(* for those an early return has left behind.                              *)
(***************************************************************************)
THEOREM NoLeak ==
  ASSUME OneAtATime
  PROVE  Spec => []NoSessionLeak
<1>1. Init => NoSessionLeak
  BY DEF Init, NoSessionLeak
<1>2. SessionInv /\ SessionInv' /\ NoSessionLeak /\ [Next]_vars => NoSessionLeak'
  BY LeakStep
<1> QED
  BY <1>1, <1>2, SessionInvariant, PTL DEF Spec

(***************************************************************************)
(* Under OneAtATime, a download behaves as if it had a session of its own: *)
(* the steps of all operations are steps of DownloadSession, or change     *)
(* nothing in it.                                                          *)
(***************************************************************************)
OpenRows == {i \in Fetching : /\ loginHandle[i] \in sessions
                              /\ phase[i] = "begin" \/ uses[i] = loginHandle[i]}

LEMMA LifeStep ==
  ASSUME OneAtATime, SessionInv, SessionInv', [Next]_vars
  PROVE  [Life!Next]_(Life!vars)
<1>0. TypeOK /\ OpenRows = Fetching /\ OpenRows' = Fetching'
  BY DEF SessionInv, OpenRows
<1>1. ASSUME UNCHANGED phase PROVE UNCHANGED Life!vars
  <2>1. Fetching' = Fetching
    BY <1>1 DEF Fetching
  <2> QED
    BY <1>0, <1>1, <2>1 DEF Life!vars, OpenRows
<1>2. ASSUME NEW r \in Requests, NEW i \in Rows, Compose(r, i) PROVE Life!Begin(i)
  <2>1. phase[i] = "none" /\ phase' = [phase EXCEPT ![i] = "begin"]
    BY <1>2 DEF Compose, NewRow
  <2>2. Fetching' = Fetching \cup {i}
    BY <1>0, <2>1 DEF Fetching, TypeOK
  <2> QED
    BY <1>0, <2>1, <2>2 DEF Life!Begin, Life!Become, OpenRows
<1>3. ASSUME NEW r \in Requests, Start(r) PROVE row[r] \in Rows /\ Life!Start(row[r])
  <2>1. /\ row[r] \in Rows /\ phase[row[r]] = "begin"
        /\ phase' = [phase EXCEPT ![row[r]] = "running"]
    BY <1>3 DEF Start, SessionInv, OwnHandle
  <2>2. Fetching' = Fetching /\ row[r] \in Fetching
    BY <1>0, <2>1 DEF Fetching, TypeOK
  <2> QED
    BY <1>0, <2>1, <2>2 DEF Life!Start, Life!Become, OpenRows
<1>4. ASSUME NEW r \in Requests, LogoutFailed(r) PROVE row[r] \in Rows /\ Life!Refuse(row[r])
  <2>1. /\ row[r] \in Rows /\ phase[row[r]] = "begin"
        /\ phase' = [phase EXCEPT ![row[r]] = "refused"]
    BY <1>4 DEF LogoutFailed, SessionInv, OwnHandle
  <2>2. Fetching' = Fetching \ {row[r]}
    BY <1>0, <2>1 DEF Fetching, TypeOK
  <2> QED
    BY <1>0, <2>1, <2>2 DEF Life!Refuse, Life!Become, OpenRows
<1>5. ASSUME NEW i \in Rows, EndDownload(i) PROVE Life!End(i)
  <2>1. phase[i] = "running" /\ phase' = [phase EXCEPT ![i] = "ended"]
    BY <1>5 DEF EndDownload
  <2>2. Fetching' = Fetching /\ i \in Fetching
    BY <1>0, <2>1 DEF Fetching, TypeOK
  <2> QED
    BY <1>0, <2>1, <2>2 DEF Life!End, Life!Become, OpenRows
<1>6. ASSUME NEW i \in Rows, DM_Convert(i) PROVE Life!Stop(i)
  <2>1. phase[i] = "ended" /\ phase' = [phase EXCEPT ![i] = "stopped"]
    BY <1>6 DEF DM_Convert
  <2>2. Fetching' = Fetching \ {i}
    BY <1>0, <2>1 DEF Fetching, TypeOK
  <2> QED
    BY <1>0, <2>1, <2>2 DEF Life!Stop, Life!Become, OpenRows
<1>7. ASSUME NEW i \in Rows, Converted(i) \/ ConversionFails(i) PROVE Life!Finish(i)
  <2>1. phase[i] = "stopped" /\ phase' = [phase EXCEPT ![i] = "finished"]
    BY <1>7 DEF Converted, ConversionFails
  <2>2. Fetching' = Fetching
    BY <1>0, <2>1 DEF Fetching, TypeOK
  <2> QED
    BY <1>0, <2>1, <2>2 DEF Life!Finish, Life!Become, OpenRows
<1>8. ASSUME NEW r \in Requests,
             \/ Begin(r) \/ LoginTest(r) \/ StartFails(r) \/ SpeedTest(r) \/ SpeedLogout(r)
             \/ CameraPing(r) \/ CameraQuery(r) \/ QueryFails(r) \/ CameraLogout(r)
             \/ CameraCleanup(r) \/ \E h \in Handles \cup {0} : CameraLogin(r, h)
      PROVE  UNCHANGED phase
  BY <1>8 DEF Begin, DownloadLogin, SpeedLogin, DInit, CameraInit, DRelease, LoginTest,
              StartFails, SpeedTest, SpeedLogout, CameraPing, CameraQuery, QueryFails,
              CameraLogout, CameraCleanup, CameraLogin, table
<1>9. CASE InitSDK \/ UNCHANGED vars
  <2>1. UNCHANGED phase
    BY <1>9 DEF InitSDK, vars, table
  <2> QED
    BY <1>1, <2>1
<1>10. ASSUME NEW r \in Requests, Begin(r) \/ Serve(r) PROVE [Life!Next]_(Life!vars)
  <2>1. CASE \E i \in Rows : Compose(r, i)
    BY <2>1, <1>2 DEF Life!Next
  <2>2. CASE Start(r)
    <3>1. row[r] \in Rows /\ Life!Start(row[r])
      BY <2>2, <1>3
    <3>2. \E i \in Rows : Life!Start(i)
      BY <3>1
    <3> QED
      BY <3>2 DEF Life!Next
  <2>3. CASE LogoutFailed(r)
    <3>1. row[r] \in Rows /\ Life!Refuse(row[r])
      BY <2>3, <1>4
    <3>2. \E i \in Rows : Life!Refuse(i)
      BY <3>1
    <3> QED
      BY <3>2 DEF Life!Next
  <2>4. CASE UNCHANGED phase
    BY <2>4, <1>1
  <2> QED
    BY <1>10, <1>8, <2>1, <2>2, <2>3, <2>4 DEF Serve
<1>11. CASE \E i \in Rows : EndDownload(i) \/ Convert(i)
  BY <1>11, <1>5, <1>6, <1>7 DEF Convert, Life!Next
<1> QED
  BY <1>9, <1>10, <1>11 DEF Next

\* Under OneAtATime, the sessions of the downloads are those of DownloadSession.
THEOREM SessionsImplementDownloadSession ==
  ASSUME OneAtATime
  PROVE  Spec => ImplementsDownloadSession
<1>1. Init => Life!Init
  BY DEF Init, Life!Init, Fetching
<1>2. SessionInv /\ SessionInv' /\ [Next]_vars => [Life!Next]_(Life!vars)
  BY LifeStep
<1> QED
  BY <1>1, <1>2, SessionInvariant, PTL DEF Spec, ImplementsDownloadSession, Life!Spec

(***************************************************************************)
(* Without OneAtATime: the inductive invariant of SharedSession.  A        *)
(* request that was alone all along has m_lLoginHandle for itself, or a    *)
(* failed login of another has set it to 0.                                *)
(***************************************************************************)
RowsOwned ==
  /\ \A r \in Requests : pc[r] \in {"start", "failed"} => row[r] \in Rows /\ phase[row[r]] = "begin"
  /\ \A r \in Requests : pc[r] \notin {"start", "failed"} => row[r] = 0
  /\ \A q, r \in Requests : row[q] = row[r] => row[r] = 0 \/ q = r

Kept(i) ==
  /\ i \in Fetching
  /\ loginHandle[i] \in sessions
  /\ phase[i] # "begin" => uses[i] = loginHandle[i]
  /\ \A r \in Requests : row[r] = i => r \in alone

HasItself(r) ==
  /\ \A q \in Requests : q # r => pc[q] = "idle"
  /\ pc[r] \in Global => \A i \in sound : loginHandle[i] = m_lLoginHandle => i = row[r]
  /\ pc[r] \in {"start", "failed"} => m_lLoginHandle \in {loginHandle[row[r]], 0}
  /\ pc[r] \in {"query", "logout"} => \A i \in sound : loginHandle[i] # own[r]

SharedInv ==
  /\ TypeOK
  /\ alone \subseteq Requests
  /\ RowsOwned
  /\ \A i \in sound : Kept(i)
  /\ \A i, j \in sound : loginHandle[i] = loginHandle[j] => i = j
  /\ \A r \in alone : pc[r] # "idle" => HasItself(r)

LEMMA SharedInit == SInit => SharedInv
<1> SUFFICES ASSUME SInit PROVE SharedInv
  OBVIOUS
<1>1. TypeOK
  BY SessionInit DEF SInit, SessionInv
<1>2. RowsOwned
  BY DEF SInit, Init, RowsOwned
<1> QED
  BY <1>1, <1>2 DEF SInit, SharedInv

\* What the two history variables of a step are.
LEMMA Remembered ==
  ASSUME SharedInv, SNext
  PROVE  /\ TypeOK /\ TypeOK'
         /\ alone' \subseteq Requests
         /\ \A r \in alone' : r \in alone \/ Begins(r)
         /\ \A r \in alone' : pc'[r] # "idle" => \A q \in Requests : q # r => pc'[q] = "idle"
         /\ \A i \in sound' : /\ i \in Fetching' /\ (i \in sound \/ phase[i] = "none")
                              /\ loginHandle'[i] \in sessions'
                              /\ \A r \in Requests : row'[r] = i => r \in alone'
<1>1. TypeOK /\ TypeOK'
  BY TypeStep DEF SharedInv, SNext
<1> QED
  BY <1>1 DEF SNext, Remember

(***************************************************************************)
(* Two requests never have one row: Compose takes a row that is new.       *)
(***************************************************************************)
LEMMA RowsStep ==
  ASSUME TypeOK, TypeOK', RowsOwned, Next
  PROVE  RowsOwned'
<1>1. ASSUME UNCHANGED <<row, phase>>,
             \A r \in Requests : pc'[r] \in {"start", "failed"} <=> pc[r] \in {"start", "failed"}
      PROVE  RowsOwned'
  BY <1>1 DEF RowsOwned
<1>2. ASSUME NEW r \in Requests, Begin(r) PROVE RowsOwned'
  <2>1. /\ UNCHANGED <<row, phase>>
        /\ pc[r] \in {"idle", "timeControl"}
        /\ \E l \in {"tested", "speed", "timeControl", "idle", "ping"} : Goto(r, l)
    BY <1>2 DEF Begin, DownloadLogin, SpeedLogin, DInit, CameraInit, DRelease, DM_Login,
                MayStart, table
  <2> QED
    BY <1>1, <2>1 DEF Goto, TypeOK
<1>3. ASSUME NEW r \in Requests,
             \/ LoginTest(r) \/ SpeedTest(r) \/ SpeedLogout(r)
             \/ CameraPing(r) \/ CameraQuery(r) \/ QueryFails(r) \/ CameraLogout(r)
             \/ CameraCleanup(r) \/ \E h \in Handles \cup {0} : CameraLogin(r, h)
      PROVE  RowsOwned'
  <2>1. /\ UNCHANGED <<row, phase>>
        /\ pc[r] \notin {"start", "failed"}
        /\ \E l \in {"idle", "compose", "speedSet", "login", "logout", "cleanup", "query"} :
             Goto(r, l)
    BY <1>3 DEF LoginTest, SpeedTest, SpeedLogout, CameraPing, CameraQuery, QueryFails,
                CameraLogout, CameraCleanup, CameraLogin, table
  <2> QED
    BY <1>1, <2>1 DEF Goto, TypeOK
<1>4. ASSUME NEW r \in Requests, StartFails(r) PROVE RowsOwned'
  <2>1. /\ UNCHANGED <<row, phase>> /\ pc[r] = "start" /\ Goto(r, "failed")
    BY <1>4 DEF StartFails, table
  <2> QED
    BY <1>1, <2>1 DEF Goto, TypeOK
<1>5. ASSUME NEW r \in Requests, Start(r) \/ LogoutFailed(r) PROVE RowsOwned'
  <2>1. /\ pc[r] \in {"start", "failed"} /\ row[r] \in Rows
        /\ row' = [row EXCEPT ![r] = 0] /\ Goto(r, "idle")
        /\ \E p \in {"running", "refused"} : phase' = [phase EXCEPT ![row[r]] = p]
    BY <1>5 DEF Start, LogoutFailed, RowsOwned
  <2>2. row'[r] = 0 /\ pc'[r] = "idle"
    BY <2>1 DEF Goto, TypeOK
  <2>3. \A q \in Requests : q # r => row'[q] = row[q] /\ pc'[q] = pc[q]
    BY <2>1 DEF Goto, TypeOK
  <2>4. \A q \in Requests : q # r => row[q] # row[r]
    BY <2>1, HandleTypes DEF RowsOwned
  <2>5. \A q \in Requests : q # r /\ row[q] \in Rows => phase'[row[q]] = phase[row[q]]
    BY <2>1, <2>4 DEF TypeOK
  <2> QED
    BY <2>2, <2>3, <2>4, <2>5 DEF RowsOwned
<1>6. ASSUME NEW r \in Requests, NEW i \in Rows, Compose(r, i) PROVE RowsOwned'
  <2>1. /\ pc[r] = "compose" /\ phase[i] = "none"
        /\ row' = [row EXCEPT ![r] = i] /\ Goto(r, "start")
        /\ phase' = [phase EXCEPT ![i] = "begin"]
    BY <1>6 DEF Compose, NewRow
  <2>2. row'[r] = i /\ pc'[r] = "start" /\ phase'[i] = "begin"
    BY <2>1 DEF Goto, TypeOK
  <2>3. \A q \in Requests : q # r => row'[q] = row[q] /\ pc'[q] = pc[q]
    BY <2>1 DEF Goto, TypeOK
  <2>4. \A q \in Requests : row[q] # i
    BY <2>1, HandleTypes DEF RowsOwned
  <2>5. \A q \in Requests : row[q] \in Rows => phase'[row[q]] = phase[row[q]]
    BY <2>1, <2>4 DEF TypeOK
  <2> QED
    BY <2>2, <2>3, <2>4, <2>5 DEF RowsOwned
<1>7. ASSUME NEW i \in Rows, EndDownload(i) \/ Convert(i) PROVE RowsOwned'
  <2>1. /\ UNCHANGED <<pc, row>> /\ phase[i] # "begin"
        /\ \E p \in {"ended", "stopped", "finished"} : phase' = [phase EXCEPT ![i] = p]
    BY <1>7 DEF EndDownload, Convert, DM_Convert, Converted, ConversionFails, requests
  <2>2. \A q \in Requests : row[q] \in Rows /\ phase[row[q]] = "begin" => phase'[row[q]] = "begin"
    BY <2>1 DEF TypeOK
  <2> QED
    BY <2>1, <2>2 DEF RowsOwned
<1>8. CASE InitSDK
  BY <1>8 DEF InitSDK, requests, table, RowsOwned
<1> QED
  BY <1>2, <1>3, <1>4, <1>5, <1>6, <1>7, <1>8 DEF Next, Serve

\* Only Compose writes the column loginHandle, and only into a new row.
LEMMA HandleWritten ==
  ASSUME TypeOK, RowsOwned, Next, ~ \E r \in Requests, i \in Rows : Compose(r, i)
  PROVE  UNCHANGED loginHandle /\ \A i \in Rows : phase[i] = "none" => phase'[i] = "none"
<1>1. CASE UNCHANGED <<loginHandle, phase>>
  BY <1>1
<1>2. ASSUME NEW r \in Requests, Start(r) \/ LogoutFailed(r)
      PROVE  UNCHANGED loginHandle /\ \A i \in Rows : phase[i] = "none" => phase'[i] = "none"
  <2>1. /\ row[r] \in Rows /\ phase[row[r]] = "begin" /\ UNCHANGED loginHandle
        /\ \E p \in {"running", "refused"} : phase' = [phase EXCEPT ![row[r]] = p]
    BY <1>2 DEF Start, LogoutFailed, RowsOwned
  <2> QED
    BY <2>1 DEF TypeOK
<1>3. ASSUME NEW j \in Rows, EndDownload(j) \/ Convert(j)
      PROVE  UNCHANGED loginHandle /\ \A i \in Rows : phase[i] = "none" => phase'[i] = "none"
  <2>1. /\ phase[j] # "none" /\ UNCHANGED loginHandle
        /\ \E p \in {"ended", "stopped", "finished"} : phase' = [phase EXCEPT ![j] = p]
    BY <1>3 DEF EndDownload, Convert, DM_Convert, Converted, ConversionFails
  <2> QED
    BY <2>1 DEF TypeOK
<1>4. ASSUME NEW r \in Requests,
             \/ Begin(r) \/ LoginTest(r) \/ StartFails(r) \/ SpeedTest(r) \/ SpeedLogout(r)
             \/ CameraPing(r) \/ CameraQuery(r) \/ QueryFails(r) \/ CameraLogout(r)
             \/ CameraCleanup(r) \/ \E h \in Handles \cup {0} : CameraLogin(r, h)
      PROVE  UNCHANGED <<loginHandle, phase>>
  BY <1>4 DEF Begin, DownloadLogin, SpeedLogin, DInit, CameraInit, DRelease, LoginTest,
              StartFails, SpeedTest, SpeedLogout, CameraPing, CameraQuery, QueryFails,
              CameraLogout, CameraCleanup, CameraLogin, table
<1>5. CASE InitSDK
  BY <1>5 DEF InitSDK, table
<1> QED
  BY <1>1, <1>2, <1>3, <1>4, <1>5 DEF Next, Serve

\* Only Start writes uses, and only in the row of its request.
LEMMA UsesWritten ==
  ASSUME TypeOK, Next, NEW i \in Rows, phase[i] # "none", i \in Fetching', phase'[i] # "begin"
  PROVE  \/ phase[i] # "begin" /\ uses'[i] = uses[i] /\ i \in Fetching
         \/ /\ uses'[i] = m_lLoginHandle /\ m_lLoginHandle \in sessions
            /\ \E r \in Requests : Start(r) /\ row[r] = i
<1> DEFINE Goal == \/ phase[i] # "begin" /\ uses'[i] = uses[i] /\ i \in Fetching
                   \/ /\ uses'[i] = m_lLoginHandle /\ m_lLoginHandle \in sessions
                      /\ \E r \in Requests : Start(r) /\ row[r] = i
<1>1. CASE UNCHANGED <<uses, phase>>
  BY <1>1 DEF Fetching
<1>2. ASSUME NEW r \in Requests, Start(r) PROVE Goal
  <2>1. /\ m_lLoginHandle \in sessions
        /\ uses' = [uses EXCEPT ![row[r]] = m_lLoginHandle]
        /\ phase' = [phase EXCEPT ![row[r]] = "running"]
    BY <1>2 DEF Start
  <2>2. CASE row[r] = i
    BY <1>2, <2>1, <2>2 DEF TypeOK
  <2>3. CASE row[r] # i
    BY <2>1, <2>3 DEF TypeOK, Fetching
  <2> QED
    BY <2>2, <2>3
<1>3. ASSUME NEW r \in Requests, LogoutFailed(r) PROVE Goal
  BY <1>3 DEF LogoutFailed, TypeOK, Fetching
<1>4. ASSUME NEW r \in Requests, NEW j \in Rows, Compose(r, j) PROVE Goal
  BY <1>4 DEF Compose, NewRow, TypeOK, Fetching
<1>5. ASSUME NEW j \in Rows, EndDownload(j) \/ Convert(j) PROVE Goal
  <2>1. /\ phase[j] \in {"running", "ended", "stopped"} /\ UNCHANGED uses
        /\ \/ phase[j] = "running" /\ phase' = [phase EXCEPT ![j] = "ended"]
           \/ \E p \in {"stopped", "finished"} : phase' = [phase EXCEPT ![j] = p]
    BY <1>5 DEF EndDownload, Convert, DM_Convert, Converted, ConversionFails
  <2> QED
    BY <2>1 DEF TypeOK, Fetching
<1>6. ASSUME NEW r \in Requests,
             \/ Begin(r) \/ LoginTest(r) \/ StartFails(r) \/ SpeedTest(r) \/ SpeedLogout(r)
             \/ CameraPing(r) \/ CameraQuery(r) \/ QueryFails(r) \/ CameraLogout(r)
             \/ CameraCleanup(r) \/ \E h \in Handles \cup {0} : CameraLogin(r, h)
      PROVE  UNCHANGED <<uses, phase>>
  BY <1>6 DEF Begin, DownloadLogin, SpeedLogin, DInit, CameraInit, DRelease, LoginTest,
              StartFails, SpeedTest, SpeedLogout, CameraPing, CameraQuery, QueryFails,
              CameraLogout, CameraCleanup, CameraLogin, table
<1>7. CASE InitSDK
  BY <1>1, <1>7 DEF InitSDK, table
<1> QED
  BY <1>1, <1>2, <1>3, <1>4, <1>5, <1>6, <1>7 DEF Next, Serve

(***************************************************************************)
(* A recording comes to have the session it was logged in for, and no      *)
(* other recording has it.                                                 *)
(***************************************************************************)
LEMMA KeptStep ==
  ASSUME SharedInv, SNext
  PROVE  /\ \A i \in sound' : Kept(i)'
         /\ \A i, j \in sound' : loginHandle'[i] = loginHandle'[j] => i = j
<1>0. /\ RowsOwned /\ Next
      /\ \A i \in sound : Kept(i) /\ i \in Rows /\ phase[i] # "none"
      /\ \A i \in sound' : i \in Rows
  BY Remembered DEF SharedInv, SNext, Kept, Fetching
<1>1. ASSUME NEW r \in Requests, NEW i \in Rows, Compose(r, i)
      PROVE  /\ \A j \in sound' : Kept(j)'
             /\ \A j, k \in sound' : loginHandle'[j] = loginHandle'[k] => j = k
  <2>1. /\ pc[r] = "compose" /\ row[r] = 0 /\ phase[i] = "none" /\ row'[r] = i
        /\ phase' = [phase EXCEPT ![i] = "begin"]
        /\ loginHandle' = [loginHandle EXCEPT ![i] = m_lLoginHandle]
        /\ UNCHANGED uses
    BY <1>1, <1>0, Remembered DEF Compose, NewRow, TypeOK, RowsOwned
  <2>2. /\ phase'[i] = "begin" /\ loginHandle'[i] = m_lLoginHandle
        /\ \A j \in Rows : j # i => phase'[j] = phase[j] /\ loginHandle'[j] = loginHandle[j]
    BY <2>1, Remembered DEF TypeOK
  <2>3. \A j \in sound' : j # i => j \in sound
    BY <1>0, <2>2, Remembered DEF Fetching
  <2>4. ASSUME i \in sound' PROVE \A j \in sound : loginHandle[j] # m_lLoginHandle
    <3>1. r \in alone
      BY <2>1, <2>4, Remembered DEF Begins
    <3> QED
      BY <1>0, <2>1, <3>1, HandleTypes DEF SharedInv, HasItself, Global
  <2>5. \A j \in sound' : Kept(j)'
    BY <1>0, <2>1, <2>2, <2>3, Remembered DEF Kept
  <2> QED
    BY <1>0, <2>2, <2>3, <2>4, <2>5 DEF SharedInv
<1>2. CASE ~ \E r \in Requests, i \in Rows : Compose(r, i)
  <2>1. /\ UNCHANGED loginHandle
        /\ \A i \in Rows : phase[i] = "none" => phase'[i] = "none"
    BY <1>0, <1>2, HandleWritten, Remembered
  <2>2. sound' \subseteq sound
    BY <1>0, <2>1, Remembered DEF Fetching
  <2>3. ASSUME NEW i \in sound' PROVE Kept(i)'
    <3>1. i \in sound /\ i \in Rows /\ i \in Fetching'
      BY <1>0, <2>2, Remembered
    <3>2. ASSUME phase'[i] # "begin" PROVE uses'[i] = loginHandle[i]
      <4>1. ASSUME NEW r \in Requests, Start(r), row[r] = i, m_lLoginHandle \in sessions
            PROVE  loginHandle[i] = m_lLoginHandle
        <5>1. pc[r] = "start" /\ r \in alone
          BY <1>0, <3>1, <4>1 DEF Start, Kept
        <5> QED
          BY <4>1, <5>1, HandleTypes, Remembered DEF SharedInv, HasItself, TypeOK
      <4> QED
        BY <1>0, <3>1, <3>2, <4>1, UsesWritten, Remembered DEF Kept
    <3> QED
      BY <2>1, <3>1, <3>2, Remembered DEF Kept
  <2> QED
    BY <2>1, <2>2, <2>3 DEF SharedInv
<1> QED
  BY <1>1, <1>2

LEMMA SoundShrinks ==
  ASSUME SharedInv, SNext, ~ \E r \in Requests, i \in Rows : Compose(r, i)
  PROVE  /\ UNCHANGED loginHandle
         /\ sound' \subseteq sound
         /\ \A i \in sound : loginHandle[i] \in sessions /\ loginHandle[i] # 0
<1>1. /\ UNCHANGED loginHandle
      /\ \A i \in Rows : phase[i] = "none" => phase'[i] = "none"
  BY HandleWritten, Remembered DEF SharedInv, SNext
<1> QED
  BY <1>1, HandleTypes, Remembered DEF SharedInv, Kept, Fetching, TypeOK

(***************************************************************************)
(* A request that is alone still has g_nvrcontrol to itself after every    *)
(* step: a step of another would have to find that other in flight, but    *)
(* for a login that fails and a stray release, which come and go at once.  *)
(***************************************************************************)
LEMMA HasItselfStep ==
  ASSUME SharedInv, SNext, NEW r \in alone', pc'[r] # "idle"
  PROVE  HasItself(r)'
<1>0. /\ Next /\ TypeOK /\ TypeOK' /\ RowsOwned /\ r \in Requests
      /\ \A q \in Requests : q # r => pc'[q] = "idle"
      /\ pc[r] # "idle" => r \in alone /\ HasItself(r)
  BY Remembered DEF SNext, SharedInv, Begins
<1>1. ASSUME NEW i \in Rows, Compose(r, i) PROVE HasItself(r)'
  <2>1. /\ pc[r] = "compose" /\ row[r] = 0 /\ phase[i] = "none" /\ row'[r] = i
        /\ pc'[r] = "start"
        /\ phase' = [phase EXCEPT ![i] = "begin"]
        /\ loginHandle' = [loginHandle EXCEPT ![i] = m_lLoginHandle]
        /\ UNCHANGED m_lLoginHandle
    BY <1>1, <1>0 DEF Compose, NewRow, Goto, TypeOK, RowsOwned
  <2>2. \A j \in sound' : j # i => j \in sound /\ loginHandle'[j] = loginHandle[j]
    BY <1>0, <2>1, Remembered DEF Fetching, TypeOK
  <2>3. \A j \in sound : loginHandle[j] # m_lLoginHandle
    BY <1>0, <2>1, HandleTypes DEF HasItself, Global, SharedInv, Kept, Fetching
  <2>4. loginHandle'[i] = m_lLoginHandle
    BY <1>0, <2>1 DEF TypeOK
  <2> QED
    BY <1>0, <2>1, <2>2, <2>3, <2>4 DEF HasItself, Global
<1>2. ASSUME NEW q \in Requests, NEW i \in Rows, Compose(q, i) PROVE q = r
  BY <1>0, <1>2 DEF Compose, Goto, TypeOK
<1>3. CASE ~ \E q \in Requests, i \in Rows : Compose(q, i)
  <2>1. /\ UNCHANGED loginHandle /\ sound' \subseteq sound
        /\ \A i \in sound : loginHandle[i] \in sessions /\ loginHandle[i] # 0
    BY <1>3, SoundShrinks
  <2>2. ASSUME HasItself(r), m_lLoginHandle' \in {m_lLoginHandle, 0},
               row'[r] = row[r], own'[r] = own[r],
               pc'[r] \in Global => pc[r] \in Global,
               pc'[r] \in {"start", "failed"} => pc[r] \in {"start", "failed"},
               pc'[r] \in {"query", "logout"} => pc[r] \in {"query", "logout"}
        PROVE  HasItself(r)'
    BY <1>0, <2>1, <2>2 DEF HasItself, Global
  <2>3. ASSUME NEW q \in Requests, NEW h \in Handles \cup {0},
               DownloadLogin(q, h) \/ SpeedLogin(q, h) \/ DInit(q, h)
        PROVE  HasItself(r)'
    <3>1. /\ LoginResult(h) /\ m_lLoginHandle' = h /\ UNCHANGED <<row, own>> /\ pc[q] = "idle"
          /\ \E l \in {"tested", "speed", "timeControl", "idle"} :
               Goto(q, l) /\ (l = "idle" => h = 0)
      BY <2>3 DEF DownloadLogin, SpeedLogin, DInit, DM_Login, MayStart
    <3>2. CASE q = r
      <4>1. pc'[r] \in {"tested", "speed", "timeControl"}
        BY <1>0, <3>1, <3>2 DEF Goto, TypeOK
      <4>2. \A i \in sound : loginHandle[i] # h
        BY <2>1, <3>1, LoginResultType
      <4> QED
        BY <1>0, <2>1, <3>1, <4>1, <4>2 DEF HasItself
    <3>3. CASE q # r
      <4>1. h = 0 /\ pc'[r] = pc[r]
        BY <1>0, <3>1, <3>3 DEF Goto, TypeOK
      <4> QED
        BY <1>0, <2>2, <3>1, <4>1
    <3> QED
      BY <3>2, <3>3
  <2>4. ASSUME NEW q \in Requests, CameraInit(q) \/ DRelease(q) PROVE HasItself(r)'
    <3>1. CASE CameraInit(q)
      <4>1. Goto(q, "ping")
        BY <3>1 DEF CameraInit
      <4>2. pc'[r] = "ping"
        BY <1>0, <4>1 DEF Goto, TypeOK
      <4> QED
        BY <1>0, <4>2 DEF HasItself, Global
    <3>2. CASE DRelease(q)
      <4>1. Goto(q, "idle") /\ UNCHANGED <<m_lLoginHandle, row, own>>
        BY <3>2 DEF DRelease, table
      <4>2. pc'[r] = pc[r]
        BY <1>0, <4>1 DEF Goto, TypeOK
      <4> QED
        BY <1>0, <2>2, <4>1, <4>2
    <3> QED
      BY <2>4, <3>1, <3>2
  <2>5. ASSUME NEW q \in Requests, Serve(q) PROVE q = r /\ pc[r] # "idle"
    <3>1. pc[q] # "idle" /\ \A p \in Requests : p # q => pc'[p] = pc[p]
      BY <1>0, <2>5
         DEF Serve, LoginTest, Start, StartFails, LogoutFailed, Compose, SpeedTest, SpeedLogout,
             CameraPing, CameraLogin, CameraQuery, QueryFails, CameraLogout, CameraCleanup,
             Goto, TypeOK
    <3>2. q # r => pc[r] # "idle"
      BY <1>0, <3>1
    <3> QED
      BY <1>0, <3>1, <3>2 DEF HasItself
  <2>6. ASSUME LoginTest(r) \/ SpeedTest(r) \/ StartFails(r), pc[r] # "idle"
        PROVE  HasItself(r)'
    <3>1. /\ UNCHANGED <<m_lLoginHandle, row, own>> /\ pc[r] \in Global
          /\ pc'[r] \in {"idle", "compose", "speedSet", "failed"}
          /\ pc'[r] = "failed" => pc[r] = "start"
      BY <1>0, <2>6 DEF LoginTest, SpeedTest, StartFails, Goto, TypeOK, table, Global
    <3> QED
      BY <1>0, <2>2, <2>6, <3>1
  <2>7. ASSUME NEW h \in Handles \cup {0}, CameraLogin(r, h) PROVE HasItself(r)'
    <3>1. pc'[r] = "query" /\ own'[r] = h /\ LoginResult(h)
      BY <1>0, <2>7 DEF CameraLogin, Goto, TypeOK
    <3>2. \A i \in sound : loginHandle[i] # h
      BY <2>1, <3>1, LoginResultType
    <3> QED
      BY <1>0, <2>1, <3>1, <3>2 DEF HasItself, Global
  <2>8. ASSUME CameraQuery(r), pc[r] # "idle" PROVE HasItself(r)'
    <3>1. /\ UNCHANGED <<m_lLoginHandle, row, own>> /\ pc[r] = "query" /\ pc'[r] = "logout"
      BY <1>0, <2>8 DEF CameraQuery, Goto, TypeOK, table
    <3> QED
      BY <1>0, <2>2, <2>8, <3>1 DEF Global
  <2>9. ASSUME CameraPing(r) \/ CameraLogout(r) PROVE HasItself(r)'
    <3>1. pc'[r] \in {"login", "cleanup"}
      BY <1>0, <2>9 DEF CameraPing, CameraLogout, Goto, TypeOK
    <3> QED
      BY <1>0, <3>1 DEF HasItself, Global
  <2>10. ~ (Start(r) \/ LogoutFailed(r) \/ SpeedLogout(r) \/ QueryFails(r) \/ CameraCleanup(r))
    BY <1>0 DEF Start, LogoutFailed, SpeedLogout, QueryFails, CameraCleanup, Goto, TypeOK
  <2>11. ASSUME NEW i \in Rows, EndDownload(i) \/ Convert(i) PROVE HasItself(r)'
    <3>1. UNCHANGED <<pc, row, own, m_lLoginHandle>>
      BY <2>11 DEF EndDownload, Convert, DM_Convert, Converted, ConversionFails, requests
    <3> QED
      BY <1>0, <2>2, <3>1
  <2>12. CASE InitSDK
    <3>1. UNCHANGED <<pc, row, own, m_lLoginHandle>>
      BY <2>12 DEF InitSDK, requests
    <3> QED
      BY <1>0, <2>2, <3>1
  <2>13. ASSUME NEW q \in Requests, Serve(q) PROVE HasItself(r)'
    <3>1. Serve(r) /\ pc[r] # "idle"
      BY <2>5, <2>13
    <3> QED
      BY <1>3, <1>0, <3>1, <2>6, <2>7, <2>8, <2>9, <2>10 DEF Serve
  <2> QED
    BY <1>0, <2>3, <2>4, <2>11, <2>12, <2>13 DEF Next, Begin
<1> QED
  BY <1>1, <1>2, <1>3

LEMMA SharedStep ==
  ASSUME SharedInv, [SNext]_svars
  PROVE  SharedInv'
<1>1. CASE SNext
  <2>1. RowsOwned'
    BY <1>1, RowsStep, Remembered DEF SharedInv, SNext
  <2>2. \A r \in alone' : (pc[r] # "idle" => HasItself(r))'
    BY <1>1, HasItselfStep
  <2> QED
    BY <1>1, <2>1, <2>2, KeptStep, Remembered DEF SharedInv
<1>2. CASE UNCHANGED svars
  BY <1>2 DEF svars, vars, device, requests, table, SharedInv, TypeOK, RowsOwned, Kept,
              HasItself, Fetching
<1> QED
  BY <1>1, <1>2

(***************************************************************************)
(* The actions that can end a session, one by one.                         *)
(***************************************************************************)
LEMMA HarmStep ==
  ASSUME SharedInv, SNext, NEW i \in sound \cap Fetching', loginHandle[i] \notin sessions'
  PROVE  Harm
<1>0. /\ TypeOK /\ RowsOwned /\ Next /\ Kept(i) /\ i \in Rows
      /\ loginHandle[i] \in sessions /\ loginHandle[i] # 0
  BY HandleTypes, Remembered DEF SharedInv, SNext, Kept, Fetching, TypeOK
<1>1. ASSUME sessions \subseteq sessions' PROVE FALSE
  BY <1>0, <1>1
<1>2. ASSUME NEW r \in Requests, LogoutFailed(r) PROVE Harm
  <2>1. CASE r \in alone
    <3>1. /\ loginHandle[i] = m_lLoginHandle /\ pc[r] = "failed"
          /\ phase' = [phase EXCEPT ![row[r]] = "refused"]
      BY <1>0, <1>2 DEF LogoutFailed, Close
    <3>2. i = row[r]
      BY <2>1, <3>1 DEF SharedInv, HasItself, Global
    <3> QED
      BY <1>0, <3>1, <3>2 DEF Fetching, TypeOK
  <2>2. CASE r \notin alone
    BY <1>2, <2>2 DEF Harm
  <2> QED
    BY <2>1, <2>2
<1>3. ASSUME NEW r \in Requests, SpeedLogout(r) PROVE Harm
  <2>1. loginHandle[i] = m_lLoginHandle /\ pc[r] = "speedSet" /\ row[r] = 0
    BY <1>0, <1>3 DEF SpeedLogout, Close, RowsOwned
  <2>2. r \notin alone
    BY <1>0, <2>1, HandleTypes DEF SharedInv, HasItself, Global
  <2> QED
    BY <1>3, <2>2 DEF Harm
<1>4. ASSUME NEW r \in Requests, DRelease(r) PROVE Harm
  <2>1. CASE pc[r] = "idle"
    BY <1>4, <2>1 DEF Harm
  <2>2. CASE pc[r] = "timeControl"
    <3>1. loginHandle[i] = m_lLoginHandle /\ row[r] = 0
      BY <1>0, <1>4, <2>2 DEF DRelease, Close, RowsOwned
    <3>2. r \notin alone
      BY <1>0, <2>2, <3>1, HandleTypes DEF SharedInv, HasItself, Global
    <3> QED
      BY <1>4, <3>2 DEF Harm
  <2> QED
    BY <1>4, <2>1, <2>2 DEF DRelease, MayStart
<1>5. ASSUME NEW r \in Requests, CameraLogout(r) PROVE Harm
  <2>1. loginHandle[i] = own[r] /\ pc[r] = "logout"
    BY <1>0, <1>5 DEF CameraLogout, Close
  <2>2. r \notin alone
    BY <2>1 DEF SharedInv, HasItself
  <2> QED
    BY <1>5, <2>2 DEF Harm
<1>6. ASSUME NEW j \in Rows, DM_Convert(j) PROVE Harm
  <2>1. CASE j \in sound
    <3>1. loginHandle[i] = loginHandle[j] /\ phase' = [phase EXCEPT ![j] = "stopped"]
      BY <1>0, <1>6 DEF DM_Convert, Close
    <3>2. i = j
      BY <2>1, <3>1 DEF SharedInv
    <3> QED
      BY <1>0, <3>1, <3>2 DEF Fetching, TypeOK
  <2>2. CASE j \notin sound
    BY <1>6, <2>2 DEF Harm
  <2> QED
    BY <2>1, <2>2
<1>7. ASSUME NEW r \in Requests, CameraCleanup(r) PROVE Harm
  BY <1>7 DEF Harm
<1>8. ASSUME NEW j \in Rows, ConversionFails(j) PROVE Harm
  BY <1>8 DEF Harm
<1>9. ASSUME NEW r \in Requests, NEW h \in Handles \cup {0},
             DownloadLogin(r, h) \/ SpeedLogin(r, h) \/ DInit(r, h) \/ CameraLogin(r, h)
      PROVE  sessions \subseteq sessions'
  BY <1>9 DEF DownloadLogin, SpeedLogin, DInit, DM_Login, CameraLogin, Open
<1>10. ASSUME NEW r \in Requests,
              \/ LoginTest(r) \/ Start(r) \/ StartFails(r) \/ SpeedTest(r) \/ CameraInit(r)
              \/ CameraPing(r) \/ CameraQuery(r) \/ QueryFails(r)
              \/ \E j \in Rows : Compose(r, j)
       PROVE  UNCHANGED sessions
  BY <1>10 DEF LoginTest, Start, StartFails, SpeedTest, CameraInit, CameraPing, CameraQuery,
               QueryFails, Compose, device
<1>11. ASSUME NEW j \in Rows, EndDownload(j) \/ Converted(j) PROVE UNCHANGED sessions
  BY <1>11 DEF EndDownload, Converted, device
<1>12. CASE InitSDK
  BY <1>1, <1>12 DEF InitSDK
<1> QED
  BY <1>0, <1>1, <1>2, <1>3, <1>4, <1>5, <1>6, <1>7, <1>8, <1>9, <1>10, <1>11, <1>12
     DEF Next, Begin, Serve, Convert

(***************************************************************************)
(* LossHasCause, for every Env: whatever other requests, camera operations *)
(* and failing conversions do, the session of a recording whose request    *)
(* was alone is ended by one of the five causes Harm lists, or by          *)
(* DM_Convert when the recording has been fetched.                         *)
(***************************************************************************)
THEOREM LossesHaveCauses == SSpec => LossHasCause
<1>1. SharedInv /\ [SNext]_svars => SharedInv'
  BY SharedStep
<1>2. SharedInv /\ [SNext]_svars
      => [(\E i \in sound \cap Fetching' : loginHandle[i] \notin sessions') => Harm]_svars
  BY HarmStep
<1> QED
  BY <1>1, <1>2, SharedInit, PTL DEF SSpec, LossHasCause

=============================================================================
