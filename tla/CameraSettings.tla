--------------------------- MODULE CameraSettings ---------------------------
(***************************************************************************)
(* The settings of the cameras: DM_SetIpcInfo maps a camera (hall number   *)
(* and position) to a channel of the NVR, DM_SetIpcVedioQuality and        *)
(* DM_GetIpcVedioQuality look the channel up and set or get its encoder    *)
(* configuration, each in an SDK session of its own (ipcControl.cpp).      *)
(*                                                                         *)
(* The bit rate is left out: the code stores it in abBitRate, a flag, so   *)
(* it never reaches the NVR.  Of an NVR without EN_JSON_CONFIG the code    *)
(* knows no channels (byChanNum of a zeroed structure), which is modelled  *)
(* as a configuration that is not changed.                                 *)
(***************************************************************************)
EXTENDS Integers, Sequences

CONSTANTS
  Requests, (* pool threads that serve a camera request                     *)
  Cameras,  (* pairs of a hall number and a position                        *)
  Channels, (* channels of the NVR                                          *)
  Settings, (* settings clients ask for                                     *)
  Nothing,  (* no setting                                                   *)
  MaxRow,   (* bound: rows of the table ipc                                 *)
  Env       (* what may happen, a subset of Hazards                         *)

Hazards ==
  {"databaseFails", \* the select of the channel fails
   "loginFails",    \* CLIENT_Login returns 0
   "standardFails", \* the NVR does not tell its video standard
   "queryFails"}    \* another call of the SDK in a session fails

Standards == {0, 1} \* PAL and NTSC

\* A resolution is its index in rsName, 32 for a name that is not in it; a
\* code mode is its index in compression, 10 for a name without the prefix
\* VIDEO_FORMAT_.
Setting == [resolution : 0 .. 32, frame : Nat, code : 0 .. 10]

ASSUME CameraAssumption ==
  /\ 0 \in Channels
  /\ Settings \subseteq Setting
  /\ Nothing \notin Setting /\ Nothing \notin Cameras
  /\ MaxRow \in Nat
  /\ Env \subseteq Hazards

VARIABLES
  ipc,             (* rows of the table ipc, in the order of insertion      *)
  config,          (* at the NVR: the main stream of each channel           *)
  byVideoStandard, (* of the NVR                                            *)
  initialised,     (* the SDK is initialised                                *)
  pc,              (* control point of each request                         *)
  job,             (* what the client asked for                             *)
  channel,         (* nChannelID                                            *)
  own,             (* the request's NvrControl is logged in                 *)
  standard,        (* nVideoStandard                                        *)
  ret,             (* nRet                                                  *)
  answer,          (* what DM_GetIpcVedioQuality read                       *)
  applied,         (* history: the request has set what it was asked for    *)
  asked,           (* history: the setting each channel was given last      *)
  expected         (* history: that setting when the channel was read       *)

nvr     == <<config, byVideoStandard>>
locals  == <<job, channel, standard>>
outcome == <<ret, answer>>
history == <<applied, asked, expected>>
vars == <<ipc, nvr, initialised, pc, locals, own, outcome, history>>

-----------------------------------------------------------------------------
(***************************************************************************)
(* Resolutions.                                                            *)
(***************************************************************************)
PalSizes  == <<<<704, 576>>, <<352, 576>>, <<704, 288>>, <<352, 288>>, <<176, 144>>>>
NtscSizes == <<<<704, 480>>, <<352, 480>>, <<704, 240>>, <<352, 240>>, <<176, 120>>>>

\* From VGA on both standards agree, but for 960H.
Sizes ==
  <<<<640, 480>>, <<320, 240>>, <<480, 480>>, <<160, 128>>, <<800, 592>>, <<1024, 768>>,
    <<1280, 800>>, <<1280, 1024>>, <<1600, 1024>>, <<1600, 1200>>, <<1920, 1200>>, <<240, 192>>,
    <<1280, 720>>, <<1920, 1080>>, <<1280, 960>>, <<1872, 1408>>, <<3744, 1408>>, <<2048, 1536>>,
    <<2432, 2050>>, <<1216, 1024>>, <<1408, 1024>>, <<3296, 2472>>, <<2560, 1920>>, <<960, 576>>,
    <<960, 720>>, <<640, 360>>, <<320, 180>>, <<160, 90>>>>

ResolutionSizetoInt(n, s) ==
  IF n = 28 /\ s # 0 THEN <<960, 480>>
  ELSE IF n > 4 THEN Sizes[n - 4]
  ELSE IF s = 0 THEN PalSizes[n + 1] ELSE NtscSizes[n + 1]

\* Mutant: the standard is not looked at.
InttoSizePal(size, s) ==
  IF \E n \in 0 .. 32 : ResolutionSizetoInt(n, 0) = size
    THEN CHOOSE n \in 0 .. 32 : ResolutionSizetoInt(n, 0) = size
    ELSE 0

\* A size that is not in the table is taken for D1.
ResolutionInttoSize(size, s) ==
  IF \E n \in 0 .. 32 : ResolutionSizetoInt(n, s) = size
    THEN CHOOSE n \in 0 .. 32 : ResolutionSizetoInt(n, s) = size
    ELSE 0

Known(j) == j.setting.resolution < 32

\* The size of a name; 0 x 0 if it is not one of the 32.
JudgeResolution(n, s) == IF n < 32 THEN ResolutionSizetoInt(n, s) ELSE <<0, 0>>

\* emCompression stays 0, MPEG4, for a name without the prefix.
emCompression(code) == IF code < 10 THEN code ELSE 0

(***************************************************************************)
(* A stream as it is packed and parsed, and as it is named in a reply.     *)
(***************************************************************************)
Packed(x, s) == [size  |-> JudgeResolution(x.resolution, s), frame |-> x.frame,
                 code  |-> emCompression(x.code)]

Zeroed == [size |-> <<0, 0>>, frame |-> 0, code |-> 0]

Named(stream, s) == [resolution |-> ResolutionInttoSize(stream.size, s),
                     frame |-> stream.frame, code |-> stream.code]

\* The name a reply gives to a setting.
Reported(x) == [x EXCEPT !.code = emCompression(@)]

-----------------------------------------------------------------------------
Jobs == [camera : Cameras, setting : Settings \cup {Nothing}]
NoJob == [camera |-> Nothing, setting |-> Nothing]

IsSet(r) == job[r].setting # Nothing

Init ==
  /\ ipc = <<>>
  /\ config = [c \in Channels |-> Zeroed]
  /\ byVideoStandard \in Standards
  /\ initialised = TRUE
  /\ pc = [r \in Requests |-> "idle"]
  /\ job = [r \in Requests |-> NoJob]
  /\ channel = [r \in Requests |-> 0]
  /\ own = [r \in Requests |-> FALSE]
  /\ standard = [r \in Requests |-> 0]
  /\ ret = [r \in Requests |-> 0]
  /\ answer = [r \in Requests |-> Nothing]
  /\ applied = [r \in Requests |-> FALSE]
  /\ asked = [c \in Channels |-> Nothing]
  /\ expected = [r \in Requests |-> Nothing]

Goto(r, label) == pc' = [pc EXCEPT ![r] = label]

(***************************************************************************)
(* The table ipc has a row for every call; the rows of a camera are copied *)
(* into the same item one after the other, so the last one counts.         *)
(***************************************************************************)
DM_SetIpcInfo(c, ch) ==
  /\ Len(ipc) < MaxRow
  /\ ipc' = Append(ipc, [camera |-> c, channelID |-> ch])
  /\ UNCHANGED <<nvr, initialised, pc, locals, own, outcome, history>>

IsLast(i, c) ==
  /\ i \in DOMAIN ipc /\ ipc[i].camera = c
  /\ \A k \in DOMAIN ipc : k > i => ipc[k].camera # c

\* Mutant: the last row of any camera.
LookupAnyCamera(c, ch) ==
  \/ ipc # <<>> /\ ch = ipc[Len(ipc)].channelID
  \/ ipc = <<>> /\ ch = 0

Lookup(c, ch) ==
  \/ \E i \in DOMAIN ipc : IsLast(i, c) /\ ch = ipc[i].channelID
  \/ (\A i \in DOMAIN ipc : ipc[i].camera # c) /\ ch = 0
  \/ "databaseFails" \in Env /\ ch = 0

\* Nobody looks at the result of DM_GetIpcInfo: without a row it is channel 0.
Begin(r, j, ch) ==
  /\ pc[r] = "idle"
  /\ Lookup(j.camera, ch)
  /\ job' = [job EXCEPT ![r] = j]
  /\ channel' = [channel EXCEPT ![r] = ch]
  /\ initialised' = TRUE
  /\ Goto(r, "ping")
  /\ UNCHANGED <<ipc, nvr, own, standard, outcome, history>>

PingFails(r) ==
  /\ pc[r] = "ping"
  /\ ret' = [ret EXCEPT ![r] = -1]
  /\ Goto(r, "done")
  /\ UNCHANGED <<ipc, nvr, initialised, locals, own, answer, history>>

\* The request goes on when the login failed.
Login(r, ok) ==
  /\ pc[r] = "ping"
  /\ IF ok THEN initialised ELSE ~initialised \/ "loginFails" \in Env
  /\ own' = [own EXCEPT ![r] = ok]
  /\ ret' = [ret EXCEPT ![r] = IF ok THEN 0 ELSE -1]
  /\ Goto(r, IF IsSet(r) THEN "protocol" ELSE "standard")
  /\ UNCHANGED <<ipc, nvr, initialised, locals, answer, history>>

\* A call of the SDK fails, if only because the session has been ended.
MayFail(r) == ~own[r] \/ "queryFails" \in Env

Protocol(r) ==
  /\ pc[r] = "protocol" /\ own[r]
  /\ Goto(r, "standard")
  /\ UNCHANGED <<ipc, nvr, initialised, locals, own, outcome, history>>

\* A set falls back to the older configuration, which leaves nRet alone.
ProtocolFails(r) ==
  /\ pc[r] = "protocol" /\ MayFail(r)
  /\ Goto(r, "fallback")
  /\ UNCHANGED <<ipc, nvr, initialised, locals, own, outcome, history>>

\* An NVR that does not tell its standard is taken for a PAL one.
VideoStandard(r, s) ==
  /\ pc[r] = "standard"
  /\ \/ own[r] /\ s = byVideoStandard
     \/ (~own[r] \/ "standardFails" \in Env) /\ s = 0
  /\ standard' = [standard EXCEPT ![r] = s]
  /\ Goto(r, "config")
  /\ UNCHANGED <<ipc, nvr, initialised, job, channel, own, outcome, history>>

\* What the NVR was asked for has been set: the size is right for its standard.
Right(r) == Known(job[r]) /\ standard[r] = byVideoStandard

\* The configuration is set even if the name was not known.
SetNewDevConfig(r) ==
  LET x == job[r].setting
  IN  /\ pc[r] = "config" /\ IsSet(r) /\ own[r]
      /\ config' = [config EXCEPT ![channel[r]] = Packed(x, standard[r])]
      /\ ret' = [ret EXCEPT ![r] = IF Known(job[r]) THEN 0 ELSE -1]
      /\ applied' = [applied EXCEPT ![r] = Right(r)]
      /\ asked' = [asked EXCEPT ![channel[r]] = IF Right(r) THEN x ELSE Nothing]
      /\ Goto(r, "logout")
      /\ UNCHANGED <<ipc, byVideoStandard, initialised, locals, own, answer, expected>>

\* Mutant: nRet keeps what JudgeResolution made of it.
SetFailsQuietly(r) ==
  /\ pc[r] = "config" /\ IsSet(r) /\ MayFail(r)
  /\ ret' = [ret EXCEPT ![r] = IF Known(job[r]) THEN 0 ELSE -1]
  /\ Goto(r, "logout")
  /\ UNCHANGED <<ipc, nvr, initialised, locals, own, answer, history>>

SetFails(r) ==
  /\ pc[r] = "config" /\ IsSet(r) /\ MayFail(r)
  /\ ret' = [ret EXCEPT ![r] = -1]
  /\ Goto(r, "logout")
  /\ UNCHANGED <<ipc, nvr, initialised, locals, own, answer, history>>

GetNewDevConfig(r) ==
  /\ pc[r] = "config" /\ ~IsSet(r) /\ own[r]
  /\ ret' = [ret EXCEPT ![r] = 0]
  /\ answer' = [answer EXCEPT ![r] = Named(config[channel[r]], standard[r])]
  /\ expected' = [expected EXCEPT ![r] =
                    IF standard[r] = byVideoStandard THEN asked[channel[r]] ELSE Nothing]
  /\ Goto(r, "logout")
  /\ UNCHANGED <<ipc, nvr, initialised, locals, own, applied, asked>>

\* The zeroed structure is named as if it had been read: nRet is still the
\* login's if the configuration could not be read, -1 if it could not be parsed.
GetFails(r) ==
  /\ pc[r] = "config" /\ ~IsSet(r) /\ MayFail(r)
  /\ ret' = ret \/ (own[r] /\ ret' = [ret EXCEPT ![r] = -1])
  /\ answer' = [answer EXCEPT ![r] = Named(Zeroed, standard[r])]
  /\ Goto(r, "logout")
  /\ UNCHANGED <<ipc, nvr, initialised, locals, own, history>>

\* DM_Logout, and CLIENT_Cleanup ends the sessions of all others too.
Cleanup(r) ==
  /\ pc[r] \in {"logout", "fallback"}
  /\ own' = [q \in Requests |-> FALSE]
  /\ initialised' = FALSE
  /\ Goto(r, IF pc[r] = "logout" THEN "done" ELSE "fellBack")
  /\ UNCHANGED <<ipc, nvr, locals, outcome, history>>

\* The reply is sent; mons__GetIpcVedioQuality ignores nRet.
Finish(r) ==
  /\ pc[r] \in {"done", "fellBack"}
  /\ answer' = [answer EXCEPT ![r] = Nothing]
  /\ applied' = [applied EXCEPT ![r] = FALSE]
  /\ expected' = [expected EXCEPT ![r] = Nothing]
  /\ ret' = [ret EXCEPT ![r] = 0]
  /\ channel' = [channel EXCEPT ![r] = 0]
  /\ standard' = [standard EXCEPT ![r] = 0]
  /\ job' = [job EXCEPT ![r] = NoJob]
  /\ Goto(r, "idle")
  /\ UNCHANGED <<ipc, nvr, initialised, own, asked>>

Serve(r) ==
  \/ PingFails(r) \/ \E ok \in BOOLEAN : Login(r, ok)
  \/ Protocol(r) \/ ProtocolFails(r) \/ \E s \in Standards : VideoStandard(r, s)
  \/ SetNewDevConfig(r) \/ SetFails(r) \/ GetNewDevConfig(r) \/ GetFails(r)
  \/ Cleanup(r) \/ Finish(r)

Next ==
  \/ \E c \in Cameras, ch \in Channels : DM_SetIpcInfo(c, ch)
  \/ \E r \in Requests, j \in Jobs, ch \in Channels : Begin(r, j, ch)
  \/ \E r \in Requests : Serve(r)

Spec == Init /\ [][Next]_vars

-----------------------------------------------------------------------------
Stream == [size : Int \X Int, frame : Nat, code : 0 .. 9]
Answer == [resolution : 0 .. 32, frame : Nat, code : 0 .. 9]

TypeOK ==
  /\ ipc \in Seq([camera : Cameras, channelID : Channels])
  /\ config \in [Channels -> Stream]
  /\ byVideoStandard \in Standards /\ initialised \in BOOLEAN
  /\ pc \in [Requests -> {"idle", "ping", "protocol", "standard", "config", "logout", "fallback",
                          "done", "fellBack"}]
  /\ job \in [Requests -> Jobs \cup {NoJob}]
  /\ channel \in [Requests -> Channels]
  /\ own \in [Requests -> BOOLEAN]
  /\ standard \in [Requests -> Standards]
  /\ ret \in [Requests -> {-1, 0}]
  /\ answer \in [Requests -> Answer \cup {Nothing}]
  /\ applied \in [Requests -> BOOLEAN]
  /\ asked \in [Channels -> Settings \cup {Nothing}]
  /\ expected \in [Requests -> Settings \cup {Nothing}]

\* A channel that was given a setting, and not spoilt since, has it.
AskedIsSet ==
  \A ch \in Channels : asked[ch] # Nothing =>
    asked[ch].resolution < 32 /\ config[ch] = Packed(asked[ch], byVideoStandard)

\* Some row of ipc gives camera c the channel ch.
HasChannel(c, ch) == \E i \in DOMAIN ipc : ipc[i] = [camera |-> c, channelID |-> ch]

\* A request works on a channel of its camera, or on channel 0.
ChannelOfCamera ==
  \A r \in Requests : channel[r] = 0 \/ HasChannel(job[r].camera, channel[r])

\* In a session that still lives the standard is the NVR's.
StandardOfNvr ==
  \A r \in Requests : pc[r] = "config" /\ own[r] /\ "standardFails" \notin Env =>
    standard[r] = byVideoStandard

\* Only a request that is served has a session.
SessionsServed ==
  \A r \in Requests : own[r] => pc[r] \in {"protocol", "standard", "config", "logout", "fallback"}

\* The inductive invariant: what requests know of the NVR and of the table
\* ipc stays true while others set channels, map cameras and end sessions
\* (ipcControl.cpp 486-579, 747-968).
CameraInv ==
  /\ TypeOK
  /\ AskedIsSet
  /\ ChannelOfCamera
  /\ StandardOfNvr
  /\ SessionsServed

\* A configuration that could be read is reported as the last successful set
\* of its channel named it, whoever did that, but for the code mode: the reply
\* leaves out the prefix a set requires (DM_SetIpcVedioQuality and
\* DM_GetIpcVedioQuality, ipcControl.cpp 821, 569).
ReadsWhatWasSet ==
  \A r \in Requests : expected[r] # Nothing => answer[r] = Reported(expected[r])

\* A client is told that its camera was set only if the size its name stands
\* for in the NVR's standard was sent, also when other requests end its session
\* under way: no session, no set.  Holds as long as the NVR tells its standard
\* in a session that lives.  Requests that fell back to the older
\* configuration are excepted: they report success whatever became of it
\* (ipcControl.cpp 888-893, 964-967).
SuccessMeansSet ==
  \A r \in Requests : pc[r] = "done" /\ IsSet(r) /\ ret[r] = 0 => applied[r]

\* A channel is changed only for a camera that some row of ipc gives that
\* channel; channel 0 is changed for any camera without a row too
\* (ipcControl.cpp 763).
OnlyOwnChannel ==
  [][\A ch \in Channels : config'[ch] # config[ch] =>
       \E r \in Requests : /\ pc[r] = "config" /\ IsSet(r) /\ own[r]
                           /\ ch = 0 \/ HasChannel(job[r].camera, ch)]_vars

=============================================================================
