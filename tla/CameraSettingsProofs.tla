------------------------ MODULE CameraSettingsProofs ------------------------
(***************************************************************************)
(* Proofs about CameraSettings, for any set of requests, cameras, channels *)
(* and settings.  The names of the resolutions are recovered from their    *)
(* sizes because no two of them share one in either standard; the rest     *)
(* rests on CameraInv.                                                     *)
(***************************************************************************)
EXTENDS CameraSettings, TLAPS

\* The tables of ResolutionSizetoInt give every resolution a size of its own
\* in each standard (ipcControl.cpp 15-97).
LEMMA SizesDistinct ==
  \A s \in Standards, n, m \in 0 .. 32 :
    ResolutionSizetoInt(n, s) = ResolutionSizetoInt(m, s) => n = m
  BY SMTT(60) DEF Standards, ResolutionSizetoInt, Sizes, PalSizes, NtscSizes

\* A size is a pair of integers.
LEMMA SizeType ==
  \A s \in Standards, n \in 0 .. 32 : ResolutionSizetoInt(n, s) \in Int \X Int
  BY SMTT(60) DEF Standards, ResolutionSizetoInt, Sizes, PalSizes, NtscSizes

\* Every size has a name, and that of a resolution is its own.
LEMMA NameOfSize ==
  ASSUME NEW s \in Standards
  PROVE  /\ \A size : ResolutionInttoSize(size, s) \in 0 .. 32
         /\ \A n \in 0 .. 32 : ResolutionInttoSize(ResolutionSizetoInt(n, s), s) = n
<1>1. ASSUME NEW size PROVE ResolutionInttoSize(size, s) \in 0 .. 32
  <2>1. CASE \E n \in 0 .. 32 : ResolutionSizetoInt(n, s) = size
    BY <2>1 DEF ResolutionInttoSize
  <2>2. CASE ~ \E n \in 0 .. 32 : ResolutionSizetoInt(n, s) = size
    BY <2>2 DEF ResolutionInttoSize
  <2>3. QED BY <2>1, <2>2
<1>2. ASSUME NEW n \in 0 .. 32 PROVE ResolutionInttoSize(ResolutionSizetoInt(n, s), s) = n
  <2> DEFINE m == ResolutionInttoSize(ResolutionSizetoInt(n, s), s)
  <2>1. \E k \in 0 .. 32 : ResolutionSizetoInt(k, s) = ResolutionSizetoInt(n, s)
    OBVIOUS
  <2>2. m \in 0 .. 32 /\ ResolutionSizetoInt(m, s) = ResolutionSizetoInt(n, s)
    BY <2>1 DEF ResolutionInttoSize
  <2>3. QED BY <2>2, SizesDistinct
<1>3. QED BY <1>1, <1>2

\* What is packed for a setting is a stream, and is named as that setting.
LEMMA PackedType ==
  ASSUME NEW x \in Setting, NEW s \in Standards
  PROVE  Packed(x, s) \in Stream
  <1>1. JudgeResolution(x.resolution, s) \in Int \X Int
    BY SizeType DEF JudgeResolution, Setting
  <1>2. emCompression(x.code) \in 0 .. 9
    BY DEF emCompression, Setting
  <1>3. QED BY <1>1, <1>2 DEF Packed, Stream, Setting

LEMMA NamedType ==
  ASSUME NEW stream \in Stream, NEW s \in Standards
  PROVE  Named(stream, s) \in Answer
  BY NameOfSize DEF Named, Answer, Stream

LEMMA NamedAsAsked ==
  ASSUME NEW x \in Setting, x.resolution < 32, NEW s \in Standards
  PROVE  Named(Packed(x, s), s) = Reported(x)
  <1>1. JudgeResolution(x.resolution, s) = ResolutionSizetoInt(x.resolution, s)
    BY DEF JudgeResolution
  <1>2. ResolutionInttoSize(ResolutionSizetoInt(x.resolution, s), s) = x.resolution
    BY NameOfSize DEF Setting
  <1>3. QED BY <1>1, <1>2 DEF Named, Packed, Reported, Setting

\* The stream of a structure that was cleared.
LEMMA ZeroedType == Zeroed \in Stream
  BY DEF Zeroed, Stream

\* Every row of the table ipc has a camera and a channel.
LEMMA RowType ==
  ASSUME NEW T, NEW rows \in Seq(T), NEW i \in DOMAIN rows
  PROVE  rows[i] \in T
  OBVIOUS

\* The invariant holds when the program starts, and no action breaks it.
LEMMA CameraInit == Init => CameraInv
<1> SUFFICES ASSUME Init PROVE CameraInv
  OBVIOUS
<1>1. TypeOK
  <2>1. config \in [Channels -> Stream]
    BY ZeroedType DEF Init
  <2>2. ipc \in Seq([camera : Cameras, channelID : Channels])
    BY DEF Init
  <2>3. QED BY <2>1, <2>2, CameraAssumption DEF Init, TypeOK, Standards
<1>2. AskedIsSet
  BY DEF Init, AskedIsSet
<1>3. ChannelOfCamera
  BY DEF Init, ChannelOfCamera
<1>4. StandardOfNvr
  BY DEF Init, StandardOfNvr
<1>5. SessionsServed
  BY DEF Init, SessionsServed
<1>6. QED BY <1>1, <1>2, <1>3, <1>4, <1>5 DEF CameraInv

\* DM_SetIpcInfo keeps the invariant.
LEMMA DM_SetIpcInfoKeeps ==
  ASSUME CameraInv, NEW c \in Cameras, NEW ch \in Channels, DM_SetIpcInfo(c, ch)
  PROVE  CameraInv'
<1> USE CameraAssumption DEF DM_SetIpcInfo, Goto, nvr, locals, outcome, history
<1>1. TypeOK'
  BY DEF CameraInv, TypeOK
<1>2. AskedIsSet'
  BY DEF CameraInv, TypeOK, AskedIsSet
<1>3. ChannelOfCamera'
  BY DEF CameraInv, TypeOK, ChannelOfCamera, HasChannel
<1>4. StandardOfNvr'
  BY DEF CameraInv, TypeOK, StandardOfNvr
<1>5. SessionsServed'
  BY DEF CameraInv, TypeOK, SessionsServed
<1>6. QED BY <1>1, <1>2, <1>3, <1>4, <1>5 DEF CameraInv

\* Begin keeps the invariant.
LEMMA BeginKeeps ==
  ASSUME CameraInv, NEW r \in Requests, NEW j \in Jobs, NEW ch \in Channels, Begin(r, j, ch)
  PROVE  CameraInv'
<1> USE CameraAssumption DEF Begin, Goto, nvr, locals, outcome, history
<1>1. TypeOK'
  BY DEF CameraInv, TypeOK
<1>2. AskedIsSet'
  BY DEF CameraInv, TypeOK, AskedIsSet
<1>3. ChannelOfCamera'
  <2>1. job'[r] = j /\ channel'[r] = ch
    BY DEF CameraInv, TypeOK
  <2>2. ch = 0 \/ HasChannel(j.camera, ch)
    <3>1. CASE \E i \in DOMAIN ipc : IsLast(i, j.camera) /\ ch = ipc[i].channelID
      <4>1. PICK i \in DOMAIN ipc : ipc[i].camera = j.camera /\ ch = ipc[i].channelID
        BY <3>1 DEF IsLast
      <4>2. ipc[i] \in [camera : Cameras, channelID : Channels]
        BY RowType DEF CameraInv, TypeOK
      <4>3. QED BY <4>1, <4>2 DEF HasChannel
    <3>2. QED BY <3>1 DEF Lookup
  <2>3. \A q \in Requests \ {r} : job'[q] = job[q] /\ channel'[q] = channel[q]
    BY DEF CameraInv, TypeOK
  <2>4. QED BY <2>1, <2>2, <2>3 DEF CameraInv, ChannelOfCamera, HasChannel
<1>4. StandardOfNvr'
  BY DEF CameraInv, TypeOK, StandardOfNvr
<1>5. SessionsServed'
  BY DEF CameraInv, TypeOK, SessionsServed
<1>6. QED BY <1>1, <1>2, <1>3, <1>4, <1>5 DEF CameraInv

\* PingFails keeps the invariant.
LEMMA PingFailsKeeps ==
  ASSUME CameraInv, NEW r \in Requests, PingFails(r)
  PROVE  CameraInv'
<1> USE CameraAssumption DEF PingFails, Goto, nvr, locals, outcome, history
<1>1. TypeOK'
  BY DEF CameraInv, TypeOK
<1>2. AskedIsSet'
  BY DEF CameraInv, TypeOK, AskedIsSet
<1>3. ChannelOfCamera'
  BY DEF CameraInv, TypeOK, ChannelOfCamera, HasChannel
<1>4. StandardOfNvr'
  BY DEF CameraInv, TypeOK, StandardOfNvr
<1>5. SessionsServed'
  BY DEF CameraInv, TypeOK, SessionsServed
<1>6. QED BY <1>1, <1>2, <1>3, <1>4, <1>5 DEF CameraInv

\* Login keeps the invariant.
LEMMA LoginKeeps ==
  ASSUME CameraInv, NEW r \in Requests, NEW ok \in BOOLEAN, Login(r, ok)
  PROVE  CameraInv'
<1> USE CameraAssumption DEF Login, Goto, nvr, locals, outcome, history
<1>1. TypeOK'
  BY DEF CameraInv, TypeOK
<1>2. AskedIsSet'
  BY DEF CameraInv, TypeOK, AskedIsSet
<1>3. ChannelOfCamera'
  BY DEF CameraInv, TypeOK, ChannelOfCamera, HasChannel
<1>4. StandardOfNvr'
  BY DEF CameraInv, TypeOK, StandardOfNvr
<1>5. SessionsServed'
  BY DEF CameraInv, TypeOK, SessionsServed
<1>6. QED BY <1>1, <1>2, <1>3, <1>4, <1>5 DEF CameraInv

\* Protocol keeps the invariant.
LEMMA ProtocolKeeps ==
  ASSUME CameraInv, NEW r \in Requests, Protocol(r)
  PROVE  CameraInv'
<1> USE CameraAssumption DEF Protocol, Goto, nvr, locals, outcome, history
<1>1. TypeOK'
  BY DEF CameraInv, TypeOK
<1>2. AskedIsSet'
  BY DEF CameraInv, TypeOK, AskedIsSet
<1>3. ChannelOfCamera'
  BY DEF CameraInv, TypeOK, ChannelOfCamera, HasChannel
<1>4. StandardOfNvr'
  BY DEF CameraInv, TypeOK, StandardOfNvr
<1>5. SessionsServed'
  BY DEF CameraInv, TypeOK, SessionsServed
<1>6. QED BY <1>1, <1>2, <1>3, <1>4, <1>5 DEF CameraInv

\* ProtocolFails keeps the invariant.
LEMMA ProtocolFailsKeeps ==
  ASSUME CameraInv, NEW r \in Requests, ProtocolFails(r)
  PROVE  CameraInv'
<1> USE CameraAssumption DEF ProtocolFails, Goto, nvr, locals, outcome, history
<1>1. TypeOK'
  BY DEF CameraInv, TypeOK
<1>2. AskedIsSet'
  BY DEF CameraInv, TypeOK, AskedIsSet
<1>3. ChannelOfCamera'
  BY DEF CameraInv, TypeOK, ChannelOfCamera, HasChannel
<1>4. StandardOfNvr'
  BY DEF CameraInv, TypeOK, StandardOfNvr
<1>5. SessionsServed'
  BY DEF CameraInv, TypeOK, SessionsServed
<1>6. QED BY <1>1, <1>2, <1>3, <1>4, <1>5 DEF CameraInv

\* VideoStandard keeps the invariant.
LEMMA VideoStandardKeeps ==
  ASSUME CameraInv, NEW r \in Requests, NEW s \in Standards, VideoStandard(r, s)
  PROVE  CameraInv'
<1> USE CameraAssumption DEF VideoStandard, Goto, nvr, locals, outcome, history
<1>1. TypeOK'
  BY DEF CameraInv, TypeOK
<1>2. AskedIsSet'
  BY DEF CameraInv, TypeOK, AskedIsSet
<1>3. ChannelOfCamera'
  BY DEF CameraInv, TypeOK, ChannelOfCamera, HasChannel
<1>4. StandardOfNvr'
  BY DEF CameraInv, TypeOK, StandardOfNvr
<1>5. SessionsServed'
  BY DEF CameraInv, TypeOK, SessionsServed
<1>6. QED BY <1>1, <1>2, <1>3, <1>4, <1>5 DEF CameraInv

\* SetNewDevConfig keeps the invariant.
LEMMA SetNewDevConfigKeeps ==
  ASSUME CameraInv, NEW r \in Requests, SetNewDevConfig(r)
  PROVE  CameraInv'
<1> USE CameraAssumption DEF SetNewDevConfig, Goto, nvr, locals, outcome, history
<1> DEFINE x == job[r].setting
<1>a. x \in Settings /\ x \in Setting /\ channel[r] \in Channels /\ standard[r] \in Standards
  BY DEF CameraInv, TypeOK, IsSet, Jobs, NoJob
<1>b. Packed(x, standard[r]) \in Stream
  BY <1>a, PackedType
<1>1. TypeOK'
  <2>1. config' \in [Channels -> Stream]
    BY <1>b DEF CameraInv, TypeOK
  <2>2. asked' \in [Channels -> Settings \cup {Nothing}]
    BY <1>a DEF CameraInv, TypeOK
  <2>3. applied' \in [Requests -> BOOLEAN] /\ ret' \in [Requests -> {-1, 0}]
    BY DEF CameraInv, TypeOK, Right, Known
  <2>4. QED BY <2>1, <2>2, <2>3 DEF CameraInv, TypeOK
<1>2. AskedIsSet'
  <2> SUFFICES ASSUME NEW ch \in Channels, asked'[ch] # Nothing
               PROVE  asked'[ch].resolution < 32 /\ config'[ch] = Packed(asked'[ch], byVideoStandard)
    BY DEF AskedIsSet
  <2>1. CASE ch = channel[r]
    <3>1. asked'[ch] = x /\ Right(r) /\ config'[ch] = Packed(x, standard[r])
      BY <2>1 DEF CameraInv, TypeOK
    <3>2. QED BY <3>1 DEF Right, Known
  <2>2. CASE ch # channel[r]
    BY <2>2 DEF CameraInv, TypeOK, AskedIsSet
  <2>3. QED BY <2>1, <2>2
<1>3. ChannelOfCamera'
  BY DEF CameraInv, TypeOK, ChannelOfCamera, HasChannel
<1>4. StandardOfNvr'
  BY DEF CameraInv, TypeOK, StandardOfNvr
<1>5. SessionsServed'
  BY DEF CameraInv, TypeOK, SessionsServed
<1>6. QED BY <1>1, <1>2, <1>3, <1>4, <1>5 DEF CameraInv

\* SetFails keeps the invariant.
LEMMA SetFailsKeeps ==
  ASSUME CameraInv, NEW r \in Requests, SetFails(r)
  PROVE  CameraInv'
<1> USE CameraAssumption DEF SetFails, Goto, nvr, locals, outcome, history
<1>1. TypeOK'
  BY DEF CameraInv, TypeOK
<1>2. AskedIsSet'
  BY DEF CameraInv, TypeOK, AskedIsSet
<1>3. ChannelOfCamera'
  BY DEF CameraInv, TypeOK, ChannelOfCamera, HasChannel
<1>4. StandardOfNvr'
  BY DEF CameraInv, TypeOK, StandardOfNvr
<1>5. SessionsServed'
  BY DEF CameraInv, TypeOK, SessionsServed
<1>6. QED BY <1>1, <1>2, <1>3, <1>4, <1>5 DEF CameraInv

\* GetNewDevConfig keeps the invariant.
LEMMA GetNewDevConfigKeeps ==
  ASSUME CameraInv, NEW r \in Requests, GetNewDevConfig(r)
  PROVE  CameraInv'
<1> USE CameraAssumption DEF GetNewDevConfig, Goto, nvr, locals, outcome, history
<1>1. TypeOK'
  <2>1. Named(config[channel[r]], standard[r]) \in Answer
    BY NamedType DEF CameraInv, TypeOK
  <2>2. answer' \in [Requests -> Answer \cup {Nothing}] /\ expected' \in [Requests -> Settings \cup {Nothing}]
    BY <2>1 DEF CameraInv, TypeOK
  <2>3. QED BY <2>2 DEF CameraInv, TypeOK
<1>2. AskedIsSet'
  BY DEF CameraInv, TypeOK, AskedIsSet
<1>3. ChannelOfCamera'
  BY DEF CameraInv, TypeOK, ChannelOfCamera, HasChannel
<1>4. StandardOfNvr'
  BY DEF CameraInv, TypeOK, StandardOfNvr
<1>5. SessionsServed'
  BY DEF CameraInv, TypeOK, SessionsServed
<1>6. QED BY <1>1, <1>2, <1>3, <1>4, <1>5 DEF CameraInv

\* GetFails keeps the invariant.
LEMMA GetFailsKeeps ==
  ASSUME CameraInv, NEW r \in Requests, GetFails(r)
  PROVE  CameraInv'
<1> USE CameraAssumption DEF GetFails, Goto, nvr, locals, outcome, history
<1>1. TypeOK'
  <2>1. Named(Zeroed, standard[r]) \in Answer
    BY NamedType, ZeroedType DEF CameraInv, TypeOK
  <2>2. answer' \in [Requests -> Answer \cup {Nothing}] /\ ret' \in [Requests -> {-1, 0}]
    BY <2>1 DEF CameraInv, TypeOK
  <2>3. QED BY <2>2 DEF CameraInv, TypeOK
<1>2. AskedIsSet'
  BY DEF CameraInv, TypeOK, AskedIsSet
<1>3. ChannelOfCamera'
  BY DEF CameraInv, TypeOK, ChannelOfCamera, HasChannel
<1>4. StandardOfNvr'
  BY DEF CameraInv, TypeOK, StandardOfNvr
<1>5. SessionsServed'
  BY DEF CameraInv, TypeOK, SessionsServed
<1>6. QED BY <1>1, <1>2, <1>3, <1>4, <1>5 DEF CameraInv

\* Cleanup keeps the invariant.
LEMMA CleanupKeeps ==
  ASSUME CameraInv, NEW r \in Requests, Cleanup(r)
  PROVE  CameraInv'
<1> USE CameraAssumption DEF Cleanup, Goto, nvr, locals, outcome, history
<1>1. TypeOK'
  BY DEF CameraInv, TypeOK
<1>2. AskedIsSet'
  BY DEF CameraInv, TypeOK, AskedIsSet
<1>3. ChannelOfCamera'
  BY DEF CameraInv, TypeOK, ChannelOfCamera, HasChannel
<1>4. StandardOfNvr'
  BY DEF CameraInv, TypeOK, StandardOfNvr
<1>5. SessionsServed'
  BY DEF CameraInv, TypeOK, SessionsServed
<1>6. QED BY <1>1, <1>2, <1>3, <1>4, <1>5 DEF CameraInv

\* Finish keeps the invariant.
LEMMA FinishKeeps ==
  ASSUME CameraInv, NEW r \in Requests, Finish(r)
  PROVE  CameraInv'
<1> USE CameraAssumption DEF Finish, Goto, nvr, locals, outcome, history
<1>1. TypeOK'
  <2>1. job' \in [Requests -> Jobs \cup {NoJob}] /\ channel' \in [Requests -> Channels]
    BY DEF CameraInv, TypeOK
  <2>2. answer' \in [Requests -> Answer \cup {Nothing}] /\ expected' \in [Requests -> Settings \cup {Nothing}]
    BY DEF CameraInv, TypeOK
  <2>3. /\ applied' \in [Requests -> BOOLEAN] /\ ret' \in [Requests -> {-1, 0}]
        /\ standard' \in [Requests -> Standards]
    BY DEF CameraInv, TypeOK, Standards
  <2>4. QED BY <2>1, <2>2, <2>3 DEF CameraInv, TypeOK
<1>2. AskedIsSet'
  BY DEF CameraInv, TypeOK, AskedIsSet
<1>3. ChannelOfCamera'
  BY DEF CameraInv, TypeOK, ChannelOfCamera, HasChannel
<1>4. StandardOfNvr'
  BY DEF CameraInv, TypeOK, StandardOfNvr
<1>5. SessionsServed'
  BY DEF CameraInv, TypeOK, SessionsServed
<1>6. QED BY <1>1, <1>2, <1>3, <1>4, <1>5 DEF CameraInv

\* Nothing that happens breaks the invariant, whatever may fail.
LEMMA CameraNext == CameraInv /\ [Next]_vars => CameraInv'
<1> SUFFICES ASSUME CameraInv, [Next]_vars PROVE CameraInv'
  OBVIOUS
<1>1. ASSUME NEW c \in Cameras, NEW ch \in Channels, DM_SetIpcInfo(c, ch) PROVE CameraInv'
  BY <1>1, DM_SetIpcInfoKeeps
<1>2. ASSUME NEW r \in Requests, NEW j \in Jobs, NEW ch \in Channels, Begin(r, j, ch)
      PROVE  CameraInv'
  BY <1>2, BeginKeeps
<1>3. ASSUME NEW r \in Requests, Serve(r) PROVE CameraInv'
  BY <1>3, PingFailsKeeps, LoginKeeps, ProtocolKeeps, ProtocolFailsKeeps, VideoStandardKeeps,
     SetNewDevConfigKeeps, SetFailsKeeps, GetNewDevConfigKeeps, GetFailsKeeps, CleanupKeeps,
     FinishKeeps
  DEF Serve
<1>4. CASE UNCHANGED vars
  BY <1>4 DEF vars, nvr, locals, outcome, history, CameraInv, TypeOK, AskedIsSet, ChannelOfCamera,
     HasChannel, StandardOfNvr, SessionsServed
<1>5. QED BY <1>1, <1>2, <1>3, <1>4 DEF Next

-----------------------------------------------------------------------------
\* The inductive invariant holds for any number of requests and cameras: what
\* a request knows of the NVR stays true while others end its session
\* (ipcControl.cpp 378-579, 747-968).
THEOREM CameraInvariant == Spec => []CameraInv
  BY CameraInit, CameraNext, PTL DEF Spec

\* A read reports what the last successful set of the channel asked for
\* (ipcControl.cpp 486-579).
THEOREM SettingsRead == Spec => []ReadsWhatWasSet
<1> DEFINE Unread == \A r \in Requests : expected[r] # Nothing => pc[r] \in {"logout", "done"}
<1>1. Init => ReadsWhatWasSet /\ Unread
  BY DEF Init, ReadsWhatWasSet
<1>2. CameraInv /\ ReadsWhatWasSet /\ Unread /\ [Next]_vars => ReadsWhatWasSet' /\ Unread'
  <2> SUFFICES ASSUME CameraInv, ReadsWhatWasSet, Unread, [Next]_vars
               PROVE  ReadsWhatWasSet' /\ Unread'
    OBVIOUS
  <2> USE DEF CameraInv, TypeOK, Goto
  <2>1. ASSUME NEW r \in Requests, GetNewDevConfig(r) PROVE ReadsWhatWasSet' /\ Unread'
    <3> DEFINE ch == channel[r]
    <3>1. ASSUME expected'[r] # Nothing PROVE answer'[r] = Reported(expected'[r])
      <4>1. /\ answer'[r] = Named(config[ch], standard[r]) /\ expected'[r] = asked[ch]
            /\ standard[r] = byVideoStandard /\ ch \in Channels
        BY <2>1, <3>1 DEF GetNewDevConfig
      <4>2. asked[ch] \in Setting
        BY <4>1, <3>1, CameraAssumption
      <4>3. asked[ch].resolution < 32 /\ config[ch] = Packed(asked[ch], standard[r])
        BY <4>1, <3>1 DEF AskedIsSet
      <4>4. QED BY <4>1, <4>2, <4>3, NamedAsAsked
    <3>2. \A q \in Requests \ {r} : expected'[q] = expected[q] /\ answer'[q] = answer[q]
      BY <2>1 DEF GetNewDevConfig
    <3>3. Unread'
      BY <2>1, <3>2 DEF GetNewDevConfig
    <3>4. QED BY <3>1, <3>2, <3>3 DEF ReadsWhatWasSet
  <2>2. ASSUME NEW r \in Requests, GetFails(r) PROVE ReadsWhatWasSet' /\ Unread'
    <3>1. expected[r] = Nothing
      BY <2>2 DEF GetFails
    <3>2. \A q \in Requests \ {r} : answer'[q] = answer[q]
      BY <2>2 DEF GetFails
    <3>3. expected' = expected
      BY <2>2 DEF GetFails, history
    <3>4. Unread'
      BY <2>2, <3>3 DEF GetFails
    <3>5. QED BY <3>1, <3>2, <3>3, <3>4 DEF ReadsWhatWasSet
  <2>3. ASSUME NEW r \in Requests, Finish(r) PROVE ReadsWhatWasSet' /\ Unread'
    BY <2>3 DEF Finish, ReadsWhatWasSet
  <2>4. ASSUME NEW r \in Requests, NEW j \in Jobs, NEW c \in Channels, Begin(r, j, c)
        PROVE  ReadsWhatWasSet' /\ Unread'
    BY <2>4 DEF Begin, ReadsWhatWasSet, outcome, history
  <2>5. ASSUME NEW r \in Requests,
               \/ PingFails(r) \/ \E ok \in BOOLEAN : Login(r, ok) \/ Protocol(r)
               \/ ProtocolFails(r) \/ \E s \in Standards : VideoStandard(r, s)
               \/ SetNewDevConfig(r) \/ SetFails(r)
        PROVE  ReadsWhatWasSet' /\ Unread'
    <3>1. UNCHANGED <<answer, expected>> /\ pc[r] \notin {"logout", "done"}
      BY <2>5 DEF PingFails, Login, Protocol, ProtocolFails, VideoStandard, SetNewDevConfig,
                  SetFails, outcome, history
    <3>2. \A q \in Requests \ {r} : pc'[q] = pc[q]
      BY <2>5 DEF PingFails, Login, Protocol, ProtocolFails, VideoStandard, SetNewDevConfig,
                  SetFails
    <3>3. QED BY <3>1, <3>2 DEF ReadsWhatWasSet
  <2>6. ASSUME NEW r \in Requests, Cleanup(r) PROVE ReadsWhatWasSet' /\ Unread'
    BY <2>6 DEF Cleanup, ReadsWhatWasSet, outcome, history
  <2>7. CASE UNCHANGED <<pc, answer, expected>>
    BY <2>7 DEF ReadsWhatWasSet
  <2>8. QED
    BY <2>1, <2>2, <2>3, <2>4, <2>5, <2>6, <2>7
    DEF Next, Serve, vars, outcome, history, DM_SetIpcInfo
<1>3. QED BY <1>1, <1>2, CameraInvariant, PTL DEF Spec

\* If the NVR tells its standard in a session that lives, a client is told of
\* a success only if its camera was set (ipcControl.cpp 747-894).
THEOREM SuccessesAreSets ==
  ASSUME "standardFails" \notin Env
  PROVE  Spec => []SuccessMeansSet
<1> DEFINE Told == \A r \in Requests :
             pc[r] \in {"logout", "done"} /\ IsSet(r) /\ ret[r] = 0 => applied[r]
<1>1. Init => Told
  BY DEF Init
<1>2. CameraInv /\ Told /\ [Next]_vars => Told'
  <2> SUFFICES ASSUME CameraInv, Told, [Next]_vars PROVE Told'
    OBVIOUS
  <2> USE DEF CameraInv, TypeOK, Goto, IsSet
  <2>1. ASSUME NEW r \in Requests, SetNewDevConfig(r) PROVE Told'
    <3>1. standard[r] = byVideoStandard
      BY <2>1 DEF SetNewDevConfig, StandardOfNvr
    <3>2. QED BY <2>1, <3>1 DEF SetNewDevConfig, Right, Known, locals
  <2>2. ASSUME NEW r \in Requests, SetFails(r) PROVE Told'
    BY <2>2 DEF SetFails, locals, history
  <2>3. ASSUME NEW r \in Requests, GetNewDevConfig(r) PROVE Told'
    BY <2>3 DEF GetNewDevConfig, locals
  <2>4. ASSUME NEW r \in Requests, GetFails(r) PROVE Told'
    BY <2>4 DEF GetFails, locals, history
  <2>5. ASSUME NEW r \in Requests, Cleanup(r) PROVE Told'
    BY <2>5 DEF Cleanup, locals, outcome, history
  <2>6. ASSUME NEW r \in Requests, PingFails(r) PROVE Told'
    BY <2>6 DEF PingFails, locals, history
  <2>7. ASSUME NEW r \in Requests,
               \/ Finish(r) \/ Protocol(r) \/ ProtocolFails(r)
               \/ \E ok \in BOOLEAN : Login(r, ok)
               \/ \E s \in Standards : VideoStandard(r, s)
        PROVE  Told'
    BY <2>7 DEF Finish, Protocol, ProtocolFails, Login, VideoStandard, locals, outcome, history
  <2>8. ASSUME NEW r \in Requests, NEW j \in Jobs, NEW ch \in Channels, Begin(r, j, ch)
        PROVE  Told'
    BY <2>8 DEF Begin, outcome, history
  <2>9. CASE \E c \in Cameras, ch \in Channels : DM_SetIpcInfo(c, ch)
    BY <2>9 DEF DM_SetIpcInfo, locals, outcome, history
  <2>10. CASE UNCHANGED vars
    BY <2>10 DEF vars, locals, outcome, history
  <2>11. QED BY <2>1, <2>2, <2>3, <2>4, <2>5, <2>6, <2>7, <2>8, <2>9, <2>10 DEF Next, Serve
<1>3. Told => SuccessMeansSet
  BY DEF SuccessMeansSet
<1>4. QED BY <1>1, <1>2, <1>3, CameraInvariant, PTL DEF Spec

\* A set changes a channel of its camera, or channel 0 (ipcControl.cpp 763).
THEOREM OwnChannels == Spec => OnlyOwnChannel
<1> DEFINE Own == \A ch \in Channels : config'[ch] # config[ch] =>
                    \E r \in Requests : /\ pc[r] = "config" /\ IsSet(r) /\ own[r]
                                        /\ ch = 0 \/ HasChannel(job[r].camera, ch)
<1>1. CameraInv /\ [Next]_vars => [Own]_vars
  <2> SUFFICES ASSUME CameraInv, [Next]_vars PROVE Own
    OBVIOUS
  <2>1. ASSUME NEW r \in Requests, SetNewDevConfig(r) PROVE Own
    <3>1. \A ch \in Channels : ch # channel[r] => config'[ch] = config[ch]
      BY <2>1 DEF CameraInv, TypeOK, SetNewDevConfig
    <3>2. pc[r] = "config" /\ IsSet(r) /\ own[r]
      BY <2>1 DEF SetNewDevConfig
    <3>3. channel[r] = 0 \/ HasChannel(job[r].camera, channel[r])
      BY DEF CameraInv, ChannelOfCamera
    <3>4. QED BY <3>1, <3>2, <3>3
  <2>2. CASE UNCHANGED config
    BY <2>2
  <2>3. QED
    BY <2>1, <2>2
    DEF Next, Serve, vars, nvr, DM_SetIpcInfo, Begin, PingFails, Login, Protocol,
        ProtocolFails, VideoStandard, SetFails, GetNewDevConfig, GetFails, Cleanup, Finish
<1>2. QED BY <1>1, CameraInvariant, PTL DEF Spec, OnlyOwnChannel

=============================================================================
