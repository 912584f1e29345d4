------------------------ MODULE ConcurrentDownloads -------------------------
(***************************************************************************)
(* DownloadPipeline when nobody waits for anybody: requests of several     *)
(* pool threads at a time, and a request while earlier recordings are      *)
(* still being downloaded.  The handle and the time range of a request go  *)
(* through globals all requests share, and its row carries the handle of   *)
(* another download for a while; this module says how far that confusion   *)
(* reaches.  It adds three history variables and changes nothing else.     *)
(***************************************************************************)
EXTENDS DownloadPipeline

VARIABLES
  alone,  (* requests no other was in flight with since they were admitted  *)
  before, (* the rows whose requests had ended when a request was admitted  *)
  stale   (* rows inserted with the handle of a download in progress        *)

cvars == <<vars, alone, before, stale>>

CInit ==
  /\ Init
  /\ alone = {}
  /\ before = [r \in Requests |-> {}]
  /\ stale = {}

-----------------------------------------------------------------------------
Admits(r) == Free(r) /\ ~Free(r)'

\* The rows no request will write its handle to any more.
Done == {i \in 1 .. last : \A r \in Requests : id[r] = i => Free(r)}

Remember ==
  /\ alone' = {r \in Requests :
                 /\ r \in alone \/ Admits(r)
                 /\ Free(r)' \/ \A q \in Requests : q = r \/ Free(q)'}
  /\ before' = [r \in Requests |-> IF Admits(r) THEN Done ELSE before[r]]
  /\ stale' = stale \cup {i \in Rows : last < i /\ i <= last' /\ DownLoadID'[i] \in live \ ended}

CNext == Next /\ Remember

CSpec == CInit /\ [][CNext]_cvars

-----------------------------------------------------------------------------
(***************************************************************************)
(* A request that no other joins on its way is served as if it were the    *)
(* only one: what it reads from the globals is what it wrote, its download *)
(* records its own time range and its reply names its own row.  What other *)
(* requests did before it came, however they overlapped, and what they do  *)
(* after it was answered does not reach it.                                *)
(***************************************************************************)
OwnDownloads(r) == HasRow(r) => \A h \in live : target[h] = id[r] => range[h] = r

OwnReply(r) == rpc[r] = "replied" => reply[r] = id[r]

UndisturbedRequest == \A r \in alone : OwnGlobals(r) /\ OwnDownloads(r) /\ OwnReply(r)

(***************************************************************************)
(* A reply may name the row of another request, since it is looked up by   *)
(* g_Download.m_downloadID, but never a recording whose request had ended  *)
(* before this one arrived: the handle in the global is at least as new as *)
(* the request's own, and only rows that are being registered carry it.    *)
(* Rows without a download (handle 0) can not be told apart.               *)
(***************************************************************************)
NoStaleReply ==
  \A r \in Requests :
    rpc[r] = "replied" /\ reply[r] # 0 /\ DownLoadID[reply[r]] # 0 => reply[r] \notin before[r]

(***************************************************************************)
(* DM_Convert stops a download that has not ended, and logs its user out,  *)
(* for one reason only: the row it converts was inserted with the handle   *)
(* of another download that was still in progress, whose end was taken for *)
(* the row's own.                                                          *)
(***************************************************************************)
StopsOnlyStale ==
  [][\A h \in (live \ live') \ ended : \E i \in todo \ todo' : seenId[i] = h /\ i \in stale]_cvars

=============================================================================
