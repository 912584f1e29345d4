----------------------------- MODULE ThreadPool -----------------------------
(***************************************************************************)
(* The worker pool that serves the SOAP interface: C_ThreadData (one       *)
(* worker and its suspend/resume protocol), C_ThreadManage (the round      *)
(* robin search for an idle worker and the shutdown of the pool) and       *)
(* MonitorSoapServerMain (the accept loop that hands a connection to a     *)
(* worker through an array of soap contexts).                              *)
(*                                                                         *)
(* Processes: the workers, the accept loop and the thread that runs        *)
(* DeInit.  A worker's m_ThreadCS is held across two steps only while that *)
(* worker is between setting its state and blocking in pthread_cond_wait,  *)
(* which is wpc = "park"; every other critical section is one step.  m_cs  *)
(* of the pool is never contended: DeInit searches only after it has       *)
(* joined the accept loop.                                                 *)
(***************************************************************************)
EXTENDS Integers, FiniteSets

CONSTANTS
  N,                (* workers in the pool, THREAD_COUNT_IN_POOL            *)
  M,                (* soap contexts, MaxClientAmount                       *)
  Clients,          (* remote SOAP clients                                  *)
  NoClient,         (* no connection                                        *)
  SpuriousWakeups,  (* may pthread_cond_wait return without a signal?       *)
  CopyMayFail,      (* may soap_copy run out of memory?                     *)
  AllowShutdown     (* is DestoryInstance ever called?                      *)

ASSUME PoolAssumption ==
  /\ N \in Nat \ {0}
  /\ M \in Nat \ {0}
  /\ NoClient \notin Clients
  /\ SpuriousWakeups \in BOOLEAN
  /\ CopyMayFail \in BOOLEAN
  /\ AllowShutdown \in BOOLEAN

Workers == 0 .. N-1        \* positions in m_ThreadDataList
End     == N               \* m_ThreadDataList.end()
Slots   == 1 .. M          \* csoapSon[]
NoSlot  == 0               \* a NULL m_pGsoap

VARIABLES
  m_iState,          (* Thread_State of each worker                         *)
  m_iResumeCount,    (* resume() calls a suspended worker still needs       *)
  m_iRunType,        (* 0 web service, 2 unknown, 3 told to quit            *)
  m_pGsoap,          (* the slot a worker was handed                        *)
  m_bQuit,           (* the worker must leave its loop                      *)
  wpc,               (* control point of each worker                        *)
  csoapSon,          (* each slot: NULL, an open context, a freed pointer   *)
  slotClient,        (* whose connection the context of a slot carries      *)
  client,            (* what each client is waiting for                     *)
  m_itIdl,           (* round robin cursor, End after the last element      *)
  itTmp,             (* cursor at the start of the running search           *)
  apc,               (* control point of the accept loop                    *)
  aClient,           (* the connection the accept loop is placing           *)
  aSlot,             (* the slot it chose                                   *)
  aThread,           (* the worker GetIdlThread returned                    *)
  g_bWebServiceQuit, (* the accept loop must stop                           *)
  dpc,               (* control point of DeInit                             *)
  dCount             (* its counter i                                       *)

workerVars == <<m_iState, m_iResumeCount, m_iRunType, m_pGsoap, m_bQuit, wpc>>
slotVars   == <<csoapSon, slotClient, client>>
scanVars   == <<m_itIdl, itTmp>>
acceptVars == <<apc, aClient, aSlot, aThread>>
quitVars   == <<g_bWebServiceQuit, dpc, dCount>>
vars == <<workerVars, slotVars, scanVars, acceptVars, quitVars>>

ThreadStates == {"INIT", "RUN", "SUSPEND_IDL", "RUN_LOCKED", "SUSPEND_LOCKED", "QUIT"}
RunTypes     == {0, 2, 3}
WorkerPcs    == {"suspend", "park", "waiting", "loop", "serve", "free", "clear",
                 "reset", "quit", "gone", "crashed"}
AcceptPcs    == {"accept", "check", "scan", "assign", "resume", "done"}
DeInitPcs    == {"off", "join", "collect", "scan", "resume", "reap", "finished"}

(***************************************************************************)
(* InitThreadData has created every worker; none has reached suspend yet.  *)
(***************************************************************************)
Init ==
  /\ m_iState       = [w \in Workers |-> "INIT"]
  /\ m_iResumeCount = [w \in Workers |-> 0]
  /\ m_iRunType     = [w \in Workers |-> 2]
  /\ m_pGsoap       = [w \in Workers |-> NoSlot]
  /\ m_bQuit        = [w \in Workers |-> FALSE]
  /\ wpc            = [w \in Workers |-> "suspend"]
  /\ csoapSon       = [s \in Slots |-> "NULL"]
  /\ slotClient     = [s \in Slots |-> NoClient]
  /\ client         = [c \in Clients |-> "away"]
  /\ m_itIdl = 0
  /\ itTmp = 0
  /\ apc = "accept"
  /\ aClient = NoClient
  /\ aSlot = NoSlot
  /\ aThread = 0
  /\ g_bWebServiceQuit = FALSE
  /\ dpc = "off"
  /\ dCount = 0

Goto(w, label) == wpc' = [wpc EXCEPT ![w] = label]

\* Mutant: the state constant of a locked worker is used for an idle one.
SuspendAsLocked(w) ==
  /\ wpc[w] = "suspend"
  /\ m_iState[w] \in {"INIT", "RUN", "RUN_LOCKED"}
  /\ m_iResumeCount' = [m_iResumeCount EXCEPT ![w] = 1]
  /\ m_iState' = [m_iState EXCEPT ![w] = "SUSPEND_LOCKED"]
  /\ Goto(w, "park")
  /\ UNCHANGED <<m_iRunType, m_pGsoap, m_bQuit, slotVars, scanVars, acceptVars, quitVars>>

\* Mutant: the resume count is not armed.
SuspendUnarmed(w) ==
  /\ wpc[w] = "suspend"
  /\ m_iState[w] \in {"INIT", "RUN", "RUN_LOCKED"}
  /\ m_iState' = [m_iState EXCEPT ![w] = "SUSPEND_IDL"]
  /\ Goto(w, "park")
  /\ UNCHANGED <<m_iResumeCount, m_iRunType, m_pGsoap, m_bQuit, slotVars, scanVars,
                 acceptVars, quitVars>>

(***************************************************************************)
(* C_ThreadData::suspend.  The state becomes visible to IsIdlState (which  *)
(* takes m_CS, not m_ThreadCS) before the worker blocks.                   *)
(***************************************************************************)
Suspend(w) ==
  /\ wpc[w] = "suspend"
  /\ m_iState[w] \in {"INIT", "RUN", "RUN_LOCKED"}
  /\ m_iResumeCount' = [m_iResumeCount EXCEPT ![w] = 1]
  /\ m_iState' = [m_iState EXCEPT ![w] = "SUSPEND_IDL"]
  /\ Goto(w, "park")
  /\ UNCHANGED <<m_iRunType, m_pGsoap, m_bQuit, slotVars, scanVars, acceptVars, quitVars>>

\* ERROR_THREAD_STATE is logged and the worker carries on without blocking.
SuspendRefused(w) ==
  /\ wpc[w] = "suspend"
  /\ m_iState[w] \notin {"INIT", "RUN", "RUN_LOCKED"}
  /\ Goto(w, "loop")
  /\ UNCHANGED <<m_iState, m_iResumeCount, m_iRunType, m_pGsoap, m_bQuit,
                 slotVars, scanVars, acceptVars, quitVars>>

\* pthread_cond_wait releases m_ThreadCS and blocks, atomically.
Park(w) ==
  /\ wpc[w] = "park"
  /\ Goto(w, "waiting")
  /\ UNCHANGED <<m_iState, m_iResumeCount, m_iRunType, m_pGsoap, m_bQuit,
                 slotVars, scanVars, acceptVars, quitVars>>

\* The wait has no predicate loop, so a wakeup without signal returns too.
SpuriousWake(w) ==
  /\ SpuriousWakeups
  /\ wpc[w] = "waiting"
  /\ Goto(w, "loop")
  /\ UNCHANGED <<m_iState, m_iResumeCount, m_iRunType, m_pGsoap, m_bQuit,
                 slotVars, scanVars, acceptVars, quitVars>>

\* Mutant: resume does not take m_ThreadCS, so it may signal before the wait.
ResumeUnlocked(w) ==
  LET wakes == m_iResumeCount[w] = 1 /\ m_iState[w] = "SUSPEND_LOCKED"
  IN  /\ m_iResumeCount' = [m_iResumeCount EXCEPT ![w] = @ - 1]
      /\ m_iState' = IF wakes THEN [m_iState EXCEPT ![w] = "RUN"] ELSE m_iState
      /\ wpc' = IF wakes /\ wpc[w] = "waiting" THEN [wpc EXCEPT ![w] = "loop"] ELSE wpc

(***************************************************************************)
(* C_ThreadData::resume, called by the thread that locked worker w.        *)
(***************************************************************************)
Resume(w) ==
  LET wakes == m_iResumeCount[w] = 1 /\ m_iState[w] = "SUSPEND_LOCKED"
  IN  /\ wpc[w] # "park"                              \* EnterCS on m_ThreadCS
      /\ m_iResumeCount' = [m_iResumeCount EXCEPT ![w] = @ - 1]
      /\ m_iState' = IF wakes THEN [m_iState EXCEPT ![w] = "RUN"] ELSE m_iState
      /\ wpc' = IF wakes /\ wpc[w] = "waiting" THEN [wpc EXCEPT ![w] = "loop"] ELSE wpc

(***************************************************************************)
(* Threadfunc: the loop body of a worker.                                  *)
(***************************************************************************)
SeeQuit(w) ==
  /\ wpc[w] = "loop"
  /\ m_bQuit[w]
  /\ Goto(w, "quit")
  /\ UNCHANGED <<m_iState, m_iResumeCount, m_iRunType, m_pGsoap, m_bQuit,
                 slotVars, scanVars, acceptVars, quitVars>>

StartService(w) ==
  /\ wpc[w] = "loop"
  /\ ~m_bQuit[w]
  /\ m_iRunType[w] = 0
  /\ Goto(w, "serve")
  /\ UNCHANGED <<m_iState, m_iResumeCount, m_iRunType, m_pGsoap, m_bQuit,
                 slotVars, scanVars, acceptVars, quitVars>>

\* The last branch prints m_pTask->m_iCommandNumber; no task was ever
\* attached to a worker of this pool, so the program dies here.
UnknownType(w) ==
  /\ wpc[w] = "loop"
  /\ ~m_bQuit[w]
  /\ m_iRunType[w] # 0
  /\ Goto(w, "crashed")
  /\ UNCHANGED <<m_iState, m_iResumeCount, m_iRunType, m_pGsoap, m_bQuit,
                 slotVars, scanVars, acceptVars, quitVars>>

\* process_request: soap_serve answers the client of the context.
SoapServe(w) ==
  /\ wpc[w] = "serve"
  /\ client' = [client EXCEPT ![slotClient[m_pGsoap[w]]] = "answered"]
  /\ Goto(w, "free")
  /\ UNCHANGED <<m_iState, m_iResumeCount, m_iRunType, m_pGsoap, m_bQuit,
                 csoapSon, slotClient, scanVars, acceptVars, quitVars>>

\* Mutant: the slot is given back before the worker is done with it.
FreeSoapEarlyClear(w) ==
  /\ wpc[w] = "free"
  /\ csoapSon' = [csoapSon EXCEPT ![m_pGsoap[w]] = "NULL"]
  /\ slotClient' = [slotClient EXCEPT ![m_pGsoap[w]] = NoClient]
  /\ Goto(w, "clear")
  /\ UNCHANGED <<m_iState, m_iResumeCount, m_iRunType, m_pGsoap, m_bQuit,
                 client, scanVars, acceptVars, quitVars>>

\* process_request: soap_destroy .. free of the context; the slot dangles.
FreeSoap(w) ==
  /\ wpc[w] = "free"
  /\ csoapSon' = [csoapSon EXCEPT ![m_pGsoap[w]] = "freed"]
  /\ slotClient' = [slotClient EXCEPT ![m_pGsoap[w]] = NoClient]
  /\ Goto(w, "clear")
  /\ UNCHANGED <<m_iState, m_iResumeCount, m_iRunType, m_pGsoap, m_bQuit,
                 client, scanVars, acceptVars, quitVars>>

\* process_request: the last statement gives the slot back.
ClearSlot(w) ==
  /\ wpc[w] = "clear"
  /\ csoapSon' = [csoapSon EXCEPT ![m_pGsoap[w]] = "NULL"]
  /\ Goto(w, "reset")
  /\ UNCHANGED <<m_iState, m_iResumeCount, m_iRunType, m_pGsoap, m_bQuit,
                 slotClient, client, scanVars, acceptVars, quitVars>>

\* Webservicefunc after process_request, and the quit test that follows.
ResetWorker(w) ==
  /\ wpc[w] = "reset"
  /\ m_pGsoap' = [m_pGsoap EXCEPT ![w] = NoSlot]
  /\ m_iRunType' = [m_iRunType EXCEPT ![w] = 2]
  /\ Goto(w, IF m_bQuit[w] THEN "quit" ELSE "suspend")
  /\ UNCHANGED <<m_iState, m_iResumeCount, m_bQuit,
                 slotVars, scanVars, acceptVars, quitVars>>

\* Mutant: the worker leaves without announcing QUIT_STATE.
QuitSilently(w) ==
  /\ wpc[w] = "quit"
  /\ Goto(w, "gone")
  /\ UNCHANGED <<m_iState, m_iResumeCount, m_iRunType, m_pGsoap, m_bQuit,
                 slotVars, scanVars, acceptVars, quitVars>>

SetQuitState(w) ==
  /\ wpc[w] = "quit"
  /\ m_iState' = [m_iState EXCEPT ![w] = "QUIT"]
  /\ Goto(w, "gone")
  /\ UNCHANGED <<m_iResumeCount, m_iRunType, m_pGsoap, m_bQuit,
                 slotVars, scanVars, acceptVars, quitVars>>

WorkerStep(w) ==
  \/ Suspend(w) \/ SuspendRefused(w) \/ Park(w)
  \/ SeeQuit(w) \/ StartService(w) \/ UnknownType(w)
  \/ SoapServe(w) \/ FreeSoap(w) \/ ClearSlot(w) \/ ResetWorker(w)
  \/ SetQuitState(w)

(***************************************************************************)
(* C_ThreadManage::GetIdlThread, one list element per step.  The search    *)
(* gives up when the cursor is back at its start; the cursor is moved off  *)
(* End only at the head of the loop, so a search that started at begin()   *)
(* never sees its start again.                                             *)
(***************************************************************************)
Cursor == IF m_itIdl = End THEN 0 ELSE m_itIdl

BeginScan == itTmp' = m_itIdl

ScanTakes(w) ==
  /\ w = Cursor
  /\ m_iState[w] = "SUSPEND_IDL"
  /\ m_iState' = [m_iState EXCEPT ![w] = "SUSPEND_LOCKED"]
  /\ m_itIdl' = IF w + 1 = End THEN 0 ELSE w + 1

ScanPasses ==
  /\ m_iState[Cursor] # "SUSPEND_IDL"
  /\ m_itIdl' = Cursor + 1

ScanGivesUp == Cursor + 1 = itTmp

(***************************************************************************)
(* MonitorSoapServerMain.                                                  *)
(***************************************************************************)
Connect(c) ==
  /\ client[c] \in {"away", "answered", "refused"}
  /\ client' = [client EXCEPT ![c] = "waiting"]
  /\ UNCHANGED <<workerVars, csoapSon, slotClient, scanVars, acceptVars, quitVars>>

Accept(c) ==
  /\ apc = "accept"
  /\ client[c] = "waiting"
  /\ client' = [client EXCEPT ![c] = "accepted"]
  /\ aClient' = c
  /\ apc' = "check"
  /\ UNCHANGED <<workerVars, csoapSon, slotClient, scanVars, aSlot, aThread, quitVars>>

\* The loop condition after an accept timeout or a finished hand over.
StopListening ==
  /\ apc = "accept"
  /\ g_bWebServiceQuit
  /\ apc' = "done"
  /\ UNCHANGED <<workerVars, slotVars, scanVars, aClient, aSlot, aThread, quitVars>>

\* The locals of the loop body end with it.
EndIteration == aClient' = NoClient /\ aSlot' = NoSlot

RefuseClient ==
  /\ client' = [client EXCEPT ![aClient] = "refused"]
  /\ EndIteration

QuitAfterAccept ==
  /\ apc = "check"
  /\ g_bWebServiceQuit
  /\ RefuseClient
  /\ apc' = "done"
  /\ UNCHANGED <<workerVars, csoapSon, slotClient, scanVars, aThread, quitVars>>

\* Mutant: the connection is dropped without being closed.
NoFreeSlotLeaks ==
  /\ apc = "check"
  /\ ~g_bWebServiceQuit
  /\ \A s \in Slots : csoapSon[s] # "NULL"
  /\ EndIteration
  /\ apc' = "accept"
  /\ UNCHANGED <<workerVars, slotVars, scanVars, aThread, quitVars>>

NoFreeSlot ==
  /\ apc = "check"
  /\ ~g_bWebServiceQuit
  /\ \A s \in Slots : csoapSon[s] # "NULL"
  /\ RefuseClient
  /\ apc' = "accept"
  /\ UNCHANGED <<workerVars, csoapSon, slotClient, scanVars, aThread, quitVars>>

\* Mutant: a slot whose context was freed but not cleared counts as free.
FirstNotOpen(s) ==
  /\ csoapSon[s] # "open"
  /\ \A r \in Slots : r < s => csoapSon[r] = "open"

FirstFree(s) ==
  /\ csoapSon[s] = "NULL"
  /\ \A r \in Slots : r < s => csoapSon[r] # "NULL"

\* Only the accept loop fills slots, so its search for a NULL one is as if
\* made at an instant.
CopySoap(s) ==
  /\ apc = "check"
  /\ ~g_bWebServiceQuit
  /\ FirstFree(s)
  /\ csoapSon' = [csoapSon EXCEPT ![s] = "open"]
  /\ slotClient' = [slotClient EXCEPT ![s] = aClient]
  /\ aSlot' = s
  /\ BeginScan
  /\ apc' = "scan"
  /\ UNCHANGED <<workerVars, client, m_itIdl, aClient, aThread, quitVars>>

\* soap_copy returned NULL: the loop goes on without closing the connection,
\* and the next soap_accept overwrites its socket.
CopyFails ==
  /\ CopyMayFail
  /\ apc = "check"
  /\ ~g_bWebServiceQuit
  /\ \E s \in Slots : csoapSon[s] = "NULL"
  /\ EndIteration
  /\ apc' = "accept"
  /\ UNCHANGED <<workerVars, slotVars, scanVars, aThread, quitVars>>

AcceptTakes(w) ==
  /\ apc = "scan"
  /\ ScanTakes(w)
  /\ aThread' = w
  /\ apc' = "assign"
  /\ UNCHANGED <<m_iResumeCount, m_iRunType, m_pGsoap, m_bQuit, wpc, slotVars, itTmp,
                 aClient, aSlot, quitVars>>

AcceptPasses ==
  /\ apc = "scan"
  /\ ScanPasses
  /\ ~ScanGivesUp
  /\ UNCHANGED <<workerVars, slotVars, itTmp, acceptVars, quitVars>>

\* Mutant: the error path leaves the copied context in its slot.
AcceptGivesUpKeepsSlot ==
  /\ apc = "scan"
  /\ ScanPasses
  /\ ScanGivesUp
  /\ RefuseClient
  /\ apc' = "accept"
  /\ UNCHANGED <<workerVars, csoapSon, slotClient, itTmp, aThread, quitVars>>

\* GetIdlThread returned ERROR_THREAD_LIST_FULL: the copy is destroyed.
AcceptGivesUp ==
  /\ apc = "scan"
  /\ ScanPasses
  /\ ScanGivesUp
  /\ csoapSon' = [csoapSon EXCEPT ![aSlot] = "NULL"]
  /\ slotClient' = [slotClient EXCEPT ![aSlot] = NoClient]
  /\ RefuseClient
  /\ apc' = "accept"
  /\ UNCHANGED <<workerVars, itTmp, aThread, quitVars>>

\* Mutant: SetRunType is forgotten.
AssignNoRunType ==
  /\ apc = "assign"
  /\ m_pGsoap' = [m_pGsoap EXCEPT ![aThread] = aSlot]
  /\ apc' = "resume"
  /\ UNCHANGED <<m_iState, m_iResumeCount, m_iRunType, m_bQuit, wpc, slotVars, scanVars,
                 aClient, aSlot, aThread, quitVars>>

AssignRequest ==
  /\ apc = "assign"
  /\ m_pGsoap' = [m_pGsoap EXCEPT ![aThread] = aSlot]
  /\ m_iRunType' = [m_iRunType EXCEPT ![aThread] = 0]
  /\ apc' = "resume"
  /\ UNCHANGED <<m_iState, m_iResumeCount, m_bQuit, wpc, slotVars, scanVars,
                 aClient, aSlot, aThread, quitVars>>

ResumeWorker ==
  /\ apc = "resume"
  /\ Resume(aThread)
  /\ EndIteration
  /\ apc' = "accept"
  /\ UNCHANGED <<m_iRunType, m_pGsoap, m_bQuit, slotVars, scanVars,
                 aThread, quitVars>>

AcceptStep ==
  \/ \E c \in Clients : Accept(c)
  \/ StopListening \/ QuitAfterAccept \/ NoFreeSlot
  \/ \E s \in Slots : CopySoap(s)
  \/ \E w \in Workers : AcceptTakes(w)
  \/ AcceptPasses \/ AcceptGivesUp \/ AssignRequest \/ ResumeWorker

(***************************************************************************)
(* C_ThreadManage::DeInit, reached from DestoryInstance.                   *)
(***************************************************************************)
StartDeInit ==
  /\ AllowShutdown
  /\ dpc = "off"
  /\ g_bWebServiceQuit' = TRUE
  /\ dpc' = "join"
  /\ UNCHANGED <<workerVars, slotVars, scanVars, acceptVars, dCount>>

JoinWebservice ==
  /\ dpc = "join"
  /\ apc = "done"
  /\ dpc' = "collect"
  /\ UNCHANGED <<workerVars, slotVars, scanVars, acceptVars, g_bWebServiceQuit, dCount>>

CollectNext ==
  /\ dpc = "collect"
  /\ dCount < N
  /\ BeginScan
  /\ dpc' = "scan"
  /\ UNCHANGED <<workerVars, slotVars, m_itIdl, acceptVars, g_bWebServiceQuit, dCount>>

DeInitTakes(w) ==
  /\ dpc = "scan"
  /\ ScanTakes(w)
  /\ aThread' = w
  /\ m_bQuit' = [m_bQuit EXCEPT ![w] = TRUE]
  /\ m_iRunType' = [m_iRunType EXCEPT ![w] = 3]
  /\ dpc' = "resume"
  /\ UNCHANGED <<m_iResumeCount, m_pGsoap, wpc, slotVars, itTmp, apc, aClient, aSlot,
                 g_bWebServiceQuit, dCount>>

\* Mutant: a search that gave up is counted as a worker collected.
DeInitPassesCounts ==
  /\ dpc = "scan"
  /\ ScanPasses
  /\ dpc' = IF ScanGivesUp THEN "collect" ELSE "scan"
  /\ dCount' = IF ScanGivesUp THEN dCount + 1 ELSE dCount
  /\ UNCHANGED <<workerVars, slotVars, itTmp, acceptVars, g_bWebServiceQuit>>

DeInitPasses ==
  /\ dpc = "scan"
  /\ ScanPasses
  /\ dpc' = IF ScanGivesUp THEN "collect" ELSE "scan"
  /\ UNCHANGED <<workerVars, slotVars, itTmp, acceptVars, g_bWebServiceQuit, dCount>>

DeInitResume ==
  /\ dpc = "resume"
  /\ Resume(aThread)
  /\ dCount' = dCount + 1
  /\ dpc' = "collect"
  /\ UNCHANGED <<m_iRunType, m_pGsoap, m_bQuit, slotVars, scanVars, acceptVars,
                 g_bWebServiceQuit>>

AllCollected ==
  /\ dpc = "collect"
  /\ dCount = N
  /\ dpc' = "reap"
  /\ UNCHANGED <<workerVars, slotVars, scanVars, acceptVars, g_bWebServiceQuit, dCount>>

\* The busy wait for QUIT_STATE, then delete: dCount now counts down the
\* workers still to be deleted, in list order.
Reap ==
  /\ dpc = "reap"
  /\ dCount > 0
  /\ m_iState[N - dCount] = "QUIT"
  /\ dCount' = dCount - 1
  /\ UNCHANGED <<workerVars, slotVars, scanVars, acceptVars, g_bWebServiceQuit, dpc>>

PoolExit ==
  /\ dpc = "reap"
  /\ dCount = 0
  /\ dpc' = "finished"
  /\ UNCHANGED <<workerVars, slotVars, scanVars, acceptVars, g_bWebServiceQuit, dCount>>

DeInitStep ==
  \/ JoinWebservice \/ CollectNext
  \/ \E w \in Workers : DeInitTakes(w)
  \/ DeInitPasses \/ DeInitResume \/ AllCollected \/ Reap \/ PoolExit

-----------------------------------------------------------------------------
\* A worker that dereferenced NULL took the process with it.
Alive == \A w \in Workers : wpc[w] # "crashed"

Next ==
  /\ Alive
  /\ \/ \E w \in Workers : WorkerStep(w)
     \/ \E w \in Workers : SpuriousWake(w)
     \/ \E c \in Clients : Connect(c)
     \/ AcceptStep
     \/ CopyFails
     \/ StartDeInit
     \/ DeInitStep

Spec == Init /\ [][Next]_vars

(***************************************************************************)
(* Threads are scheduled, soap_accept returns when a connection is         *)
(* pending, and soap_serve ends (its send and receive time out).           *)
(***************************************************************************)
Scheduling ==
  /\ \A w \in Workers : WF_vars(Alive /\ WorkerStep(w) /\ wpc[w] # "serve")
  /\ WF_vars(Alive /\ AcceptStep)
  /\ WF_vars(Alive /\ DeInitStep)

ServiceEnds == \A w \in Workers : WF_vars(Alive /\ SoapServe(w))

FairSpec == Spec /\ Scheduling /\ ServiceEnds

\* The same without the promise that a service call returns.
HangingSpec == Spec /\ Scheduling

-----------------------------------------------------------------------------
TypeOK ==
  /\ m_iState       \in [Workers -> ThreadStates]
  /\ m_iResumeCount \in [Workers -> Int]
  /\ m_iRunType     \in [Workers -> RunTypes]
  /\ m_pGsoap       \in [Workers -> Slots \cup {NoSlot}]
  /\ m_bQuit        \in [Workers -> BOOLEAN]
  /\ wpc            \in [Workers -> WorkerPcs]
  /\ csoapSon       \in [Slots -> {"NULL", "open", "freed"}]
  /\ slotClient     \in [Slots -> Clients \cup {NoClient}]
  /\ client         \in [Clients -> {"away", "waiting", "accepted", "answered", "refused"}]
  /\ m_itIdl \in 0 .. N
  /\ itTmp   \in 0 .. N
  /\ apc     \in AcceptPcs
  /\ aClient \in Clients \cup {NoClient}
  /\ aSlot   \in Slots \cup {NoSlot}
  /\ aThread \in Workers
  /\ g_bWebServiceQuit \in BOOLEAN
  /\ dpc     \in DeInitPcs
  /\ dCount  \in 0 .. N
  /\ dpc \in {"scan", "resume"} => dCount < N

(***************************************************************************)
(* Safety.                                                                 *)
(***************************************************************************)
\* The worker the searching thread has locked but not yet resumed.
Dispatching(w) == aThread = w /\ (apc \in {"assign", "resume"} \/ dpc = "resume")

\* A worker owns its slot from the hand over until it has cleared it.
WorkerOwns(w, s) ==
  /\ m_pGsoap[w] = s
  /\ m_iRunType[w] = 0
  /\ wpc[w] # "reset"

AcceptorOwns(s) == aSlot = s /\ apc \in {"scan", "assign"}

(***************************************************************************)
(* Every context in csoapSon[] has exactly one owner, the accept loop or a *)
(* worker, and a NULL slot has none: connections are neither leaked nor    *)
(* handed to two workers although slots are filled and cleared without a   *)
(* lock (C_SoapServer.cpp 60-97 against 134-146).                          *)
(***************************************************************************)
SlotOwnership ==
  \A s \in Slots :
    LET owners == {w \in Workers : WorkerOwns(w, s)}
    IN  IF csoapSon[s] = "NULL"
        THEN owners = {} /\ ~AcceptorOwns(s)
        ELSE \/ AcceptorOwns(s) /\ owners = {}
             \/ ~AcceptorOwns(s) /\ \E w \in Workers : owners = {w}

(***************************************************************************)
(* process_request never serves or frees a context that is already freed   *)
(* or whose slot was cleared under it.                                     *)
(***************************************************************************)
NoUseAfterFree ==
  \A w \in Workers : wpc[w] \in {"serve", "free"} => csoapSon[m_pGsoap[w]] = "open"

(***************************************************************************)
(* No wakeup is lost: a worker blocked in suspend is still marked          *)
(* suspended, although IsIdlState locks it under m_CS and suspend and      *)
(* resume work under m_ThreadCS, and a locked worker always has a          *)
(* dispatcher that will still resume it.                                   *)
(***************************************************************************)
NoLostWakeup ==
  \A w \in Workers :
    /\ wpc[w] \in {"park", "waiting"} =>
         m_iState[w] \in {"SUSPEND_IDL", "SUSPEND_LOCKED"} /\ m_iResumeCount[w] = 1
    /\ m_iState[w] = "SUSPEND_LOCKED" => Dispatching(w)

(***************************************************************************)
(* Threadfunc never reaches its last branch, where it would dereference a  *)
(* NULL m_pTask, and suspend never finds an illegal state                  *)
(* (ERROR_THREAD_STATE).                                                   *)
(***************************************************************************)
WorkerProtocol ==
  \A w \in Workers :
    /\ wpc[w] # "crashed"
    /\ wpc[w] = "suspend" => m_iState[w] \in {"INIT", "RUN"}

(***************************************************************************)
(* DeInit counts rounds, not workers: its counter is the number of workers *)
(* told to quit only if no search returns the same worker twice.  It goes  *)
(* on to delete them when all have been told, and deletes each one after   *)
(* it has left Threadfunc (C_ThreadManage.cpp 145-180).                    *)
(***************************************************************************)
Collected == {w \in Workers : m_bQuit[w]}

ShutdownInOrder ==
  /\ dpc \in {"collect", "scan"} => Cardinality(Collected) = dCount
  /\ dpc = "resume" => Cardinality(Collected) = dCount + 1
  /\ dpc = "reap" => Collected = Workers /\ \A w \in Workers : w < N - dCount => wpc[w] = "gone"
  /\ dpc = "finished" => \A w \in Workers : wpc[w] = "gone"

(***************************************************************************)
(* Liveness.                                                               *)
(***************************************************************************)
\* GetIdlThread returns: the accept loop is not stuck in the search.
SearchReturns == []<>(apc # "scan")

(***************************************************************************)
(* ERROR_THREAD_LIST_FULL is documented as "the thread queue is full, no   *)
(* idle thread": a search that finds every worker busy ends with it.       *)
(***************************************************************************)
FullPoolReported ==
  ~<>[](apc = "scan" /\ \A w \in Workers : m_iState[w] # "SUSPEND_IDL")

\* DeInit ends: every worker is found idle once more, told to quit, and
\* seen in QUIT_STATE, whatever the pool was doing when it was called.
ShutdownCompletes == (dpc = "join") ~> (dpc = "finished")

(***************************************************************************)
(* The inductive invariant, for a pthread_cond_wait that returns only when *)
(* signalled.  WorkerShape ties a worker's control point to the four       *)
(* fields other threads write; Phases says that the accept loop and DeInit *)
(* never dispatch at the same time; SlotShape, OwnersUnique and            *)
(* NoOrphanSlot are SlotOwnership spelled out with the state of the        *)
(* context each owner relies on.                                           *)
(***************************************************************************)
Unassigned(w) == m_iRunType[w] = 2 /\ m_pGsoap[w] = NoSlot /\ ~m_bQuit[w]
Assigned(w)   == m_iRunType[w] = 0 /\ m_pGsoap[w] \in Slots /\ ~m_bQuit[w]
ToldToQuit(w) == m_iRunType[w] = 3 /\ m_pGsoap[w] = NoSlot /\ m_bQuit[w]

WorkerShape(w) ==
  /\ wpc[w] # "crashed"
  /\ wpc[w] = "suspend" => m_iState[w] \in {"INIT", "RUN"} /\ Unassigned(w)
  /\ wpc[w] \in {"park", "waiting"} =>
       /\ m_iResumeCount[w] = 1
       /\ \/ m_iState[w] = "SUSPEND_IDL" /\ Unassigned(w)
          \/ m_iState[w] = "SUSPEND_LOCKED" /\ Dispatching(w)
  /\ wpc[w] = "loop" => m_iState[w] = "RUN" /\ (Assigned(w) \/ ToldToQuit(w))
  /\ wpc[w] \in {"serve", "free", "clear", "reset"} => m_iState[w] = "RUN" /\ Assigned(w)
  /\ wpc[w] = "quit" => m_iState[w] = "RUN" /\ ToldToQuit(w)
  /\ wpc[w] = "gone" => m_iState[w] = "QUIT" /\ ToldToQuit(w)
  /\ Dispatching(w) => wpc[w] \in {"park", "waiting"} /\ m_iState[w] = "SUSPEND_LOCKED"

Phases ==
  /\ dpc \notin {"off", "join"} => apc = "done"
  /\ apc \in {"scan", "assign", "resume"} => aSlot \in Slots
  /\ apc = "assign" => Unassigned(aThread)
  /\ apc = "resume" => Assigned(aThread) /\ m_pGsoap[aThread] = aSlot
  /\ dpc = "resume" => ToldToQuit(aThread)

SlotShape ==
  /\ \A w \in Workers : Assigned(w) =>
       /\ wpc[w] = "clear" => csoapSon[m_pGsoap[w]] = "freed"
       /\ wpc[w] \notin {"clear", "reset"} => csoapSon[m_pGsoap[w]] = "open"
  /\ \A s \in Slots : AcceptorOwns(s) => csoapSon[s] = "open"

OwnersUnique ==
  /\ \A s \in Slots, v, w \in Workers : WorkerOwns(v, s) /\ WorkerOwns(w, s) => v = w
  /\ \A s \in Slots, w \in Workers : AcceptorOwns(s) => ~WorkerOwns(w, s)

NoOrphanSlot ==
  \A s \in Slots : csoapSon[s] # "NULL" =>
    AcceptorOwns(s) \/ \E w \in Workers : WorkerOwns(w, s)

PoolInv ==
  /\ TypeOK
  /\ \A w \in Workers : WorkerShape(w)
  /\ Phases
  /\ SlotShape
  /\ OwnersUnique
  /\ NoOrphanSlot

(***************************************************************************)
(* What is left of it when pthread_cond_wait may return at any time.  A    *)
(* worker may run before its dispatcher resumes it, and the program may    *)
(* crash; but the fields that are assigned to a worker still go together,  *)
(* a worker is only ever taken before it has looked at them, and every     *)
(* slot keeps its one owner.                                               *)
(***************************************************************************)
WokenShape(w) ==
  /\ Unassigned(w) \/ Assigned(w) \/ ToldToQuit(w)
  /\ wpc[w] \in {"suspend", "crashed"} => Unassigned(w)
  /\ wpc[w] \in {"serve", "free", "clear", "reset"} => Assigned(w)
  /\ m_iState[w] = "SUSPEND_IDL" =>
       Unassigned(w) /\ wpc[w] \in {"park", "waiting", "loop", "crashed"}
  /\ apc = "assign" /\ aThread = w =>
       /\ m_iState[w] = "SUSPEND_LOCKED"
       /\ Unassigned(w) /\ wpc[w] \in {"park", "waiting", "loop", "crashed"}

SlotInv ==
  /\ TypeOK
  /\ \A w \in Workers : WokenShape(w)
  /\ dpc \notin {"off", "join"} => apc = "done"
  /\ apc \in {"scan", "assign", "resume"} => aSlot \in Slots
  /\ SlotShape
  /\ OwnersUnique
  /\ NoOrphanSlot

(***************************************************************************)
(* What NoLostWakeup rests on, with or without wakeups nobody sent: only a *)
(* worker whose resume count is armed shows itself idle, nobody but its    *)
(* dispatcher ends its lock (a worker told to quit may end itself before   *)
(* it is resumed), and DeInit resumes the worker it has told to quit.      *)
(***************************************************************************)
WakeInv ==
  /\ NoLostWakeup
  /\ \A w \in Workers :
       /\ m_iState[w] = "SUSPEND_IDL" => m_iResumeCount[w] = 1
       /\ Dispatching(w) => m_iResumeCount[w] = 1 /\ m_iState[w] \in {"SUSPEND_LOCKED", "QUIT"}
  /\ dpc = "resume" => ToldToQuit(aThread)

(***************************************************************************)
(* What ShutdownInOrder rests on: nobody is told to quit before the        *)
(* workers are collected, and QUIT_STATE is the last thing a worker says.  *)
(***************************************************************************)
ShutdownInv ==
  /\ dpc \in {"off", "join"} => Collected = {} /\ dCount = 0
  /\ \A w \in Workers : m_iState[w] = "QUIT" => wpc[w] = "gone"
  /\ ShutdownInOrder

(***************************************************************************)
(* Refinement: a worker is committed to a client from the hand over until  *)
(* the answer.                                                             *)
(***************************************************************************)
Committed(w) ==
  IF /\ m_pGsoap[w] # NoSlot
     /\ m_iRunType[w] = 0
     /\ wpc[w] \in {"park", "waiting", "loop", "serve"}
  THEN slotClient[m_pGsoap[w]]
  ELSE NoClient

Service == INSTANCE RequestService
             WITH Servers <- Workers, Nobody <- NoClient,
                  serving <- [w \in Workers |-> Committed(w)]

\* The pool implements the promise made to clients: one answer by one
\* worker, or a refusal before any worker is committed, and eventually one
\* of the two.
ImplementsService == Service!Spec

\* Its safety part: one answer by one worker, or a refusal before any worker
\* is committed to the client.
ImplementsSafeService == Service!SafeSpec

(***************************************************************************)
(* No accepted client is forgotten: the accept loop is still finding a     *)
(* worker for it, or a worker was handed its context and is running, or is *)
(* about to be resumed by the accept loop.  A client lost between the two  *)
(* threads would wait for ever on a connection nobody closes.              *)
(***************************************************************************)
BeingPlaced(c) == aClient = c /\ apc \in {"check", "scan", "assign"}

UnderWay(w) == wpc[w] \in {"loop", "serve"} \/ (apc = "resume" /\ aThread = w)

NobodyForgotten ==
  \A c \in Clients : client[c] = "accepted" =>
    BeingPlaced(c) \/ \E w \in Workers : Committed(w) = c /\ UnderWay(w)

=============================================================================
