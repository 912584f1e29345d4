-------------------------- MODULE ThreadPoolProofs --------------------------
(***************************************************************************)
(* Proofs about ThreadPool for any number of workers, slots and clients.   *)
(***************************************************************************)
EXTENDS ThreadPool, FiniteSetTheorems, TLAPS

\* The initial state has the declared types.
LEMMA TypeInit == Init => TypeOK
<1>. USE PoolAssumption DEF Workers, Slots, NoSlot, End
<1> SUFFICES ASSUME Init PROVE TypeOK
  OBVIOUS
<1>. USE DEF Init, ThreadStates, RunTypes, WorkerPcs, AcceptPcs, DeInitPcs
<1>1. /\ m_iState \in [Workers -> ThreadStates]
      /\ m_iResumeCount \in [Workers -> Int]
      /\ m_iRunType \in [Workers -> RunTypes]
      /\ m_pGsoap \in [Workers -> Slots \cup {NoSlot}]
      /\ wpc \in [Workers -> WorkerPcs]
  OBVIOUS
<1>2. m_bQuit \in [Workers -> BOOLEAN]
  OBVIOUS
<1>3. /\ csoapSon \in [Slots -> {"NULL", "open", "freed"}]
      /\ slotClient \in [Slots -> Clients \cup {NoClient}]
      /\ client \in [Clients -> {"away", "waiting", "accepted", "answered", "refused"}]
  OBVIOUS
<1>4. m_itIdl \in 0 .. N /\ itTmp \in 0 .. N /\ aThread \in Workers /\ dCount \in 0 .. N
  OBVIOUS
<1>5. /\ apc \in AcceptPcs
      /\ dpc \in DeInitPcs
      /\ dpc \notin {"scan", "resume"}
      /\ aSlot \in Slots \cup {NoSlot}
      /\ aClient \in Clients \cup {NoClient}
  OBVIOUS
<1>6. g_bWebServiceQuit \in BOOLEAN
  OBVIOUS
<1>. QED
  BY <1>1, <1>2, <1>3, <1>4, <1>5, <1>6 DEF TypeOK

\* Every step keeps them; Resume, called by two threads, is the helper that
\* moves three variables of a worker at once.
LEMMA TypeStep == TypeOK /\ [Next]_vars => TypeOK'
<1>. USE PoolAssumption DEF Workers, Slots, NoSlot, End
<1> SUFFICES ASSUME TypeOK, [Next]_vars PROVE TypeOK'
  OBVIOUS
<1>. USE DEF TypeOK, ThreadStates, RunTypes, WorkerPcs, AcceptPcs, DeInitPcs,
             workerVars, slotVars, scanVars, acceptVars, quitVars
<1>1. ASSUME NEW w \in Workers, WorkerStep(w) \/ SpuriousWake(w) PROVE TypeOK'
  <2>. USE DEF Goto
  <2>1. CASE \/ SpuriousWake(w) \/ SuspendRefused(w) \/ Park(w) \/ SeeQuit(w)
             \/ StartService(w) \/ UnknownType(w)
    <3>. HIDE DEF TypeOK
    <3>1. PICK l \in WorkerPcs : wpc' = [wpc EXCEPT ![w] = l]
      BY <2>1 DEF SpuriousWake, SuspendRefused, Park, SeeQuit, StartService, UnknownType
    <3>2. UNCHANGED <<m_iState, m_iResumeCount, m_iRunType, m_pGsoap, m_bQuit, slotVars,
                      scanVars, acceptVars, quitVars>>
      BY <2>1 DEF SpuriousWake, SuspendRefused, Park, SeeQuit, StartService, UnknownType
    <3>. QED
      BY <3>1, <3>2 DEF TypeOK
  <2>2. CASE SetQuitState(w)
    BY <2>2 DEF SetQuitState
  <2>3. CASE Suspend(w)
    BY <2>3 DEF Suspend
  <2>4. CASE SoapServe(w)
    BY <2>4 DEF SoapServe
  <2>5. CASE FreeSoap(w)
    BY <2>5 DEF FreeSoap
  <2>6. CASE ClearSlot(w)
    BY <2>6 DEF ClearSlot
  <2>7. CASE ResetWorker(w)
    BY <2>7 DEF ResetWorker
  <2>. QED
    BY <1>1, <2>1, <2>2, <2>3, <2>4, <2>5, <2>6, <2>7 DEF WorkerStep
<1>2. ASSUME NEW c \in Clients, Connect(c) PROVE TypeOK'
  BY <1>2 DEF Connect
<1>3. CASE AcceptStep \/ CopyFails
  <2>1. ASSUME NEW c \in Clients, Accept(c) PROVE TypeOK'
    BY <2>1 DEF Accept
  <2>2. CASE StopListening \/ QuitAfterAccept \/ NoFreeSlot \/ CopyFails
    BY <2>2 DEF StopListening, QuitAfterAccept, NoFreeSlot, CopyFails, RefuseClient,
         EndIteration
  <2>3. ASSUME NEW s \in Slots, CopySoap(s) PROVE TypeOK'
    BY <2>3 DEF CopySoap, BeginScan
  <2>4. ASSUME NEW w \in Workers, AcceptTakes(w) PROVE TypeOK'
    BY <2>4 DEF AcceptTakes, ScanTakes, Cursor
  <2>5. CASE AcceptPasses
    BY <2>5 DEF AcceptPasses, ScanPasses, ScanGivesUp, Cursor
  <2>6. CASE AcceptGivesUp
    BY <2>6 DEF AcceptGivesUp, ScanPasses, ScanGivesUp, Cursor, RefuseClient, EndIteration
  <2>7. CASE AssignRequest
    BY <2>7 DEF AssignRequest
  <2>8. CASE ResumeWorker
    BY <2>8 DEF ResumeWorker, Resume, EndIteration
  <2>. QED
    BY <2>1, <2>2, <1>3, <2>3, <2>4, <2>5, <2>6, <2>7, <2>8 DEF AcceptStep
<1>4. CASE StartDeInit \/ DeInitStep
  <2>1. CASE StartDeInit \/ JoinWebservice \/ CollectNext \/ AllCollected \/ PoolExit
    BY <2>1 DEF StartDeInit, JoinWebservice, CollectNext, AllCollected, PoolExit, BeginScan
  <2>2. ASSUME NEW w \in Workers, DeInitTakes(w) PROVE TypeOK'
    BY <2>2 DEF DeInitTakes, ScanTakes, Cursor
  <2>3. CASE DeInitPasses
    BY <2>3 DEF DeInitPasses, ScanPasses, ScanGivesUp, Cursor
  <2>4. CASE DeInitResume
    BY <2>4 DEF DeInitResume, Resume
  <2>5. CASE Reap
    BY <2>5 DEF Reap
  <2>. QED
    BY <2>1, <2>2, <2>3, <1>4, <2>4, <2>5 DEF DeInitStep
<1>5. CASE UNCHANGED vars
  BY <1>5 DEF vars
<1>. QED
  BY <1>1, <1>2, <1>3, <1>4, <1>5 DEF Next

(***************************************************************************)
(* Every variable keeps its type, with or without spurious wakeups.        *)
(***************************************************************************)
THEOREM TypeCorrect == Spec => []TypeOK
  BY TypeInit, TypeStep, PTL DEF Spec

(***************************************************************************)
(* What a worker is doing tells what was assigned to it, even while it is  *)
(* locked by a dispatcher.                                                 *)
(***************************************************************************)
LEMMA IdleIsUnassigned ==
  ASSUME PoolInv, NEW w \in Workers, m_iState[w] = "SUSPEND_IDL"
  PROVE  Unassigned(w) /\ wpc[w] \in {"park", "waiting"}
  BY DEF PoolInv, TypeOK, WorkerShape, WorkerPcs, Dispatching, Phases

\* A slot the accept loop finds NULL belongs to no worker.
LEMMA NullSlotFree ==
  ASSUME PoolInv, apc = "check", NEW s \in Slots, csoapSon[s] = "NULL", NEW w \in Workers
  PROVE  ~WorkerOwns(w, s)
<1> SUFFICES ASSUME WorkerOwns(w, s) PROVE FALSE
  OBVIOUS
<1>1. Assigned(w)
  BY DEF PoolInv, TypeOK, WorkerShape, WorkerPcs, Phases, WorkerOwns, Assigned, Unassigned,
         ToldToQuit, Dispatching
<1>. QED
  BY <1>1 DEF PoolInv, SlotShape, WorkerOwns, TypeOK

\* The initial state satisfies the inductive invariant.
LEMMA InvInit == Init => PoolInv
<1> SUFFICES ASSUME Init PROVE PoolInv
  OBVIOUS
<1>1. TypeOK
  BY TypeInit
<1>2. (\A w \in Workers : WorkerShape(w)) /\ Phases
  BY DEF Init, WorkerShape, Phases, Unassigned, Dispatching
<1>3. SlotShape /\ OwnersUnique /\ NoOrphanSlot
  BY DEF Init, SlotShape, OwnersUnique, NoOrphanSlot, WorkerOwns, AcceptorOwns, Assigned
<1>. QED
  BY <1>1, <1>2, <1>3 DEF PoolInv

(***************************************************************************)
(* Steps of a worker (Threadfunc).                                         *)
(***************************************************************************)
LEMMA WorkerKeepsInv ==
  ASSUME PoolInv, TypeOK', NEW w \in Workers, WorkerStep(w)
  PROVE  PoolInv'
<1>. USE PoolAssumption DEF PoolInv, TypeOK, Workers, Slots, NoSlot,
       ThreadStates, RunTypes, WorkerPcs, AcceptPcs, DeInitPcs,
       workerVars, slotVars, scanVars, acceptVars, quitVars,
       Unassigned, Assigned, ToldToQuit, Dispatching
<1>. USE DEF Goto
<1>1. CASE Suspend(w)
  <2>. USE <1>1 DEF Suspend
  <2>1. \A v \in Workers : WorkerShape(v)'
    BY DEF WorkerShape, Phases
  <2>2. Phases'
    BY DEF WorkerShape, Phases
  <2>3. SlotShape'
    BY DEF WorkerShape, SlotShape, OwnersUnique, WorkerOwns, AcceptorOwns, Phases
  <2>4. OwnersUnique'
    BY DEF WorkerShape, SlotShape, OwnersUnique, NoOrphanSlot, WorkerOwns,
           AcceptorOwns, Phases
  <2>5. NoOrphanSlot'
    BY DEF WorkerShape, SlotShape, NoOrphanSlot, WorkerOwns, AcceptorOwns, Phases
  <2>. QED
    BY <2>1, <2>2, <2>3, <2>4, <2>5
<1>2. CASE SuspendRefused(w)
  BY <1>2 DEF SuspendRefused, WorkerShape, Phases, SlotShape, OwnersUnique,
       NoOrphanSlot, WorkerOwns, AcceptorOwns
<1>3. CASE Park(w)
  BY <1>3 DEF Park, WorkerShape, Phases, SlotShape, OwnersUnique,
       NoOrphanSlot, WorkerOwns, AcceptorOwns
<1>4. CASE SeeQuit(w)
  BY <1>4 DEF SeeQuit, WorkerShape, Phases, SlotShape, OwnersUnique,
       NoOrphanSlot, WorkerOwns, AcceptorOwns
<1>5. CASE StartService(w)
  BY <1>5 DEF StartService, WorkerShape, Phases, SlotShape, OwnersUnique,
       NoOrphanSlot, WorkerOwns, AcceptorOwns
<1>6. CASE UnknownType(w)
  BY <1>6 DEF UnknownType, WorkerShape, Phases, SlotShape, OwnersUnique,
       NoOrphanSlot, WorkerOwns, AcceptorOwns
<1>7. CASE SetQuitState(w)
  BY <1>7 DEF SetQuitState, WorkerShape, Phases, SlotShape, OwnersUnique,
       NoOrphanSlot, WorkerOwns, AcceptorOwns
<1>8. CASE SoapServe(w)
  BY <1>8 DEF SoapServe, WorkerShape, Phases, SlotShape, OwnersUnique,
       NoOrphanSlot, WorkerOwns, AcceptorOwns
<1>9. CASE FreeSoap(w)
  <2>. USE <1>9 DEF FreeSoap
  <2>1. \A v \in Workers : WorkerShape(v)'
    BY DEF WorkerShape, Phases
  <2>2. Phases'
    BY DEF WorkerShape, Phases
  <2>3. SlotShape'
    BY DEF WorkerShape, SlotShape, OwnersUnique, WorkerOwns, AcceptorOwns, Phases
  <2>4. OwnersUnique'
    BY DEF WorkerShape, SlotShape, OwnersUnique, NoOrphanSlot, WorkerOwns,
           AcceptorOwns, Phases
  <2>5. NoOrphanSlot'
    BY DEF WorkerShape, SlotShape, NoOrphanSlot, WorkerOwns, AcceptorOwns, Phases
  <2>. QED
    BY <2>1, <2>2, <2>3, <2>4, <2>5
<1>10. CASE ClearSlot(w)
  <2>. USE <1>10 DEF ClearSlot
  <2>1. \A v \in Workers : WorkerShape(v)'
    BY DEF WorkerShape, Phases
  <2>2. Phases'
    BY DEF WorkerShape, Phases
  <2>3. SlotShape'
    BY DEF WorkerShape, SlotShape, OwnersUnique, WorkerOwns, AcceptorOwns, Phases
  <2>4. OwnersUnique'
    BY DEF WorkerShape, SlotShape, OwnersUnique, NoOrphanSlot, WorkerOwns,
           AcceptorOwns, Phases
  <2>5. NoOrphanSlot'
    BY DEF WorkerShape, SlotShape, NoOrphanSlot, WorkerOwns, AcceptorOwns, Phases
  <2>. QED
    BY <2>1, <2>2, <2>3, <2>4, <2>5
<1>11. CASE ResetWorker(w)
  <2>. USE <1>11 DEF ResetWorker
  <2>1. \A v \in Workers : WorkerShape(v)'
    BY DEF WorkerShape, Phases
  <2>2. Phases'
    BY DEF WorkerShape, Phases
  <2>3. SlotShape'
    BY DEF WorkerShape, SlotShape, OwnersUnique, WorkerOwns, AcceptorOwns, Phases
  <2>4. OwnersUnique'
    <3>1. \A v \in Workers, s \in Slots : WorkerOwns(v, s)' => WorkerOwns(v, s)
      BY DEF WorkerOwns
    <3>. QED
      BY <3>1 DEF OwnersUnique, AcceptorOwns
  <2>5. NoOrphanSlot'
    BY DEF WorkerShape, SlotShape, NoOrphanSlot, WorkerOwns, AcceptorOwns, Phases
  <2>. QED
    BY <2>1, <2>2, <2>3, <2>4, <2>5
<1>. QED
  BY <1>1, <1>2, <1>3, <1>4, <1>5, <1>6, <1>7, <1>8, <1>9, <1>10, <1>11 DEF WorkerStep

(***************************************************************************)
(* Steps of the accept loop, a failed soap_copy among them.                *)
(***************************************************************************)
LEMMA AcceptKeepsInv ==
  ASSUME PoolInv, TypeOK', AcceptStep \/ CopyFails
  PROVE  PoolInv'
<1>. USE PoolAssumption DEF PoolInv, TypeOK, Workers, Slots, NoSlot,
       ThreadStates, RunTypes, WorkerPcs, AcceptPcs, DeInitPcs,
       workerVars, slotVars, scanVars, acceptVars, quitVars,
       Unassigned, Assigned, ToldToQuit, Dispatching
<1>1. ASSUME NEW c \in Clients, Accept(c) PROVE PoolInv'
  BY <1>1 DEF Accept, WorkerShape, Phases, SlotShape,
       OwnersUnique, NoOrphanSlot, WorkerOwns, AcceptorOwns
<1>2. CASE StopListening
  BY <1>2 DEF StopListening, WorkerShape, Phases, SlotShape,
       OwnersUnique, NoOrphanSlot, WorkerOwns, AcceptorOwns
<1>3. CASE QuitAfterAccept
  BY <1>3 DEF QuitAfterAccept, RefuseClient, EndIteration, WorkerShape, Phases, SlotShape,
       OwnersUnique, NoOrphanSlot, WorkerOwns, AcceptorOwns
<1>4. CASE NoFreeSlot
  BY <1>4 DEF NoFreeSlot, RefuseClient, EndIteration, WorkerShape, Phases, SlotShape,
       OwnersUnique, NoOrphanSlot, WorkerOwns, AcceptorOwns
<1>5. CASE CopyFails
  BY <1>5 DEF CopyFails, EndIteration, WorkerShape, Phases, SlotShape,
       OwnersUnique, NoOrphanSlot, WorkerOwns, AcceptorOwns
<1>6. CASE AcceptPasses
  BY <1>6 DEF AcceptPasses, ScanPasses, WorkerShape, Phases, SlotShape,
       OwnersUnique, NoOrphanSlot, WorkerOwns, AcceptorOwns
<1>7. ASSUME NEW s \in Slots, CopySoap(s) PROVE PoolInv'
  <2>. USE <1>7 DEF CopySoap, FirstFree, BeginScan
  <2>1. \A v \in Workers : WorkerShape(v)'
    BY DEF WorkerShape, Phases
  <2>2. Phases'
    BY DEF WorkerShape, Phases
  <2>3. SlotShape'
    BY DEF WorkerShape, SlotShape, OwnersUnique, WorkerOwns, AcceptorOwns, Phases
  <2>4. OwnersUnique'
    <3>1. \A v \in Workers, r \in Slots : WorkerOwns(v, r)' <=> WorkerOwns(v, r)
      BY DEF WorkerOwns
    <3>2. \A v \in Workers : ~WorkerOwns(v, s)
      BY NullSlotFree
    <3>. QED
      BY <3>1, <3>2 DEF OwnersUnique, AcceptorOwns
  <2>5. NoOrphanSlot'
    BY DEF WorkerShape, SlotShape, NoOrphanSlot, WorkerOwns, AcceptorOwns, Phases
  <2>. QED
    BY <2>1, <2>2, <2>3, <2>4, <2>5
<1>8. ASSUME NEW w \in Workers, AcceptTakes(w) PROVE PoolInv'
  <2>. USE <1>8 DEF AcceptTakes, ScanTakes
  <2>1. \A v \in Workers : WorkerShape(v)'
    BY DEF WorkerShape, Phases
  <2>2. Phases'
    BY DEF WorkerShape, Phases
  <2>3. SlotShape'
    BY DEF WorkerShape, SlotShape, OwnersUnique, WorkerOwns, AcceptorOwns, Phases
  <2>4. OwnersUnique'
    BY DEF WorkerShape, SlotShape, OwnersUnique, NoOrphanSlot, WorkerOwns,
           AcceptorOwns, Phases
  <2>5. NoOrphanSlot'
    BY DEF WorkerShape, SlotShape, NoOrphanSlot, WorkerOwns, AcceptorOwns, Phases
  <2>. QED
    BY <2>1, <2>2, <2>3, <2>4, <2>5
<1>9. CASE AcceptGivesUp
  <2>. USE <1>9 DEF AcceptGivesUp, ScanPasses, RefuseClient, EndIteration
  <2>1. \A v \in Workers : WorkerShape(v)'
    BY DEF WorkerShape, Phases
  <2>2. Phases'
    BY DEF WorkerShape, Phases
  <2>3. SlotShape'
    BY DEF WorkerShape, SlotShape, OwnersUnique, WorkerOwns, AcceptorOwns, Phases
  <2>4. OwnersUnique'
    BY DEF WorkerShape, SlotShape, OwnersUnique, NoOrphanSlot, WorkerOwns,
           AcceptorOwns, Phases
  <2>5. NoOrphanSlot'
    BY DEF WorkerShape, SlotShape, NoOrphanSlot, WorkerOwns, AcceptorOwns, Phases
  <2>. QED
    BY <2>1, <2>2, <2>3, <2>4, <2>5
<1>10. CASE AssignRequest
  <2>. USE <1>10 DEF AssignRequest
  <2>1. \A v \in Workers : WorkerShape(v)'
    BY DEF WorkerShape, Phases
  <2>2. Phases'
    BY DEF WorkerShape, Phases
  <2>3. SlotShape'
    BY DEF WorkerShape, SlotShape, OwnersUnique, WorkerOwns, AcceptorOwns, Phases
  <2>4. OwnersUnique'
    BY DEF WorkerShape, SlotShape, OwnersUnique, NoOrphanSlot, WorkerOwns,
           AcceptorOwns, Phases
  <2>5. NoOrphanSlot'
    BY DEF WorkerShape, SlotShape, NoOrphanSlot, WorkerOwns, AcceptorOwns, Phases
  <2>. QED
    BY <2>1, <2>2, <2>3, <2>4, <2>5
<1>11. CASE ResumeWorker
  <2>. USE <1>11 DEF ResumeWorker, Resume, EndIteration
  <2>1. \A v \in Workers : WorkerShape(v)'
    BY DEF WorkerShape, Phases
  <2>2. Phases'
    BY DEF WorkerShape, Phases
  <2>3. SlotShape'
    BY DEF WorkerShape, SlotShape, OwnersUnique, WorkerOwns, AcceptorOwns, Phases
  <2>4. OwnersUnique'
    BY DEF WorkerShape, SlotShape, OwnersUnique, NoOrphanSlot, WorkerOwns,
           AcceptorOwns, Phases
  <2>5. NoOrphanSlot'
    BY DEF WorkerShape, SlotShape, NoOrphanSlot, WorkerOwns, AcceptorOwns, Phases
  <2>. QED
    BY <2>1, <2>2, <2>3, <2>4, <2>5
<1>. QED
  BY <1>1, <1>2, <1>3, <1>4, <1>5, <1>6, <1>7, <1>8, <1>9, <1>10, <1>11
     DEF AcceptStep

(***************************************************************************)
(* Steps of the thread that shuts the pool down.                           *)
(***************************************************************************)
LEMMA DeInitKeepsInv ==
  ASSUME PoolInv, TypeOK', StartDeInit \/ DeInitStep
  PROVE  PoolInv'
<1>. USE PoolAssumption DEF PoolInv, TypeOK, Workers, Slots, NoSlot,
       ThreadStates, RunTypes, WorkerPcs, AcceptPcs, DeInitPcs,
       workerVars, slotVars, scanVars, acceptVars, quitVars,
       Unassigned, Assigned, ToldToQuit, Dispatching
<1>1. CASE StartDeInit
  BY <1>1 DEF StartDeInit, WorkerShape, Phases, SlotShape,
       OwnersUnique, NoOrphanSlot, WorkerOwns, AcceptorOwns
<1>2. CASE JoinWebservice
  BY <1>2 DEF JoinWebservice, WorkerShape, Phases, SlotShape,
       OwnersUnique, NoOrphanSlot, WorkerOwns, AcceptorOwns
<1>3. CASE CollectNext
  BY <1>3 DEF CollectNext, BeginScan, WorkerShape, Phases, SlotShape,
       OwnersUnique, NoOrphanSlot, WorkerOwns, AcceptorOwns
<1>4. CASE DeInitPasses
  BY <1>4 DEF DeInitPasses, ScanPasses, WorkerShape, Phases, SlotShape,
       OwnersUnique, NoOrphanSlot, WorkerOwns, AcceptorOwns
<1>5. CASE AllCollected
  BY <1>5 DEF AllCollected, WorkerShape, Phases, SlotShape,
       OwnersUnique, NoOrphanSlot, WorkerOwns, AcceptorOwns
<1>6. CASE Reap
  BY <1>6 DEF Reap, WorkerShape, Phases, SlotShape,
       OwnersUnique, NoOrphanSlot, WorkerOwns, AcceptorOwns
<1>7. CASE PoolExit
  BY <1>7 DEF PoolExit, WorkerShape, Phases, SlotShape,
       OwnersUnique, NoOrphanSlot, WorkerOwns, AcceptorOwns
<1>8. ASSUME NEW w \in Workers, DeInitTakes(w) PROVE PoolInv'
  <2>. USE <1>8 DEF DeInitTakes, ScanTakes
  <2>1. Unassigned(w) /\ wpc[w] \in {"park", "waiting"}
    BY IdleIsUnassigned
  <2>2. \A v \in Workers : WorkerShape(v)'
    BY DEF WorkerShape, Phases
  <2>3. Phases'
    BY <2>1 DEF Phases
  <2>4. SlotShape'
    BY DEF WorkerShape, SlotShape, OwnersUnique, WorkerOwns, AcceptorOwns, Phases
  <2>5. OwnersUnique'
    BY DEF WorkerShape, SlotShape, OwnersUnique, NoOrphanSlot, WorkerOwns,
           AcceptorOwns, Phases
  <2>6. NoOrphanSlot'
    <3>1. \A v \in Workers, s \in Slots : WorkerOwns(v, s) => WorkerOwns(v, s)'
      BY <2>1 DEF WorkerOwns
    <3>. QED
      BY <3>1 DEF NoOrphanSlot, AcceptorOwns
  <2>. QED
    BY <2>2, <2>3, <2>4, <2>5, <2>6
<1>9. CASE DeInitResume
  <2>. USE <1>9 DEF DeInitResume, Resume
  <2>1. \A v \in Workers : WorkerShape(v)'
    BY DEF WorkerShape, Phases
  <2>2. Phases'
    BY DEF WorkerShape, Phases
  <2>3. SlotShape'
    BY DEF WorkerShape, SlotShape, OwnersUnique, WorkerOwns, AcceptorOwns, Phases
  <2>4. OwnersUnique'
    BY DEF WorkerShape, SlotShape, OwnersUnique, NoOrphanSlot, WorkerOwns,
           AcceptorOwns, Phases
  <2>5. NoOrphanSlot'
    BY DEF WorkerShape, SlotShape, NoOrphanSlot, WorkerOwns, AcceptorOwns, Phases
  <2>. QED
    BY <2>1, <2>2, <2>3, <2>4, <2>5
<1>. QED
  BY <1>1, <1>2, <1>3, <1>4, <1>5, <1>6, <1>7, <1>8, <1>9 DEF DeInitStep

(***************************************************************************)
(* The inductive invariant of the pool holds for every number of workers,  *)
(* slots and clients, provided pthread_cond_wait returns only when         *)
(* signalled: C_ThreadData::suspend waits without a predicate loop.        *)
(***************************************************************************)
THEOREM PoolInvariant == ASSUME ~SpuriousWakeups PROVE Spec => []PoolInv
<1>1. PoolInv /\ [Next]_vars => PoolInv'
  <2> SUFFICES ASSUME PoolInv, [Next]_vars PROVE PoolInv'
    OBVIOUS
  <2>1. TypeOK'
    BY TypeStep DEF PoolInv
  <2>2. ASSUME NEW w \in Workers, WorkerStep(w) PROVE PoolInv'
    BY <2>1, <2>2, WorkerKeepsInv
  <2>3. ASSUME NEW w \in Workers, SpuriousWake(w) PROVE PoolInv'
    BY <2>3 DEF SpuriousWake
  <2>4. ASSUME NEW c \in Clients, Connect(c) PROVE PoolInv'
    BY <2>1, <2>4 DEF Connect, PoolInv, workerVars, scanVars, acceptVars, quitVars, WorkerShape,
         Phases, SlotShape, OwnersUnique, NoOrphanSlot, WorkerOwns, AcceptorOwns, Unassigned,
         Assigned, ToldToQuit, Dispatching
  <2>5. CASE AcceptStep \/ CopyFails
    BY <2>1, <2>5, AcceptKeepsInv
  <2>6. CASE StartDeInit \/ DeInitStep
    BY <2>1, <2>6, DeInitKeepsInv
  <2>7. CASE UNCHANGED vars
    BY <2>1, <2>7 DEF vars, PoolInv, workerVars, slotVars, scanVars, acceptVars, quitVars,
         WorkerShape, Phases, SlotShape, OwnersUnique, NoOrphanSlot, WorkerOwns, AcceptorOwns,
         Unassigned, Assigned, ToldToQuit, Dispatching
  <2>. QED
    BY <2>2, <2>3, <2>4, <2>5, <2>6, <2>7 DEF Next
<1>. QED
  BY <1>1, InvInit, PTL DEF Spec

(***************************************************************************)
(* No worker reaches the branch of Threadfunc that dereferences m_pTask,   *)
(* and suspend never reports ERROR_THREAD_STATE.                           *)
(***************************************************************************)
THEOREM WorkersFollowProtocol == ASSUME ~SpuriousWakeups PROVE Spec => []WorkerProtocol
<1>1. PoolInv => WorkerProtocol
  BY DEF PoolInv, WorkerShape, WorkerProtocol
<1>. QED
  BY <1>1, PoolInvariant, PTL

(***************************************************************************)
(* The slots, also with wakeups nobody sent.                               *)
(***************************************************************************)
\* The initial state has no slot in use.
LEMMA SlotInit == Init => SlotInv
<1> SUFFICES ASSUME Init PROVE SlotInv
  OBVIOUS
<1>1. TypeOK
  BY TypeInit
<1>2. \A w \in Workers : WokenShape(w)
  BY DEF Init, WokenShape, Unassigned
<1>3. SlotShape /\ OwnersUnique /\ NoOrphanSlot
  BY DEF Init, SlotShape, OwnersUnique, NoOrphanSlot, WorkerOwns, AcceptorOwns, Assigned
<1> QED
  BY <1>1, <1>2, <1>3 DEF Init, SlotInv

\* What a worker is assigned decides which slot it owns.
LEMMA OwnerAssigned ==
  ASSUME SlotInv, NEW w \in Workers, NEW s \in Slots
  PROVE  WorkerOwns(w, s) <=> Assigned(w) /\ m_pGsoap[w] = s /\ wpc[w] # "reset"
<1>1. WokenShape(w)
  BY DEF SlotInv
<1> QED
  BY <1>1 DEF WorkerOwns, WokenShape, Assigned, Unassigned, ToldToQuit

\* A slot the accept loop finds NULL belongs to no worker.
LEMMA NullSlotUnowned ==
  ASSUME SlotInv, NEW s \in Slots, csoapSon[s] = "NULL", NEW w \in Workers
  PROVE  ~WorkerOwns(w, s)
<1> SUFFICES ASSUME WorkerOwns(w, s) PROVE FALSE
  OBVIOUS
<1>1. Assigned(w) /\ m_pGsoap[w] = s /\ wpc[w] # "reset"
  BY OwnerAssigned
<1> QED
  BY <1>1 DEF SlotInv, SlotShape

\* Steps that assign nothing, fill or clear no slot and take no worker
\* through process_request.
LEMMA SlotsUntouched ==
  ASSUME SlotInv, UNCHANGED <<m_pGsoap, m_iRunType, m_bQuit, csoapSon>>,
         \A s \in Slots : AcceptorOwns(s)' <=> AcceptorOwns(s),
         \A w \in Workers : wpc'[w] = wpc[w] \/ {wpc[w], wpc'[w]} \cap {"clear", "reset"} = {}
  PROVE  SlotShape' /\ OwnersUnique' /\ NoOrphanSlot'
<1>1. \A s \in Slots, w \in Workers : WorkerOwns(w, s)' <=> WorkerOwns(w, s)
  BY DEF WorkerOwns
<1>2. \A w \in Workers : Assigned(w)' <=> Assigned(w)
  BY DEF Assigned
<1>3. SlotShape'
  BY <1>2 DEF SlotInv, SlotShape
<1>4. OwnersUnique' /\ NoOrphanSlot'
  BY <1>1 DEF SlotInv, OwnersUnique, NoOrphanSlot
<1> QED
  BY <1>3, <1>4

\* Steps of a worker, woken by a signal or not.
LEMMA WorkerKeepsSlots ==
  ASSUME SlotInv, TypeOK', NEW w \in Workers, WorkerStep(w) \/ SpuriousWake(w)
  PROVE  SlotInv'
<1> USE PoolAssumption
<1>1. /\ UNCHANGED <<dpc, apc, aSlot, aThread>>
      /\ \A v \in Workers : v # w =>
           /\ wpc'[v] = wpc[v] /\ m_iState'[v] = m_iState[v] /\ m_bQuit'[v] = m_bQuit[v]
           /\ m_pGsoap'[v] = m_pGsoap[v] /\ m_iRunType'[v] = m_iRunType[v]
  BY DEF WorkerStep, Suspend, SuspendRefused, Park, SeeQuit, StartService, UnknownType, SoapServe,
         FreeSoap, ClearSlot, ResetWorker, SetQuitState, SpuriousWake, Goto, SlotInv, TypeOK,
         acceptVars, quitVars
<1>2. \A v \in Workers : v # w => WokenShape(v)'
  BY <1>1 DEF SlotInv, WokenShape, Unassigned, Assigned, ToldToQuit
<1>3. \A s \in Slots : AcceptorOwns(s)' <=> AcceptorOwns(s)
  BY <1>1 DEF AcceptorOwns
<1>4. WokenShape(w)
  BY DEF SlotInv
<1>5. CASE \/ Suspend(w) \/ SuspendRefused(w) \/ Park(w) \/ SeeQuit(w) \/ StartService(w)
           \/ UnknownType(w) \/ SoapServe(w) \/ SetQuitState(w) \/ SpuriousWake(w)
  <2>1. UNCHANGED <<m_pGsoap, m_iRunType, m_bQuit, csoapSon>>
    BY <1>5 DEF Suspend, SuspendRefused, Park, SeeQuit, StartService, UnknownType, SoapServe,
         SetQuitState, SpuriousWake, slotVars
  <2>2. WokenShape(w)'
    BY <1>1, <1>4, <1>5, <2>1 DEF Suspend, SuspendRefused, Park, SeeQuit, StartService,
         UnknownType, SoapServe, SetQuitState, SpuriousWake, Goto, SlotInv, TypeOK, WokenShape,
         Unassigned, Assigned, ToldToQuit
  <2>3. {wpc[w], wpc'[w]} \cap {"clear", "reset"} = {}
    BY <1>5 DEF Suspend, SuspendRefused, Park, SeeQuit, StartService, UnknownType, SoapServe,
         SetQuitState, SpuriousWake, Goto, SlotInv, TypeOK
  <2>4. SlotShape' /\ OwnersUnique' /\ NoOrphanSlot'
    BY <1>1, <1>3, <2>1, <2>3, SlotsUntouched
  <2> QED
    BY <1>1, <1>2, <2>2, <2>4 DEF SlotInv
<1>6. CASE FreeSoap(w)
  <2>1. /\ wpc[w] = "free" /\ wpc'[w] = "clear" /\ Assigned(w)
        /\ csoapSon' = [csoapSon EXCEPT ![m_pGsoap[w]] = "freed"]
        /\ UNCHANGED <<m_pGsoap, m_iRunType, m_bQuit, m_iState>>
    BY <1>4, <1>6 DEF FreeSoap, Goto, SlotInv, TypeOK, WokenShape
  <2>2. WokenShape(w)'
    BY <1>1, <1>4, <2>1 DEF WokenShape, Unassigned, Assigned, ToldToQuit
  <2>3. \A s \in Slots, v \in Workers : WorkerOwns(v, s)' <=> WorkerOwns(v, s)
    BY <1>1, <2>1 DEF WorkerOwns
  <2>4. WorkerOwns(w, m_pGsoap[w]) /\ m_pGsoap[w] \in Slots
    BY <2>1, OwnerAssigned DEF Assigned
  <2>5. SlotShape'
    <3>1. ASSUME NEW v \in Workers, Assigned(v)'
          PROVE  /\ wpc'[v] = "clear" => csoapSon'[m_pGsoap'[v]] = "freed"
                 /\ wpc'[v] \notin {"clear", "reset"} => csoapSon'[m_pGsoap'[v]] = "open"
      <4>1. Assigned(v) /\ m_pGsoap[v] \in Slots
        BY <2>1, <3>1 DEF Assigned
      <4>2. v # w /\ wpc[v] # "reset" => m_pGsoap[v] # m_pGsoap[w]
        BY <2>4, <4>1, OwnerAssigned DEF SlotInv, OwnersUnique
      <4> QED
        BY <1>1, <2>1, <2>4, <4>1, <4>2 DEF SlotInv, SlotShape, TypeOK
    <3>2. \A s \in Slots : AcceptorOwns(s) => csoapSon'[s] = "open"
      BY <2>1, <2>4 DEF SlotInv, SlotShape, OwnersUnique, TypeOK
    <3> QED
      BY <1>3, <3>1, <3>2 DEF SlotShape
  <2>6. OwnersUnique' /\ NoOrphanSlot'
    BY <1>3, <2>1, <2>3, <2>4 DEF SlotInv, TypeOK, OwnersUnique, NoOrphanSlot
  <2> QED
    BY <1>1, <1>2, <2>2, <2>5, <2>6 DEF SlotInv
<1>7. CASE ClearSlot(w)
  <2>1. /\ wpc[w] = "clear" /\ wpc'[w] = "reset" /\ Assigned(w)
        /\ csoapSon' = [csoapSon EXCEPT ![m_pGsoap[w]] = "NULL"]
        /\ UNCHANGED <<m_pGsoap, m_iRunType, m_bQuit, m_iState>>
    BY <1>4, <1>7 DEF ClearSlot, Goto, SlotInv, TypeOK, WokenShape
  <2>2. WokenShape(w)'
    BY <1>1, <1>4, <2>1 DEF WokenShape, Unassigned, Assigned, ToldToQuit
  <2>3. \A s \in Slots, v \in Workers : WorkerOwns(v, s)' <=> WorkerOwns(v, s) /\ v # w
    BY <1>1, <2>1 DEF WorkerOwns
  <2>4. WorkerOwns(w, m_pGsoap[w]) /\ m_pGsoap[w] \in Slots
    BY <2>1, OwnerAssigned DEF Assigned
  <2>5. SlotShape'
    <3>1. ASSUME NEW v \in Workers, Assigned(v)'
          PROVE  /\ wpc'[v] = "clear" => csoapSon'[m_pGsoap'[v]] = "freed"
                 /\ wpc'[v] \notin {"clear", "reset"} => csoapSon'[m_pGsoap'[v]] = "open"
      <4>1. Assigned(v) /\ m_pGsoap[v] \in Slots
        BY <2>1, <3>1 DEF Assigned
      <4>2. v # w /\ wpc[v] # "reset" => m_pGsoap[v] # m_pGsoap[w]
        BY <2>4, <4>1, OwnerAssigned DEF SlotInv, OwnersUnique
      <4> QED
        BY <1>1, <2>1, <2>4, <4>1, <4>2 DEF SlotInv, SlotShape, TypeOK
    <3>2. \A s \in Slots : AcceptorOwns(s) => csoapSon'[s] = "open"
      BY <2>1, <2>4 DEF SlotInv, SlotShape, OwnersUnique, TypeOK
    <3> QED
      BY <1>3, <3>1, <3>2 DEF SlotShape
  <2>6. OwnersUnique'
    BY <1>3, <2>3 DEF SlotInv, OwnersUnique
  <2>7. ASSUME NEW s \in Slots, csoapSon'[s] # "NULL"
        PROVE  AcceptorOwns(s) \/ \E v \in Workers : WorkerOwns(v, s) /\ v # w
    <3>1. s # m_pGsoap[w] /\ csoapSon[s] # "NULL"
      BY <2>1, <2>4, <2>7 DEF SlotInv, TypeOK
    <3>2. ~WorkerOwns(w, s)
      BY <3>1 DEF WorkerOwns
    <3> QED
      BY <3>1, <3>2 DEF SlotInv, NoOrphanSlot
  <2>8. NoOrphanSlot'
    BY <1>3, <2>3, <2>7 DEF NoOrphanSlot
  <2> QED
    BY <1>1, <1>2, <2>2, <2>5, <2>6, <2>8 DEF SlotInv
<1>8. CASE ResetWorker(w)
  <2>1. /\ wpc[w] = "reset" /\ wpc'[w] = "suspend" /\ Assigned(w)
        /\ m_pGsoap'[w] = NoSlot /\ m_iRunType'[w] = 2 /\ UNCHANGED <<m_bQuit, m_iState, csoapSon>>
    BY <1>4, <1>8 DEF ResetWorker, Goto, SlotInv, TypeOK, WokenShape, Assigned, slotVars
  <2>2. WokenShape(w)'
    BY <1>1, <1>4, <2>1 DEF WokenShape, Unassigned, Assigned
  <2>3. \A s \in Slots, v \in Workers : WorkerOwns(v, s)' <=> WorkerOwns(v, s)
    BY <1>1, <2>1 DEF WorkerOwns
  <2>4. \A v \in Workers : Assigned(v)' <=> Assigned(v) /\ v # w
    BY <1>1, <2>1 DEF Assigned
  <2>5. SlotShape'
    BY <1>1, <1>3, <2>1, <2>4 DEF SlotInv, SlotShape
  <2>6. OwnersUnique' /\ NoOrphanSlot'
    BY <1>3, <2>1, <2>3 DEF SlotInv, OwnersUnique, NoOrphanSlot
  <2> QED
    BY <1>1, <1>2, <2>2, <2>5, <2>6 DEF SlotInv
<1> QED
  BY <1>5, <1>6, <1>7, <1>8 DEF WorkerStep

\* Searching, accepting, refusing and waking up change no assignment.
LEMMA SearchKeepsSlots ==
  ASSUME SlotInv, TypeOK',
         \/ \E c \in Clients : Connect(c) \/ Accept(c)
         \/ StopListening \/ QuitAfterAccept \/ NoFreeSlot \/ CopyFails \/ AcceptPasses
         \/ ResumeWorker \/ StartDeInit \/ JoinWebservice \/ CollectNext \/ DeInitPasses
         \/ DeInitResume \/ AllCollected \/ Reap \/ PoolExit \/ UNCHANGED vars
  PROVE  SlotInv'
<1>1. UNCHANGED <<m_pGsoap, m_iRunType, m_bQuit, csoapSon>>
  BY DEF Connect, Accept, StopListening, QuitAfterAccept, NoFreeSlot, CopyFails, AcceptPasses,
         ResumeWorker, StartDeInit, JoinWebservice, CollectNext, DeInitPasses, DeInitResume,
         AllCollected, Reap, PoolExit, vars, workerVars, slotVars
<1>2. /\ \/ wpc' = wpc
         \/ wpc[aThread] = "waiting" /\ wpc' = [wpc EXCEPT ![aThread] = "loop"]
      /\ \/ m_iState' = m_iState
         \/ apc' # "assign" /\ m_iState' = [m_iState EXCEPT ![aThread] = "RUN"]
  BY DEF Connect, Accept, StopListening, QuitAfterAccept, NoFreeSlot, CopyFails, AcceptPasses,
         ResumeWorker, StartDeInit, JoinWebservice, CollectNext, DeInitPasses, DeInitResume,
         AllCollected, Reap, PoolExit, vars, workerVars, Resume, SlotInv, acceptVars
<1>3. /\ apc' = "assign" => apc = "assign" /\ aThread' = aThread
      /\ apc' \in {"scan", "assign"} <=> apc \in {"scan", "assign"}
      /\ apc' \in {"scan", "assign"} => aSlot' = aSlot
      /\ apc' # "resume" \/ (apc = "resume" /\ aSlot' = aSlot)
      /\ dpc' \notin {"off", "join"} => apc' = "done"
  BY DEF Connect, Accept, StopListening, QuitAfterAccept, NoFreeSlot, CopyFails, AcceptPasses,
         ResumeWorker, StartDeInit, JoinWebservice, CollectNext, DeInitPasses, DeInitResume,
         AllCollected, Reap, PoolExit, vars, acceptVars, quitVars, SlotInv
<1>4. \A s \in Slots : AcceptorOwns(s)' <=> AcceptorOwns(s)
  BY <1>3 DEF AcceptorOwns
<1>5. \A w \in Workers :
        /\ wpc'[w] = wpc[w] \/ (wpc[w] = "waiting" /\ wpc'[w] = "loop")
        /\ m_iState'[w] = "SUSPEND_IDL" => m_iState[w] = "SUSPEND_IDL"
        /\ apc' = "assign" => m_iState'[w] = m_iState[w]
  BY <1>2, <1>3 DEF SlotInv, TypeOK
<1>6. ASSUME NEW w \in Workers PROVE WokenShape(w)'
  <2>1. WokenShape(w)
    BY DEF SlotInv
  <2> QED
    BY <1>1, <1>3, <1>5, <2>1 DEF WokenShape, Unassigned, Assigned, ToldToQuit
<1>7. SlotShape' /\ OwnersUnique' /\ NoOrphanSlot'
  BY <1>1, <1>4, <1>5, SlotsUntouched
<1> QED
  BY <1>3, <1>6, <1>7 DEF SlotInv

\* The accept loop fills a slot that nobody owns.
LEMMA CopyKeepsSlots ==
  ASSUME SlotInv, TypeOK', NEW s \in Slots, CopySoap(s)
  PROVE  SlotInv'
<1>1. /\ apc = "check" /\ apc' = "scan" /\ aSlot' = s /\ csoapSon[s] = "NULL"
      /\ csoapSon' = [csoapSon EXCEPT ![s] = "open"]
      /\ UNCHANGED <<m_iState, m_pGsoap, m_iRunType, m_bQuit, wpc, dpc>>
  BY DEF CopySoap, FirstFree, workerVars, quitVars
<1>2. \A v \in Workers : WokenShape(v)'
  BY <1>1 DEF SlotInv, WokenShape, Unassigned, Assigned, ToldToQuit
<1>3. \A r \in Slots, v \in Workers : WorkerOwns(v, r)' <=> WorkerOwns(v, r)
  BY <1>1 DEF WorkerOwns
<1>4. \A v \in Workers : ~WorkerOwns(v, s)
  BY <1>1, NullSlotUnowned
<1>5. \A r \in Slots : ~AcceptorOwns(r) /\ (AcceptorOwns(r)' <=> r = s)
  BY <1>1 DEF AcceptorOwns
<1>6. SlotShape'
  <2>1. ASSUME NEW v \in Workers, Assigned(v), wpc[v] # "reset"
        PROVE  m_pGsoap[v] \in Slots /\ m_pGsoap[v] # s
    BY <1>4, <2>1, OwnerAssigned DEF Assigned
  <2> QED
    BY <1>1, <1>5, <2>1 DEF SlotInv, SlotShape, TypeOK, Assigned
<1>7. OwnersUnique'
  BY <1>3, <1>4, <1>5 DEF SlotInv, OwnersUnique
<1>8. NoOrphanSlot'
  BY <1>1, <1>3, <1>5 DEF SlotInv, NoOrphanSlot, TypeOK
<1>9. dpc' \notin {"off", "join"} => apc' = "done"
  BY <1>1 DEF SlotInv
<1> QED
  BY <1>1, <1>2, <1>6, <1>7, <1>8, <1>9 DEF SlotInv

\* A worker is taken while it is idle: it owns nothing and has not yet looked
\* at what it is to do.
LEMMA TakeKeepsSlots ==
  ASSUME SlotInv, TypeOK', Alive, NEW w \in Workers, AcceptTakes(w) \/ DeInitTakes(w)
  PROVE  SlotInv'
<1>1. Unassigned(w) /\ wpc[w] \in {"park", "waiting", "loop"}
  BY DEF AcceptTakes, DeInitTakes, ScanTakes, SlotInv, WokenShape, Alive
<1>2. /\ UNCHANGED <<m_pGsoap, wpc, csoapSon, aSlot>>
      /\ aThread' = w
      /\ apc' \in {"scan", "assign"} <=> apc \in {"scan", "assign"}
      /\ apc' # "resume" \/ apc = "resume"
      /\ dpc' \notin {"off", "join"} => apc' = "done"
  BY DEF AcceptTakes, DeInitTakes, slotVars, quitVars, SlotInv
<1>3. /\ \A v \in Workers : v # w =>
           m_iState'[v] = m_iState[v] /\ m_iRunType'[v] = m_iRunType[v] /\ m_bQuit'[v] = m_bQuit[v]
      /\ m_iState'[w] = "SUSPEND_LOCKED"
      /\ \/ apc' = "assign" /\ UNCHANGED <<m_iRunType, m_bQuit>>
         \/ apc' # "assign" /\ m_iRunType'[w] = 3 /\ m_bQuit'[w]
  BY <1>2 DEF AcceptTakes, DeInitTakes, ScanTakes, SlotInv, TypeOK
<1>4. ASSUME NEW v \in Workers PROVE WokenShape(v)'
  <2>1. WokenShape(v)
    BY DEF SlotInv
  <2> QED
    BY <1>1, <1>2, <1>3, <2>1 DEF WokenShape, Unassigned, Assigned, ToldToQuit
<1>5. \A s \in Slots, v \in Workers : WorkerOwns(v, s)' <=> WorkerOwns(v, s)
  BY <1>1, <1>2, <1>3 DEF WorkerOwns, Unassigned
<1>6. \A s \in Slots : AcceptorOwns(s)' <=> AcceptorOwns(s)
  BY <1>2 DEF AcceptorOwns
<1>7. \A v \in Workers : Assigned(v)' <=> Assigned(v)
  BY <1>1, <1>2, <1>3 DEF Assigned, Unassigned
<1>8. SlotShape'
  BY <1>2, <1>6, <1>7 DEF SlotInv, SlotShape
<1>9. OwnersUnique' /\ NoOrphanSlot'
  BY <1>2, <1>5, <1>6 DEF SlotInv, OwnersUnique, NoOrphanSlot
<1> QED
  BY <1>2, <1>4, <1>8, <1>9 DEF SlotInv

\* A failed search empties the slot it was made for.
LEMMA GiveUpKeepsSlots ==
  ASSUME SlotInv, TypeOK', AcceptGivesUp
  PROVE  SlotInv'
<1>1. /\ apc = "scan" /\ apc' = "accept" /\ aSlot \in Slots
      /\ csoapSon' = [csoapSon EXCEPT ![aSlot] = "NULL"]
      /\ UNCHANGED <<m_iState, m_pGsoap, m_iRunType, m_bQuit, wpc, dpc>>
  BY DEF AcceptGivesUp, workerVars, quitVars, SlotInv
<1>2. \A v \in Workers : WokenShape(v)'
  BY <1>1 DEF SlotInv, WokenShape, Unassigned, Assigned, ToldToQuit
<1>3. \A s \in Slots, v \in Workers : WorkerOwns(v, s)' <=> WorkerOwns(v, s)
  BY <1>1 DEF WorkerOwns
<1>4. \A s \in Slots : ~AcceptorOwns(s)' /\ (AcceptorOwns(s) <=> s = aSlot)
  BY <1>1 DEF AcceptorOwns
<1>5. \A v \in Workers : ~WorkerOwns(v, aSlot)
  BY <1>1, <1>4 DEF SlotInv, OwnersUnique
<1>6. SlotShape'
  <2>1. ASSUME NEW v \in Workers, Assigned(v), wpc[v] # "reset"
        PROVE  m_pGsoap[v] \in Slots /\ m_pGsoap[v] # aSlot
    BY <1>1, <1>5, <2>1, OwnerAssigned DEF Assigned
  <2> QED
    BY <1>1, <1>4, <2>1 DEF SlotInv, SlotShape, TypeOK, Assigned
<1>7. OwnersUnique' /\ NoOrphanSlot'
  BY <1>1, <1>3, <1>4 DEF SlotInv, OwnersUnique, NoOrphanSlot, TypeOK
<1>8. dpc' \notin {"off", "join"} => apc' = "done"
  BY <1>1 DEF SlotInv
<1> QED
  BY <1>1, <1>2, <1>6, <1>7, <1>8 DEF SlotInv

\* The hand over: the slot passes from the accept loop to the worker.
LEMMA AssignKeepsSlots ==
  ASSUME SlotInv, TypeOK', Alive, AssignRequest
  PROVE  SlotInv'
<1>1. /\ apc = "assign" /\ apc' = "resume" /\ aThread \in Workers /\ aSlot \in Slots
      /\ m_pGsoap' = [m_pGsoap EXCEPT ![aThread] = aSlot]
      /\ m_iRunType' = [m_iRunType EXCEPT ![aThread] = 0]
      /\ UNCHANGED <<m_iState, m_bQuit, wpc, csoapSon, aSlot, aThread, dpc>>
  BY DEF AssignRequest, slotVars, quitVars, SlotInv, TypeOK
<1>2. /\ Unassigned(aThread) /\ wpc[aThread] \in {"park", "waiting", "loop"}
      /\ m_iState[aThread] = "SUSPEND_LOCKED"
  BY <1>1 DEF SlotInv, WokenShape, Alive
<1>3. /\ m_pGsoap'[aThread] = aSlot /\ m_iRunType'[aThread] = 0 /\ ~m_bQuit'[aThread]
      /\ \A v \in Workers : v # aThread =>
           m_pGsoap'[v] = m_pGsoap[v] /\ m_iRunType'[v] = m_iRunType[v]
  BY <1>1, <1>2 DEF SlotInv, TypeOK, Unassigned
<1>4. ASSUME NEW v \in Workers PROVE WokenShape(v)'
  <2>1. WokenShape(v)
    BY DEF SlotInv
  <2> QED
    BY <1>1, <1>2, <1>3, <2>1 DEF WokenShape, Unassigned, Assigned, ToldToQuit
<1>5. /\ \A s \in Slots : AcceptorOwns(s) <=> s = aSlot
      /\ \A s \in Slots : ~AcceptorOwns(s)'
  BY <1>1 DEF AcceptorOwns
<1>6. \A s \in Slots, v \in Workers :
        WorkerOwns(v, s)' <=> IF v = aThread THEN s = aSlot ELSE WorkerOwns(v, s)
  BY <1>1, <1>2, <1>3 DEF WorkerOwns
<1>7. SlotShape'
  <2>1. \A v \in Workers : Assigned(v)' => v = aThread \/ Assigned(v)
    BY <1>1, <1>3 DEF Assigned
  <2>2. csoapSon[aSlot] = "open"
    BY <1>1, <1>5 DEF SlotInv, SlotShape
  <2> QED
    BY <1>1, <1>2, <1>3, <1>5, <2>1, <2>2 DEF SlotInv, SlotShape
<1>8. OwnersUnique' /\ NoOrphanSlot'
  <2>1. \A s \in Slots : ~WorkerOwns(aThread, s)
    BY <1>2 DEF WorkerOwns, Unassigned
  <2>2. OwnersUnique'
    BY <1>1, <1>5, <1>6 DEF SlotInv, OwnersUnique
  <2>3. NoOrphanSlot'
    BY <1>1, <1>5, <1>6, <2>1 DEF SlotInv, NoOrphanSlot
  <2> QED
    BY <2>2, <2>3
<1>9. dpc' \notin {"off", "join"} => apc' = "done"
  BY <1>1 DEF SlotInv
<1> QED
  BY <1>1, <1>4, <1>7, <1>8, <1>9 DEF SlotInv

(***************************************************************************)
(* The fields a worker is assigned go together and every slot has one      *)
(* owner, for every number of workers, slots and clients and also when     *)
(* pthread_cond_wait returns without a signal or soap_copy fails.          *)
(***************************************************************************)
THEOREM SlotInvariant == Spec => []SlotInv
<1>1. SlotInv /\ [Next]_vars => SlotInv'
  <2> SUFFICES ASSUME SlotInv, [Next]_vars PROVE SlotInv'
    OBVIOUS
  <2>1. TypeOK'
    BY TypeStep DEF SlotInv
  <2>2. ASSUME NEW w \in Workers, WorkerStep(w) \/ SpuriousWake(w) PROVE SlotInv'
    BY <2>1, <2>2, WorkerKeepsSlots
  <2>3. CASE Alive /\ (AcceptStep \/ CopyFails)
    BY <2>1, <2>3, SearchKeepsSlots, CopyKeepsSlots, TakeKeepsSlots, GiveUpKeepsSlots,
       AssignKeepsSlots DEF AcceptStep
  <2>4. CASE Alive /\ (StartDeInit \/ DeInitStep)
    BY <2>1, <2>4, SearchKeepsSlots, TakeKeepsSlots DEF DeInitStep
  <2>5. CASE (\E c \in Clients : Connect(c)) \/ UNCHANGED vars
    BY <2>1, <2>5, SearchKeepsSlots
  <2> QED
    BY <2>2, <2>3, <2>4, <2>5 DEF Next
<1> QED
  BY <1>1, SlotInit, PTL DEF Spec

(***************************************************************************)
(* MonitorSoapServerMain and process_request share csoapSon[] without a    *)
(* lock, and still every open context has exactly one owner.               *)
(***************************************************************************)
THEOREM SlotsOwned == Spec => []SlotOwnership
<1>1. SlotInv => SlotOwnership
  <2> SUFFICES ASSUME SlotInv, NEW s \in Slots
               PROVE  LET owners == {w \in Workers : WorkerOwns(w, s)}
                      IN  IF csoapSon[s] = "NULL"
                          THEN owners = {} /\ ~AcceptorOwns(s)
                          ELSE \/ AcceptorOwns(s) /\ owners = {}
                               \/ ~AcceptorOwns(s) /\ \E w \in Workers : owners = {w}
    BY DEF SlotOwnership
  <2>1. CASE csoapSon[s] = "NULL"
    <3>1. ~AcceptorOwns(s)
      BY <2>1 DEF SlotInv, SlotShape
    <3>2. \A w \in Workers : ~WorkerOwns(w, s)
      BY <2>1, NullSlotUnowned
    <3> QED
      BY <2>1, <3>1, <3>2
  <2>2. CASE csoapSon[s] # "NULL" /\ AcceptorOwns(s)
    BY <2>2 DEF SlotInv, OwnersUnique
  <2>3. CASE csoapSon[s] # "NULL" /\ ~AcceptorOwns(s)
    <3>1. PICK w \in Workers : WorkerOwns(w, s)
      BY <2>3 DEF SlotInv, NoOrphanSlot
    <3>2. {v \in Workers : WorkerOwns(v, s)} = {w}
      BY <3>1 DEF SlotInv, OwnersUnique
    <3> QED
      BY <2>3, <3>2
  <2> QED
    BY <2>1, <2>2, <2>3
<1> QED
  BY <1>1, SlotInvariant, PTL

(***************************************************************************)
(* soap_serve and the teardown of a context work on an open context, even  *)
(* one that a worker has reached before its dispatcher resumed it.         *)
(***************************************************************************)
THEOREM ServedContextsOpen == Spec => []NoUseAfterFree
<1>1. SlotInv => NoUseAfterFree
  BY DEF SlotInv, SlotShape, WokenShape, NoUseAfterFree
<1> QED
  BY <1>1, SlotInvariant, PTL

(***************************************************************************)
(* The wakeups, also with some that nobody sent.                           *)
(***************************************************************************)
LEMMA WakeInit == Init => WakeInv
BY PoolAssumption DEF Init, WakeInv, NoLostWakeup, Dispatching, Workers

\* A worker arms its count when it announces itself idle.  It can not do so
\* while it is locked, and after QUIT_STATE it is gone.
LEMMA WorkerKeepsWakeups ==
  ASSUME SlotInv, WakeInv, NEW w \in Workers, WorkerStep(w) \/ SpuriousWake(w)
  PROVE  WakeInv'
<1> USE DEF SlotInv, TypeOK, Goto
<1>1. /\ UNCHANGED <<aThread, apc, dpc>>
      /\ \A v \in Workers : Dispatching(v)' <=> Dispatching(v)
  BY DEF WorkerStep, Suspend, SuspendRefused, Park, SeeQuit, StartService, UnknownType, SoapServe,
     FreeSoap, ClearSlot, ResetWorker, SetQuitState, SpuriousWake, acceptVars, quitVars, Dispatching
<1>2. \A v \in Workers : v # w =>
         /\ m_iState'[v] = m_iState[v] /\ m_iResumeCount'[v] = m_iResumeCount[v]
         /\ wpc'[v] = wpc[v] /\ (ToldToQuit(v)' <=> ToldToQuit(v))
  BY DEF WorkerStep, Suspend, SuspendRefused, Park, SeeQuit, StartService, UnknownType, SoapServe,
     FreeSoap, ClearSlot, ResetWorker, SetQuitState, SpuriousWake, workerVars, ToldToQuit
<1>3. ToldToQuit(w) => ToldToQuit(w)'
  BY DEF WorkerStep, Suspend, SuspendRefused, Park, SeeQuit, StartService, UnknownType, SoapServe,
     FreeSoap, ClearSlot, ResetWorker, SetQuitState, SpuriousWake, workerVars, ToldToQuit,
     WokenShape, Assigned
<1>4. /\ wpc'[w] \in {"park", "waiting"} =>
           m_iState'[w] \in {"SUSPEND_IDL", "SUSPEND_LOCKED"} /\ m_iResumeCount'[w] = 1
      /\ m_iState'[w] = "SUSPEND_LOCKED" => Dispatching(w)
      /\ m_iState'[w] = "SUSPEND_IDL" => m_iResumeCount'[w] = 1
      /\ Dispatching(w) =>
           m_iResumeCount'[w] = 1 /\ m_iState'[w] \in {"SUSPEND_LOCKED", "QUIT"}
  BY DEF WorkerStep, Suspend, SuspendRefused, Park, SeeQuit, StartService, UnknownType, SoapServe,
     FreeSoap, ClearSlot, ResetWorker, SetQuitState, SpuriousWake, workerVars, WakeInv, NoLostWakeup
<1>5. NoLostWakeup'
  BY <1>1, <1>2, <1>4 DEF NoLostWakeup, WakeInv
<1> QED
  BY <1>1, <1>2, <1>3, <1>4, <1>5 DEF WakeInv

\* A search locks an idle worker and becomes its dispatcher.
LEMMA TakeKeepsWakeups ==
  ASSUME SlotInv, WakeInv, NEW w \in Workers, AcceptTakes(w) \/ DeInitTakes(w)
  PROVE  WakeInv'
<1> USE DEF SlotInv, TypeOK
<1>1. /\ m_iState[w] = "SUSPEND_IDL" /\ m_iState' = [m_iState EXCEPT ![w] = "SUSPEND_LOCKED"]
      /\ m_iResumeCount' = m_iResumeCount /\ wpc' = wpc
      /\ aThread' = w
      /\ apc' = "assign" \/ dpc' = "resume"
  BY DEF AcceptTakes, DeInitTakes, ScanTakes, workerVars
<1>2. \A v \in Workers : ~Dispatching(v)
  BY DEF AcceptTakes, DeInitTakes, Dispatching
<1>3. \A v \in Workers : Dispatching(v)' <=> v = w
  BY <1>1 DEF Dispatching
<1>4. dpc' = "resume" => ToldToQuit(w)'
  BY <1>1 DEF AcceptTakes, DeInitTakes, ToldToQuit, WokenShape, Unassigned, quitVars
<1>5. NoLostWakeup'
  BY <1>1, <1>2, <1>3 DEF NoLostWakeup, WakeInv
<1> QED
  BY <1>1, <1>2, <1>3, <1>4, <1>5 DEF WakeInv

\* The dispatcher ends the lock and, unless the worker has left, its wait.
LEMMA ResumeKeepsWakeups ==
  ASSUME SlotInv, WakeInv, ResumeWorker \/ DeInitResume
  PROVE  WakeInv'
<1> USE DEF SlotInv, TypeOK
<1> DEFINE t == aThread
<1>1. /\ Dispatching(t) /\ aThread' = t /\ Resume(t)
      /\ apc' \notin {"assign", "resume"} /\ dpc' # "resume"
  BY DEF ResumeWorker, DeInitResume, Dispatching, acceptVars, quitVars
<1>2. /\ m_iResumeCount[t] = 1 /\ m_iState[t] \in {"SUSPEND_LOCKED", "QUIT"}
      /\ wpc[t] \in {"park", "waiting"} => m_iState[t] = "SUSPEND_LOCKED"
  BY <1>1 DEF WakeInv, NoLostWakeup
<1>3. /\ m_iState'[t] \in {"RUN", "QUIT"} /\ wpc'[t] \notin {"park", "waiting"}
      /\ \A v \in Workers : v # t =>
           /\ m_iState'[v] = m_iState[v] /\ wpc'[v] = wpc[v]
           /\ m_iResumeCount'[v] = m_iResumeCount[v]
  BY <1>1, <1>2 DEF Resume
<1>4. \A v \in Workers : ~Dispatching(v)' /\ (Dispatching(v) => v = t)
  BY <1>1 DEF Dispatching
<1>5. NoLostWakeup'
  BY <1>3, <1>4 DEF NoLostWakeup, WakeInv
<1> QED
  BY <1>1, <1>3, <1>4, <1>5 DEF WakeInv

\* The other steps touch no lock and no wait.
LEMMA OthersKeepWakeups ==
  ASSUME SlotInv, WakeInv,
         \/ \E c \in Clients : Connect(c) \/ Accept(c)
         \/ \E s \in Slots : CopySoap(s)
         \/ StopListening \/ QuitAfterAccept \/ NoFreeSlot \/ CopyFails \/ AcceptPasses
         \/ AcceptGivesUp \/ AssignRequest \/ StartDeInit \/ JoinWebservice \/ CollectNext
         \/ DeInitPasses \/ AllCollected \/ Reap \/ PoolExit \/ UNCHANGED vars
  PROVE  WakeInv'
<1>1. UNCHANGED <<m_iState, m_iResumeCount, wpc, aThread>>
  BY DEF Connect, Accept, CopySoap, StopListening, QuitAfterAccept, NoFreeSlot, CopyFails,
     AcceptPasses, AcceptGivesUp, AssignRequest, StartDeInit, JoinWebservice, CollectNext,
     DeInitPasses, AllCollected, Reap, PoolExit, vars, workerVars, acceptVars
<1>2. /\ apc' \in {"assign", "resume"} <=> apc \in {"assign", "resume"}
      /\ dpc' = "resume" <=> dpc = "resume"
  BY DEF Connect, Accept, CopySoap, StopListening, QuitAfterAccept, NoFreeSlot, CopyFails,
     AcceptPasses, AcceptGivesUp, AssignRequest, StartDeInit, JoinWebservice, CollectNext,
     DeInitPasses, AllCollected, Reap, PoolExit, vars, acceptVars, quitVars
<1>3. \A v \in Workers : Dispatching(v)' <=> Dispatching(v)
  BY <1>1, <1>2 DEF Dispatching
<1>4. dpc = "resume" => UNCHANGED <<m_iRunType, m_pGsoap, m_bQuit>>
  BY DEF SlotInv, Connect, Accept, CopySoap, StopListening, QuitAfterAccept, NoFreeSlot, CopyFails,
     AcceptPasses, AcceptGivesUp, AssignRequest, StartDeInit, JoinWebservice, CollectNext,
     DeInitPasses, AllCollected, Reap, PoolExit, vars, workerVars
<1> QED
  BY <1>1, <1>2, <1>3, <1>4 DEF WakeInv, NoLostWakeup, ToldToQuit

(***************************************************************************)
(* The invariant of suspend and resume holds for every number of workers   *)
(* and also when pthread_cond_wait returns without a signal.               *)
(***************************************************************************)
THEOREM WakeInvariant == Spec => []WakeInv
<1>1. SlotInv /\ WakeInv /\ [Next]_vars => WakeInv'
  <2> SUFFICES ASSUME SlotInv, WakeInv, [Next]_vars PROVE WakeInv'
    OBVIOUS
  <2>1. CASE AcceptStep
    BY <2>1, OthersKeepWakeups, TakeKeepsWakeups, ResumeKeepsWakeups DEF AcceptStep
  <2>2. CASE DeInitStep
    BY <2>2, OthersKeepWakeups, TakeKeepsWakeups, ResumeKeepsWakeups DEF DeInitStep
  <2> QED
    BY <2>1, <2>2, WorkerKeepsWakeups, OthersKeepWakeups DEF Next
<1> QED
  BY <1>1, WakeInit, SlotInvariant, PTL DEF Spec

(***************************************************************************)
(* The mismatch of m_CS (IsIdlState) and m_ThreadCS (suspend, resume)      *)
(* loses no wakeup.                                                        *)
(***************************************************************************)
THEOREM WakeupsKept == Spec => []NoLostWakeup
<1>1. WakeInv => NoLostWakeup
  BY DEF WakeInv
<1> QED
  BY <1>1, WakeInvariant, PTL

-----------------------------------------------------------------------------
(***************************************************************************)
(* Shutdown: DeInit tells every worker to quit exactly once and deletes it *)
(* after it has left, for any number of workers.                           *)
(***************************************************************************)
LEMMA WorkersFinite == IsFiniteSet(Workers) /\ Cardinality(Workers) = N
BY FS_Interval, PoolAssumption DEF Workers

LEMMA CollectedFinite ==
  /\ Collected \subseteq Workers /\ IsFiniteSet(Collected) /\ Cardinality(Collected) \in Nat
  /\ Cardinality(Collected) = N => Collected = Workers
BY WorkersFinite, FS_Subset, FS_CardinalityType DEF Collected

LEMMA ShutdownInit == Init => ShutdownInv
BY DEF Init, ShutdownInv, ShutdownInOrder, Collected

\* Nobody but SetQuitState sets QUIT_STATE, and a worker that is gone does
\* nothing any more.
LEMMA QuitIsLast ==
  ASSUME SlotInv, ShutdownInv, [Next]_vars
  PROVE  /\ \A w \in Workers : m_iState'[w] = "QUIT" => wpc'[w] = "gone"
         /\ \A w \in Workers : wpc[w] = "gone" => wpc'[w] = "gone"
<1>1. ASSUME NEW v \in Workers, WorkerStep(v) \/ SpuriousWake(v)
      PROVE  \A w \in Workers : /\ m_iState'[w] = "QUIT" => wpc'[w] = "gone"
                                /\ wpc[w] = "gone" => wpc'[w] = "gone"
  BY <1>1 DEF WorkerStep, Suspend, SuspendRefused, Park, SeeQuit, StartService, UnknownType,
     SoapServe, FreeSoap, ClearSlot, ResetWorker, SetQuitState, SpuriousWake, Goto, SlotInv, TypeOK,
     ShutdownInv
<1>2. ASSUME NEW v \in Workers, AcceptTakes(v) \/ DeInitTakes(v)
      PROVE  /\ wpc' = wpc
             /\ \A w \in Workers : m_iState'[w] = "QUIT" => m_iState[w] = "QUIT"
  BY <1>2 DEF AcceptTakes, DeInitTakes, ScanTakes, SlotInv, TypeOK
<1>3. ASSUME ResumeWorker \/ DeInitResume
      PROVE  \A w \in Workers : /\ m_iState'[w] = "QUIT" => m_iState[w] = "QUIT"
                                /\ wpc[w] = "gone" => wpc'[w] = "gone"
  BY <1>3 DEF ResumeWorker, DeInitResume, Resume, SlotInv, TypeOK
<1>4. ASSUME \/ \E c \in Clients : Connect(c) \/ Accept(c)
             \/ \E s \in Slots : CopySoap(s)
             \/ StopListening \/ QuitAfterAccept \/ NoFreeSlot \/ CopyFails \/ AcceptPasses
             \/ AcceptGivesUp \/ AssignRequest \/ StartDeInit \/ JoinWebservice \/ CollectNext
             \/ DeInitPasses \/ AllCollected \/ Reap \/ PoolExit \/ UNCHANGED vars
      PROVE  wpc' = wpc /\ m_iState' = m_iState
  BY <1>4 DEF Connect, Accept, CopySoap, StopListening, QuitAfterAccept, NoFreeSlot, CopyFails,
     AcceptPasses, AcceptGivesUp, AssignRequest, StartDeInit, JoinWebservice, CollectNext,
     DeInitPasses, AllCollected, Reap, PoolExit, vars, workerVars
<1>5. CASE (\E v \in Workers : WorkerStep(v) \/ SpuriousWake(v))
  BY <1>1, <1>5
<1>6. CASE (\E v \in Workers : AcceptTakes(v) \/ DeInitTakes(v)) \/ ResumeWorker \/ DeInitResume
  <2>1. \A w \in Workers : /\ m_iState'[w] = "QUIT" => m_iState[w] = "QUIT"
                           /\ wpc[w] = "gone" => wpc'[w] = "gone"
    BY <1>2, <1>3, <1>6
  <2> QED
    BY <2>1 DEF ShutdownInv
<1> QED
  BY <1>4, <1>5, <1>6 DEF Next, AcceptStep, DeInitStep, ShutdownInv

\* Only DeInit tells a worker to quit, and it is one it has not told before.
LEMMA OthersCollectNobody ==
  ASSUME [Next]_vars, ~\E w \in Workers : DeInitTakes(w)
  PROVE  Collected' = Collected
<1>1. m_bQuit' = m_bQuit
  BY DEF Next, AcceptStep, DeInitStep, Connect, Accept, CopySoap, StopListening, QuitAfterAccept,
     NoFreeSlot, CopyFails, AcceptPasses, AcceptGivesUp, AcceptTakes, AssignRequest, ResumeWorker,
     StartDeInit, JoinWebservice, CollectNext, DeInitPasses, DeInitResume, AllCollected, Reap,
     PoolExit, WorkerStep, Suspend, SuspendRefused, Park, SeeQuit, StartService, UnknownType,
     SoapServe, FreeSoap, ClearSlot, ResetWorker, SetQuitState, SpuriousWake, vars, workerVars
<1> QED
  BY <1>1 DEF Collected

LEMMA TakesAnother ==
  ASSUME SlotInv, NEW w \in Workers, DeInitTakes(w)
  PROVE  Cardinality(Collected') = Cardinality(Collected) + 1
<1>1. ~m_bQuit[w]
  BY DEF DeInitTakes, ScanTakes, SlotInv, WokenShape, Unassigned
<1>2. Collected' = Collected \cup {w} /\ w \notin Collected
  BY <1>1 DEF DeInitTakes, Collected, SlotInv, TypeOK
<1> QED
  BY <1>2, CollectedFinite, FS_AddElement

LEMMA ShutdownStep ==
  ASSUME SlotInv, TypeOK', ShutdownInv, [Next]_vars
  PROVE  ShutdownInv'
<1> USE PoolAssumption
<1>1. /\ \A w \in Workers : m_iState'[w] = "QUIT" => wpc'[w] = "gone"
      /\ \A w \in Workers : wpc[w] = "gone" => wpc'[w] = "gone"
  BY QuitIsLast
<1>2. ASSUME UNCHANGED <<dpc, dCount>>, ~\E w \in Workers : DeInitTakes(w)
      PROVE  ShutdownInv'
  BY <1>1, <1>2, OthersCollectNobody DEF ShutdownInv, ShutdownInOrder
<1>3. ASSUME NEW w \in Workers, DeInitTakes(w)
      PROVE  ShutdownInv'
  <2>1. dpc = "scan" /\ dpc' = "resume" /\ dCount' = dCount
    BY <1>3 DEF DeInitTakes
  <2> QED
    BY <1>1, <1>3, <2>1, TakesAnother DEF ShutdownInv, ShutdownInOrder
<1>4. CASE StartDeInit \/ JoinWebservice \/ CollectNext \/ DeInitPasses
  <2>1. Collected' = Collected
    BY <1>4, OthersCollectNobody DEF StartDeInit, JoinWebservice, CollectNext, DeInitPasses,
       DeInitTakes
  <2>2. CASE StartDeInit
    BY <1>1, <2>1, <2>2 DEF StartDeInit, ShutdownInv, ShutdownInOrder
  <2>3. CASE JoinWebservice
    BY <1>1, <2>1, <2>3, FS_EmptySet DEF JoinWebservice, ShutdownInv, ShutdownInOrder
  <2>4. CASE CollectNext \/ DeInitPasses
    BY <1>1, <2>1, <2>4 DEF CollectNext, DeInitPasses, ShutdownInv, ShutdownInOrder
  <2> QED
    BY <1>4, <2>2, <2>3, <2>4
<1>5. CASE DeInitResume
  <2>1. /\ dpc = "resume" /\ dpc' = "collect" /\ dCount' = dCount + 1 /\ Collected' = Collected
    BY <1>5, OthersCollectNobody DEF DeInitResume, DeInitTakes
  <2> QED
    BY <1>1, <2>1 DEF ShutdownInv, ShutdownInOrder
<1>6. CASE AllCollected
  <2>1. dpc = "collect" /\ dCount = N /\ dpc' = "reap" /\ dCount' = dCount /\ Collected' = Collected
    BY <1>6, OthersCollectNobody DEF AllCollected, DeInitTakes
  <2>2. Collected = Workers
    BY <2>1, CollectedFinite DEF ShutdownInv, ShutdownInOrder
  <2> QED
    BY <1>1, <2>1, <2>2 DEF ShutdownInv, ShutdownInOrder, Workers
<1>7. CASE Reap
  <2>1. /\ dpc = "reap" /\ dpc' = "reap" /\ dCount > 0 /\ dCount' = dCount - 1
        /\ m_iState[N - dCount] = "QUIT" /\ Collected' = Collected /\ dCount \in 0 .. N
    BY <1>7, OthersCollectNobody DEF Reap, DeInitTakes, SlotInv, TypeOK
  <2>2. N - dCount \in Workers /\ wpc[N - dCount] = "gone"
    BY <2>1 DEF ShutdownInv, Workers
  <2>3. \A w \in Workers : w < N - dCount' => w < N - dCount \/ w = N - dCount
    BY <2>1 DEF Workers
  <2> QED
    BY <1>1, <2>1, <2>2, <2>3 DEF ShutdownInv, ShutdownInOrder
<1>8. CASE PoolExit
  <2>1. dpc = "reap" /\ dCount = 0 /\ dpc' = "finished" /\ Collected' = Collected
    BY <1>8, OthersCollectNobody DEF PoolExit, DeInitTakes
  <2>2. \A w \in Workers : w < N - dCount
    BY <2>1 DEF Workers
  <2> QED
    BY <1>1, <2>1, <2>2 DEF ShutdownInv, ShutdownInOrder
<1>9. CASE UNCHANGED <<dpc, dCount>> /\ ~\E w \in Workers : DeInitTakes(w)
  BY <1>2, <1>9
<1>10. \/ UNCHANGED <<dpc, dCount>>
       \/ \E w \in Workers : DeInitTakes(w)
       \/ StartDeInit \/ JoinWebservice \/ CollectNext \/ DeInitPasses \/ DeInitResume
       \/ AllCollected \/ Reap \/ PoolExit
  BY DEF Next, AcceptStep, DeInitStep, Connect, Accept, CopySoap, StopListening, QuitAfterAccept,
     NoFreeSlot, CopyFails, AcceptPasses, AcceptGivesUp, AcceptTakes, AssignRequest, ResumeWorker,
     WorkerStep, Suspend, SuspendRefused, Park, SeeQuit, StartService, UnknownType, SoapServe,
     FreeSoap, ClearSlot, ResetWorker, SetQuitState, SpuriousWake, vars, quitVars
<1> QED
  BY <1>3, <1>4, <1>5, <1>6, <1>7, <1>8, <1>9, <1>10

(***************************************************************************)
(* DeInit collects each worker once, although it counts rounds and workers *)
(* return to the idle state between them, and deletes no worker that may   *)
(* still run, for any number of workers and also with spurious wakeups.    *)
(***************************************************************************)
THEOREM ShutdownOrdered == Spec => []ShutdownInOrder
<1>1. SlotInv /\ SlotInv' /\ ShutdownInv /\ [Next]_vars => ShutdownInv'
  BY ShutdownStep DEF SlotInv
<1>2. ShutdownInv => ShutdownInOrder
  BY DEF ShutdownInv
<1> QED
  BY <1>1, <1>2, ShutdownInit, SlotInvariant, PTL DEF Spec

=============================================================================
