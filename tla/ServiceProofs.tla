---------------------------- MODULE ServiceProofs ---------------------------
(***************************************************************************)
(* Proof that ThreadPool implements the safety part of RequestService: an  *)
(* accepted connection is answered once, by one worker, or refused before  *)
(* any worker has started on it.  And that no accepted connection is       *)
(* forgotten between the accept loop and the workers.                      *)
(***************************************************************************)
EXTENDS ThreadPoolProofs

(***************************************************************************)
(* A worker serves the client of its slot from the hand over to the        *)
(* answer.  That client is waiting for its answer, no other worker and no  *)
(* search of the accept loop is for it.                                    *)
(***************************************************************************)
Serving(w) ==
  /\ m_pGsoap[w] # NoSlot /\ m_iRunType[w] = 0
  /\ wpc[w] \in {"park", "waiting", "loop", "serve"}

Request(w) == slotClient[m_pGsoap[w]]

ServedWait ==
  \A w \in Workers : Serving(w) => Request(w) \in Clients /\ client[Request(w)] = "accepted"

ServedOnce ==
  \A v, w \in Workers : Serving(v) /\ Serving(w) /\ Request(v) = Request(w) => v = w

PlacedWaits ==
  apc \in {"check", "scan", "assign"} =>
    /\ aClient \in Clients /\ client[aClient] = "accepted"
    /\ \A w \in Workers : Serving(w) => Request(w) # aClient

PlacedInSlot == apc \in {"scan", "assign"} => slotClient[aSlot] = aClient

ServiceInv == ServedWait /\ ServedOnce /\ PlacedWaits /\ PlacedInSlot

LEMMA CommittedRequest ==
  ASSUME NEW w \in Workers
  PROVE  Committed(w) = IF Serving(w) THEN Request(w) ELSE NoClient
BY DEF Committed, Serving, Request

LEMMA ServingAssigned ==
  ASSUME SlotInv, NEW w \in Workers, Serving(w)
  PROVE  /\ m_pGsoap[w] \in Slots /\ ~m_bQuit[w]
         /\ wpc[w] # "reset" /\ WorkerOwns(w, m_pGsoap[w])
         /\ apc = "assign" => w # aThread
<1>1. m_pGsoap[w] \in Slots \cup {NoSlot} /\ m_iRunType[w] = 0 /\ m_pGsoap[w] # NoSlot
  BY DEF SlotInv, TypeOK, Serving
<1>2. wpc[w] \in {"park", "waiting", "loop", "serve"}
  BY DEF Serving
<1>3. WokenShape(w)
  BY DEF SlotInv
<1>4. ~m_bQuit[w]
  BY <1>1, <1>2, <1>3 DEF WokenShape, Unassigned, Assigned, ToldToQuit
<1> QED
  BY <1>1, <1>2, <1>3, <1>4 DEF WorkerOwns, WokenShape, Unassigned

\* Steps that change nobody's request and place no new one.
LEMMA NothingServed ==
  ASSUME ServiceInv, client' = client,
         \A w \in Workers : Serving(w)' <=> Serving(w),
         \A w \in Workers : Serving(w) => Request(w)' = Request(w),
         apc' \in {"check", "scan", "assign"} =>
           apc \in {"check", "scan", "assign"} /\ aClient' = aClient,
         apc' \in {"scan", "assign"} =>
           apc \in {"scan", "assign"} /\ slotClient'[aSlot'] = slotClient[aSlot]
  PROVE  ServiceInv' /\ UNCHANGED Service!vars
<1>1. \A w \in Workers : Committed(w)' = Committed(w)
  BY DEF Committed, Serving, Request
<1>2. UNCHANGED Service!vars
  BY <1>1 DEF Service!vars
<1>3. ServedWait' /\ ServedOnce'
  BY DEF ServiceInv, ServedWait, ServedOnce
<1>4. PlacedWaits'
  BY DEF ServiceInv, PlacedWaits
<1>5. PlacedInSlot'
  BY DEF ServiceInv, PlacedInSlot
<1> QED
  BY <1>2, <1>3, <1>4, <1>5 DEF ServiceInv

-----------------------------------------------------------------------------
LEMMA WorkerQuiet ==
  ASSUME SlotInv, ServiceInv, NEW w \in Workers,
         WorkerStep(w) \/ SpuriousWake(w), ~SoapServe(w)
  PROVE  ServiceInv' /\ UNCHANGED Service!vars
<1>1. UNCHANGED <<client, acceptVars>>
  BY DEF WorkerStep, Suspend, SuspendRefused, Park, SeeQuit, StartService, UnknownType, FreeSoap,
         ClearSlot, ResetWorker, SetQuitState, SpuriousWake, slotVars
<1>2. \A v \in Workers : v # w => /\ m_pGsoap'[v] = m_pGsoap[v] /\ m_iRunType'[v] = m_iRunType[v]
                                  /\ wpc'[v] = wpc[v]
  BY DEF WorkerStep, Suspend, SuspendRefused, Park, SeeQuit, StartService, UnknownType, FreeSoap,
         ClearSlot, ResetWorker, SetQuitState, SpuriousWake, Goto, SlotInv, TypeOK
<1>3. Serving(w)' <=> Serving(w)
  BY DEF WorkerStep, Suspend, SuspendRefused, Park, SeeQuit, StartService, UnknownType, FreeSoap,
         ClearSlot, ResetWorker, SetQuitState, SpuriousWake, Goto, SlotInv, TypeOK, WokenShape,
         Serving, Unassigned, Assigned, ToldToQuit
<1>4. ~FreeSoap(w) => slotClient' = slotClient
  BY DEF WorkerStep, Suspend, SuspendRefused, Park, SeeQuit, StartService, UnknownType, FreeSoap,
         ClearSlot, ResetWorker, SetQuitState, SpuriousWake, slotVars
<1>5. ASSUME FreeSoap(w)
      PROVE  /\ WorkerOwns(w, m_pGsoap[w]) /\ m_pGsoap[w] \in Slots /\ ~Serving(w)
             /\ \A s \in Slots : s # m_pGsoap[w] => slotClient'[s] = slotClient[s]
             /\ m_pGsoap' = m_pGsoap
  BY <1>5 DEF FreeSoap, SlotInv, TypeOK, WokenShape, WorkerOwns, Assigned, Serving
<1>6. ASSUME NEW v \in Workers, Serving(v)
      PROVE  Request(v)' = Request(v)
  <2>1. m_pGsoap'[v] = m_pGsoap[v]
    BY <1>2, <1>3, <1>6 DEF WorkerStep, Suspend, SuspendRefused, Park, SeeQuit, StartService,
       UnknownType, FreeSoap, ClearSlot, ResetWorker, SetQuitState, SpuriousWake,
       Serving
  <2>2. ASSUME FreeSoap(w)
        PROVE  m_pGsoap[v] # m_pGsoap[w] /\ m_pGsoap[v] \in Slots
    BY <1>5, <1>6, <2>2, ServingAssigned DEF SlotInv, OwnersUnique
  <2> QED
    BY <1>4, <1>5, <2>1, <2>2 DEF Request
<1>7. apc \in {"scan", "assign"} => slotClient'[aSlot] = slotClient[aSlot]
  <2>1. ASSUME FreeSoap(w), apc \in {"scan", "assign"}
        PROVE  aSlot \in Slots /\ aSlot # m_pGsoap[w]
    <3>1. aSlot \in Slots /\ AcceptorOwns(aSlot)
      BY <2>1 DEF SlotInv, AcceptorOwns
    <3> QED
      BY <1>5, <2>1, <3>1 DEF SlotInv, OwnersUnique
  <2> QED
    BY <1>4, <1>5, <2>1
<1>8. \A v \in Workers : Serving(v)' <=> Serving(v)
  BY <1>2, <1>3 DEF Serving
<1>9. UNCHANGED <<apc, aClient, aSlot>>
  BY <1>1 DEF acceptVars
<1> QED
  BY <1>1, <1>6, <1>7, <1>8, <1>9, NothingServed

\* soap_serve: the answer.
LEMMA SoapServeAnswers ==
  ASSUME SlotInv, ServiceInv, NEW w \in Workers, SoapServe(w)
  PROVE  ServiceInv' /\ Service!Answer(w)
<1>1. /\ wpc[w] = "serve" /\ m_pGsoap[w] \in Slots /\ m_iRunType[w] = 0 /\ m_pGsoap[w] # NoSlot
      /\ Serving(w)
  BY DEF SoapServe, SlotInv, WokenShape, Assigned, Serving, Slots, NoSlot
<1>2. Request(w) \in Clients /\ client[Request(w)] = "accepted"
  BY <1>1 DEF ServiceInv, ServedWait
<1>3. client' = [client EXCEPT ![Request(w)] = "answered"]
  BY DEF SoapServe, Request
<1>4. UNCHANGED <<m_pGsoap, m_iRunType, slotClient, acceptVars>>
  BY DEF SoapServe
<1>5. wpc'[w] = "free" /\ \A v \in Workers : v # w => wpc'[v] = wpc[v]
  BY DEF SoapServe, Goto, SlotInv, TypeOK
<1>6. ~Serving(w)' /\ \A v \in Workers : v # w => (Serving(v)' <=> Serving(v))
  BY <1>4, <1>5 DEF Serving
<1>7. \A v \in Workers : Request(v)' = Request(v)
  BY <1>4 DEF Request
<1>8. \A c \in Clients : c # Request(w) => client'[c] = client[c]
  BY <1>2, <1>3 DEF SlotInv, TypeOK
<1>9. ServedWait' /\ ServedOnce'
  BY <1>1, <1>6, <1>7, <1>8 DEF ServiceInv, ServedWait, ServedOnce
<1>10. PlacedWaits' /\ PlacedInSlot'
  BY <1>1, <1>4, <1>6, <1>7, <1>8 DEF ServiceInv, PlacedWaits, PlacedInSlot, acceptVars
<1>11. Service!Answer(w)
  <2>1. Committed(w) = Request(w) /\ Request(w) # NoClient
    BY <1>1, <1>2, CommittedRequest, PoolAssumption
  <2>2. Committed(w)' = NoClient
    BY <1>6 DEF Committed, Serving
  <2>3. \A v \in Workers : v # w => Committed(v)' = Committed(v)
    BY <1>4, <1>5 DEF Committed
  <2> QED
    BY <1>2, <1>3, <2>1, <2>2, <2>3 DEF Service!Answer
<1> QED
  BY <1>9, <1>10, <1>11 DEF ServiceInv

-----------------------------------------------------------------------------
\* Steps of the accept loop and of DeInit that only look for a worker or
\* wake one up.
LEMMA SearchQuiet ==
  ASSUME SlotInv, ServiceInv,
         \/ StopListening \/ CopyFails \/ AcceptPasses \/ \E w \in Workers : AcceptTakes(w)
         \/ StartDeInit \/ JoinWebservice \/ CollectNext \/ DeInitPasses \/ AllCollected
         \/ Reap \/ PoolExit \/ UNCHANGED vars
  PROVE  ServiceInv' /\ UNCHANGED Service!vars
<1>1. UNCHANGED <<m_iRunType, m_pGsoap, wpc, slotVars>>
  BY DEF StopListening, CopyFails, AcceptPasses, AcceptTakes, StartDeInit, JoinWebservice,
         CollectNext, DeInitPasses, AllCollected, Reap, PoolExit, vars, workerVars
<1>2. /\ apc' \in {"check", "scan", "assign"} =>
           apc \in {"check", "scan", "assign"} /\ aClient' = aClient
      /\ apc' \in {"scan", "assign"} => apc \in {"scan", "assign"} /\ aSlot' = aSlot
  BY DEF StopListening, CopyFails, AcceptPasses, AcceptTakes, StartDeInit, JoinWebservice,
         CollectNext, DeInitPasses, AllCollected, Reap, PoolExit, vars, acceptVars
<1>3. \A w \in Workers : (Serving(w)' <=> Serving(w)) /\ Request(w)' = Request(w)
  BY <1>1 DEF Serving, Request, slotVars
<1> QED
  BY <1>1, <1>2, <1>3, NothingServed DEF slotVars

LEMMA ResumeQuiet ==
  ASSUME SlotInv, ServiceInv, ResumeWorker \/ DeInitResume
  PROVE  ServiceInv' /\ UNCHANGED Service!vars
<1>1. UNCHANGED <<m_iRunType, m_pGsoap, slotVars>>
  BY DEF ResumeWorker, DeInitResume
<1>2. wpc' = wpc \/ (wpc[aThread] = "waiting" /\ wpc' = [wpc EXCEPT ![aThread] = "loop"])
  BY DEF ResumeWorker, DeInitResume, Resume
<1>3. \A w \in Workers : (Serving(w)' <=> Serving(w)) /\ Request(w)' = Request(w)
  BY <1>1, <1>2 DEF Serving, Request, slotVars, SlotInv, TypeOK
<1>4. apc' \notin {"check", "scan", "assign"}
  BY DEF ResumeWorker, DeInitResume, SlotInv, acceptVars
<1> QED
  BY <1>1, <1>3, <1>4, NothingServed DEF slotVars

\* The worker DeInit takes was idle, so it served nobody.
LEMMA DeInitTakesQuiet ==
  ASSUME SlotInv, ServiceInv, NEW w \in Workers, DeInitTakes(w)
  PROVE  ServiceInv' /\ UNCHANGED Service!vars
<1>1. Unassigned(w)
  BY DEF DeInitTakes, ScanTakes, SlotInv, WokenShape
<1>2. UNCHANGED <<m_pGsoap, wpc, slotVars, apc, aClient, aSlot>>
  BY DEF DeInitTakes
<1>3. m_iRunType'[w] = 3 /\ \A v \in Workers : v # w => m_iRunType'[v] = m_iRunType[v]
  BY DEF DeInitTakes, SlotInv, TypeOK
<1>4. \A v \in Workers : (Serving(v)' <=> Serving(v)) /\ Request(v)' = Request(v)
  BY <1>1, <1>2, <1>3 DEF Serving, Request, Unassigned, slotVars
<1> QED
  BY <1>2, <1>4, NothingServed DEF slotVars

LEMMA ConnectStep ==
  ASSUME SlotInv, ServiceInv, NEW c \in Clients, Connect(c)
  PROVE  ServiceInv' /\ Service!Connect(c)
<1>1. client[c] # "accepted" /\ client' = [client EXCEPT ![c] = "waiting"]
  BY DEF Connect
<1>2. UNCHANGED <<m_iRunType, m_pGsoap, wpc, slotClient, apc, aClient, aSlot>>
  BY DEF Connect, workerVars, acceptVars
<1>3. \A d \in Clients : client[d] = "accepted" => client'[d] = "accepted"
  BY <1>1 DEF SlotInv, TypeOK
<1>4. \A w \in Workers : (Serving(w)' <=> Serving(w)) /\ Request(w)' = Request(w)
                         /\ Committed(w)' = Committed(w)
  BY <1>2 DEF Serving, Request, Committed
<1>5. ServedWait' /\ ServedOnce' /\ PlacedWaits' /\ PlacedInSlot'
  BY <1>2, <1>3, <1>4 DEF ServiceInv, ServedWait, ServedOnce, PlacedWaits, PlacedInSlot
<1>6. Service!Connect(c)
  BY <1>1, <1>4 DEF Connect, Service!Connect
<1> QED
  BY <1>5, <1>6 DEF ServiceInv

\* An accepted client is served by nobody yet: whoever is served was accepted
\* before and still waits.
LEMMA AcceptsClient ==
  ASSUME SlotInv, ServiceInv, NEW c \in Clients, Accept(c)
  PROVE  ServiceInv' /\ Service!Accept(c)
<1>1. client[c] = "waiting" /\ client' = [client EXCEPT ![c] = "accepted"]
  BY DEF Accept
<1>2. UNCHANGED <<m_iRunType, m_pGsoap, wpc, slotClient>> /\ apc' = "check" /\ aClient' = c
  BY DEF Accept, workerVars
<1>3. client'[c] = "accepted" /\ \A d \in Clients : d # c => client'[d] = client[d]
  BY <1>1 DEF SlotInv, TypeOK
<1>4. \A w \in Workers : (Serving(w)' <=> Serving(w)) /\ Request(w)' = Request(w)
                         /\ Committed(w)' = Committed(w)
  BY <1>2 DEF Serving, Request, Committed
<1>5. \A w \in Workers : Serving(w) => Request(w) # c
  BY <1>1 DEF ServiceInv, ServedWait
<1>6. ServedWait' /\ ServedOnce' /\ PlacedWaits' /\ PlacedInSlot'
  BY <1>2, <1>3, <1>4, <1>5 DEF ServiceInv, ServedWait, ServedOnce, PlacedWaits, PlacedInSlot
<1>7. Service!Accept(c)
  BY <1>1, <1>4 DEF Service!Accept
<1> QED
  BY <1>6, <1>7 DEF ServiceInv

\* A search that fails, and the early ends of an iteration, refuse the client
\* that is being placed.
LEMMA RefusesClient ==
  ASSUME SlotInv, ServiceInv, QuitAfterAccept \/ NoFreeSlot \/ AcceptGivesUp
  PROVE  ServiceInv' /\ aClient \in Clients /\ Service!Refuse(aClient)
<1>1. /\ apc \in {"check", "scan"} /\ apc' \in {"accept", "done"}
      /\ client' = [client EXCEPT ![aClient] = "refused"]
      /\ UNCHANGED <<m_iRunType, m_pGsoap, wpc>>
  BY DEF QuitAfterAccept, NoFreeSlot, AcceptGivesUp, RefuseClient, workerVars
<1>2. /\ aClient \in Clients /\ client[aClient] = "accepted"
      /\ \A w \in Workers : Serving(w) => Request(w) # aClient
  BY <1>1 DEF ServiceInv, PlacedWaits
<1>3. \A w \in Workers : Serving(w)' <=> Serving(w)
  BY <1>1 DEF Serving
<1>4. ASSUME NEW w \in Workers, Serving(w)
      PROVE  Request(w)' = Request(w)
  <2>1. CASE slotClient' = slotClient
    BY <1>1, <2>1 DEF Request
  <2>2. CASE AcceptGivesUp
    <3>1. aSlot \in Slots /\ AcceptorOwns(aSlot)
      BY <2>2 DEF AcceptGivesUp, AcceptorOwns, SlotInv
    <3>2. m_pGsoap[w] \in Slots /\ m_pGsoap[w] # aSlot
      BY <1>4, <3>1, ServingAssigned DEF SlotInv, OwnersUnique
    <3>3. slotClient' = [slotClient EXCEPT ![aSlot] = NoClient]
      BY <2>2 DEF AcceptGivesUp
    <3> QED
      BY <1>1, <3>2, <3>3 DEF Request, SlotInv, TypeOK
  <2> QED
    BY <2>1, <2>2 DEF QuitAfterAccept, NoFreeSlot
<1>5. \A d \in Clients : d # aClient => client'[d] = client[d]
  BY <1>1, <1>2 DEF SlotInv, TypeOK
<1>6. ServedWait' /\ ServedOnce'
  BY <1>2, <1>3, <1>4, <1>5 DEF ServiceInv, ServedWait, ServedOnce
<1>7. PlacedWaits' /\ PlacedInSlot'
  BY <1>1 DEF PlacedWaits, PlacedInSlot
<1>8. Service!Refuse(aClient)
  <2>1. \A w \in Workers : Committed(w)' = Committed(w)
    BY <1>3, <1>4 DEF Committed, Serving, Request
  <2>2. \A w \in Workers : Committed(w) # aClient
    BY <1>2, CommittedRequest, PoolAssumption
  <2> QED
    BY <1>1, <1>2, <2>1, <2>2 DEF Service!Refuse, Service!Unserved
<1> QED
  BY <1>2, <1>6, <1>7, <1>8 DEF ServiceInv

\* The slot that is filled belonged to nobody.
LEMMA CopyQuiet ==
  ASSUME SlotInv, ServiceInv, NEW s \in Slots, CopySoap(s)
  PROVE  ServiceInv' /\ UNCHANGED Service!vars
<1>1. /\ apc = "check" /\ apc' = "scan" /\ csoapSon[s] = "NULL" /\ aSlot' = s
      /\ slotClient' = [slotClient EXCEPT ![s] = aClient]
      /\ UNCHANGED <<m_iRunType, m_pGsoap, wpc, client, aClient>>
  BY DEF CopySoap, FirstFree, workerVars
<1>2. \A w \in Workers : Serving(w)' <=> Serving(w)
  BY <1>1 DEF Serving
<1>3. ASSUME NEW w \in Workers, Serving(w)
      PROVE  Request(w)' = Request(w)
  <2>1. m_pGsoap[w] \in Slots /\ m_pGsoap[w] # s
    BY <1>1, <1>3, ServingAssigned, NullSlotUnowned
  <2> QED
    BY <1>1, <2>1 DEF Request, SlotInv, TypeOK
<1>4. ServedWait' /\ ServedOnce' /\ PlacedWaits'
  BY <1>1, <1>2, <1>3 DEF ServiceInv, ServedWait, ServedOnce, PlacedWaits
<1>5. PlacedInSlot'
  BY <1>1 DEF PlacedInSlot, SlotInv, TypeOK
<1>6. \A w \in Workers : Committed(w)' = Committed(w)
  BY <1>2, <1>3 DEF Committed, Serving, Request
<1> QED
  BY <1>1, <1>4, <1>5, <1>6 DEF ServiceInv, Service!vars

\* The hand over commits the worker to the client.
LEMMA AssignCommits ==
  ASSUME SlotInv, ServiceInv, Alive, AssignRequest
  PROVE  ServiceInv' /\ aThread \in Workers /\ aClient \in Clients
         /\ Service!Commit(aThread, aClient)
<1>1. /\ apc = "assign" /\ apc' = "resume" /\ aThread \in Workers
      /\ m_pGsoap' = [m_pGsoap EXCEPT ![aThread] = aSlot]
      /\ m_iRunType' = [m_iRunType EXCEPT ![aThread] = 0]
      /\ UNCHANGED <<wpc, slotVars>>
  BY DEF AssignRequest, SlotInv, TypeOK
<1>2. /\ aClient \in Clients /\ client[aClient] = "accepted"
      /\ \A w \in Workers : Serving(w) => Request(w) # aClient
      /\ slotClient[aSlot] = aClient
  BY <1>1 DEF ServiceInv, PlacedWaits, PlacedInSlot
<1>3. /\ ~Serving(aThread) /\ wpc[aThread] \in {"park", "waiting", "loop"}
      /\ aSlot \in Slots /\ aSlot # NoSlot
  <2>1. Unassigned(aThread) /\ wpc[aThread] \in {"park", "waiting", "loop"}
    BY <1>1 DEF SlotInv, WokenShape, Alive
  <2>2. aSlot \in Slots /\ aSlot # NoSlot
    BY <1>1 DEF SlotInv, Slots, NoSlot
  <2> QED
    BY <2>1, <2>2 DEF Serving, Unassigned
<1>4. m_pGsoap'[aThread] = aSlot /\ m_iRunType'[aThread] = 0
  BY <1>1 DEF SlotInv, TypeOK
<1>5. Serving(aThread)' /\ Request(aThread)' = aClient
  <2>1. aThread' = aThread
    BY DEF AssignRequest
  <2> QED
    BY <1>1, <1>2, <1>3, <1>4, <2>1 DEF Serving, Request, slotVars
<1>6. ASSUME NEW v \in Workers, v # aThread
      PROVE  (Serving(v)' <=> Serving(v)) /\ Request(v)' = Request(v)
  BY <1>1, <1>6 DEF Serving, Request, slotVars, SlotInv, TypeOK
<1>7. ServedWait' /\ ServedOnce'
  <2>1. client' = client /\ aThread' = aThread
    BY DEF AssignRequest, slotVars
  <2> QED
    BY <1>2, <1>5, <1>6, <2>1 DEF ServiceInv, ServedWait, ServedOnce
<1>8. PlacedWaits' /\ PlacedInSlot'
  BY <1>1 DEF PlacedWaits, PlacedInSlot
<1>9. Service!Commit(aThread, aClient)
  <2>1. Committed(aThread) = NoClient
    BY <1>1, <1>3, CommittedRequest
  <2>2. \A w \in Workers : Committed(w) # aClient
    BY <1>2, CommittedRequest, PoolAssumption
  <2>3. [w \in Workers |-> Committed(w)]' =
          [[w \in Workers |-> Committed(w)] EXCEPT ![aThread] = aClient]
    <3>1. aThread' = aThread
      BY DEF AssignRequest
    <3>2. Committed(aThread)' = aClient
      BY <1>1, <1>5, <3>1 DEF Committed, Serving, Request
    <3>3. ASSUME NEW v \in Workers, v # aThread
          PROVE  Committed(v)' = Committed(v)
      BY <1>6, <3>3 DEF Committed, Serving, Request
    <3> QED
      BY <1>1, <3>1, <3>2, <3>3
  <2>4. client' = client
    BY <1>1 DEF slotVars
  <2> QED
    BY <1>1, <1>2, <2>1, <2>2, <2>3, <2>4 DEF Service!Commit, Service!Unserved
<1> QED
  BY <1>1, <1>2, <1>7, <1>8, <1>9 DEF ServiceInv

-----------------------------------------------------------------------------
LEMMA ServiceInit == Init => ServiceInv /\ Service!Init
<1> SUFFICES ASSUME Init PROVE ServiceInv /\ Service!Init
  OBVIOUS
<1>1. \A w \in Workers : ~Serving(w) /\ Committed(w) = NoClient
  BY DEF Init, Serving, Committed
<1>2. ServiceInv
  BY <1>1 DEF Init, ServiceInv, ServedWait, ServedOnce, PlacedWaits, PlacedInSlot
<1>3. Service!Init
  BY <1>1 DEF Init, Service!Init
<1> QED
  BY <1>2, <1>3

LEMMA ServiceStep ==
  ASSUME SlotInv, ServiceInv, [Next]_vars
  PROVE  ServiceInv' /\ [Service!Next]_(Service!vars)
<1>1. ASSUME NEW w \in Workers, WorkerStep(w) \/ SpuriousWake(w)
      PROVE  ServiceInv' /\ [Service!Next]_(Service!vars)
  BY <1>1, WorkerQuiet, SoapServeAnswers DEF Service!Next
<1>2. ASSUME NEW c \in Clients, Connect(c)
      PROVE  ServiceInv' /\ [Service!Next]_(Service!vars)
  BY <1>2, ConnectStep DEF Service!Next
<1>3. CASE Alive /\ (AcceptStep \/ CopyFails)
  <2>1. ASSUME NEW c \in Clients, Accept(c)
        PROVE  ServiceInv' /\ [Service!Next]_(Service!vars)
    BY <2>1, AcceptsClient DEF Service!Next
  <2>2. CASE QuitAfterAccept \/ NoFreeSlot \/ AcceptGivesUp
    BY <2>2, RefusesClient DEF Service!Next
  <2>3. CASE AssignRequest
    BY <1>3, <2>3, AssignCommits DEF Service!Next
  <2> QED
    BY <1>3, <2>1, <2>2, <2>3, CopyQuiet, SearchQuiet, ResumeQuiet DEF AcceptStep
<1>4. CASE StartDeInit \/ DeInitStep
  BY <1>4, SearchQuiet, ResumeQuiet, DeInitTakesQuiet DEF DeInitStep
<1>5. CASE UNCHANGED vars
  BY <1>5, SearchQuiet
<1> QED
  BY <1>1, <1>2, <1>3, <1>4, <1>5 DEF Next

(***************************************************************************)
(* Whatever the slots, the locks and the wakeups do, a client that was     *)
(* accepted is answered by one worker or refused before any worker was     *)
(* committed to it, and never both.  This is the safety part of            *)
(* ImplementsService, for any number of workers, slots and clients.        *)
(***************************************************************************)
THEOREM PoolImplementsService == Spec => ImplementsSafeService
<1>1. Init => ServiceInv /\ Service!Init
  BY ServiceInit
<1>2. SlotInv /\ ServiceInv /\ [Next]_vars => ServiceInv' /\ [Service!Next]_(Service!vars)
  BY ServiceStep
<1>3. Spec => []SlotInv
  BY SlotInvariant
<1> QED
  BY <1>1, <1>2, <1>3, PTL DEF Spec, ImplementsSafeService, Service!SafeSpec

-----------------------------------------------------------------------------
(***************************************************************************)
(* The other direction: whoever was accepted and not settled is being      *)
(* placed or served.                                                       *)
(***************************************************************************)
ClientsInHand ==
  \A c \in Clients : client[c] = "accepted" =>
    BeingPlaced(c) \/ \E w \in Workers : Committed(w) = c

\* Steps that change no request keep everybody where they are.
LEMMA QuietHands ==
  ASSUME ClientsInHand, UNCHANGED Service!vars,
         \A c \in Clients : BeingPlaced(c) => BeingPlaced(c)'
  PROVE  ClientsInHand'
<1>1. client' = client
  BY DEF Service!vars
<1>2. [w \in Workers |-> Committed(w)]' = [w \in Workers |-> Committed(w)]
  BY DEF Service!vars
<1>3. \A w \in Workers : Committed(w)' = Committed(w)
  BY <1>2
<1> QED
  BY <1>1, <1>3 DEF ClientsInHand

LEMMA WorkerHands ==
  ASSUME SlotInv, ServiceInv, ClientsInHand, NEW w \in Workers,
         WorkerStep(w) \/ SpuriousWake(w)
  PROVE  ClientsInHand'
<1>1. UNCHANGED acceptVars
  BY DEF WorkerStep, Suspend, SuspendRefused, Park, SeeQuit, StartService, UnknownType, SoapServe,
         FreeSoap, ClearSlot, ResetWorker, SetQuitState, SpuriousWake
<1>2. \A c \in Clients : BeingPlaced(c) => BeingPlaced(c)'
  BY <1>1 DEF BeingPlaced, acceptVars
<1>3. CASE ~SoapServe(w)
  BY <1>2, <1>3, WorkerQuiet, QuietHands
<1>4. CASE SoapServe(w)
  <2>1. Service!Answer(w)
    BY <1>4, SoapServeAnswers
  <2>2. /\ Committed(w) \in Clients
        /\ client' = [client EXCEPT ![Committed(w)] = "answered"]
        /\ \A v \in Workers : v # w => Committed(v)' = Committed(v)
    <3>1. Committed(w) # NoClient /\ client' = [client EXCEPT ![Committed(w)] = "answered"]
      BY <2>1 DEF Service!Answer
    <3>2. Committed(w) \in Clients
      BY <3>1, CommittedRequest DEF ServiceInv, ServedWait
    <3>3. [v \in Workers |-> Committed(v)]' =
            [[v \in Workers |-> Committed(v)] EXCEPT ![w] = NoClient]
      BY <2>1 DEF Service!Answer
    <3>4. \A v \in Workers : v # w => Committed(v)' = Committed(v)
      BY <3>3
    <3> QED
      BY <3>1, <3>2, <3>4
  <2> SUFFICES ASSUME NEW c \in Clients, client'[c] = "accepted"
               PROVE  BeingPlaced(c)' \/ \E v \in Workers : Committed(v)' = c
    BY DEF ClientsInHand
  <2>3. client[c] = "accepted" /\ c # Committed(w)
    BY <2>2 DEF SlotInv, TypeOK
  <2> QED
    BY <1>2, <2>2, <2>3 DEF ClientsInHand
<1> QED
  BY <1>3, <1>4

\* Everybody but the client whose request changes stays where he is.
LEMMA OtherHands ==
  ASSUME ClientsInHand, NEW c \in Clients,
         \A d \in Clients : d # c => client'[d] = client[d],
         \A w \in Workers : Committed(w)' = Committed(w) \/ Committed(w) \notin Clients,
         client'[c] = "accepted" =>
           BeingPlaced(c)' \/ \E w \in Workers : Committed(w)' = c,
         \A d \in Clients : d # c /\ BeingPlaced(d) => BeingPlaced(d)'
  PROVE  ClientsInHand'
<1> SUFFICES ASSUME NEW d \in Clients, client'[d] = "accepted"
             PROVE  BeingPlaced(d)' \/ \E w \in Workers : Committed(w)' = d
  BY DEF ClientsInHand
<1>1. CASE d = c
  BY <1>1
<1>2. CASE d # c
  BY <1>2 DEF ClientsInHand
<1> QED
  BY <1>1, <1>2

LEMMA CommittedKept ==
  ASSUME [w \in Workers |-> Committed(w)]' = [w \in Workers |-> Committed(w)]
  PROVE  \A w \in Workers : Committed(w)' = Committed(w)
OBVIOUS

LEMMA ConnectHands ==
  ASSUME SlotInv, ServiceInv, ClientsInHand, NEW c \in Clients, Connect(c) \/ Accept(c)
  PROVE  ClientsInHand'
<1>1. Service!Connect(c) \/ Service!Accept(c)
  BY ConnectStep, AcceptsClient
<1>2. \A w \in Workers : Committed(w)' = Committed(w)
  BY <1>1, CommittedKept DEF Service!Connect, Service!Accept
<1>3. \A d \in Clients : d # c => client'[d] = client[d]
  BY DEF Connect, Accept, SlotInv, TypeOK
<1>4. CASE Connect(c)
  <2>1. client'[c] = "waiting" /\ UNCHANGED <<apc, aClient>>
    BY <1>4 DEF Connect, acceptVars, SlotInv, TypeOK
  <2>2. \A d \in Clients : BeingPlaced(d) => BeingPlaced(d)'
    BY <2>1 DEF BeingPlaced
  <2> QED
    BY <1>2, <1>3, <2>1, <2>2, OtherHands
<1>5. CASE Accept(c)
  <2>1. apc = "accept" /\ apc' = "check" /\ aClient' = c
    BY <1>5 DEF Accept
  <2>2. BeingPlaced(c)' /\ \A d \in Clients : ~BeingPlaced(d)
    BY <2>1 DEF BeingPlaced
  <2> QED
    BY <1>2, <1>3, <2>2, OtherHands
<1> QED
  BY <1>4, <1>5

LEMMA RefuseHands ==
  ASSUME SlotInv, ServiceInv, ClientsInHand, QuitAfterAccept \/ NoFreeSlot \/ AcceptGivesUp
  PROVE  ClientsInHand'
<1>1. aClient \in Clients /\ Service!Refuse(aClient)
  BY RefusesClient
<1>2. PICK c \in Clients : c = aClient
  BY <1>1
<1>3. client' = [client EXCEPT ![c] = "refused"]
  BY <1>1, <1>2 DEF Service!Refuse
<1>4. client'[c] = "refused" /\ \A d \in Clients : d # c => client'[d] = client[d]
  BY <1>3 DEF SlotInv, TypeOK
<1>5. \A w \in Workers : Committed(w)' = Committed(w)
  BY <1>1, CommittedKept DEF Service!Refuse
<1>6. \A d \in Clients : d # c => ~BeingPlaced(d)
  BY <1>2 DEF BeingPlaced
<1> QED
  BY <1>4, <1>5, <1>6, OtherHands

LEMMA AssignHands ==
  ASSUME SlotInv, ServiceInv, ClientsInHand, Alive, AssignRequest
  PROVE  ClientsInHand'
<1>1. aThread \in Workers /\ aClient \in Clients /\ Service!Commit(aThread, aClient)
  BY AssignCommits
<1>2. PICK c \in Clients, w \in Workers : c = aClient /\ w = aThread
  BY <1>1
<1>3. /\ Committed(w) = NoClient /\ client' = client
      /\ [v \in Workers |-> Committed(v)]' = [[v \in Workers |-> Committed(v)] EXCEPT ![w] = c]
  BY <1>1, <1>2 DEF Service!Commit
<1>4. Committed(w)' = c /\ \A v \in Workers : v # w => Committed(v)' = Committed(v)
  BY <1>3
<1>5. \A v \in Workers : Committed(v)' = Committed(v) \/ Committed(v) \notin Clients
  BY <1>3, <1>4, PoolAssumption
<1>6. \A d \in Clients : d # c => ~BeingPlaced(d)
  BY <1>2 DEF BeingPlaced
<1> QED
  BY <1>3, <1>4, <1>5, <1>6, OtherHands

LEMMA HandsStep ==
  ASSUME ~CopyMayFail, SlotInv, ServiceInv, ClientsInHand, [Next]_vars
  PROVE  ClientsInHand'
<1>1. ASSUME \/ StopListening \/ AcceptPasses \/ \E w \in Workers : AcceptTakes(w)
             \/ StartDeInit \/ JoinWebservice \/ CollectNext \/ DeInitPasses \/ AllCollected
             \/ Reap \/ PoolExit \/ UNCHANGED vars
      PROVE  ClientsInHand'
  <2>1. \A c \in Clients : BeingPlaced(c) => BeingPlaced(c)'
    BY <1>1 DEF StopListening, AcceptPasses, AcceptTakes, StartDeInit, JoinWebservice,
       CollectNext, DeInitPasses, AllCollected, Reap, PoolExit, vars, acceptVars, BeingPlaced
  <2> QED
    BY <1>1, <2>1, SearchQuiet, QuietHands
<1>2. ASSUME ResumeWorker \/ DeInitResume \/ \E w \in Workers : DeInitTakes(w)
      PROVE  ClientsInHand'
  <2>1. \A c \in Clients : BeingPlaced(c) => BeingPlaced(c)'
    BY <1>2 DEF ResumeWorker, DeInitResume, DeInitTakes, acceptVars, BeingPlaced
  <2> QED
    BY <1>2, <2>1, ResumeQuiet, DeInitTakesQuiet, QuietHands
<1>3. ASSUME NEW s \in Slots, CopySoap(s)
      PROVE  ClientsInHand'
  <2>1. \A c \in Clients : BeingPlaced(c) => BeingPlaced(c)'
    BY <1>3 DEF CopySoap, BeingPlaced
  <2> QED
    BY <1>3, <2>1, CopyQuiet, QuietHands
<1>4. ~CopyFails
  BY DEF CopyFails
<1>5. CASE Alive /\ AcceptStep
  BY <1>1, <1>2, <1>3, <1>5, ConnectHands, RefuseHands, AssignHands DEF AcceptStep
<1>6. CASE DeInitStep
  BY <1>1, <1>2, <1>6 DEF DeInitStep
<1> QED
  BY <1>1, <1>4, <1>5, <1>6, WorkerHands, ConnectHands DEF Next

\* A worker that was handed a context and still waits is the one the accept
\* loop is about to resume.
LEMMA CommittedUnderWay ==
  ASSUME SlotInv, WakeInv, NEW w \in Workers, Committed(w) # NoClient
  PROVE  UnderWay(w)
<1>1. m_iRunType[w] = 0 /\ wpc[w] \in {"park", "waiting", "loop", "serve"}
  BY DEF Committed
<1>2. CASE wpc[w] \in {"park", "waiting"}
  <2>1. ~Unassigned(w) /\ ~ToldToQuit(w)
    BY <1>1 DEF Unassigned, ToldToQuit
  <2>2. m_iState[w] = "SUSPEND_LOCKED" /\ Dispatching(w)
    BY <1>2, <2>1 DEF SlotInv, WokenShape, WakeInv, NoLostWakeup
  <2>3. aThread = w /\ apc = "resume"
    BY <2>1, <2>2 DEF SlotInv, WokenShape, WakeInv, Dispatching
  <2> QED
    BY <2>3 DEF UnderWay
<1>3. CASE wpc[w] \in {"loop", "serve"}
  BY <1>3 DEF UnderWay
<1> QED
  BY <1>1, <1>2, <1>3

(***************************************************************************)
(* No accepted client is forgotten, when soap_copy does not run out of     *)
(* memory: the accept loop is still placing it, or its worker runs or is   *)
(* about to be resumed, also when workers wake up unasked.                 *)
(***************************************************************************)
THEOREM AcceptedAttended ==
  ASSUME ~CopyMayFail
  PROVE  Spec => []NobodyForgotten
<1>1. Init => ServiceInv /\ ClientsInHand
  <2>1. Init => ClientsInHand
    BY DEF Init, ClientsInHand
  <2> QED
    BY <2>1, ServiceInit
<1>2. SlotInv /\ ServiceInv /\ ClientsInHand /\ [Next]_vars => ServiceInv' /\ ClientsInHand'
  BY ServiceStep, HandsStep
<1>3. SlotInv /\ WakeInv /\ ClientsInHand => NobodyForgotten
  BY CommittedUnderWay, PoolAssumption DEF ClientsInHand, NobodyForgotten
<1>4. Spec => [](SlotInv /\ WakeInv)
  BY SlotInvariant, WakeInvariant, PTL
<1> QED
  BY <1>1, <1>2, <1>3, <1>4, PTL DEF Spec

=============================================================================
