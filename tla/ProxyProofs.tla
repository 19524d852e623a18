---------------------------- MODULE ProxyProofs ----------------------------
(***************************************************************************)
(* Proofs about Proxy, for any number of clients, places and workers.      *)
(*                                                                         *)
(* The counter of clients is exact because a connection is counted where   *)
(* it is accepted and taken off on exactly one of its two ends.  The order *)
(* of a shutdown rests on the accept loop: it outlives every task, so once *)
(* it has ended no handler is made any more, and the handlers there are    *)
(* stay in the global wait group until their own goroutines have ended.    *)
(***************************************************************************)
EXTENDS Proxy, FiniteSetTheorems, TLAPS

\* What the accept loop holds, by its place.
AcceptInv ==
    /\ accept = "check" => conn \in Clients /\ client[conn] = "accepted"
    /\ accept = "schedule" => conn \in Clients /\ client[conn] = "counted"
    /\ \A c \in Clients : client[c] = "counted" => accept = "schedule" /\ conn = c

\* Before Start has succeeded there is no client.
StartInv ==
    /\ ~started => accept = "none" /\ ~listener /\ \A c \in Clients : client[c] = "out"
    /\ started => main \in {"serve", "waitListener", "waitHandlers", "stopSchedulers", "ended"}

CountInv == TypeOK /\ AcceptInv /\ StartInv /\ activeClients = Cardinality(Active)

\* What is up, by the place of RunMain.
MainInv ==
    /\ main \in {"start", "serve", "stopListener", "waitListener", "waitHandlers",
                 "stopSchedulers"} => schedulers
    /\ started /\ main \in {"serve", "waitListener", "waitHandlers"} => controlConns
    /\ main \in {"waitHandlers", "stopSchedulers", "ended"} => accept = "none"
    /\ accept = "none" => Tasks = {}
    /\ main \in {"stopSchedulers", "ended"} => \A c \in Clients : client[c] # "running"

\* The goroutines of a handler, by how far it has come.
HandlerInv ==
    \A c \in Clients :
        /\ client[c] \in {"created", "starting", "running"} => c \in globalWg
        /\ client[c] \notin {"starting", "running", "closed"} => ~context[c]
        /\ client[c] = "starting" => "reader" \in localWg[c]
        /\ client[c] = "running" => "rest" \in localWg[c]

OrderInv == MainInv /\ HandlerInv
-----------------------------------------------------------------------------
\* A step of a client, of its task or of its handler.
ClientStep(c) ==
    \/ Connect(c) \/ Accept(c) \/ TaskStep(c)
    \/ ClientLeaves(c) \/ ClusterLost(c) \/ EndStep(c)

LEMMA StepCases ==
    ASSUME Next
    PROVE  \/ Signal \/ Create \/ Start \/ Backoff
           \/ CloseListener \/ CancelHandlers \/ StopControlConns \/ StopSchedulers
           \/ CheckThreshold \/ ScheduleTask \/ AcceptFails \/ AcceptEnds
           \/ \E c \in Clients : ClientStep(c)
  BY DEF Next, MainStep, AcceptStep, ClientStep

\* Where a connection counts.
LEMMA ActiveMoves ==
    ASSUME TypeOK, NEW c \in Clients, NEW p, client' = [client EXCEPT ![c] = p]
    PROVE  Active' = IF p \in {"counted", "queued", "creating", "created", "starting", "running"}
                     THEN Active \cup {c} ELSE Active \ {c}
  BY DEF TypeOK, Active, Tasks

LEMMA ActiveFinite ==
    ASSUME TypeOK
    PROVE  /\ IsFiniteSet(Active) /\ Cardinality(Active) \in Nat
           /\ \A c : /\ c \in Active => Cardinality(Active \ {c}) = Cardinality(Active) - 1
                     /\ c \in Active => Cardinality(Active) > 0
                     /\ c \notin Active => Cardinality(Active \cup {c}) = Cardinality(Active) + 1
<1>1. Active \subseteq Clients
  BY DEF Active, Tasks
<1>2. IsFiniteSet(Active)
  BY <1>1, FS_Subset, ConstantsAssumption
<1>3. ASSUME NEW c \in Active PROVE Cardinality(Active) > 0
  BY <1>2, FS_CardinalityType, FS_EmptySet
<1> QED
  BY <1>2, <1>3, FS_CardinalityType, FS_AddElement, FS_RemoveElement

\* A step that moves no client.
LEMMA ActiveStays ==
    ASSUME UNCHANGED client
    PROVE  Active' = Active
  BY DEF Active, Tasks

LEMMA CountInit == ASSUME Init PROVE CountInv
<1>1. localWg \in [Clients -> SUBSET Goroutines] /\ globalWg \subseteq Clients
  BY DEF Init
<1>2. context \in [Clients -> BOOLEAN] /\ requestsDone \in [Clients -> BOOLEAN]
  BY DEF Init
<1>3. attempts \in 1..MaxAttempts /\ activeClients \in 0..MaxClients
  BY ConstantsAssumption DEF Init
<1>4. TypeOK
  BY <1>1, <1>2, <1>3 DEF Init, TypeOK
<1>5. AcceptInv /\ StartInv
  BY DEF Init, AcceptInv, StartInv
<1>6. Active = {}
  BY DEF Init, Active, Tasks
<1> QED
  BY <1>4, <1>5, <1>6, FS_EmptySet DEF Init, CountInv

LEMMA CountStep == ASSUME CountInv, Next PROVE CountInv'
<1> USE ConstantsAssumption
<1> SUFFICES TypeOK' /\ AcceptInv' /\ StartInv' /\ activeClients' = Cardinality(Active')
  BY DEF CountInv
<1>0. TypeOK /\ AcceptInv /\ StartInv /\ activeClients = Cardinality(Active)
  BY DEF CountInv
<1>1. CASE Signal
  BY <1>0, <1>1, ActiveStays DEF Signal, TypeOK, AcceptInv, StartInv, procVars, acceptVars,
     handlerVars
<1>2. CASE Create
  BY <1>0, <1>2, ActiveStays DEF Create, TypeOK, AcceptInv, StartInv, procVars, acceptVars,
     handlerVars
<1>3. CASE Start
  <2>1. Active' = Active
    BY <1>3, ActiveStays DEF Start
  <2>2. started' \in BOOLEAN /\ controlConns' \in BOOLEAN /\ listener' \in BOOLEAN
    BY <1>0, <1>3 DEF Start, TypeOK
  <2>3. accept' \in {"accept", accept} /\ main' \in {"serve", "stopListener"}
    BY <1>0, <1>3 DEF Start, TypeOK
  <2>4. UNCHANGED <<attempts, cancelled, schedulers, conn, client, activeClients,
                  shutdownRequest, globalWg, localWg, context, requestsDone>>
    BY <1>3 DEF Start, handlerVars
  <2>5. TypeOK'
    BY <1>0, <2>2, <2>3, <2>4 DEF TypeOK
  <2>6. AcceptInv' /\ StartInv'
    BY <1>0, <1>3 DEF AcceptInv, StartInv, Start, TypeOK
  <2> QED
    BY <1>0, <2>1, <2>4, <2>5, <2>6
<1>4. CASE Backoff
  BY <1>0, <1>4, ActiveStays DEF Backoff, TypeOK, AcceptInv, StartInv, procVars, acceptVars,
     handlerVars
<1>5. CASE CloseListener
  BY <1>0, <1>5, ActiveStays DEF CloseListener, TypeOK, AcceptInv, StartInv, procVars,
     acceptVars, handlerVars
<1>6. CASE CancelHandlers
  BY <1>0, <1>6, ActiveStays DEF CancelHandlers, TypeOK, AcceptInv, StartInv, procVars,
     acceptVars, handlerVars
<1>7. CASE StopControlConns
  BY <1>0, <1>7, ActiveStays DEF StopControlConns, TypeOK, AcceptInv, StartInv, procVars,
     acceptVars, handlerVars
<1>8. CASE StopSchedulers
  BY <1>0, <1>8, ActiveStays DEF StopSchedulers, TypeOK, AcceptInv, StartInv, procVars,
     acceptVars, handlerVars
<1>9. CASE AcceptFails
  BY <1>0, <1>9, ActiveStays DEF AcceptFails, TypeOK, AcceptInv, StartInv, procVars,
     acceptVars, handlerVars
<1>10. CASE AcceptEnds
  BY <1>0, <1>10, ActiveStays DEF AcceptEnds, TypeOK, AcceptInv, StartInv, procVars,
     acceptVars, handlerVars
<1>11. CASE CheckThreshold
  <2>0. conn \in Clients /\ conn \notin Active
    BY <1>0, <1>11 DEF CheckThreshold, AcceptInv, Active, Tasks
  <2>1. CASE activeClients >= MaxClients
    <3>1. Active' = Active /\ activeClients' = activeClients
      BY <1>0, <1>11, <2>0, <2>1, ActiveMoves DEF CheckThreshold
    <3>2. TypeOK' /\ AcceptInv' /\ StartInv'
      BY <1>0, <1>11, <2>0, <2>1, <3>1 DEF CheckThreshold, TypeOK, AcceptInv, StartInv,
         procVars, handlerVars
    <3> QED
      BY <1>0, <3>1, <3>2
  <2>2. CASE ~(activeClients >= MaxClients)
    <3>1. Active' = Active \cup {conn} /\ activeClients' = activeClients + 1
      BY <1>0, <1>11, <2>0, <2>2, ActiveMoves DEF CheckThreshold
    <3>2. TypeOK' /\ AcceptInv' /\ StartInv'
      BY <1>0, <1>11, <2>0, <2>2, <3>1 DEF CheckThreshold, TypeOK, AcceptInv, StartInv,
         procVars, handlerVars
    <3> QED
      BY <1>0, <2>0, <3>1, <3>2, ActiveFinite
  <2> QED
    BY <2>1, <2>2
<1>12. CASE ScheduleTask
  <2>1. Active' = Active
    BY <1>0, <1>12, ActiveMoves DEF ScheduleTask, TypeOK, AcceptInv, Active, Tasks
  <2>2. activeClients' = activeClients
    BY <1>12 DEF ScheduleTask, handlerVars
  <2>3. activeClients' = Cardinality(Active')
    BY <1>0, <2>1, <2>2, ActiveFinite
  <2>4. activeClients' \in 0..MaxClients
    BY <1>0, <1>12, <2>1, <2>2 DEF ScheduleTask, TypeOK
  <2>5. TypeOK'
    BY <1>0, <1>12, <2>4 DEF ScheduleTask, TypeOK, AcceptInv, Goroutines, procVars,
       acceptVars, handlerVars
  <2>6. AcceptInv' /\ StartInv'
    BY <1>0, <1>12 DEF ScheduleTask, TypeOK, AcceptInv, StartInv, procVars, acceptVars
  <2> QED
    BY <2>3, <2>5, <2>6
<1>13. ASSUME NEW c \in Clients,
             ClientStep(c)
      PROVE  TypeOK' /\ AcceptInv' /\ StartInv' /\ activeClients' = Cardinality(Active')
  <2>1. CASE Connect(c)
    <3>1. Active' = Active
      BY <1>0, <2>1, ActiveMoves DEF Connect, TypeOK, AcceptInv, Active, Tasks
    <3>2. activeClients' = activeClients
      BY <2>1 DEF Connect, handlerVars
    <3>3. activeClients' = Cardinality(Active')
      BY <1>0, <3>1, <3>2, ActiveFinite
    <3>4. activeClients' \in 0..MaxClients
      BY <1>0, <2>1, <3>1, <3>2 DEF Connect, TypeOK
    <3>5. TypeOK'
      BY <1>0, <2>1, <3>4 DEF Connect, TypeOK, AcceptInv, Goroutines, procVars, acceptVars,
         handlerVars
    <3>6. AcceptInv' /\ StartInv'
      BY <1>0, <2>1 DEF Connect, TypeOK, AcceptInv, StartInv, procVars, acceptVars
    <3> QED
      BY <3>3, <3>5, <3>6
  <2>2. CASE Accept(c)
    <3>1. Active' = Active
      BY <1>0, <2>2, ActiveMoves DEF Accept, TypeOK, AcceptInv, Active, Tasks
    <3>2. activeClients' = activeClients
      BY <2>2 DEF Accept, handlerVars
    <3>3. activeClients' = Cardinality(Active')
      BY <1>0, <3>1, <3>2, ActiveFinite
    <3>4. activeClients' \in 0..MaxClients
      BY <1>0, <2>2, <3>1, <3>2 DEF Accept, TypeOK
    <3>5. TypeOK'
      BY <1>0, <2>2, <3>4 DEF Accept, TypeOK, AcceptInv, Goroutines, procVars, acceptVars,
         handlerVars
    <3>6. AcceptInv' /\ StartInv'
      BY <1>0, <2>2 DEF Accept, TypeOK, AcceptInv, StartInv, procVars, acceptVars
    <3> QED
      BY <3>3, <3>5, <3>6
  <2>3. CASE TakeTask(c)
    <3>1. Active' = Active
      BY <1>0, <2>3, ActiveMoves DEF TakeTask, TypeOK, AcceptInv, Active, Tasks
    <3>2. activeClients' = activeClients
      BY <2>3 DEF TakeTask, handlerVars
    <3>3. activeClients' = Cardinality(Active')
      BY <1>0, <3>1, <3>2, ActiveFinite
    <3>4. activeClients' \in 0..MaxClients
      BY <1>0, <2>3, <3>1, <3>2 DEF TakeTask, TypeOK
    <3>5. TypeOK'
      BY <1>0, <2>3, <3>4 DEF TakeTask, TypeOK, AcceptInv, Goroutines, procVars, acceptVars,
         handlerVars
    <3>6. AcceptInv' /\ StartInv'
      BY <1>0, <2>3 DEF TakeTask, TypeOK, AcceptInv, StartInv, procVars, acceptVars
    <3> QED
      BY <3>3, <3>5, <3>6
  <2>4. CASE CreateFails(c)
    <3>1. c \in Active /\ Active' = Active \ {c}
      BY <1>0, <2>4, ActiveMoves DEF CreateFails, TypeOK, AcceptInv, Active, Tasks
    <3>2. activeClients' = activeClients - 1
      BY <2>4 DEF CreateFails
    <3>3. activeClients' = Cardinality(Active')
      BY <1>0, <3>1, <3>2, ActiveFinite
    <3>4. activeClients' \in 0..MaxClients
      <4>1. activeClients \in 0..MaxClients
        BY <1>0 DEF TypeOK
      <4>2. activeClients > 0
        BY <1>0, <3>1, ActiveFinite
      <4> QED
        BY <3>2, <4>1, <4>2
    <3>5. TypeOK'
      <4>1. globalWg' \subseteq Clients /\ context' \in [Clients -> BOOLEAN]
        BY <1>0, <2>4 DEF CreateFails, TypeOK
      <4>2. client' \in [Clients -> {"out", "backlog", "accepted", "counted", "queued", "creating",
                                     "created", "starting", "running", "closed"}]
        BY <1>0, <2>4 DEF CreateFails, TypeOK
      <4>3. UNCHANGED <<procVars, acceptVars, shutdownRequest, localWg, requestsDone>>
        BY <2>4 DEF CreateFails
      <4> QED
        BY <1>0, <3>4, <4>1, <4>2, <4>3 DEF TypeOK, procVars, acceptVars
    <3>6. AcceptInv' /\ StartInv'
      BY <1>0, <2>4 DEF CreateFails, TypeOK, AcceptInv, StartInv, procVars, acceptVars
    <3> QED
      BY <3>3, <3>5, <3>6
  <2>5. CASE CreateHandler(c)
    <3>1. Active' = Active
      BY <1>0, <2>5, ActiveMoves DEF CreateHandler, TypeOK, AcceptInv, Active, Tasks
    <3>2. activeClients' = activeClients
      BY <2>5 DEF CreateHandler, handlerVars
    <3>3. activeClients' = Cardinality(Active')
      BY <1>0, <3>1, <3>2, ActiveFinite
    <3>4. activeClients' \in 0..MaxClients
      BY <1>0, <2>5, <3>1, <3>2 DEF CreateHandler, TypeOK
    <3>5. TypeOK'
      BY <1>0, <2>5, <3>4 DEF CreateHandler, TypeOK, AcceptInv, Goroutines, procVars,
         acceptVars, handlerVars
    <3>6. AcceptInv' /\ StartInv'
      BY <1>0, <2>5 DEF CreateHandler, TypeOK, AcceptInv, StartInv, procVars, acceptVars
    <3> QED
      BY <3>3, <3>5, <3>6
  <2>6. CASE RunListener(c)
    <3>1. Active' = Active
      BY <1>0, <2>6, ActiveMoves DEF RunListener, TypeOK, AcceptInv, Active, Tasks
    <3>2. activeClients' = activeClients
      BY <2>6 DEF RunListener, handlerVars
    <3>3. activeClients' = Cardinality(Active')
      BY <1>0, <3>1, <3>2, ActiveFinite
    <3>4. activeClients' \in 0..MaxClients
      BY <1>0, <2>6, <3>1, <3>2 DEF RunListener, TypeOK
    <3>5. TypeOK'
      BY <1>0, <2>6, <3>4 DEF RunListener, TypeOK, AcceptInv, Goroutines, procVars,
         acceptVars, handlerVars
    <3>6. AcceptInv' /\ StartInv'
      BY <1>0, <2>6 DEF RunListener, TypeOK, AcceptInv, StartInv, procVars, acceptVars
    <3> QED
      BY <3>3, <3>5, <3>6
  <2>7. CASE RunRest(c)
    <3>1. Active' = Active
      BY <1>0, <2>7, ActiveMoves DEF RunRest, TypeOK, AcceptInv, Active, Tasks
    <3>2. activeClients' = activeClients
      BY <2>7 DEF RunRest, handlerVars
    <3>3. activeClients' = Cardinality(Active')
      BY <1>0, <3>1, <3>2, ActiveFinite
    <3>4. activeClients' \in 0..MaxClients
      BY <1>0, <2>7, <3>1, <3>2 DEF RunRest, TypeOK
    <3>5. TypeOK'
      BY <1>0, <2>7, <3>4 DEF RunRest, TypeOK, AcceptInv, Goroutines, procVars, acceptVars,
         handlerVars
    <3>6. AcceptInv' /\ StartInv'
      BY <1>0, <2>7 DEF RunRest, TypeOK, AcceptInv, StartInv, procVars, acceptVars
    <3> QED
      BY <3>3, <3>5, <3>6
  <2>8. CASE ConnectorEnds(c)
    <3>1. c \in Active /\ Active' = Active \ {c}
      BY <1>0, <2>8, ActiveMoves DEF ConnectorEnds, TypeOK, AcceptInv, Active, Tasks
    <3>2. activeClients' = activeClients - 1
      BY <2>8 DEF ConnectorEnds
    <3>3. activeClients' = Cardinality(Active')
      BY <1>0, <3>1, <3>2, ActiveFinite
    <3>4. activeClients' \in 0..MaxClients
      <4>1. activeClients \in 0..MaxClients
        BY <1>0 DEF TypeOK
      <4>2. activeClients > 0
        BY <1>0, <3>1, ActiveFinite
      <4> QED
        BY <3>2, <4>1, <4>2
    <3>5. TypeOK'
      BY <1>0, <2>8, <3>4 DEF ConnectorEnds, TypeOK, AcceptInv, Goroutines, procVars,
         acceptVars, handlerVars
    <3>6. AcceptInv' /\ StartInv'
      BY <1>0, <2>8 DEF ConnectorEnds, TypeOK, AcceptInv, StartInv, procVars, acceptVars
    <3> QED
      BY <3>3, <3>5, <3>6
  <2>9. CASE ClientLeaves(c)
    <3>1. Active' = Active
      BY <2>9, ActiveStays DEF ClientLeaves
    <3>2. TypeOK'
      BY <1>0, <2>9 DEF ClientLeaves, TypeOK, procVars, acceptVars
    <3> QED
      BY <1>0, <2>9, <3>1, <3>2 DEF ClientLeaves, TypeOK, AcceptInv, StartInv, procVars,
         acceptVars
  <2>10. CASE ClusterLost(c)
    <3>1. Active' = Active
      BY <2>10, ActiveStays DEF ClusterLost
    <3>2. TypeOK'
      BY <1>0, <2>10 DEF ClusterLost, TypeOK, procVars, acceptVars
    <3> QED
      BY <1>0, <2>10, <3>1, <3>2 DEF ClusterLost, TypeOK, AcceptInv, StartInv, procVars,
         acceptVars
  <2>11. CASE Drain(c)
    <3>1. Active' = Active
      BY <2>11, ActiveStays DEF Drain
    <3>2. TypeOK'
      BY <1>0, <2>11 DEF Drain, TypeOK, procVars, acceptVars
    <3> QED
      BY <1>0, <2>11, <3>1, <3>2 DEF Drain, TypeOK, AcceptInv, StartInv, procVars,
         acceptVars
  <2>12. CASE RequestsEnd(c)
    <3>1. Active' = Active
      BY <2>12, ActiveStays DEF RequestsEnd
    <3>2. TypeOK'
      BY <1>0, <2>12 DEF RequestsEnd, TypeOK, procVars, acceptVars
    <3> QED
      BY <1>0, <2>12, <3>1, <3>2 DEF RequestsEnd, TypeOK, AcceptInv, StartInv, procVars,
         acceptVars
  <2>13. CASE CloseConnection(c)
    <3>1. Active' = Active
      BY <2>13, ActiveStays DEF CloseConnection
    <3>2. TypeOK'
      BY <1>0, <2>13 DEF CloseConnection, TypeOK, procVars, acceptVars
    <3> QED
      BY <1>0, <2>13, <3>1, <3>2 DEF CloseConnection, TypeOK, AcceptInv, StartInv, procVars,
         acceptVars
  <2>14. CASE HandlerEnds(c)
    <3>1. Active' = Active
      BY <2>14, ActiveStays DEF HandlerEnds
    <3>2. TypeOK'
      BY <1>0, <2>14 DEF HandlerEnds, TypeOK, procVars, acceptVars
    <3> QED
      BY <1>0, <2>14, <3>1, <3>2 DEF HandlerEnds, TypeOK, AcceptInv, StartInv, procVars,
         acceptVars
  <2> QED
    BY <1>13, <2>1, <2>2, <2>3, <2>4, <2>5, <2>6, <2>7, <2>8, <2>9, <2>10, <2>11, <2>12,
       <2>13, <2>14 DEF ClientStep, TaskStep, EndStep
<1> QED
  BY <1>1, <1>2, <1>3, <1>4, <1>5, <1>6, <1>7, <1>8, <1>9, <1>10, <1>11, <1>12, <1>13,
     StepCases
-----------------------------------------------------------------------------
LEMMA OrderStep ==
    ASSUME ~EarlyLeave, CountInv, OrderInv, Next
    PROVE  OrderInv'
<1>0. TypeOK /\ AcceptInv /\ StartInv /\ MainInv /\ HandlerInv
  BY DEF CountInv, OrderInv
<1> USE DEF TypeOK, procVars, acceptVars, handlerVars
<1> SUFFICES MainInv' /\ HandlerInv'
  BY DEF OrderInv
<1>1. CASE Signal
  <2>1. MainInv'
    BY <1>0, <1>1 DEF Signal, AcceptInv, StartInv, MainInv, HandlerInv, Tasks
  <2>2. HandlerInv'
    BY <1>0, <1>1 DEF Signal, AcceptInv, HandlerInv
  <2> QED
    BY <2>1, <2>2
<1>2. CASE Create
  <2>1. MainInv'
    BY <1>0, <1>2 DEF Create, AcceptInv, StartInv, MainInv, HandlerInv, Tasks
  <2>2. HandlerInv'
    BY <1>0, <1>2 DEF Create, AcceptInv, HandlerInv
  <2> QED
    BY <2>1, <2>2
<1>3. CASE Start
  <2>1. MainInv'
    BY <1>0, <1>3 DEF Start, AcceptInv, StartInv, MainInv, HandlerInv, Tasks
  <2>2. HandlerInv'
    BY <1>0, <1>3 DEF Start, AcceptInv, HandlerInv
  <2> QED
    BY <2>1, <2>2
<1>4. CASE Backoff
  <2>1. MainInv'
    BY <1>0, <1>4 DEF Backoff, AcceptInv, StartInv, MainInv, HandlerInv, Tasks
  <2>2. HandlerInv'
    BY <1>0, <1>4 DEF Backoff, AcceptInv, HandlerInv
  <2> QED
    BY <2>1, <2>2
<1>5. CASE CloseListener
  <2>1. MainInv'
    BY <1>0, <1>5 DEF CloseListener, AcceptInv, StartInv, MainInv, HandlerInv, Tasks
  <2>2. HandlerInv'
    BY <1>0, <1>5 DEF CloseListener, AcceptInv, HandlerInv
  <2> QED
    BY <2>1, <2>2
<1>6. CASE CancelHandlers
  <2>1. MainInv'
    BY <1>0, <1>6 DEF CancelHandlers, AcceptInv, StartInv, MainInv, HandlerInv, Tasks
  <2>2. HandlerInv'
    BY <1>0, <1>6 DEF CancelHandlers, AcceptInv, HandlerInv
  <2> QED
    BY <2>1, <2>2
<1>7. CASE StopControlConns
  <2>1. MainInv'
    BY <1>0, <1>7 DEF StopControlConns, AcceptInv, StartInv, MainInv, HandlerInv, Tasks
  <2>2. HandlerInv'
    BY <1>0, <1>7 DEF StopControlConns, AcceptInv, HandlerInv
  <2> QED
    BY <2>1, <2>2
<1>8. CASE StopSchedulers
  <2>1. MainInv'
    BY <1>0, <1>8 DEF StopSchedulers, AcceptInv, StartInv, MainInv, HandlerInv, Tasks
  <2>2. HandlerInv'
    BY <1>0, <1>8 DEF StopSchedulers, AcceptInv, HandlerInv
  <2> QED
    BY <2>1, <2>2
<1>9. CASE CheckThreshold
  <2>1. MainInv'
    BY <1>0, <1>9 DEF CheckThreshold, AcceptInv, StartInv, MainInv, HandlerInv, Tasks
  <2>2. HandlerInv'
    BY <1>0, <1>9 DEF CheckThreshold, AcceptInv, HandlerInv
  <2> QED
    BY <2>1, <2>2
<1>10. CASE ScheduleTask
  <2>1. MainInv'
    BY <1>0, <1>10 DEF ScheduleTask, AcceptInv, StartInv, MainInv, HandlerInv, Tasks
  <2>2. HandlerInv'
    BY <1>0, <1>10 DEF ScheduleTask, AcceptInv, HandlerInv
  <2> QED
    BY <2>1, <2>2
<1>11. CASE AcceptFails
  <2>1. MainInv'
    BY <1>0, <1>11 DEF AcceptFails, AcceptInv, StartInv, MainInv, HandlerInv, Tasks
  <2>2. HandlerInv'
    BY <1>0, <1>11 DEF AcceptFails, AcceptInv, HandlerInv
  <2> QED
    BY <2>1, <2>2
<1>12. CASE AcceptEnds
  <2>1. MainInv'
    BY <1>0, <1>12 DEF AcceptEnds, AcceptInv, StartInv, MainInv, HandlerInv, Tasks
  <2>2. HandlerInv'
    BY <1>0, <1>12 DEF AcceptEnds, AcceptInv, HandlerInv
  <2> QED
    BY <2>1, <2>2
<1>13. ASSUME NEW c \in Clients,
             ClientStep(c)
      PROVE  MainInv' /\ HandlerInv'
  <2>1. CASE Accept(c)
    <3>1. MainInv'
      BY <1>0, <2>1 DEF Accept, StartInv, MainInv, Tasks
    <3>2. HandlerInv'
      BY <1>0, <2>1 DEF Accept, HandlerInv
    <3> QED
      BY <3>1, <3>2
  <2>2. CASE Connect(c)
    <3>1. MainInv'
      BY <1>0, <2>2 DEF Connect, StartInv, MainInv, Tasks
    <3>2. HandlerInv'
      BY <1>0, <2>2 DEF Connect, HandlerInv
    <3> QED
      BY <3>1, <3>2
  <2>3. CASE TakeTask(c)
    <3>1. MainInv'
      BY <1>0, <2>3 DEF TakeTask, StartInv, MainInv, Tasks
    <3>2. HandlerInv'
      BY <1>0, <2>3 DEF TakeTask, HandlerInv
    <3> QED
      BY <3>1, <3>2
  <2>4. CASE CreateFails(c)
    <3>1. MainInv'
      BY <1>0, <2>4 DEF CreateFails, StartInv, MainInv, Tasks
    <3>2. HandlerInv'
      BY <1>0, <2>4 DEF CreateFails, HandlerInv
    <3> QED
      BY <3>1, <3>2
  <2>5. CASE CreateHandler(c)
    <3>1. MainInv'
      BY <1>0, <2>5 DEF CreateHandler, StartInv, MainInv, Tasks
    <3>2. HandlerInv'
      BY <1>0, <2>5 DEF CreateHandler, HandlerInv
    <3> QED
      BY <3>1, <3>2
  <2>6. CASE RunListener(c)
    <3>1. MainInv'
      BY <1>0, <2>6 DEF RunListener, StartInv, MainInv, Tasks
    <3>2. HandlerInv'
      BY <1>0, <2>6 DEF RunListener, HandlerInv
    <3> QED
      BY <3>1, <3>2
  <2>7. CASE RunRest(c)
    <3>1. MainInv'
      BY <1>0, <2>7 DEF RunRest, StartInv, MainInv, Tasks
    <3>2. HandlerInv'
      BY <1>0, <2>7 DEF RunRest, HandlerInv
    <3> QED
      BY <3>1, <3>2
  <2>8. CASE ClientLeaves(c)
    <3>1. MainInv'
      BY <1>0, <2>8 DEF ClientLeaves, StartInv, MainInv, Tasks
    <3>2. HandlerInv'
      BY <1>0, <2>8 DEF ClientLeaves, HandlerInv
    <3> QED
      BY <3>1, <3>2
  <2>9. CASE ClusterLost(c)
    <3>1. MainInv'
      BY <1>0, <2>9 DEF ClusterLost, StartInv, MainInv, Tasks
    <3>2. HandlerInv'
      BY <1>0, <2>9 DEF ClusterLost, HandlerInv
    <3> QED
      BY <3>1, <3>2
  <2>10. CASE Drain(c)
    <3>1. MainInv'
      BY <1>0, <2>10 DEF Drain, StartInv, MainInv, Tasks
    <3>2. HandlerInv'
      BY <1>0, <2>10 DEF Drain, HandlerInv
    <3> QED
      BY <3>1, <3>2
  <2>11. CASE RequestsEnd(c)
    <3>1. MainInv'
      BY <1>0, <2>11 DEF RequestsEnd, StartInv, MainInv, Tasks
    <3>2. HandlerInv'
      BY <1>0, <2>11 DEF RequestsEnd, HandlerInv
    <3> QED
      BY <3>1, <3>2
  <2>12. CASE CloseConnection(c)
    <3>1. MainInv'
      BY <1>0, <2>12 DEF CloseConnection, StartInv, MainInv, Tasks
    <3>2. HandlerInv'
      BY <1>0, <2>12 DEF CloseConnection, HandlerInv
    <3> QED
      BY <3>1, <3>2
  <2>13. CASE ConnectorEnds(c)
    <3>1. MainInv'
      BY <1>0, <2>13 DEF ConnectorEnds, StartInv, MainInv, Tasks
    <3>2. HandlerInv'
      BY <1>0, <2>13 DEF ConnectorEnds, HandlerInv
    <3> QED
      BY <3>1, <3>2
  <2>14. CASE HandlerEnds(c)
    <3>1. MainInv'
      BY <1>0, <2>14 DEF HandlerEnds, StartInv, MainInv, Tasks
    <3>2. HandlerInv'
      BY <1>0, <2>14 DEF HandlerEnds, HandlerInv
    <3> QED
      BY <3>1, <3>2
  <2> QED
    BY <1>13, <2>1, <2>2, <2>3, <2>4, <2>5, <2>6, <2>7, <2>8, <2>9, <2>10, <2>11, <2>12,
       <2>13, <2>14 DEF ClientStep, TaskStep, EndStep
<1> QED
  BY <1>1, <1>2, <1>3, <1>4, <1>5, <1>6, <1>7, <1>8, <1>9, <1>10, <1>11, <1>12, <1>13,
     StepCases
-----------------------------------------------------------------------------
\* activeClients is the number of connections that count, on every path a
\* connection may end (proxy.go, handleNewConnection and errFunc), and never
\* passes the limit, for any number of clients and workers.
THEOREM ClientsAreCounted == Spec => []ClientsCounted
<1>1. Init => CountInv
  BY CountInit
<1>2. CountInv /\ [Next]_vars => CountInv'
  <2>1. ASSUME CountInv, UNCHANGED vars PROVE CountInv'
    BY <2>1 DEF CountInv, TypeOK, AcceptInv, StartInv, Active, Tasks, vars, procVars,
       acceptVars,
                handlerVars
  <2> QED
    BY <2>1, CountStep
<1>3. CountInv => ClientsCounted
  BY DEF CountInv, ClientsCounted
<1> QED
  BY <1>1, <1>2, <1>3, PTL DEF Spec

\* While no client leaves before its handler's goroutines are started (run), a
\* shutdown closes nothing that a handler, a task or the accept loop still uses
\* (proxy.go, Shutdown), whenever it comes.
THEOREM ShutdownIsInOrder ==
    ASSUME EarlyLeave = FALSE
    PROVE  Spec => []ShutdownInOrder
<1> DEFINE Inv == CountInv /\ OrderInv
<1>1. Init => Inv
  <2> SUFFICES ASSUME Init PROVE Inv
    OBVIOUS
  <2>1. OrderInv
    BY DEF Init, OrderInv, MainInv, HandlerInv, Tasks
  <2> QED
    BY <2>1, CountInit
<1>2. Inv /\ [Next]_vars => Inv'
  <2>1. ASSUME Inv, UNCHANGED vars PROVE Inv'
    BY <2>1 DEF CountInv, OrderInv, TypeOK, AcceptInv, StartInv, MainInv, HandlerInv,
       Active, Tasks,
                vars, procVars, acceptVars, handlerVars
  <2> QED
    BY <2>1, CountStep, OrderStep
<1>3. Inv => ShutdownInOrder
  <2> SUFFICES ASSUME Inv PROVE ShutdownInOrder
    OBVIOUS
  <2>1. TypeOK /\ StartInv /\ MainInv /\ HandlerInv
    BY DEF CountInv, OrderInv
  <2> QED
    BY <2>1 DEF TypeOK, StartInv, MainInv, HandlerInv, ShutdownInOrder, Tasks, Queued
<1> QED
  BY <1>1, <1>2, <1>3, PTL DEF Spec
=============================================================================
