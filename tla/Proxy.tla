------------------------------- MODULE Proxy -------------------------------
(***************************************************************************)
(* The life of the process: start with retries, accept clients, shut down. *)
(* RunMain is one process, the accept loop another; a pool of listener     *)
(* workers creates the client handlers; every handler is represented by    *)
(* the goroutines its wait group counts.  What a handler does with         *)
(* requests is in ClientHandler, the control connections in ControlConn.   *)
(***************************************************************************)
EXTENDS Naturals, FiniteSets

CONSTANTS
    Clients,          \* drivers, each of which connects once
    NoClient,         \* the accept loop holds no connection
    MaxClients,       \* proxy_max_client_connections
    ListenerWorkers,  \* listener_max_workers
    MaxAttempts,      \* bound on the attempts of RunWithRetries
    EarlyLeave        \* whether a client may leave before its handler's run()
                      \* has started all goroutines

ASSUME ConstantsAssumption ==
    /\ IsFiniteSet(Clients) /\ NoClient \notin Clients
    /\ MaxClients \in Nat /\ ListenerWorkers \in Nat \ {0}
    /\ MaxAttempts \in Nat \ {0} /\ EarlyLeave \in BOOLEAN

VARIABLES
    main,             \* the place of RunMain, and within it of Shutdown
    attempts,         \* attempts of RunWithRetries
    cancelled,        \* the context of main, cancelled by SIGINT or SIGTERM
    started,          \* Start has succeeded
    controlConns,     \* the control connections are open
    schedulers,       \* the schedulers accept tasks
    listener,         \* the listener is open
    accept, conn,     \* the place of the accept loop and the connection it holds
    client,           \* how far each connection has come
    activeClients,    \* the counter the threshold is compared with
    shutdownRequest,  \* clientHandlersShutdownRequestCtx is cancelled
    globalWg,         \* the handlers globalClientHandlersWg counts
    localWg,          \* the goroutines localClientHandlerWg counts
    context,          \* clientHandlerContext is cancelled
    requestsDone      \* requestsDoneCtx is cancelled

procVars == <<main, attempts, cancelled, started, controlConns, schedulers>>
acceptVars == <<listener, accept, conn>>
handlerVars == <<globalWg, localWg, context, requestsDone>>
vars == <<procVars, acceptVars, client, activeClients, shutdownRequest, handlerVars>>

\* The goroutines of a handler: the request listener of the client connection,
\* the one that starts draining, and the loops and connectors of the rest.
Goroutines == {"reader", "drainer", "rest"}

\* A connection whose task is in the listener scheduler.
Tasks == {c \in Clients : client[c] \in {"queued", "creating", "created", "starting"}}
Queued == {c \in Clients : client[c] = "queued"}

\* A connection that counts as an active client.
Active == {c \in Clients : client[c] \in {"counted", "running"}} \cup Tasks

TypeOK ==
    /\ main \in {"create", "start", "serve", "stopListener", "waitListener", "waitHandlers",
                 "stopSchedulers", "backoff", "ended"}
    /\ attempts \in 1..MaxAttempts
    /\ cancelled \in BOOLEAN /\ started \in BOOLEAN
    /\ controlConns \in BOOLEAN /\ schedulers \in BOOLEAN /\ listener \in BOOLEAN
    /\ accept \in {"none", "accept", "check", "schedule", "wait"}
    /\ conn \in Clients \cup {NoClient}
    /\ client \in [Clients -> {"out", "backlog", "accepted", "counted", "queued", "creating",
                               "created", "starting", "running", "closed"}]
    /\ activeClients \in 0..MaxClients
    /\ shutdownRequest \in BOOLEAN
    /\ globalWg \subseteq Clients
    /\ localWg \in [Clients -> SUBSET Goroutines]
    /\ context \in [Clients -> BOOLEAN] /\ requestsDone \in [Clients -> BOOLEAN]

Init ==
    /\ main = "create" /\ attempts = 1
    /\ cancelled = FALSE /\ started = FALSE
    /\ controlConns = FALSE /\ schedulers = FALSE /\ listener = FALSE
    /\ accept = "none" /\ conn = NoClient
    /\ client = [c \in Clients |-> "out"]
    /\ activeClients = 0
    /\ shutdownRequest = FALSE
    /\ globalWg = {}
    /\ localWg = [c \in Clients |-> {}]
    /\ context = [c \in Clients |-> FALSE]
    /\ requestsDone = [c \in Clients |-> FALSE]

Signal ==
    /\ ~cancelled
    /\ cancelled' = TRUE
    /\ UNCHANGED <<main, attempts, started, controlConns, schedulers, acceptVars, client,
                   activeClients, shutdownRequest, handlerVars>>

-----------------------------------------------------------------------------
(* Start *)

\* NewZdmProxy makes the schedulers and contexts; a configuration that does not
\* parse leads to Shutdown.
Create ==
    /\ main = "create"
    /\ schedulers' = TRUE
    /\ shutdownRequest' = FALSE
    /\ main' \in {"start", "stopListener"}
    /\ UNCHANGED <<attempts, cancelled, started, controlConns, acceptVars, client, activeClients,
                   handlerVars>>

\* Start opens the control connections and then the listener, and starts the
\* accept loop; when any of it fails, Run shuts down what there is.
Start ==
    /\ main = "start"
    /\ \/ /\ controlConns' = TRUE /\ listener' = TRUE /\ started' = TRUE
          /\ accept' = "accept"
          /\ main' = "serve"
       \/ /\ controlConns' \in BOOLEAN
          /\ main' = "stopListener"
          /\ UNCHANGED <<started, listener, accept>>
    /\ UNCHANGED <<attempts, cancelled, schedulers, conn, client, activeClients, shutdownRequest,
                   handlerVars>>

\* RunWithRetries sleeps, and ends when the context is cancelled.
Backoff ==
    /\ main = "backoff"
    /\ \/ /\ cancelled
          /\ main' = "ended"
          /\ UNCHANGED attempts
       \/ /\ attempts < MaxAttempts
          /\ attempts' = attempts + 1
          /\ main' = "create"
    /\ UNCHANGED <<cancelled, started, controlConns, schedulers, acceptVars, client, activeClients,
                   shutdownRequest, handlerVars>>

-----------------------------------------------------------------------------
(* The accept loop and the listener workers *)

Connect(c) ==
    /\ client[c] = "out" /\ listener
    /\ client' = [client EXCEPT ![c] = "backlog"]
    /\ UNCHANGED <<procVars, acceptVars, activeClients, shutdownRequest, handlerVars>>

Accept(c) ==
    /\ accept = "accept" /\ listener
    /\ client[c] = "backlog"
    /\ client' = [client EXCEPT ![c] = "accepted"]
    /\ conn' = c
    /\ accept' = "check"
    /\ UNCHANGED <<procVars, listener, activeClients, shutdownRequest, handlerVars>>

\* A refused connection is left open.
RefuseOpen ==
    /\ accept = "check"
    /\ IF activeClients >= MaxClients
       THEN /\ conn' = NoClient
            /\ accept' = "accept"
            /\ UNCHANGED <<client, activeClients>>
       ELSE /\ client' = [client EXCEPT ![conn] = "counted"]
            /\ activeClients' = activeClients + 1
            /\ accept' = "schedule"
            /\ UNCHANGED conn
    /\ UNCHANGED <<procVars, listener, shutdownRequest, handlerVars>>

\* At the threshold the connection is closed again.  Only this loop adds to the
\* counter, so nothing is lost by taking the load and the addition together.
CheckThreshold ==
    /\ accept = "check"
    /\ IF activeClients >= MaxClients
       THEN /\ client' = [client EXCEPT ![conn] = "closed"]
            /\ conn' = NoClient
            /\ accept' = "accept"
            /\ UNCHANGED activeClients
       ELSE /\ client' = [client EXCEPT ![conn] = "counted"]
            /\ activeClients' = activeClients + 1
            /\ accept' = "schedule"
            /\ UNCHANGED conn
    /\ UNCHANGED <<procVars, listener, shutdownRequest, handlerVars>>

\* Schedule blocks while the queue, as long as there are workers, is full.
ScheduleTask ==
    /\ accept = "schedule"
    /\ Cardinality(Queued) < ListenerWorkers
    /\ client' = [client EXCEPT ![conn] = "queued"]
    /\ conn' = NoClient
    /\ accept' = "accept"
    /\ UNCHANGED <<procVars, listener, activeClients, shutdownRequest, handlerVars>>

\* Accept returns an error once Shutdown has closed the listener.
AcceptFails ==
    /\ accept = "accept" /\ ~listener
    /\ accept' = "wait"
    /\ UNCHANGED <<procVars, listener, conn, client, activeClients, shutdownRequest, handlerVars>>

\* The loop does not wait for its tasks.
AcceptEndsAtOnce ==
    /\ accept = "wait"
    /\ accept' = "none"
    /\ UNCHANGED <<procVars, listener, conn, client, activeClients, shutdownRequest, handlerVars>>

\* The deferred calls: the loop waits for its tasks and releases Shutdown.
AcceptEnds ==
    /\ accept = "wait"
    /\ Tasks = {}
    /\ accept' = "none"
    /\ UNCHANGED <<procVars, listener, conn, client, activeClients, shutdownRequest, handlerVars>>

\* A listener worker takes a task.
TakeTask(c) ==
    /\ client[c] = "queued"
    /\ Cardinality(Tasks \ Queued) < ListenerWorkers
    /\ client' = [client EXCEPT ![c] = "creating"]
    /\ UNCHANGED <<procVars, acceptVars, activeClients, shutdownRequest, handlerVars>>

\* The connection is closed but still counted.
FailUncounted(c) ==
    /\ client[c] = "creating"
    /\ \/ UNCHANGED <<globalWg, context>>
       \/ globalWg' = globalWg \cup {c} /\ context' = [context EXCEPT ![c] = TRUE]
    /\ client' = [client EXCEPT ![c] = "closed"]
    /\ UNCHANGED <<procVars, acceptVars, activeClients, shutdownRequest, localWg, requestsDone>>

\* No host is known, or NewClientHandler fails: before it has started the
\* goroutine that waits for the handler, or, when it cannot connect to a
\* cluster, after that.  errFunc closes the connection.
CreateFails(c) ==
    /\ client[c] = "creating"
    /\ \/ UNCHANGED <<globalWg, context>>
       \/ globalWg' = globalWg \cup {c} /\ context' = [context EXCEPT ![c] = TRUE]
    /\ client' = [client EXCEPT ![c] = "closed"]
    /\ activeClients' = activeClients - 1
    /\ UNCHANGED <<procVars, acceptVars, shutdownRequest, localWg, requestsDone>>

\* NewClientHandler has opened the connections to both clusters.
CreateHandler(c) ==
    /\ client[c] = "creating"
    /\ globalWg' = globalWg \cup {c}
    /\ client' = [client EXCEPT ![c] = "created"]
    /\ UNCHANGED <<procVars, acceptVars, activeClients, shutdownRequest, localWg, context,
                   requestsDone>>

\* ClientHandler.run starts with the request listener of the client.
RunListener(c) ==
    /\ client[c] = "created"
    /\ localWg' = [localWg EXCEPT ![c] = {"reader", "drainer"}]
    /\ client' = [client EXCEPT ![c] = "starting"]
    /\ UNCHANGED <<procVars, acceptVars, activeClients, shutdownRequest, globalWg, context,
                   requestsDone>>

\* It goes on with the write coalescers, the connectors and the loops, and the
\* task ends.
RunRest(c) ==
    /\ client[c] = "starting"
    /\ localWg' = [localWg EXCEPT ![c] = @ \cup {"rest"}]
    /\ client' = [client EXCEPT ![c] = "running"]
    /\ UNCHANGED <<procVars, acceptVars, activeClients, shutdownRequest, globalWg, context,
                   requestsDone>>

-----------------------------------------------------------------------------
(* The end of a handler *)

\* The client goes away: the request listener cancels the handler and ends.
ClientLeaves(c) ==
    /\ client[c] = "running" \/ (EarlyLeave /\ client[c] = "starting")
    /\ "reader" \in localWg[c]
    /\ context' = [context EXCEPT ![c] = TRUE]
    /\ localWg' = [localWg EXCEPT ![c] = @ \ {"reader"}]
    /\ UNCHANGED <<procVars, acceptVars, client, activeClients, shutdownRequest, globalWg,
                   requestsDone>>

\* A connection to a cluster breaks.
ClusterLost(c) ==
    /\ client[c] = "running" /\ ~context[c]
    /\ context' = [context EXCEPT ![c] = TRUE]
    /\ UNCHANGED <<procVars, acceptVars, client, activeClients, shutdownRequest, globalWg, localWg,
                   requestsDone>>

\* On either context the channel of requests is closed.
Drain(c) ==
    /\ "drainer" \in localWg[c]
    /\ context[c] \/ shutdownRequest
    /\ localWg' = [localWg EXCEPT ![c] = @ \ {"drainer"}]
    /\ UNCHANGED <<procVars, acceptVars, client, activeClients, shutdownRequest, globalWg, context,
                   requestsDone>>

\* The request loop has seen the closed channel and the last request in flight
\* is answered or timed out.
RequestsEnd(c) ==
    /\ client[c] = "running" /\ "drainer" \notin localWg[c]
    /\ ~requestsDone[c]
    /\ requestsDone' = [requestsDone EXCEPT ![c] = TRUE]
    /\ UNCHANGED <<procVars, acceptVars, client, activeClients, shutdownRequest, globalWg, localWg,
                   context>>

\* The client connector then cancels the handler and closes the connection,
\* which ends the request listener.
CloseConnection(c) ==
    /\ client[c] = "running" /\ requestsDone[c]
    /\ "reader" \in localWg[c]
    /\ context' = [context EXCEPT ![c] = TRUE]
    /\ localWg' = [localWg EXCEPT ![c] = @ \ {"reader"}]
    /\ UNCHANGED <<procVars, acceptVars, client, activeClients, shutdownRequest, globalWg,
                   requestsDone>>

\* Once it is done the client no longer counts.
ConnectorEnds(c) ==
    /\ client[c] = "running" /\ requestsDone[c]
    /\ localWg[c] = {"rest"}
    /\ context' = [context EXCEPT ![c] = TRUE]
    /\ localWg' = [localWg EXCEPT ![c] = {}]
    /\ activeClients' = activeClients - 1
    /\ client' = [client EXCEPT ![c] = "closed"]
    /\ UNCHANGED <<procVars, acceptVars, shutdownRequest, globalWg, requestsDone>>

\* The goroutine of NewClientHandler waits for the local wait group.
HandlerEnds(c) ==
    /\ c \in globalWg /\ context[c]
    /\ localWg[c] = {}
    /\ globalWg' = globalWg \ {c}
    /\ requestsDone' = [requestsDone EXCEPT ![c] = TRUE]
    /\ UNCHANGED <<procVars, acceptVars, client, activeClients, shutdownRequest, localWg, context>>
-----------------------------------------------------------------------------
(* Shutdown *)

\* RunMain calls Shutdown on a signal, Run after a failed start.
CloseListener ==
    /\ main = "stopListener" \/ (main = "serve" /\ cancelled)
    /\ listener' = FALSE
    /\ main' = "waitListener"
    /\ UNCHANGED <<attempts, cancelled, started, controlConns, schedulers, accept, conn, client,
                   activeClients, shutdownRequest, handlerVars>>

\* The handlers are not told to drain.
WaitListenerOnly ==
    /\ main = "waitListener"
    /\ accept = "none"
    /\ main' = "waitHandlers"
    /\ UNCHANGED <<attempts, cancelled, started, controlConns, schedulers, acceptVars, client,
                   activeClients, shutdownRequest, handlerVars>>

\* When the accept loop is done, the handlers are told to drain.
CancelHandlers ==
    /\ main = "waitListener"
    /\ accept = "none"
    /\ shutdownRequest' = TRUE
    /\ main' = "waitHandlers"
    /\ UNCHANGED <<attempts, cancelled, started, controlConns, schedulers, acceptVars, client,
                   activeClients, handlerVars>>

\* When they are done, the control connections are stopped and waited for.
StopControlConns ==
    /\ main = "waitHandlers"
    /\ globalWg = {}
    /\ controlConns' = FALSE
    /\ main' = "stopSchedulers"
    /\ UNCHANGED <<attempts, cancelled, started, schedulers, acceptVars, client, activeClients,
                   shutdownRequest, handlerVars>>

\* Then the channels of the schedulers are closed.
StopSchedulers ==
    /\ main = "stopSchedulers"
    /\ schedulers' = FALSE
    /\ main' = IF started THEN "ended" ELSE "backoff"
    /\ UNCHANGED <<attempts, cancelled, started, controlConns, acceptVars, client, activeClients,
                   shutdownRequest, handlerVars>>

MainStep ==
    \/ Create \/ Start \/ Backoff
    \/ CloseListener \/ CancelHandlers \/ StopControlConns \/ StopSchedulers

AcceptStep ==
    \/ CheckThreshold \/ ScheduleTask \/ AcceptFails \/ AcceptEnds
    \/ \E c \in Clients : Accept(c)

TaskStep(c) ==
    \/ TakeTask(c) \/ CreateFails(c) \/ CreateHandler(c) \/ RunListener(c) \/ RunRest(c)

EndStep(c) ==
    \/ Drain(c) \/ RequestsEnd(c) \/ CloseConnection(c) \/ ConnectorEnds(c) \/ HandlerEnds(c)

Next ==
    \/ Signal \/ MainStep \/ AcceptStep
    \/ \E c \in Clients :
         Connect(c) \/ TaskStep(c) \/ ClientLeaves(c) \/ ClusterLost(c) \/ EndStep(c)

Spec == Init /\ [][Next]_vars

\* The goroutines run; connecting to a cluster ends because it has a timeout,
\* and a request in flight because its timer ends it.
FairSpec ==
    /\ Spec
    /\ WF_vars(MainStep) /\ WF_vars(AcceptStep)
    /\ \A c \in Clients : WF_vars(TaskStep(c)) /\ WF_vars(EndStep(c))

-----------------------------------------------------------------------------
\* activeClients counts the accepted connections that are not yet closed, each
\* once, on every way a connection may end: in errFunc, when its client leaves,
\* when a cluster is lost and in a shutdown, and stays within the limit.
ClientsCounted == TypeOK /\ activeClients = Cardinality(Active)

\* Shutdown takes things down in an order that no goroutine notices: while a
\* handler exists or is being made its control connections are open, while
\* anybody may schedule a task the schedulers take it (a send on the closed
\* channel of a Scheduler panics), and a handler that globalClientHandlersWg no
\* longer counts has no goroutine left and starts none ("Client Handler is
\* shutdown").
ShutdownInOrder ==
    /\ \A c \in Clients :
         client[c] \in {"creating", "created", "starting", "running"} => controlConns /\ schedulers
    /\ accept # "none" \/ Queued # {} => schedulers
    /\ \A c \in Clients :
         client[c] \in {"created", "starting", "running"} => c \in globalWg

\* A signal ends the process, in whatever state it finds it.
SignalEnds == cancelled ~> main = "ended"

\* Every accepted connection gets a handler or is closed.
TasksEnd == \A c \in Clients : client[c] = "accepted" ~> client[c] \in {"running", "closed"}
=============================================================================
