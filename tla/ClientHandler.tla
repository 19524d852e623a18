---------------------------- MODULE ClientHandler ----------------------------
(***************************************************************************)
(* One client handler (proxy/pkg/zdmproxy/clienthandler.go) with its       *)
(* client connector and its connectors to origin and target: the life of   *)
(* a request from the moment it is read until its context is completed,    *)
(* and the order in which the goroutines of the handler shut down.         *)
(*                                                                         *)
(* A request r and the three messages that can complete it, the responses  *)
(* <<r, "origin">> and <<r, "target">> and the timeout <<r, "timer">>, are *)
(* processed by different workers of the schedulers; every critical        *)
(* section of the code is one step and the steps interleave freely.        *)
(* Responses carry the client's stream id only (see StreamIdMapper), so a  *)
(* worker finds the request context through holder[stream].                *)
(***************************************************************************)
EXTENDS Integers, FiniteSets

CONSTANTS
    Requests,        \* the requests the client may send
    StreamIds,       \* the client's stream ids
    Decisions,       \* forward decisions of the requests
    MaxStreamIds,    \* synthetic ids of a cluster connection
    NumWorkers,      \* capacity of respChannel
    Events,          \* what the environment does besides requests and responses
    Stalling,        \* the peers that may stop reading from their connection
    None

Clusters == {"origin", "target"}
Peers == Clusters \cup {"client"}
AllDecisions == {"none", "error", "origin", "target", "both"}
Messages == Requests \X (Clusters \cup {"timer"})

ASSUME ConstantsAssumption ==
    /\ IsFiniteSet(Requests)
    /\ Decisions \subseteq AllDecisions
    /\ MaxStreamIds \in Nat /\ NumWorkers \in Nat \ {0}
    /\ Events \subseteq {"cancel", "shutdown", "protocolError"} /\ Stalling \subseteq Peers
    /\ None \notin Requests \cup StreamIds

VARIABLES
    stream, decision,  \* of each request: its stream id and its forward decision
    rpc,               \* how far listener, request loop and worker got with a request
    ctx,               \* state of its request context
    got,               \* got[r][c]: whose response r's context holds from cluster c
    holder,            \* request context holder of each stream id
    mpc,               \* how far a response or a timeout got
    mctx,              \* the context its worker read from the holder
    isProtocolError,   \* the responses that are protocol errors
    protocolErrOccurred,
    wg,                \* clientHandlerRequestWaitGroup
    inFlight,          \* the three in-flight proxy metrics, by forward decision
    waiting,           \* client side: the request each stream id is waiting for
    replies,           \* what the client received
    panics             \* operations that make Go panic

requestVars == <<stream, decision, rpc, ctx, got, holder>>
messageVars == <<mpc, mctx, isProtocolError, protocolErrOccurred>>
countVars == <<wg, inFlight>>
clientVars == <<waiting, replies, panics>>

VARIABLES
    clearing,          \* the goroutine that cancels what is left in the holders
    handler            \* contexts, channels and loops of the handler, a record

loopVars == <<clearing, handler>>
vars == <<requestVars, messageVars, countVars, clientVars, loopVars>>

NewClientHandler ==
    [ctxDone |-> FALSE,            \* clientHandlerContext is canceled
     shutdownRequest |-> FALSE,    \* clientHandlerShutdownRequestContext is canceled
     reqChannelClosed |-> FALSE,
     requestLoop |-> "running",    \* running, waiting for the wait group, done
     connector |-> [c \in Clusters |-> "open"],  \* open, closed, done
     respChannelClosed |-> FALSE,
     responsesDone |-> FALSE,      \* responsesDoneChan is closed
     clientConnector |-> "open",   \* open, stopping, closed
     stalled |-> {}]               \* the peers that no longer read

Init ==
    /\ stream \in [Requests -> StreamIds]
    /\ decision \in [Requests -> Decisions]
    /\ rpc = [r \in Requests |-> "new"]
    /\ ctx = [r \in Requests |-> "none"]
    /\ got = [r \in Requests |-> [c \in Clusters |-> None]]
    /\ holder = [s \in StreamIds |-> None]
    /\ mpc = [m \in Messages |-> "none"]
    /\ mctx = [m \in Messages |-> None]
    /\ isProtocolError = {} /\ protocolErrOccurred = FALSE
    /\ wg = 0 /\ inFlight = [d \in {"origin", "target", "both"} |-> 0]
    /\ waiting = [s \in StreamIds |-> None] /\ replies = {} /\ panics = {}
    /\ clearing = [step |-> "off", visited |-> {}, ctx |-> None]
    /\ handler = NewClientHandler

-----------------------------------------------------------------------------
(* A connection whose peer does not read. *)

\* writeCoalescer.Enqueue waits for room in the write queue; a write has no
\* deadline, and fails only when the connection is closed.
QueueBlocks(p) ==
    /\ p \in handler.stalled
    /\ "open" = IF p = "client" THEN handler.clientConnector ELSE handler.connector[p]

-----------------------------------------------------------------------------
(* The client.  It uses a stream id again only after an answer came back. *)

\* sendResponseToClient: a frame with r's stream id goes to the client, which
\* takes it for the answer to the request that is waiting on that id.  The
\* frame was made from the responses of the requests in sources.
SendResponseToClient(r, sources) ==
    /\ ~QueueBlocks("client")
    /\ replies' = replies \cup {[to |-> waiting[stream[r]], for |-> r, from |-> sources]}
    /\ waiting' = [waiting EXCEPT ![stream[r]] = None]
    /\ panics' = panics \cup (IF handler.clientConnector = "closed" THEN {"clientQueue"} ELSE {})

\* listenForRequests reads a request until the context is canceled.
ReadRequest(r) ==
    /\ rpc[r] = "new" /\ ~handler.ctxDone /\ waiting[stream[r]] = None
    /\ rpc' = [rpc EXCEPT ![r] = "read"]
    /\ waiting' = [waiting EXCEPT ![stream[r]] = r]
    /\ UNCHANGED <<stream, decision, ctx, got, holder, messageVars, countVars,
                   replies, panics, loopVars>>

\* The listener's worker: into the request channel, or refused when closed.
EnqueueRequest(r) ==
    /\ rpc[r] = "read"
    /\ IF handler.reqChannelClosed
       THEN /\ rpc' = [rpc EXCEPT ![r] = "handled"]
            /\ SendResponseToClient(r, {})
       ELSE /\ rpc' = [rpc EXCEPT ![r] = "queued"]
            /\ UNCHANGED clientVars
    /\ UNCHANGED <<stream, decision, ctx, got, holder, messageVars, countVars, loopVars>>

-----------------------------------------------------------------------------
(* The request loop and its workers. *)

\* requestLoop takes a request from the channel and schedules handleRequest.
TakeRequest(r) ==
    /\ handler.requestLoop = "running" /\ rpc[r] = "queued"
    /\ IF handler.shutdownRequest
       THEN /\ rpc' = [rpc EXCEPT ![r] = "handled"]
            /\ SendResponseToClient(r, {})
       ELSE /\ rpc' = [rpc EXCEPT ![r] = "handling"]
            /\ UNCHANGED clientVars
    /\ UNCHANGED <<stream, decision, ctx, got, holder, messageVars, countVars, loopVars>>

\* Mutant: the context is stored without looking at the holder.
ExecuteRequestOverwrites(r) ==
    /\ rpc[r] = "handling"
    /\ IF decision[r] \in {"none", "error"}
       THEN /\ rpc' = [rpc EXCEPT ![r] = "handled"]
            /\ SendResponseToClient(r, {})
            /\ UNCHANGED <<ctx, holder>>
       ELSE /\ rpc' = [rpc EXCEPT ![r] = "stored"]
            /\ ctx' = [ctx EXCEPT ![r] = "pending"]
            /\ holder' = [holder EXCEPT ![stream[r]] = r]
            /\ UNCHANGED clientVars
    /\ UNCHANGED <<stream, decision, got, messageVars, countVars, loopVars>>

\* forwardRequest and executeRequest up to storeRequestContext: a request that
\* cannot be understood is only logged, an intercepted request or a statement
\* that is not in the cache is answered at once, a stream id that is still in
\* use is only logged.
ExecuteRequest(r) ==
    /\ rpc[r] = "handling"
    /\ \/ /\ decision[r] = "error"
          /\ rpc' = [rpc EXCEPT ![r] = "handled"]
          /\ UNCHANGED <<ctx, holder, clientVars>>
       \/ /\ decision[r] = "none"
          /\ rpc' = [rpc EXCEPT ![r] = "handled"]
          /\ SendResponseToClient(r, {})
          /\ UNCHANGED <<ctx, holder>>
       \/ /\ decision[r] \in {"origin", "target", "both"}
          /\ IF holder[stream[r]] # None
             THEN /\ rpc' = [rpc EXCEPT ![r] = "handled"]
                  /\ UNCHANGED <<ctx, holder>>
             ELSE /\ rpc' = [rpc EXCEPT ![r] = "stored"]
                  /\ ctx' = [ctx EXCEPT ![r] = "pending"]
                  /\ holder' = [holder EXCEPT ![stream[r]] = r]
          /\ UNCHANGED clientVars
    /\ UNCHANGED <<stream, decision, got, messageVars, countVars, loopVars>>

\* executeRequest: the in-flight metric, the wait group and the timer.
StartTimer(r) ==
    /\ rpc[r] = "stored"
    /\ inFlight' = [inFlight EXCEPT ![decision[r]] = @ + 1]
    /\ wg' = wg + 1
    /\ mpc' = [mpc EXCEPT ![<<r, "timer">>] = "armed"]
    /\ rpc' = [rpc EXCEPT ![r] = "sending"]
    /\ UNCHANGED <<stream, decision, ctx, got, holder, mctx, isProtocolError,
                   protocolErrOccurred, clientVars, loopVars>>

StreamIdAvailable(c) ==
    Cardinality({r \in Requests : mpc[<<r, c>>] = "sent"}) < MaxStreamIds

\* sendRequestToCluster: assign a synthetic stream id, then enqueue the frame
\* in the write queue, which the request loop closes when it ends.
Enqueue(r, c) ==
    /\ StreamIdAvailable(c) /\ ~QueueBlocks(c)
    /\ mpc' = [mpc EXCEPT ![<<r, c>>] = "sent"]
    /\ panics' = panics \cup (IF handler.requestLoop = "done" THEN {"clusterQueue"} ELSE {})
    /\ UNCHANGED <<waiting, replies>>

\* executeRequest: the first (or only) cluster of the forward decision.  When
\* no stream id is left the client is told OVERLOADED and the request context
\* stays where it is (handleRequestSendFailure).
SendRequest(r) ==
    /\ rpc[r] = "sending"
    /\ LET c == IF decision[r] = "target" THEN "target" ELSE "origin"
       IN  \/ /\ Enqueue(r, c)
              /\ rpc' = [rpc EXCEPT ![r] = IF decision[r] = "both" THEN "sendTarget"
                                           ELSE "handled"]
           \/ /\ ~StreamIdAvailable(c)
              /\ SendResponseToClient(r, {})
              /\ rpc' = [rpc EXCEPT ![r] = "handled"]
              /\ UNCHANGED mpc
    /\ UNCHANGED <<stream, decision, ctx, got, holder, mctx, isProtocolError,
                   protocolErrOccurred, countVars, loopVars>>

\* executeRequest, forwardToBoth: then the target; its send error is ignored.
SendToTarget(r) ==
    /\ rpc[r] = "sendTarget"
    /\ \/ Enqueue(r, "target")
       \/ ~StreamIdAvailable("target") /\ UNCHANGED <<mpc, clientVars>>
    /\ rpc' = [rpc EXCEPT ![r] = "handled"]
    /\ UNCHANGED <<stream, decision, ctx, got, holder, mctx, isProtocolError,
                   protocolErrOccurred, countVars, loopVars>>

-----------------------------------------------------------------------------
(* Responses and timeouts on their way to the response loop. *)

RespChannelHasRoom == Cardinality({m \in Messages : mpc[m] = "queued"}) < NumWorkers

\* The cluster answers; the connector's loop reads the frame and frees its id.
ReadResponse(r, c, protocolError) ==
    /\ mpc[<<r, c>>] = "sent" /\ handler.connector[c] = "open"
    /\ mpc' = [mpc EXCEPT ![<<r, c>>] = "read"]
    /\ isProtocolError' = isProtocolError \cup (IF protocolError THEN {<<r, c>>} ELSE {})
    /\ UNCHANGED <<requestVars, mctx, protocolErrOccurred, countVars, clientVars, loopVars>>

\* The connector's worker sends it to respChannel.
PublishResponse(r, c) ==
    /\ mpc[<<r, c>>] = "read" /\ RespChannelHasRoom
    /\ mpc' = [mpc EXCEPT ![<<r, c>>] = "queued"]
    /\ panics' = panics \cup (IF handler.respChannelClosed THEN {"respChannel"} ELSE {})
    /\ UNCHANGED <<requestVars, mctx, isProtocolError, protocolErrOccurred, countVars,
                   waiting, replies, loopVars>>

\* The timer's callback takes the read lock of closedRespChannelLock.
TimerFires(r) ==
    /\ mpc[<<r, "timer">>] = "armed"
    /\ mpc' = [mpc EXCEPT ![<<r, "timer">>] = IF handler.respChannelClosed THEN "direct" ELSE "read"]
    /\ UNCHANGED <<requestVars, mctx, isProtocolError, protocolErrOccurred, countVars,
                   clientVars, loopVars>>

\* Mutant: the timeout is lost when respChannel is full.
PublishTimeoutOrDrop(r) ==
    /\ mpc[<<r, "timer">>] = "read"
    /\ mpc' = [mpc EXCEPT ![<<r, "timer">>] = IF RespChannelHasRoom THEN "queued" ELSE "done"]
    /\ UNCHANGED <<requestVars, mctx, isProtocolError, protocolErrOccurred, countVars,
                   clientVars, loopVars>>

\* The callback sends the timeout to respChannel and releases the lock.
PublishTimeout(r) ==
    /\ mpc[<<r, "timer">>] = "read" /\ RespChannelHasRoom
    /\ mpc' = [mpc EXCEPT ![<<r, "timer">>] = "queued"]
    /\ panics' = panics \cup (IF handler.respChannelClosed THEN {"respChannel"} ELSE {})
    /\ UNCHANGED <<requestVars, mctx, isProtocolError, protocolErrOccurred, countVars,
                   waiting, replies, loopVars>>

-----------------------------------------------------------------------------
(* The response loop's workers. *)

StopTimer(r, pcs) ==
    [pcs EXCEPT ![<<r, "timer">>] = IF @ = "armed" THEN "done" ELSE @]

\* responseLoop receives m; its worker forwards the first protocol error and
\* drops the others, and reads the context of any other message.
ReceiveResponse(m) ==
    /\ mpc[m] = "queued"
    /\ LET r == m[1] reqCtx == holder[stream[m[1]]]
       IN  IF m \in isProtocolError
           THEN /\ mpc' = [mpc EXCEPT ![m] = "done"]
                /\ protocolErrOccurred' = TRUE
                /\ IF protocolErrOccurred THEN UNCHANGED clientVars
                   ELSE SendResponseToClient(r, {r})
                /\ UNCHANGED mctx
           ELSE /\ mpc' = [mpc EXCEPT ![m] = IF reqCtx = None THEN "done" ELSE "found"]
                /\ mctx' = [mctx EXCEPT ![m] = reqCtx]
                /\ UNCHANGED <<protocolErrOccurred, clientVars>>
    /\ UNCHANGED <<requestVars, isProtocolError, countVars, loopVars>>

\* The worker is done with m.
Drop(m) ==
    /\ mpc' = [mpc EXCEPT ![m] = "done"]
    /\ mctx' = [mctx EXCEPT ![m] = None]

\* Mutant: the first response completes a request to both clusters.
CompleteOnFirst(r, g) ==
    \E c \in Clusters : decision[r] \in {c, "both"} /\ g[c] # None

\* updateInternalState: the context has every response its decision needs.
Complete(r, g) ==
    \A c \in Clusters : decision[r] \in {c, "both"} => g[c] # None

\* requestContextImpl.SetResponse.
SetResponse(m) ==
    /\ mpc[m] = "found" /\ m[2] \in Clusters
    /\ LET r == mctx[m] g == [got[r] EXCEPT ![m[2]] = m[1]]
       IN  IF ctx[r] # "pending"
           THEN Drop(m) /\ UNCHANGED <<ctx, got>>
           ELSE /\ got' = [got EXCEPT ![r] = g]
                /\ IF Complete(r, g)
                   THEN /\ ctx' = [ctx EXCEPT ![r] = "done"]
                        /\ mpc' = StopTimer(r, [mpc EXCEPT ![m] = "finish"])
                        /\ UNCHANGED mctx
                   ELSE Drop(m) /\ UNCHANGED ctx
    /\ UNCHANGED <<stream, decision, rpc, holder, isProtocolError,
                   protocolErrOccurred, countVars, clientVars, loopVars>>

\* Mutant: SetTimeout does not look at the state of the context.
SetTimeoutUnchecked(m) ==
    /\ mpc[m] \in {"found", "direct"} /\ m[2] = "timer"
    /\ ctx' = [ctx EXCEPT ![m[1]] = "timedout"]
    /\ mpc' = [mpc EXCEPT ![m] = IF @ = "direct" THEN "directFinish" ELSE "finish"]
    /\ mctx' = [mctx EXCEPT ![m] = m[1]]
    /\ UNCHANGED <<stream, decision, rpc, got, holder, isProtocolError,
                   protocolErrOccurred, countVars, clientVars, loopVars>>

\* requestContextImpl.SetTimeout, from the response loop or, when respChannel
\* is closed, from the timer's callback itself.
SetTimeout(m) ==
    /\ mpc[m] \in {"found", "direct"} /\ m[2] = "timer"
    /\ LET r == IF mpc[m] = "direct" THEN m[1] ELSE mctx[m]
       IN  IF ctx[r] = "pending" /\ r = m[1]
           THEN /\ ctx' = [ctx EXCEPT ![r] = "timedout"]
                /\ mpc' = [mpc EXCEPT ![m] = IF @ = "direct" THEN "directFinish" ELSE "finish"]
                /\ mctx' = [mctx EXCEPT ![m] = r]
           ELSE Drop(m) /\ UNCHANGED ctx
    /\ UNCHANGED <<stream, decision, rpc, got, holder, isProtocolError,
                   protocolErrOccurred, countVars, clientVars, loopVars>>

\* requestContextHolder.Clear: only the context that is being held.
ClearHolder(r) ==
    holder' = [holder EXCEPT ![stream[r]] = IF @ = r THEN None ELSE @]

\* finishRequest: free the stream id and take the request out of the metric.
FreeStreamId(m) ==
    /\ mpc[m] \in {"finish", "directFinish"}
    /\ ClearHolder(mctx[m])
    /\ inFlight' = [inFlight EXCEPT ![decision[mctx[m]]] = @ - 1]
    /\ mpc' = [mpc EXCEPT ![m] = IF @ = "finish" THEN "cleared" ELSE "directCleared"]
    /\ UNCHANGED <<stream, decision, rpc, ctx, got, mctx, isProtocolError,
                   protocolErrOccurred, wg, clientVars, loopVars>>

\* finishRequest: answer the client, unless the response cannot be computed
\* (after a timeout it never can) or is not processed (ok is FALSE), and then
\* leave the wait group: Done is deferred until the answer is in the queue.
FinishRequest(m, ok) ==
    /\ mpc[m] \in {"cleared", "directCleared"}
    /\ IF ok /\ Complete(mctx[m], got[mctx[m]])
       THEN SendResponseToClient(mctx[m], {got[mctx[m]][c] : c \in Clusters} \ {None})
       ELSE UNCHANGED clientVars
    /\ wg' = wg - 1
    /\ Drop(m)
    /\ got' = [got EXCEPT ![mctx[m]] = [c \in Clusters |-> None]]
    /\ UNCHANGED <<stream, decision, rpc, ctx, holder, isProtocolError, protocolErrOccurred, inFlight, loopVars>>

-----------------------------------------------------------------------------
(* Peers that stop reading, and the shutdown. *)

Unaffected == UNCHANGED <<requestVars, messageVars, countVars, clientVars>>

\* A peer stops reading for good, and the write queue of its connection is full.
Stall(p) ==
    /\ p \notin handler.stalled
    /\ handler' = [handler EXCEPT !.stalled = @ \cup {p}]
    /\ Unaffected /\ UNCHANGED clearing

\* A connection breaks, the client disconnects or the host is removed.
CancelContext ==
    /\ ~handler.ctxDone
    /\ handler' = [handler EXCEPT !.ctxDone = TRUE]
    /\ Unaffected /\ UNCHANGED clearing

\* The proxy shuts down gracefully (at any time), or the handler's own
\* goroutine reacts to the cancellation of the context.
RequestShutdown ==
    /\ ~handler.shutdownRequest
    /\ handler' = [handler EXCEPT !.shutdownRequest = TRUE]
    /\ Unaffected /\ UNCHANGED clearing

ForwardCancellation == handler.ctxDone /\ RequestShutdown

\* setDrainModeNowFunc.
SetDrainMode ==
    /\ handler.ctxDone \/ handler.shutdownRequest
    /\ ~handler.reqChannelClosed
    /\ handler' = [handler EXCEPT !.reqChannelClosed = TRUE]
    /\ Unaffected /\ UNCHANGED clearing

HandlerTasks == {r \in Requests : rpc[r] \in {"handling", "stored", "sending", "sendTarget"}}

\* requestLoop: the channel is closed and drained and its tasks are done.
DrainRequests ==
    /\ handler.requestLoop = "running" /\ handler.reqChannelClosed
    /\ \A r \in Requests : rpc[r] # "queued"
    /\ HandlerTasks = {}
    /\ handler' = [handler EXCEPT !.requestLoop = "waiting"]
    /\ clearing' = [clearing EXCEPT !.step = "waiting"]
    /\ Unaffected

\* Mutant: the write queues are closed without waiting for the requests.
EndRequestLoopAtOnce ==
    /\ handler.requestLoop = "waiting"
    /\ handler' = [handler EXCEPT !.requestLoop = "done"]
    /\ Unaffected /\ UNCHANGED clearing

\* requestLoop: no request is in flight; the write queues are closed.
EndRequestLoop ==
    /\ handler.requestLoop = "waiting" /\ wg = 0
    /\ handler' = [handler EXCEPT !.requestLoop = "done"]
    /\ Unaffected /\ UNCHANGED clearing

\* clearRequestContexts, once the context is canceled: read the next holder.
ClearGet(s) ==
    /\ clearing.step = "waiting" /\ handler.ctxDone /\ s \notin clearing.visited
    /\ clearing' = [step |-> IF holder[s] = None THEN "waiting" ELSE "found",
                    visited |-> clearing.visited \cup {s}, ctx |-> holder[s]]
    /\ Unaffected /\ UNCHANGED handler

NextHolder == clearing' = [clearing EXCEPT !.step = "waiting", !.ctx = None]

\* requestContextImpl.Cancel.
Cancel ==
    /\ clearing.step = "found"
    /\ IF ctx[clearing.ctx] = "pending"
       THEN /\ ctx' = [ctx EXCEPT ![clearing.ctx] = "canceled"]
            /\ mpc' = StopTimer(clearing.ctx, mpc)
            /\ clearing' = [clearing EXCEPT !.step = "cancel"]
       ELSE NextHolder /\ UNCHANGED <<ctx, mpc>>
    /\ UNCHANGED <<stream, decision, rpc, got, holder, mctx, isProtocolError,
                   protocolErrOccurred, countVars, clientVars, handler>>

\* cancelRequest.
CancelRequest ==
    /\ clearing.step = "cancel"
    /\ ClearHolder(clearing.ctx)
    /\ inFlight' = [inFlight EXCEPT ![decision[clearing.ctx]] = @ - 1]
    /\ wg' = wg - 1
    /\ NextHolder
    /\ got' = [got EXCEPT ![clearing.ctx] = [c \in Clusters |-> None]]
    /\ UNCHANGED <<stream, decision, rpc, ctx, messageVars, clientVars, handler>>

\* Mutant: the end of the requests does not close the connection.
CloseConnectionOnCancel(c) ==
    /\ handler.connector[c] = "open" /\ handler.ctxDone
    /\ handler' = [handler EXCEPT !.connector[c] = "closed"]
    /\ Unaffected /\ UNCHANGED clearing

\* The connection is closed when the context is canceled or requests are done.
CloseConnection(c) ==
    /\ handler.connector[c] = "open"
    /\ handler.ctxDone \/ handler.requestLoop = "done"
    /\ handler' = [handler EXCEPT !.connector[c] = "closed"]
    /\ Unaffected /\ UNCHANGED clearing

\* runResponseListeningLoop ends when its workers are done.
EndConnector(c) ==
    /\ handler.connector[c] = "closed"
    /\ \A r \in Requests : mpc[<<r, c>>] # "read"
    /\ handler' = [handler EXCEPT !.connector[c] = "done"]
    /\ Unaffected /\ UNCHANGED clearing

\* run: both connectors are done, and no timer callback holds the read lock.
CloseRespChannel ==
    /\ ~handler.respChannelClosed
    /\ \A c \in Clusters : handler.connector[c] = "done"
    /\ \A r \in Requests : mpc[<<r, "timer">>] # "read"
    /\ handler' = [handler EXCEPT !.respChannelClosed = TRUE]
    /\ Unaffected /\ UNCHANGED clearing

\* responseLoop: the channel is closed and drained and its workers are done.
EndResponseLoop ==
    /\ handler.respChannelClosed /\ ~handler.responsesDone
    /\ \A m \in Messages : mpc[m] \notin {"queued", "found", "finish", "cleared"}
    /\ handler' = [handler EXCEPT !.responsesDone = TRUE]
    /\ Unaffected /\ UNCHANGED clearing

\* ClientConnector.run: responses and requests are done, cancel the context.
StopClientConnector ==
    /\ handler.clientConnector = "open"
    /\ handler.responsesDone /\ handler.requestLoop = "done"
    /\ handler' = [handler EXCEPT !.clientConnector = "stopping", !.ctxDone = TRUE]
    /\ Unaffected /\ UNCHANGED clearing

\* ClientConnector.run: the listener is done, close the client's write queue.
CloseClientConnector ==
    /\ handler.clientConnector = "stopping"
    /\ \A r \in Requests : rpc[r] # "read"
    /\ handler' = [handler EXCEPT !.clientConnector = "closed"]
    /\ Unaffected /\ UNCHANGED clearing

Terminated == handler.clientConnector = "closed" /\ UNCHANGED vars

-----------------------------------------------------------------------------
\* What the proxy's own goroutines and timers do.
ProxyStep ==
    \/ \E r \in Requests :
          \/ EnqueueRequest(r) \/ TakeRequest(r) \/ ExecuteRequest(r) \/ StartTimer(r)
          \/ SendRequest(r) \/ SendToTarget(r) \/ TimerFires(r) \/ PublishTimeout(r)
          \/ \E c \in Clusters : PublishResponse(r, c)
    \/ \E m \in Messages :
          \/ ReceiveResponse(m) \/ SetResponse(m) \/ SetTimeout(m)
          \/ FreeStreamId(m) \/ FinishRequest(m, TRUE)
    \/ ForwardCancellation \/ SetDrainMode \/ DrainRequests \/ EndRequestLoop
    \/ \E s \in StreamIds : ClearGet(s)
    \/ Cancel \/ CancelRequest
    \/ \E c \in Clusters : CloseConnection(c) \/ EndConnector(c)
    \/ CloseRespChannel \/ EndResponseLoop \/ StopClientConnector \/ CloseClientConnector

Next ==
    \/ ProxyStep
    \/ \E r \in Requests :
          \/ ReadRequest(r)
          \/ \E c \in Clusters : \E e \in {FALSE, "protocolError" \in Events} : ReadResponse(r, c, e)
    \/ \E m \in Messages : FinishRequest(m, FALSE)
    \/ \E p \in Stalling : Stall(p)
    \/ "cancel" \in Events /\ CancelContext
    \/ "shutdown" \in Events /\ RequestShutdown
    \/ Terminated

Spec == Init /\ [][Next]_vars

FairSpec == Spec /\ WF_vars(ProxyStep)

-----------------------------------------------------------------------------
MessagePcs == {"none", "armed", "sent", "read", "direct", "queued", "found",
               "finish", "cleared", "directFinish", "directCleared", "done"}

\* The range of every variable of the handler.
TypeOK ==
    /\ stream \in [Requests -> StreamIds]
    /\ decision \in [Requests -> Decisions]
    /\ rpc \in [Requests -> {"new", "read", "queued", "handling", "stored", "sending",
                             "sendTarget", "handled"}]
    /\ ctx \in [Requests -> {"none", "pending", "done", "timedout", "canceled"}]
    /\ got \in [Requests -> [Clusters -> Requests \cup {None}]]
    /\ holder \in [StreamIds -> Requests \cup {None}]
    /\ mpc \in [Messages -> MessagePcs]
    /\ mctx \in [Messages -> Requests \cup {None}]
    /\ isProtocolError \subseteq Messages /\ protocolErrOccurred \in BOOLEAN
    /\ wg \in Int /\ inFlight \in [{"origin", "target", "both"} -> Int]
    /\ ~protocolErrOccurred => wg >= 0
    /\ waiting \in [StreamIds -> Requests \cup {None}]
    /\ replies \subseteq [to : Requests \cup {None}, for : Requests, from : SUBSET Requests]
    /\ panics \subseteq {"clientQueue", "clusterQueue", "respChannel"}
    /\ clearing \in [step : {"off", "waiting", "found", "cancel"},
                     visited : SUBSET StreamIds, ctx : Requests \cup {None}]
    /\ handler \in [ctxDone : BOOLEAN, shutdownRequest : BOOLEAN,
                    reqChannelClosed : BOOLEAN,
                    requestLoop : {"running", "waiting", "done"},
                    connector : [Clusters -> {"open", "closed", "done"}],
                    respChannelClosed : BOOLEAN, responsesDone : BOOLEAN,
                    clientConnector : {"open", "stopping", "closed"},
                    stalled : SUBSET Peers]

\* A worker, a timer callback or the clearing goroutine is completing r.
Completing(r) ==
    \/ \E m \in Messages :
          mctx[m] = r /\ mpc[m] \in {"finish", "cleared", "directFinish", "directCleared"}
    \/ clearing.step = "cancel" /\ clearing.ctx = r

\* r has entered the wait group and has not left it.
InWaitGroup(r) ==
    /\ rpc[r] \in {"sending", "sendTarget", "handled"}
    /\ ctx[r] = "pending" \/ Completing(r)

\* Every request whose context is stored leaves the wait group exactly once,
\* however its responses, its timeout and the cancellation race: the counter
\* is the number of requests in flight and never negative.  A protocol error
\* that was forwarded by tryProcessProtocolError ends this guarantee: it
\* answers the client while the context stays pending.
WaitGroupExact ==
    /\ TypeOK
    /\ protocolErrOccurred \/ wg = Cardinality({r \in Requests : InWaitGroup(r)})

\* A stream id is held exactly while its request is pending or about to be
\* completed: a completed request never keeps its stream id, and a pending one
\* never loses it to another request.
StreamIdHeld ==
    \A r \in Requests : holder[stream[r]] = r <=>
        \/ ctx[r] = "pending"
        \/ \E m \in Messages : mctx[m] = r /\ mpc[m] \in {"finish", "directFinish"}
        \/ clearing.step = "cancel" /\ clearing.ctx = r

\* The client gets at most one answer to each request, and the answer is made
\* from the responses to that request, until a protocol error is forwarded:
\* then the stream id is used again while the old responses are on their way.
AnswersMatch ==
    protocolErrOccurred \/ \A a \in replies : a.to = a.for /\ a.from \subseteq {a.for}

\* A client that was told OVERLOADED retries the request: when a request is
\* about to be stored, its stream id is free.  This does not hold of the code:
\* handleRequestSendFailure leaves the context in its holder.
RetryAccepted ==
    \A r \in Requests :
        rpc[r] = "handling" /\ decision[r] \in {"origin", "target", "both"}
            => holder[stream[r]] = None

\* The handler goes down without a trace.  No step makes Go panic: nothing is
\* sent to respChannel, to a cluster's write queue or to the client's write queue
\* after it is closed.  And when the handler has shut down nothing is left
\* behind: no context is pending, no stream id is held and the in-flight metrics
\* are back at zero.  A forwarded protocol error ends this guarantee.
CleanShutdown ==
    ~protocolErrOccurred =>
        /\ panics = {}
        /\ handler.requestLoop = "done" =>
            /\ wg = 0 /\ \A d \in DOMAIN inFlight : inFlight[d] = 0
            /\ \A s \in StreamIds : holder[s] = None

\* Every request whose context is stored is completed: at the latest its
\* timeout or the shutdown frees the stream id and the wait group, while every
\* peer reads.  A worker that answers a client that does not read never leaves
\* the wait group (finishRequest), and one that sends to such a cluster is lost
\* to the pool that processes the timeouts.
RequestsComplete ==
    \A r \in Requests :
        rpc[r] = "stored" ~> (ctx[r] # "pending" /\ ~Completing(r)) \/ handler.stalled # {}

\* A shutdown request or a lost connection ends every loop of the handler while
\* its client reads.  After a lost connection this holds even when a cluster does
\* not read: the cluster's connection is closed at once, and this frees the
\* workers that send to it.  A graceful shutdown, which closes the connections
\* only when the requests are done, needs the clusters to read.
ShutdownCompletes ==
    handler.shutdownRequest \/ handler.ctxDone
        ~> \/ handler.clientConnector = "closed"
           \/ "client" \in handler.stalled
           \/ handler.stalled # {} /\ ~handler.ctxDone
=============================================================================
