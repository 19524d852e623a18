--------------------------- MODULE AsyncConnector ---------------------------
(***************************************************************************)
(* The asynchronous connector of a client handler (clusterconn.go,         *)
(* pendingrequests.go, asyncRequestContextImpl in requestcontext.go and    *)
(* sendToAsyncConnector in clienthandler.go).                              *)
(*                                                                         *)
(* A read is also sent to the secondary cluster as fire and forget; the    *)
(* requests of the connector's own handshake wait for their response.  A   *)
(* job is a request, or the PREPARE that the connector sends by itself     *)
(* when a request is answered UNPREPARED; it takes over the request's unit *)
(* of clientHandlerRequestWaitGroup.  Jobs are sent by the workers of the  *)
(* request loop (requests) or of the connector's response loop (PREPAREs), *)
(* and race with responses, timers and the goroutine that cancels what is  *)
(* pending when the handler's context is done.                             *)
(***************************************************************************)
EXTENDS Integers, Sequences, FiniteSets

CONSTANTS
    Requests,
    Kinds,       \* subset of {"async", "handshake"}
    NumIds,      \* synthetic stream ids of the connection
    QueueSize,   \* frames the write queue holds
    Answers,     \* subset of {"ok", "unprepared", "protocolError"}
    None

Ids == 0 .. (NumIds - 1)
Jobs == Requests \X {"request", "prepare"}

ASSUME ConstantsAssumption ==
    /\ IsFiniteSet(Requests) /\ None \notin Requests \cup Jobs \cup Int
    /\ Kinds \subseteq {"async", "handshake"}
    /\ NumIds \in Nat /\ QueueSize \in Nat
    /\ Answers \subseteq {"ok", "unprepared", "protocolError"}

VARIABLES
    kind,       \* kind of each request
    main,       \* request context of a handshake request
    jpc,        \* how far the sender of a job got
    id,         \* synthetic id of a job
    actx,       \* asyncRequestContext of a job
    timer,      \* its timer
    rpc,        \* how far the worker with a job's response got
    rctx,       \* the job whose context that worker read
    clusterIds, \* free ids of the internal stream id mapper, a queue
    pending,    \* asyncPendingRequests: the holder of each id
    queue,      \* frames in the write queue
    wire,       \* jobs the cluster has and did not answer
    wg,         \* clientHandlerRequestWaitGroup
    inFlight,   \* AsyncMetrics.InFlightRequests
    state,      \* asyncConnectorState
    connClosed, \* the connection is closed
    requestLoop, ctxDone,
    clearing,   \* the goroutine that clears the pending requests
    panics,
    raced       \* two parties have met over one request (a history variable)

jobVars == <<kind, main, jpc, id, actx, timer>>
respVars == <<rpc, rctx>>
connVars == <<clusterIds, pending, queue, wire, state, connClosed>>
countVars == <<wg, inFlight>>
endVars == <<requestLoop, ctxDone, clearing, panics, raced>>
vars == <<jobVars, respVars, connVars, countVars, endVars>>

Tracked(j) == IF kind[j[1]] = "async" /\ j[2] = "request" THEN 1 ELSE 0
ExpectedResponse(j) == kind[j[1]] = "handshake" /\ j[2] = "request"

Init ==
    /\ kind \in [Requests -> Kinds]
    /\ main = [r \in Requests |-> "none"]
    /\ jpc = [j \in Jobs |-> "idle"] /\ id = [j \in Jobs |-> None]
    /\ actx = [j \in Jobs |-> "none"] /\ timer = [j \in Jobs |-> "off"]
    /\ rpc = [j \in Jobs |-> "none"] /\ rctx = [j \in Jobs |-> None]
    /\ clusterIds = [i \in 1..NumIds |-> i - 1]
    /\ pending = [i \in Ids |-> None]
    /\ queue = {} /\ wire = {} /\ wg = 0 /\ inFlight = 0
    /\ state = "handshake" /\ connClosed = FALSE
    /\ requestLoop = "running" /\ ctxDone = FALSE
    /\ clearing = [step |-> "off", visited |-> {}, ctx |-> None]
    /\ panics = {} /\ raced = FALSE

InProgress(j) == jpc[j] \notin {"idle", "handed"}

\* The request is completed although its sender has not finished sending it.
Overtakes(j) == raced' = (raced \/ InProgress(j))

At(j, label) == jpc' = [jpc EXCEPT ![j] = label]

-----------------------------------------------------------------------------
(* Sending. *)

\* validateAsyncStateForRequest.
Valid(j) ==
    \/ state = "ready"
    \/ state = "handshake" /\ ExpectedResponse(j)

\* sendToAsyncConnector up to the call of sendAsyncRequestToCluster.  A
\* handshake request entered the wait group in executeRequest and leaves it
\* at once when the connector does not accept it.
SendToAsyncConnector(r) ==
    LET j == <<r, "request">>
    IN  /\ requestLoop = "running" /\ jpc[j] = "idle"
        /\ IF Valid(j)
           THEN At(j, "assign") /\ wg' = wg + 1
           ELSE At(j, "handed") /\ UNCHANGED wg
        /\ main' = IF ~ExpectedResponse(j) THEN main
                   ELSE [main EXCEPT ![r] = IF Valid(j) THEN "pending" ELSE "canceled"]
        /\ UNCHANGED <<kind, id, actx, timer, respVars, connVars, inFlight, endVars>>

\* sendAsyncRequestToCluster: the state again, then a synthetic stream id.
AssignUniqueId(j) ==
    /\ jpc[j] = "assign"
    /\ IF Valid(j) /\ clusterIds # <<>>
       THEN /\ id' = [id EXCEPT ![j] = Head(clusterIds)]
            /\ clusterIds' = Tail(clusterIds)
            /\ At(j, "store")
       ELSE At(j, "failed") /\ UNCHANGED <<id, clusterIds>>
    /\ UNCHANGED <<kind, main, actx, timer, respVars, pending, queue, wire, state,
                   connClosed, countVars, endVars>>

\* asyncPendingRequests.store.
Store(j) ==
    /\ jpc[j] = "store"
    /\ IF pending[id[j]] = None
       THEN /\ pending' = [pending EXCEPT ![id[j]] = j]
            /\ actx' = [actx EXCEPT ![j] = "pending"]
            /\ At(j, "track")
       ELSE At(j, "failed") /\ UNCHANGED <<pending, actx>>
    /\ UNCHANGED <<kind, main, id, timer, respVars, clusterIds, queue, wire, state,
                   connClosed, countVars, endVars>>

\* The in-flight metric and the timer.
Track(j) ==
    /\ jpc[j] = "track"
    /\ inFlight' = inFlight + Tracked(j)
    /\ timer' = [timer EXCEPT ![j] = "armed"]
    /\ At(j, "enqueue")
    /\ UNCHANGED <<kind, main, id, actx, respVars, connVars, wg, endVars>>

\* clearPendingRequestState: only the context that is being held.
ClearPending(j) == [pending EXCEPT ![id[j]] = IF @ = j THEN None ELSE @]

StopTimer(j) == [timer EXCEPT ![j] = IF @ = "armed" THEN "stopped" ELSE @]

\* asyncRequestContextImpl.Cancel, when the context is pending.
CancelContext(j) ==
    /\ actx' = [actx EXCEPT ![j] = "canceled"]
    /\ timer' = StopTimer(j)
    /\ inFlight' = inFlight - Tracked(j)

\* EnqueueAsync, and the cancellation when the write queue is full.
EnqueueAsync(j) ==
    /\ jpc[j] = "enqueue"
    /\ IF requestLoop = "done"
       THEN /\ panics' = panics \cup {"writeQueue"}
            /\ At(j, "handed")
            /\ UNCHANGED <<queue, pending, actx, timer, inFlight>>
       ELSE /\ IF Cardinality(queue) < QueueSize
               THEN /\ queue' = queue \cup {j} /\ At(j, "handed")
                    /\ UNCHANGED <<pending, actx, timer, inFlight>>
               ELSE /\ IF actx[j] = "pending"
                       THEN CancelContext(j) /\ pending' = ClearPending(j)
                       ELSE UNCHANGED <<pending, actx, timer, inFlight>>
                    /\ At(j, "failed") /\ UNCHANGED queue
            /\ UNCHANGED panics
    /\ UNCHANGED <<kind, main, id, respVars, clusterIds, wire, state, connClosed, wg,
                   requestLoop, ctxDone, clearing, raced>>

\* SetTimeout, Cancel or SetResponse of the request context of a handshake
\* request, followed by finishRequest or cancelRequest when it was pending;
\* a fire and forget request just leaves the wait group.
Leave(j, outcome) ==
    IF ExpectedResponse(j)
    THEN /\ main' = [main EXCEPT ![j[1]] = IF @ = "pending" THEN outcome ELSE @]
         /\ wg' = wg - (IF main[j[1]] = "pending" THEN 1 ELSE 0)
    ELSE wg' = wg - 1 /\ UNCHANGED main

\* The caller of sendAsyncRequestToCluster after it returned false.
SendFailed(j) ==
    /\ jpc[j] = "failed"
    /\ Leave(j, "canceled")
    /\ At(j, "handed")
    /\ UNCHANGED <<kind, id, actx, timer, respVars, connVars, inFlight, endVars>>

-----------------------------------------------------------------------------
(* Timeouts. *)

\* The timer's callback: asyncRequestContextImpl.SetTimeout.
TimerFires(j) ==
    /\ timer[j] = "armed"
    /\ IF actx[j] = "pending"
       THEN /\ actx' = [actx EXCEPT ![j] = "timedout"]
            /\ inFlight' = inFlight - Tracked(j)
            /\ timer' = [timer EXCEPT ![j] = "fired"]
            /\ Overtakes(j)
       ELSE timer' = [timer EXCEPT ![j] = "stopped"] /\ UNCHANGED <<actx, inFlight, raced>>
    /\ UNCHANGED <<kind, main, jpc, id, respVars, connVars, wg, requestLoop, ctxDone,
                   clearing, panics>>

\* Mutant: the timeout of a fire and forget request does not call Done.
OnTimeoutSilent(j) ==
    /\ timer[j] = "fired"
    /\ timer' = [timer EXCEPT ![j] = "stopped"]
    /\ pending' = ClearPending(j)
    /\ IF ExpectedResponse(j) THEN Leave(j, "timedout") ELSE UNCHANGED <<main, wg>>
    /\ UNCHANGED <<kind, jpc, id, actx, respVars, clusterIds, queue, wire, state,
                   connClosed, inFlight, endVars>>

\* pendingRequests.timeOut clears the holder, then onTimeout.
OnTimeout(j) ==
    /\ timer[j] = "fired"
    /\ timer' = [timer EXCEPT ![j] = "stopped"]
    /\ pending' = ClearPending(j)
    /\ Leave(j, "timedout")
    /\ UNCHANGED <<kind, jpc, id, actx, respVars, clusterIds, queue, wire, state,
                   connClosed, inFlight, endVars>>

-----------------------------------------------------------------------------
(* The connection and the response loop. *)

\* The write loop takes a frame; it is discarded once the connection is gone.
WriteFrame(j) ==
    /\ j \in queue
    /\ queue' = queue \ {j}
    /\ wire' = IF connClosed THEN wire ELSE wire \cup {j}
    /\ UNCHANGED <<jobVars, respVars, clusterIds, pending, state, connClosed, countVars,
                   endVars>>

\* The response loop reads a frame and releases its stream id (the internal
\* mapper gives the same id back), then schedules handleAsyncResponse.
ReadResponse(j, answer) ==
    /\ j \in wire /\ ~connClosed
    /\ j[2] = "prepare" => answer # "unprepared"
    /\ wire' = wire \ {j}
    /\ clusterIds' = Append(clusterIds, id[j])
    /\ rpc' = [rpc EXCEPT ![j] = answer]
    /\ UNCHANGED <<jobVars, rctx, pending, queue, state, connClosed, countVars, endVars>>

\* handleAsyncResponse: a protocol error shuts the connector down, any other
\* response looks up the pending request of its stream id.
FindContext(j) ==
    /\ rpc[j] \in {"ok", "unprepared", "protocolError"} /\ rctx[j] = None
    /\ IF rpc[j] = "protocolError"
       THEN /\ connClosed' = TRUE /\ rpc' = [rpc EXCEPT ![j] = "done"]
            /\ UNCHANGED <<rctx, raced>>
       ELSE /\ rctx' = [rctx EXCEPT ![j] = pending[id[j]]]
            /\ rpc' = [rpc EXCEPT ![j] = IF pending[id[j]] = None THEN "done" ELSE @]
            /\ raced' = (raced \/ pending[id[j]] \notin {None, j})
            /\ UNCHANGED connClosed
    /\ UNCHANGED <<jobVars, clusterIds, pending, queue, wire, state, countVars,
                   requestLoop, ctxDone, clearing, panics>>

\* markAsDone: asyncRequestContextImpl.SetResponse.
SetResponse(j) ==
    /\ rpc[j] \in {"ok", "unprepared"} /\ rctx[j] # None
    /\ LET x == rctx[j]
       IN  IF actx[x] = "pending"
           THEN /\ actx' = [actx EXCEPT ![x] = "done"]
                /\ timer' = StopTimer(x)
                /\ inFlight' = inFlight - Tracked(x)
                /\ rpc' = [rpc EXCEPT ![j] = IF @ = "ok" THEN "markedOk" ELSE "markedUnprepared"]
           ELSE rpc' = [rpc EXCEPT ![j] = "done"] /\ UNCHANGED <<actx, timer, inFlight>>
    /\ UNCHANGED <<kind, main, jpc, id, rctx, connVars, wg, endVars>>

\* Mutant: Done is called although the PREPARE took over the unit.
FreePendingCallsDone(j) ==
    /\ rpc[j] \in {"markedOk", "markedUnprepared"}
    /\ pending' = ClearPending(rctx[j])
    /\ rpc' = [rpc EXCEPT ![j] = "leaving"]
    /\ IF rpc[j] = "markedUnprepared" /\ ~ExpectedResponse(rctx[j])
       THEN At(<<j[1], "prepare">>, "assign") ELSE UNCHANGED jpc
    /\ UNCHANGED <<kind, main, id, actx, timer, rctx, clusterIds, queue, wire, state,
                   connClosed, countVars, endVars>>

\* markAsDone clears the holder; an UNPREPARED statement that is in the cache
\* is prepared again by a job of its own.
FreePending(j) ==
    /\ rpc[j] \in {"markedOk", "markedUnprepared"}
    /\ LET x == rctx[j]
       IN  /\ pending' = ClearPending(x)
           /\ \/ rpc' = [rpc EXCEPT ![j] = "leaving"] /\ UNCHANGED jpc
              \/ /\ rpc[j] = "markedUnprepared" /\ ~ExpectedResponse(x)
                 /\ rpc' = [rpc EXCEPT ![j] = "done"]
                 /\ At(<<j[1], "prepare">>, "assign")
    /\ UNCHANGED <<kind, main, id, actx, timer, rctx, clusterIds, queue, wire, state,
                   connClosed, countVars, endVars>>

\* handleAsyncResponse hands a response that is waited for to the response
\* loop of the client handler, or calls clientHandlerRequestWg.Done().
Done(j) ==
    /\ rpc[j] = "leaving"
    /\ Leave(rctx[j], "done")
    /\ rpc' = [rpc EXCEPT ![j] = "done"]
    /\ UNCHANGED <<kind, jpc, id, actx, timer, rctx, connVars, inFlight, endVars>>

\* SetReady: the connector's handshake is over.
SetReady ==
    /\ state = "handshake" /\ state' = "ready"
    /\ UNCHANGED <<jobVars, respVars, clusterIds, pending, queue, wire, connClosed,
                   countVars, endVars>>

\* The connection breaks, or is closed because the context is canceled or the
\* requests are done.
CloseConnection ==
    /\ ~connClosed /\ connClosed' = TRUE
    /\ UNCHANGED <<jobVars, respVars, clusterIds, pending, queue, wire, state, countVars,
                   endVars>>

\* The response loop ends after its workers, which also send the PREPAREs.
EndResponseLoop ==
    /\ connClosed /\ state # "shutdown" /\ state' = "shutdown"
    /\ \A j \in Jobs : rpc[j] \in {"none", "done"}
    /\ \A r \in Requests : ~InProgress(<<r, "prepare">>)
    /\ UNCHANGED <<jobVars, respVars, clusterIds, pending, queue, wire, connClosed,
                   countVars, endVars>>

-----------------------------------------------------------------------------
(* The end of the client handler. *)

\* The request channel is closed and the request loop's workers are done.
DrainRequests ==
    /\ requestLoop = "running"
    /\ \A r \in Requests : ~InProgress(<<r, "request">>)
    /\ requestLoop' = "waiting"
    /\ clearing' = [clearing EXCEPT !.step = "main"]
    /\ UNCHANGED <<jobVars, respVars, connVars, countVars, ctxDone, panics, raced>>

\* The wait group is empty; the write queue is closed.
EndRequestLoop ==
    /\ requestLoop = "waiting" /\ wg = 0
    /\ requestLoop' = "done"
    /\ UNCHANGED <<jobVars, respVars, connVars, countVars, ctxDone, clearing, panics, raced>>

\* The context of the client handler is canceled.
CancelHandler ==
    /\ ~ctxDone
    /\ ctxDone' = TRUE
    /\ UNCHANGED <<jobVars, respVars, connVars, countVars, requestLoop, clearing, panics,
                   raced>>

\* clearRequestContexts(asyncRequestContextHolders).
ClearRequestContexts(r) ==
    /\ clearing.step = "main" /\ ctxDone /\ r \notin clearing.visited
    /\ main' = [main EXCEPT ![r] = IF @ = "pending" THEN "canceled" ELSE @]
    /\ wg' = wg - (IF main[r] = "pending" THEN 1 ELSE 0)
    /\ LET v == clearing.visited \cup {r}
       IN  clearing' = IF v = Requests THEN [step |-> "next", visited |-> {}, ctx |-> None]
                       ELSE [clearing EXCEPT !.visited = v]
    /\ UNCHANGED <<kind, jpc, id, actx, timer, respVars, connVars, inFlight, requestLoop,
                   ctxDone, panics, raced>>

\* asyncPendingRequests.clear reads the next holder.
ClearGet(i) ==
    /\ clearing.step = "next" /\ i \notin clearing.visited
    /\ clearing' = [step |-> IF pending[i] = None THEN "next" ELSE "found",
                    visited |-> clearing.visited \cup {i}, ctx |-> pending[i]]
    /\ UNCHANGED <<jobVars, respVars, connVars, countVars, requestLoop, ctxDone, panics, raced>>

\* asyncPendingRequests.clear cancels the context; onCancelFunc calls Done
\* unless the response was expected.
ClearCancel ==
    /\ clearing.step = "found"
    /\ LET j == clearing.ctx
       IN  IF actx[j] = "pending"
           THEN /\ CancelContext(j)
                /\ wg' = wg - (IF ExpectedResponse(j) THEN 0 ELSE 1)
                /\ clearing' = [clearing EXCEPT !.step = "clear"]
                /\ Overtakes(j)
           ELSE /\ clearing' = [clearing EXCEPT !.step = "next", !.ctx = None]
                /\ UNCHANGED <<actx, timer, inFlight, wg, raced>>
    /\ UNCHANGED <<kind, main, jpc, id, respVars, connVars, requestLoop, ctxDone, panics>>

ClearHolder ==
    /\ clearing.step = "clear"
    /\ pending' = ClearPending(clearing.ctx)
    /\ clearing' = [clearing EXCEPT !.step = "next", !.ctx = None]
    /\ UNCHANGED <<jobVars, respVars, clusterIds, queue, wire, state, connClosed, countVars,
                   requestLoop, ctxDone, panics, raced>>

\* A send on the closed write queue, or a wait group below zero, makes Go panic:
\* the process is gone.
Panicked == panics # {} \/ wg < 0

Terminated == (requestLoop = "done" \/ Panicked) /\ UNCHANGED vars

ProxyStep ==
    \/ \E j \in Jobs :
          \/ AssignUniqueId(j) \/ Store(j) \/ Track(j) \/ EnqueueAsync(j) \/ SendFailed(j)
          \/ TimerFires(j) \/ OnTimeout(j) \/ WriteFrame(j)
          \/ FindContext(j) \/ SetResponse(j) \/ FreePending(j) \/ Done(j)
    \/ EndResponseLoop \/ EndRequestLoop
    \/ \E r \in Requests : ClearRequestContexts(r)
    \/ \E i \in Ids : ClearGet(i)
    \/ ClearCancel \/ ClearHolder

Next ==
    \/ /\ ~Panicked
       /\ \/ ProxyStep
          \/ \E r \in Requests : SendToAsyncConnector(r)
          \/ \E j \in Jobs, a \in Answers : ReadResponse(j, a)
          \/ CancelHandler \/ SetReady \/ CloseConnection \/ DrainRequests
    \/ Terminated

Spec == Init /\ [][Next]_vars

-----------------------------------------------------------------------------
\* The range of every variable of the connector.  The counter of the wait
\* group is never negative.
TypeOK ==
    /\ kind \in [Requests -> Kinds]
    /\ main \in [Requests -> {"none", "pending", "done", "timedout", "canceled"}]
    /\ jpc \in [Jobs -> {"idle", "assign", "store", "track", "enqueue", "failed", "handed"}]
    /\ id \in [Jobs -> Ids \cup {None}]
    /\ actx \in [Jobs -> {"none", "pending", "done", "timedout", "canceled"}]
    /\ timer \in [Jobs -> {"off", "armed", "fired", "stopped"}]
    /\ rpc \in [Jobs -> Answers \cup {"none", "markedOk", "markedUnprepared", "leaving",
                                      "done"}]
    /\ rctx \in [Jobs -> Jobs \cup {None}]
    /\ clusterIds \in Seq(Ids) /\ pending \in [Ids -> Jobs \cup {None}]
    /\ queue \subseteq Jobs /\ wire \subseteq Jobs
    /\ wg \in Nat /\ inFlight \in Int
    /\ state \in {"handshake", "ready", "shutdown"} /\ connClosed \in BOOLEAN
    /\ requestLoop \in {"running", "waiting", "done"} /\ ctxDone \in BOOLEAN
    /\ clearing \in [step : {"off", "main", "next", "found", "clear"},
                     visited : SUBSET (Requests \cup Ids), ctx : Jobs \cup {None}]
    /\ panics \subseteq {"writeQueue"} /\ raced \in BOOLEAN

\* Somebody will still take a fire and forget job out of the wait group: its
\* sender, the worker of the response that completed it, or its timer.
WillLeave(j) ==
    \/ jpc[j] = "failed" \/ actx[j] = "pending" \/ timer[j] = "fired"
    \/ \E k \in Jobs : rctx[k] = j /\ rpc[k] \in {"markedOk", "markedUnprepared", "leaving"}

\* As long as no request has been completed, by its timer or by the clearing of
\* the pending requests, while its sender was still at work on it, and no
\* response has been given to a request that reuses its stream id: the unit and
\* the in-flight count of every request are released exactly once, whoever
\* completes it (the wait group is never negative); once the request loop has
\* found the wait group empty, nobody is left who would still call Done; and
\* the write queue, which is closed after that, is never used afterwards.  Of
\* every interleaving that the code allows only the first step into such a
\* meeting ends the claim; what comes after it the code does not survive: the
\* sender releases the unit a second time when the write queue is full.
WaitGroupSound ==
    ~raced => /\ TypeOK /\ panics = {}
              /\ requestLoop = "done" =>
                    /\ wg = 0 /\ inFlight = 0 /\ \A r \in Requests : main[r] # "pending"
                    /\ \A j \in Jobs : ~ExpectedResponse(j) => ~WillLeave(j)

\* While the connection is open an id is out of the pool only while a job that
\* is being sent, or that the cluster has not answered, uses it.  This does
\* not hold of the code: SendFailed never gives the id back.
StreamIdsReturned == ~connClosed =>
    \A i \in Ids :
        \/ \E k \in DOMAIN clusterIds : clusterIds[k] = i
        \/ \E j \in Jobs : id[j] = i /\ (InProgress(j) \/ j \in queue \cup wire)

\* While the request loop waits for the wait group, a step of the proxy itself
\* is possible, whatever responses are lost or late: timers, cancellations and
\* workers release every unit, unless the process has panicked.  No such step can
\* be repeated for ever (a job, a timer, a response and the clearing of contexts
\* only move forward), so the loop ends.
NeverStuck == requestLoop = "waiting" /\ ~Panicked => ENABLED ProxyStep
=============================================================================
