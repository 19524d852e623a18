------------------------ MODULE ClientHandlerProofs -------------------------
(***************************************************************************)
(* Proofs about ClientHandler, for any number of requests, stream ids and  *)
(* workers: a stream id is held as long as its context needs it, answers   *)
(* belong to the request they are sent for, the wait group and the         *)
(* in-flight metrics count exactly what is under way, and the shutdown     *)
(* closes nothing that is still in use.                                    *)
(*                                                                         *)
(* An action of ClientHandler has the alternatives that the code has. The  *)
(* proofs split them once (StepCases), and go on with steps that have a    *)
(* guard and an effect: a step of a request on its way to the clusters, of *)
(* a message on its way to the response loop, of the message or the        *)
(* cancellation that completes a context, or of a loop of the handler.     *)
(*                                                                         *)
(* StateInv holds always. Once a protocol error was forwarded to the       *)
(* client (tryProcessProtocolError, which leaves the context pending),     *)
(* a stream id may be used again before its late responses are in, so what *)
(* a response finds is only its own request until then: QuietInv.          *)
(*                                                                         *)
(* HandlerInv, StateInv and QuietInv until the protocol error, is the      *)
(* inductive invariant.                                                    *)
(***************************************************************************)
EXTENDS ClientHandler, TLAPS

Kinds == Clusters \cup {"timer"}

Started == {"sending", "sendTarget", "handled"}

\* m completes the request context of mctx[m]; it still has to clear the holder.
Finishing(m) == mpc[m] \in {"finish", "cleared", "directFinish", "directCleared"}
Clearing(m) == mpc[m] \in {"finish", "directFinish"}

\* The messages of a request exist once its context does and it was sent.
Sent(r) ==
    /\ rpc[r] \in {"new", "read", "queued", "handling"} => ctx[r] = "none"
    /\ rpc[r] \in {"stored", "sending", "sendTarget"} => ctx[r] # "none"
    /\ rpc[r] \notin Started => \A k \in Kinds : mpc[<<r, k>>] = "none"
    /\ rpc[r] = "sending" => \A c \in Clusters : mpc[<<r, c>>] = "none"
    /\ rpc[r] = "sendTarget" => decision[r] = "both" /\ mpc[<<r, "target">>] = "none"
    /\ \A k \in Kinds : mpc[<<r, k>>] # "none" => ctx[r] # "none"
    /\ \A c \in Clusters : mpc[<<r, c>>] # "none" => decision[r] \in {c, "both"}
    /\ ctx[r] # "none" => decision[r] \in {"origin", "target", "both"}

SentInv == \A r \in Requests : Sent(r)

\* A holder keeps a context of its own stream id.
HolderInv ==
    \A s \in StreamIds : holder[s] # None => stream[holder[s]] = s /\ ctx[holder[s]] # "none"

\* A context is completed once, by the message or the cancellation that took it
\* out of "pending".
OwnerInv ==
    /\ \A m \in Messages :
          /\ mpc[m] = "found" \/ Finishing(m) => mctx[m] \in Requests /\ ctx[mctx[m]] # "none"
          /\ Finishing(m) => ctx[mctx[m]] \in {"done", "timedout"}
    /\ \A m, n \in Messages : Finishing(m) /\ Finishing(n) /\ mctx[m] = mctx[n] => m = n

ClearingInv ==
    /\ clearing.step \in {"found", "cancel"} =>
          clearing.ctx \in Requests /\ ctx[clearing.ctx] # "none"
    /\ clearing.step = "cancel" => ctx[clearing.ctx] = "canceled"

ContextInv == HolderInv /\ OwnerInv /\ ClearingInv

\* What holds the stream id of r.
Held(r) ==
    \/ ctx[r] = "pending"
    \/ \E m \in Messages : mctx[m] = r /\ Clearing(m)
    \/ clearing.step = "cancel" /\ clearing.ctx = r

HeldInv == \A r \in Requests : holder[stream[r]] = r <=> Held(r)

\* The request loop gives up its tasks before the contexts are cleared.
LoopInv ==
    /\ handler.requestLoop # "running" =>
          handler.reqChannelClosed /\ HandlerTasks = {} /\ \A r \in Requests : rpc[r] # "queued"
    /\ handler.requestLoop = "running" => clearing.step = "off"

-----------------------------------------------------------------------------
(* Types, in groups that the provers can handle. *)

RequestTypes ==
    /\ stream \in [Requests -> StreamIds]
    /\ decision \in [Requests -> Decisions]
    /\ rpc \in [Requests -> {"new", "read", "queued", "handling", "stored", "sending",
                             "sendTarget", "handled"}]
    /\ ctx \in [Requests -> {"none", "pending", "done", "timedout", "canceled"}]
    /\ got \in [Requests -> [Clusters -> Requests \cup {None}]]
    /\ holder \in [StreamIds -> Requests \cup {None}]

MessageTypes ==
    /\ mpc \in [Messages -> MessagePcs]
    /\ mctx \in [Messages -> Requests \cup {None}]
    /\ isProtocolError \subseteq Messages /\ protocolErrOccurred \in BOOLEAN
    /\ wg \in Int /\ inFlight \in [{"origin", "target", "both"} -> Int]

ClientTypes ==
    /\ waiting \in [StreamIds -> Requests \cup {None}]
    /\ replies \subseteq [to : Requests \cup {None}, for : Requests, from : SUBSET Requests]
    /\ panics \subseteq {"clientQueue", "clusterQueue", "respChannel"}

LoopTypes ==
    /\ clearing \in [step : {"off", "waiting", "found", "cancel"},
                     visited : SUBSET StreamIds, ctx : Requests \cup {None}]
    /\ handler \in [ctxDone : BOOLEAN, shutdownRequest : BOOLEAN,
                    reqChannelClosed : BOOLEAN,
                    requestLoop : {"running", "waiting", "done"},
                    connector : [Clusters -> {"open", "closed", "done"}],
                    respChannelClosed : BOOLEAN, responsesDone : BOOLEAN,
                    clientConnector : {"open", "stopping", "closed"},
                    stalled : SUBSET Peers]

Types == RequestTypes /\ MessageTypes /\ ClientTypes /\ LoopTypes

-----------------------------------------------------------------------------
(* The steps of the handler without alternatives: every action of            *)
(* ClientHandler is one of these, with what the invariants say of its guard. *)

\* enqueueRequest, requestLoop or executeRequest answers at once.
Refuse(r) ==
    /\ rpc[r] \in {"read", "queued", "handling"}
    /\ rpc' = [rpc EXCEPT ![r] = "handled"]
    /\ SendResponseToClient(r, {})
    /\ UNCHANGED <<stream, decision, ctx, got, holder, messageVars, countVars, loopVars>>

\* A request moves on, and nothing else changes.
Advance(r, to) ==
    /\ \/ rpc[r] = "read" /\ to = "queued" /\ ~handler.reqChannelClosed
       \/ rpc[r] = "queued" /\ to = "handling" /\ handler.requestLoop = "running"
       \/ rpc[r] = "handling" /\ to = "handled"
       \/ rpc[r] = "sendTarget" /\ to = "handled"
    /\ rpc' = [rpc EXCEPT ![r] = to]
    /\ UNCHANGED <<stream, decision, ctx, got, holder, messageVars, countVars, clientVars, loopVars>>

Store(r) ==
    /\ rpc[r] = "handling" /\ decision[r] \in {"origin", "target", "both"}
    /\ holder[stream[r]] = None
    /\ rpc' = [rpc EXCEPT ![r] = "stored"]
    /\ ctx' = [ctx EXCEPT ![r] = "pending"]
    /\ holder' = [holder EXCEPT ![stream[r]] = r]
    /\ UNCHANGED <<stream, decision, got, messageVars, countVars, clientVars, loopVars>>

\* A frame goes to cluster c, to the first or the only one or then to the target.
Send(r, c, to) ==
    /\ \/ rpc[r] = "sending" /\ decision[r] = "both" /\ c = "origin" /\ to = "sendTarget"
       \/ rpc[r] = "sending" /\ decision[r] = c /\ to = "handled"
       \/ rpc[r] = "sendTarget" /\ decision[r] = "both" /\ c = "target" /\ to = "handled"
    /\ mpc[<<r, c>>] = "none"
    /\ mpc' = [mpc EXCEPT ![<<r, c>>] = "sent"]
    /\ rpc' = [rpc EXCEPT ![r] = to]
    /\ panics' = panics \cup (IF handler.requestLoop = "done" THEN {"clusterQueue"} ELSE {})
    /\ UNCHANGED <<stream, decision, ctx, got, holder, mctx, isProtocolError,
                   protocolErrOccurred, countVars, waiting, replies, loopVars>>

Overloaded(r) ==
    /\ rpc[r] = "sending"
    /\ rpc' = [rpc EXCEPT ![r] = "handled"]
    /\ SendResponseToClient(r, {})
    /\ UNCHANGED <<stream, decision, ctx, got, holder, messageVars, countVars, loopVars>>

\* A response is read or a timer fires.
Read(m, to) ==
    /\ mpc[m] \in {"sent", "armed"} /\ to \in {"read", "direct"}
    /\ to = "read" => \/ mpc[m] = "sent" /\ m[2] \in Clusters /\ handler.connector[m[2]] = "open"
                      \/ mpc[m] = "armed" /\ m[2] = "timer" /\ ~handler.respChannelClosed
    /\ to = "direct" => m[2] = "timer"
    /\ mpc' = [mpc EXCEPT ![m] = to]
    /\ isProtocolError' \subseteq Messages
    /\ m[2] = "timer" => isProtocolError' = isProtocolError
    /\ UNCHANGED <<requestVars, mctx, protocolErrOccurred, countVars, clientVars, loopVars>>

Publish(m) ==
    /\ mpc[m] = "read"
    /\ mpc' = [mpc EXCEPT ![m] = "queued"]
    /\ panics' = panics \cup (IF handler.respChannelClosed THEN {"respChannel"} ELSE {})
    /\ UNCHANGED <<requestVars, mctx, isProtocolError, protocolErrOccurred, countVars,
                   waiting, replies, loopVars>>

\* The first protocol error is forwarded, the others are dropped.
ForwardError(m) ==
    /\ mpc[m] = "queued"
    /\ mpc' = [mpc EXCEPT ![m] = "done"]
    /\ protocolErrOccurred' = TRUE
    /\ SendResponseToClient(m[1], {m[1]})
    /\ UNCHANGED <<requestVars, mctx, isProtocolError, countVars, loopVars>>

\* The worker of m reads the context, if there is one.
Find(m, to) ==
    /\ mpc[m] = "queued"
    /\ to = IF holder[stream[m[1]]] = None THEN "done" ELSE "found"
    /\ mpc' = [mpc EXCEPT ![m] = to]
    /\ mctx' = [mctx EXCEPT ![m] = holder[stream[m[1]]]]
    /\ UNCHANGED <<requestVars, isProtocolError, protocolErrOccurred, countVars, clientVars, loopVars>>

\* m has no effect on a context: an error after the first, or a context that is
\* not pending or not the one of the timer.
Ignore(m) ==
    /\ \/ mpc[m] = "queued" /\ protocolErrOccurred /\ mctx' = mctx
       \/ mpc[m] \in {"found", "direct"} /\ mctx' = [mctx EXCEPT ![m] = None]
    /\ mpc' = [mpc EXCEPT ![m] = "done"]
    /\ UNCHANGED <<requestVars, isProtocolError, protocolErrOccurred, countVars, clientVars, loopVars>>

\* SetResponse of a context that waits for the other response.
SetFirst(m, r) ==
    /\ mpc[m] = "found" /\ m[2] \in Clusters /\ mctx[m] = r /\ ctx[r] = "pending"
    /\ mpc' = [mpc EXCEPT ![m] = "done"]
    /\ mctx' = [mctx EXCEPT ![m] = None]
    /\ got' = [got EXCEPT ![r] = [got[r] EXCEPT ![m[2]] = m[1]]]
    /\ UNCHANGED <<stream, decision, rpc, ctx, holder, isProtocolError,
                   protocolErrOccurred, countVars, clientVars, loopVars>>

\* SetResponse with the last response.
SetLast(m, r) ==
    /\ mpc[m] = "found" /\ m[2] \in Clusters /\ mctx[m] = r /\ ctx[r] = "pending"
    /\ ctx' = [ctx EXCEPT ![r] = "done"]
    /\ mpc' = StopTimer(r, [mpc EXCEPT ![m] = "finish"])
    /\ got' = [got EXCEPT ![r] = [got[r] EXCEPT ![m[2]] = m[1]]]
    /\ UNCHANGED <<stream, decision, rpc, holder, mctx, isProtocolError,
                   protocolErrOccurred, countVars, clientVars, loopVars>>

TimeOut(m, r, to) ==
    /\ mpc[m] \in {"found", "direct"} /\ m[2] = "timer" /\ m[1] = r /\ ctx[r] = "pending"
    /\ to \in {"finish", "directFinish"}
    /\ ctx' = [ctx EXCEPT ![r] = "timedout"]
    /\ mpc' = [mpc EXCEPT ![m] = to]
    /\ mctx' = [mctx EXCEPT ![m] = r]
    /\ UNCHANGED <<stream, decision, rpc, got, holder, isProtocolError,
                   protocolErrOccurred, countVars, clientVars, loopVars>>

Free(m, r, to) ==
    /\ Clearing(m) /\ mctx[m] = r /\ to \in {"cleared", "directCleared"}
    /\ ClearHolder(r)
    /\ inFlight' = [inFlight EXCEPT ![decision[r]] = @ - 1]
    /\ mpc' = [mpc EXCEPT ![m] = to]
    /\ UNCHANGED <<stream, decision, rpc, ctx, got, mctx, isProtocolError,
                   protocolErrOccurred, wg, clientVars, loopVars>>

\* The answer to r, if there is one.
Answer(r) ==
    \/ UNCHANGED clientVars
    \/ Complete(r, got[r]) /\ SendResponseToClient(r, {got[r][c] : c \in Clusters} \ {None})

Leave(m, r) ==
    /\ mpc[m] \in {"cleared", "directCleared"} /\ mctx[m] = r
    /\ Answer(r)
    /\ wg' = wg - 1
    /\ mpc' = [mpc EXCEPT ![m] = "done"]
    /\ mctx' = [mctx EXCEPT ![m] = None]
    /\ got' = [got EXCEPT ![r] = [c \in Clusters |-> None]]
    /\ UNCHANGED <<stream, decision, rpc, ctx, holder, isProtocolError, protocolErrOccurred, inFlight, loopVars>>

\* Cancel of a context that is pending, and of one that is not.
CancelPending(r) ==
    /\ clearing.step = "found" /\ clearing.ctx = r /\ ctx[r] = "pending"
    /\ ctx' = [ctx EXCEPT ![r] = "canceled"]
    /\ mpc' = StopTimer(r, mpc)
    /\ clearing' = [clearing EXCEPT !.step = "cancel"]
    /\ UNCHANGED <<stream, decision, rpc, got, holder, mctx, isProtocolError,
                   protocolErrOccurred, countVars, clientVars, handler>>

CancelSkip ==
    /\ clearing.step = "found"
    /\ NextHolder
    /\ UNCHANGED <<requestVars, messageVars, countVars, clientVars, handler>>

CancelLeave(r) ==
    /\ clearing.step = "cancel" /\ clearing.ctx = r
    /\ ClearHolder(r)
    /\ inFlight' = [inFlight EXCEPT ![decision[r]] = @ - 1]
    /\ wg' = wg - 1
    /\ NextHolder
    /\ got' = [got EXCEPT ![r] = [c \in Clusters |-> None]]
    /\ UNCHANGED <<stream, decision, rpc, ctx, messageVars, clientVars, handler>>

RequestStep(r) ==
    \/ ReadRequest(r) \/ Refuse(r) \/ Store(r) \/ StartTimer(r) \/ Overloaded(r)
    \/ \E to \in {"queued", "handling", "handled"} : Advance(r, to)
    \/ \E c \in Clusters, to \in {"sendTarget", "handled"} : Send(r, c, to)

MessageStep(m) ==
    \/ \E to \in {"read", "direct"} : Read(m, to)
    \/ Publish(m) \/ ForwardError(m) \/ Ignore(m)
    \/ \E to \in {"done", "found"} : Find(m, to)

ContextStep(m, r) ==
    \/ SetFirst(m, r) \/ SetLast(m, r) \/ Leave(m, r)
    \/ \E to \in {"finish", "directFinish"} : TimeOut(m, r, to)
    \/ \E to \in {"cleared", "directCleared"} : Free(m, r, to)

Stalls == \E p \in Peers : Stall(p)

\* The steps of the peers and of the loops, which change handler and clearing only.
LoopStep ==
    \/ CancelContext \/ Stalls \/ RequestShutdown \/ SetDrainMode \/ DrainRequests \/ EndRequestLoop
    \/ \E s \in StreamIds : ClearGet(s)
    \/ \E c \in Clusters : CloseConnection(c) \/ EndConnector(c)
    \/ CloseRespChannel \/ EndResponseLoop \/ StopClientConnector \/ CloseClientConnector

LEMMA MessageParts ==
    /\ \A r \in Requests, k \in Kinds : <<r, k>> \in Messages
    /\ \A m \in Messages : m[1] \in Requests /\ m[2] \in Kinds /\ m = <<m[1], m[2]>>
  BY DEF Messages, Kinds

LEMMA EnqueueCases ==
    ASSUME NEW r \in Requests, EnqueueRequest(r)
    PROVE  Refuse(r) \/ Advance(r, "queued")
<1>1. CASE handler.reqChannelClosed
  BY Zenon, <1>1 DEF EnqueueRequest, Refuse
<1>2. CASE ~handler.reqChannelClosed
  BY Zenon, <1>2 DEF EnqueueRequest, Advance
<1> QED
  BY Zenon, <1>1, <1>2

LEMMA TakeCases ==
    ASSUME NEW r \in Requests, TakeRequest(r)
    PROVE  Refuse(r) \/ Advance(r, "handling")
<1>1. CASE handler.shutdownRequest
  BY Zenon, <1>1 DEF TakeRequest, Refuse
<1>2. CASE ~handler.shutdownRequest
  BY Zenon, <1>2 DEF TakeRequest, Advance
<1> QED
  BY Zenon, <1>1, <1>2

LEMMA ExecuteCases ==
    ASSUME NEW r \in Requests, ExecuteRequest(r)
    PROVE  Refuse(r) \/ Advance(r, "handled") \/ Store(r)
<1>1. CASE decision[r] = "none"
  BY Zenon, <1>1 DEF ExecuteRequest, Refuse
<1>2. CASE decision[r] = "error"
  BY Zenon, <1>2 DEF ExecuteRequest, Advance
<1>3. CASE decision[r] \in {"origin", "target", "both"} /\ holder[stream[r]] # None
  BY Zenon, <1>3 DEF ExecuteRequest, Advance
<1>4. CASE decision[r] \in {"origin", "target", "both"} /\ holder[stream[r]] = None
  BY Zenon, <1>4 DEF ExecuteRequest, Store
<1> QED
  BY Zenon, <1>1, <1>2, <1>3, <1>4 DEF ExecuteRequest

LEMMA SentFacts ==
    ASSUME SentInv, NEW r \in Requests
    PROVE  /\ rpc[r] \in {"new", "read", "queued", "handling"} => ctx[r] = "none"
           /\ rpc[r] \in {"stored", "sending", "sendTarget"} => ctx[r] # "none"
           /\ ctx[r] # "none" => decision[r] \in {"origin", "target", "both"}
           /\ rpc[r] \notin Started => mpc[<<r, "timer">>] = "none"
           /\ rpc[r] \notin Started \/ rpc[r] = "sending" => \A c \in Clusters : mpc[<<r, c>>] = "none"
           /\ \A k \in Kinds : mpc[<<r, k>>] # "none" => rpc[r] \in Started /\ ctx[r] # "none"
<1>1. Sent(r)
  BY Zenon DEF SentInv
<1>2. \A c \in Clusters : c \in Kinds
  BY Zenon DEF Kinds
<1> QED
  BY Zenon, <1>1, <1>2 DEF Sent, Kinds

LEMMA SendCases ==
    ASSUME SentInv, NEW r \in Requests, SendRequest(r)
    PROVE  \/ Overloaded(r)
           \/ \E c \in Clusters, to \in {"sendTarget", "handled"} : Send(r, c, to)
<1> DEFINE c == IF decision[r] = "target" THEN "target" ELSE "origin"
<1> DEFINE to == IF decision[r] = "both" THEN "sendTarget" ELSE "handled"
<1>1. CASE Enqueue(r, c) /\ rpc' = [rpc EXCEPT ![r] = to]
  <2>1. decision[r] \in {"origin", "target", "both"} /\ mpc[<<r, c>>] = "none" /\ c \in Clusters
    BY Zenon DEF SentInv, Sent, SendRequest, Clusters
  <2>2. Send(r, c, to)
    BY Zenon, <1>1, <2>1 DEF SendRequest, Send, Enqueue
  <2> QED
    BY Zenon, <2>1, <2>2
<1>2. CASE SendResponseToClient(r, {}) /\ rpc' = [rpc EXCEPT ![r] = "handled"] /\ UNCHANGED mpc
  BY Zenon, <1>2 DEF SendRequest, Overloaded, messageVars
<1> QED
  BY Zenon, <1>1, <1>2 DEF SendRequest

LEMMA SendTargetCases ==
    ASSUME SentInv, NEW r \in Requests, SendToTarget(r)
    PROVE  Advance(r, "handled") \/ Send(r, "target", "handled")
<1>1. CASE Enqueue(r, "target")
  BY Zenon, <1>1 DEF SendToTarget, Send, Enqueue, SentInv, Sent
<1>2. CASE UNCHANGED <<mpc, clientVars>>
  BY Zenon, <1>2 DEF SendToTarget, Advance, messageVars
<1> QED
  BY Zenon, <1>1, <1>2 DEF SendToTarget

LEMMA ReadCases ==
    ASSUME MessageTypes, NEW r \in Requests, NEW c \in Clusters, NEW e, ReadResponse(r, c, e)
    PROVE  <<r, c>> \in Messages /\ Read(<<r, c>>, "read")
<1>1. <<r, c>> \in Messages
  BY Zenon, MessageParts DEF Kinds
<1>2. isProtocolError' \subseteq Messages
  BY Zenon, <1>1 DEF ReadResponse, MessageTypes
<1> QED
  BY Zenon, <1>1, <1>2 DEF ReadResponse, Read, Clusters

LEMMA TimerCases ==
    ASSUME MessageTypes, NEW r \in Requests, TimerFires(r)
    PROVE  Read(<<r, "timer">>, "direct") \/ Read(<<r, "timer">>, "read")
<1>1. CASE handler.respChannelClosed
  BY Zenon, <1>1 DEF TimerFires, Read, MessageTypes
<1>2. CASE ~handler.respChannelClosed
  BY Zenon, <1>2 DEF TimerFires, Read, MessageTypes
<1> QED
  BY Zenon, <1>1, <1>2

LEMMA ReceiveCases ==
    ASSUME NEW m \in Messages, ReceiveResponse(m)
    PROVE  Ignore(m) \/ ForwardError(m) \/ Find(m, "done") \/ Find(m, "found")
<1>1. CASE m \in isProtocolError /\ protocolErrOccurred
  BY Zenon, <1>1 DEF ReceiveResponse, Ignore
<1>2. CASE m \in isProtocolError /\ ~protocolErrOccurred
  BY Zenon, <1>2 DEF ReceiveResponse, ForwardError
<1>3. CASE m \notin isProtocolError /\ holder[stream[m[1]]] = None
  BY Zenon, <1>3 DEF ReceiveResponse, Find
<1>4. CASE m \notin isProtocolError /\ holder[stream[m[1]]] # None
  BY Zenon, <1>4 DEF ReceiveResponse, Find
<1> QED
  BY Zenon, <1>1, <1>2, <1>3, <1>4

LEMMA SetResponseCases ==
    ASSUME OwnerInv, NEW m \in Messages, SetResponse(m)
    PROVE  Ignore(m) \/ \E r \in Requests : SetFirst(m, r) \/ SetLast(m, r)
<1>1. PICK r \in Requests : mctx[m] = r
  BY Zenon DEF OwnerInv, SetResponse
<1>2. CASE ctx[r] # "pending"
  BY Zenon, <1>1, <1>2 DEF SetResponse, Ignore, Drop, requestVars
<1>3. CASE ctx[r] = "pending" /\ Complete(r, [got[r] EXCEPT ![m[2]] = m[1]])
  BY Zenon, <1>1, <1>3 DEF SetResponse, SetLast
<1>4. CASE ctx[r] = "pending" /\ ~Complete(r, [got[r] EXCEPT ![m[2]] = m[1]])
  BY Zenon, <1>1, <1>4 DEF SetResponse, SetFirst, Drop
<1> QED
  BY Zenon, <1>2, <1>3, <1>4

LEMMA SetTimeoutCases ==
    ASSUME NEW m \in Messages, SetTimeout(m)
    PROVE  Ignore(m) \/ TimeOut(m, m[1], "finish") \/ TimeOut(m, m[1], "directFinish")
<1> DEFINE r == IF mpc[m] = "direct" THEN m[1] ELSE mctx[m]
<1>1. CASE ctx[r] = "pending" /\ r = m[1] /\ mpc[m] = "direct"
  BY Zenon, <1>1 DEF SetTimeout, TimeOut
<1>2. CASE ctx[r] = "pending" /\ r = m[1] /\ mpc[m] # "direct"
  BY Zenon, <1>2 DEF SetTimeout, TimeOut
<1>3. CASE ~(ctx[r] = "pending" /\ r = m[1])
  BY Zenon, <1>3 DEF SetTimeout, Ignore, Drop, requestVars
<1> QED
  BY Zenon, <1>1, <1>2, <1>3

LEMMA FinishCases ==
    ASSUME OwnerInv, NEW m \in Messages, FreeStreamId(m) \/ \E ok \in BOOLEAN : FinishRequest(m, ok)
    PROVE  \E r \in Requests : Free(m, r, "cleared") \/ Free(m, r, "directCleared") \/ Leave(m, r)
<1>1. PICK r \in Requests : mctx[m] = r
  BY Zenon DEF OwnerInv, FreeStreamId, FinishRequest, Finishing
<1>2. CASE FreeStreamId(m) /\ mpc[m] = "finish"
  BY Zenon, <1>1, <1>2 DEF FreeStreamId, Free, Clearing
<1>3. CASE FreeStreamId(m) /\ mpc[m] = "directFinish"
  BY Zenon, <1>1, <1>3 DEF FreeStreamId, Free, Clearing
<1>4. ASSUME NEW ok \in BOOLEAN, FinishRequest(m, ok) PROVE Leave(m, r)
  <2>1. Answer(r)
    BY Zenon, <1>1, <1>4 DEF FinishRequest, Answer
  <2> QED
    BY Zenon, <1>1, <1>4, <2>1 DEF FinishRequest, Leave, Drop
<1> QED
  BY Zenon, <1>2, <1>3, <1>4 DEF FreeStreamId

LEMMA CancelCases ==
    ASSUME ClearingInv, Cancel \/ CancelRequest
    PROVE  CancelSkip \/ \E r \in Requests : CancelPending(r) \/ CancelLeave(r)
<1>1. PICK r \in Requests : clearing.ctx = r
  BY Zenon DEF ClearingInv, Cancel, CancelRequest
<1>2. CASE Cancel /\ ctx[r] = "pending"
  BY Zenon, <1>1, <1>2 DEF Cancel, CancelPending
<1>3. CASE Cancel /\ ctx[r] # "pending"
  BY Zenon, <1>1, <1>3 DEF Cancel, CancelSkip, requestVars, messageVars
<1>4. CASE CancelRequest
  BY Zenon, <1>1, <1>4 DEF CancelRequest, CancelLeave
<1> QED
  BY Zenon, <1>2, <1>3, <1>4

\* Every step of the specification is one of the steps without alternatives.
LEMMA StepCases ==
    ASSUME Types, SentInv, ContextInv, [Next]_vars
    PROVE  \/ LoopStep \/ CancelSkip \/ UNCHANGED vars
           \/ \E r \in Requests : CancelPending(r) \/ CancelLeave(r)
           \/ \E r \in Requests : RequestStep(r)
           \/ \E m \in Messages : MessageStep(m)
           \/ \E m \in Messages, r \in Requests : ContextStep(m, r)
<1> USE DEF Types, ContextInv
<1>1. CASE Cancel \/ CancelRequest
  BY Zenon, <1>1, CancelCases
<1>2. ASSUME NEW r \in Requests,
             \/ EnqueueRequest(r) \/ TakeRequest(r) \/ ExecuteRequest(r) \/ SendRequest(r)
             \/ SendToTarget(r) \/ ReadRequest(r) \/ StartTimer(r)
      PROVE  RequestStep(r)
  BY Zenon, <1>2, EnqueueCases, TakeCases, ExecuteCases, SendCases, SendTargetCases
     DEF RequestStep, Clusters
<1>3. ASSUME NEW r \in Requests, NEW k \in Kinds, <<r, k>> \in Messages,
             \/ k = "timer" /\ (TimerFires(r) \/ PublishTimeout(r))
             \/ k \in Clusters /\ (PublishResponse(r, k) \/ \E e : ReadResponse(r, k, e))
      PROVE  MessageStep(<<r, k>>)
  <2>1. PublishTimeout(r) => Publish(<<r, "timer">>)
    BY Zenon DEF PublishTimeout, Publish
  <2>2. \A c \in Clusters : PublishResponse(r, c) => Publish(<<r, c>>)
    BY Zenon DEF PublishResponse, Publish
  <2> QED
    BY Zenon, <1>3, <2>1, <2>2, ReadCases, TimerCases DEF MessageStep
<1>4. ASSUME NEW m \in Messages,
             \/ ReceiveResponse(m) \/ SetResponse(m) \/ SetTimeout(m)
             \/ FreeStreamId(m) \/ \E ok \in BOOLEAN : FinishRequest(m, ok)
      PROVE  MessageStep(m) \/ \E r \in Requests : ContextStep(m, r)
  BY Zenon, <1>4, ReceiveCases, SetResponseCases, SetTimeoutCases, FinishCases, MessageParts
     DEF MessageStep, ContextStep
<1>5. CASE ProxyStep
  <2>1. ForwardCancellation => LoopStep
    BY Zenon DEF ForwardCancellation, LoopStep
  <2>2. \/ \E r \in Requests :
              \/ EnqueueRequest(r) \/ TakeRequest(r) \/ ExecuteRequest(r) \/ SendRequest(r)
              \/ SendToTarget(r) \/ ReadRequest(r) \/ StartTimer(r)
        \/ \E r \in Requests :
              TimerFires(r) \/ PublishTimeout(r) \/ \E c \in Clusters : PublishResponse(r, c)
        \/ \E m \in Messages :
              \/ ReceiveResponse(m) \/ SetResponse(m) \/ SetTimeout(m)
              \/ FreeStreamId(m) \/ \E ok \in BOOLEAN : FinishRequest(m, ok)
        \/ Cancel \/ CancelRequest \/ LoopStep
    BY Zenon, <1>5, <2>1 DEF ProxyStep, LoopStep
  <2> QED
    BY Zenon, <1>1, <1>2, <1>3, <1>4, <2>2, MessageParts DEF Kinds
<1>6. CASE \E r \in Requests : ReadRequest(r) \/ \E c \in Clusters : \E e : ReadResponse(r, c, e)
  BY Zenon, <1>2, <1>3, <1>6, MessageParts DEF Kinds
<1>7. CASE Terminated \/ CancelContext \/ RequestShutdown \/ \E p \in Stalling : Stall(p)
  <2>1. Stalling \subseteq Peers
    BY Zenon, ConstantsAssumption
  <2> QED
    BY Zenon, <1>7, <2>1 DEF Terminated, LoopStep, Stalls
<1>8. CASE \E m \in Messages : FinishRequest(m, FALSE)
  BY Zenon, <1>4, <1>8
<1> QED
  BY Zenon, <1>5, <1>6, <1>7, <1>8 DEF Next

-----------------------------------------------------------------------------
(* What the steps leave alone. *)

\* The timer of r is stopped, or not.
TimerOnly(r, n) == mpc'[n] # mpc[n] => n = <<r, "timer">> /\ mpc[n] = "armed" /\ mpc'[n] = "done"

\* The cancellation of r changes no other request and no message but the timer.
CancelOnly(r) ==
    /\ UNCHANGED <<stream, decision, rpc, mctx, isProtocolError, protocolErrOccurred, clientVars, handler>>
    /\ \A q \in Requests : q # r => ctx'[q] = ctx[q] /\ got'[q] = got[q]
    /\ \A n \in Messages : TimerOnly(r, n)

\* A request makes its own messages and changes no other request.
RequestOnly(r) ==
    /\ UNCHANGED <<stream, decision, got, mctx, isProtocolError, protocolErrOccurred, loopVars>>
    /\ \A q \in Requests : q # r => rpc'[q] = rpc[q] /\ ctx'[q] = ctx[q]
    /\ ctx'[r] # ctx[r] => ctx[r] = "none" /\ ctx'[r] = "pending"
    /\ \A n \in Messages : mpc'[n] # mpc[n] =>
          n[1] = r /\ mpc[n] = "none" /\ mpc'[n] \in {"armed", "sent"}

\* A message that completes no context changes nothing but itself and, if it is
\* the first protocol error, what the client sees.
MessageOnly(m) ==
    /\ UNCHANGED <<requestVars, countVars, loopVars>>
    /\ \A n \in Messages : n # m => mpc'[n] = mpc[n] /\ mctx'[n] = mctx[n]
    /\ mpc[m] \in {"sent", "armed", "read", "queued", "found", "direct"}
    /\ \/ mpc'[m] \in {"read", "direct", "queued", "done"}
       \/ /\ mpc[m] = "queued" /\ mpc'[m] = "found"
          /\ mctx'[m] = holder[stream[m[1]]] /\ mctx'[m] # None
    /\ protocolErrOccurred' \/ UNCHANGED <<protocolErrOccurred, waiting, replies>>

\* A message that completes the context of r changes no other request and no
\* other message but the timer.
ContextOnly(m, r) ==
    /\ UNCHANGED <<stream, decision, rpc, isProtocolError, protocolErrOccurred, loopVars>>
    /\ \A q \in Requests : q # r => ctx'[q] = ctx[q] /\ got'[q] = got[q]
    /\ ctx'[r] # ctx[r] => ctx[r] = "pending" /\ ctx'[r] \in {"done", "timedout"}
    /\ \A n \in Messages : n # m => mctx'[n] = mctx[n] /\ TimerOnly(r, n)
    /\ mpc[m] \notin {"none", "sent", "read", "queued"}
    /\ mpc'[m] \in {"done", "finish", "directFinish", "cleared", "directCleared"}

LEMMA IdleFrame ==
    ASSUME LoopStep \/ CancelSkip \/ UNCHANGED vars
    PROVE  UNCHANGED <<requestVars, messageVars, countVars, clientVars>>
  BY Zenon DEF LoopStep, CancelContext, Stalls, Stall, RequestShutdown, SetDrainMode, DrainRequests,
     EndRequestLoop,
         ClearGet, CloseConnection, EndConnector, CloseRespChannel, EndResponseLoop,
         StopClientConnector, CloseClientConnector, Unaffected, CancelSkip, vars

LEMMA CancelFrame ==
    ASSUME RequestTypes, MessageTypes, NEW r \in Requests, CancelPending(r) \/ CancelLeave(r)
    PROVE  CancelOnly(r)
  BY Zenon DEF CancelPending, CancelLeave, CancelOnly, TimerOnly, StopTimer, messageVars,
         RequestTypes, MessageTypes

LEMMA RequestFrame ==
    ASSUME RequestTypes, MessageTypes, SentInv, NEW r \in Requests, RequestStep(r)
    PROVE  RequestOnly(r)
<1>0. CASE Store(r)
  <2>1. ctx[r] = "none"
    BY Zenon, <1>0, SentFacts DEF Store
  <2> QED
    BY Zenon, <1>0, <2>1 DEF Store, RequestOnly, messageVars, RequestTypes
<1>1. CASE ReadRequest(r) \/ Refuse(r) \/ Overloaded(r)
           \/ \E to \in {"queued", "handling", "handled"} : Advance(r, to)
  BY Zenon, <1>1 DEF ReadRequest, Refuse, Overloaded, Advance, RequestOnly, messageVars,
     RequestTypes
<1>2. CASE StartTimer(r)
  <2>1. mpc[<<r, "timer">>] = "none"
    BY Zenon, <1>2, SentFacts DEF StartTimer, Started, Kinds
  <2>2. \A n \in Messages : mpc'[n] # mpc[n] => n = <<r, "timer">> /\ mpc'[n] = "armed"
    BY Zenon, <1>2 DEF StartTimer, MessageTypes
  <2>3. ctx' = ctx /\ \A q \in Requests : q # r => rpc'[q] = rpc[q]
    BY Zenon, <1>2 DEF StartTimer, RequestTypes
  <2>4. UNCHANGED <<stream, decision, got, mctx, isProtocolError, protocolErrOccurred, loopVars>>
    BY Zenon, <1>2 DEF StartTimer
  <2> QED
    BY <2>1, <2>2, <2>3, <2>4 DEF RequestOnly
<1>3. ASSUME NEW c \in Clusters, NEW to \in {"sendTarget", "handled"}, Send(r, c, to)
      PROVE  RequestOnly(r)
  <2>1. \A n \in Messages : mpc'[n] # mpc[n] => n = <<r, c>> /\ mpc[n] = "none" /\ mpc'[n] = "sent"
    BY Zenon, <1>3 DEF Send, MessageTypes
  <2>2. ctx' = ctx /\ \A q \in Requests : q # r => rpc'[q] = rpc[q]
    BY Zenon, <1>3 DEF Send, RequestTypes
  <2>3. UNCHANGED <<stream, decision, got, mctx, isProtocolError, protocolErrOccurred, loopVars>>
    BY Zenon, <1>3 DEF Send
  <2> QED
    BY <2>1, <2>2, <2>3 DEF RequestOnly
<1> QED
  BY Zenon, <1>0, <1>1, <1>2, <1>3 DEF RequestStep

LEMMA MessageFrame ==
    ASSUME MessageTypes, NEW m \in Messages, MessageStep(m)
    PROVE  MessageOnly(m)
<1>1. CASE (\E to \in {"read", "direct"} : Read(m, to)) \/ Publish(m)
  BY Zenon, <1>1 DEF Read, Publish, MessageOnly, clientVars, MessageTypes
<1>2. CASE ForwardError(m) \/ Ignore(m)
  BY Zenon, <1>2 DEF ForwardError, Ignore, MessageOnly, clientVars, MessageTypes
<1>3. CASE \E to \in {"done", "found"} : Find(m, to)
  BY Zenon, <1>3 DEF Find, MessageOnly, clientVars, MessageTypes
<1> QED
  BY Zenon, <1>1, <1>2, <1>3 DEF MessageStep

LEMMA ContextFrame ==
    ASSUME RequestTypes, MessageTypes, NEW m \in Messages, NEW r \in Requests, ContextStep(m, r)
    PROVE  ContextOnly(m, r)
<1>1. CASE SetFirst(m, r) \/ Leave(m, r)
  BY Zenon, <1>1 DEF SetFirst, Leave, ContextOnly, TimerOnly, RequestTypes, MessageTypes
<1>2. CASE SetLast(m, r)
  <2>1. \A n \in Messages : n # m => TimerOnly(r, n)
    BY Zenon, <1>2 DEF SetLast, StopTimer, TimerOnly, MessageTypes
  <2>2. mpc'[m] = "finish"
    BY Zenon, <1>2 DEF SetLast, StopTimer, MessageTypes
  <2> QED
    BY Zenon, <1>2, <2>1, <2>2 DEF SetLast, ContextOnly, RequestTypes
<1>3. CASE \E to \in {"finish", "directFinish"} : TimeOut(m, r, to)
  BY Zenon, <1>3 DEF TimeOut, ContextOnly, TimerOnly, RequestTypes, MessageTypes
<1>4. CASE \E to \in {"cleared", "directCleared"} : Free(m, r, to)
  BY Zenon, <1>4 DEF Free, Clearing, ContextOnly, TimerOnly, RequestTypes, MessageTypes
<1> QED
  BY Zenon, <1>1, <1>2, <1>3, <1>4 DEF ContextStep

-----------------------------------------------------------------------------
(* Types. *)

LEMMA RequestTypesStep ==
    ASSUME Types, SentInv, ContextInv, [Next]_vars
    PROVE  RequestTypes'
<1> USE DEF Types
<1>1. CASE LoopStep \/ CancelSkip \/ UNCHANGED vars
  BY Zenon, <1>1, IdleFrame DEF requestVars, RequestTypes
<1>2. ASSUME NEW r \in Requests, CancelPending(r) \/ CancelLeave(r) PROVE RequestTypes'
  <2>1. CASE CancelPending(r)
    BY Zenon, <2>1 DEF CancelPending, RequestTypes
  <2>2. CASE CancelLeave(r)
    BY Zenon, <2>2 DEF CancelLeave, ClearHolder, RequestTypes
  <2> QED
    BY Zenon, <1>2, <2>1, <2>2
<1>3. ASSUME NEW r \in Requests, RequestStep(r) PROVE RequestTypes'
  <2>1. CASE ReadRequest(r) \/ Refuse(r)
    BY Zenon, <2>1 DEF ReadRequest, Refuse, RequestTypes
  <2>2. CASE Store(r)
    BY Zenon, <2>2 DEF Store, RequestTypes
  <2>3. CASE StartTimer(r) \/ Overloaded(r)
    BY Zenon, <2>3 DEF StartTimer, Overloaded, RequestTypes
  <2>4. ASSUME NEW to \in {"queued", "handling", "handled"}, Advance(r, to) PROVE RequestTypes'
    BY Zenon, <2>4 DEF Advance, RequestTypes
  <2>5. ASSUME NEW c \in Clusters, NEW to \in {"sendTarget", "handled"}, Send(r, c, to) PROVE RequestTypes'
    BY Zenon, <2>5 DEF Send, RequestTypes
  <2> QED
    BY Zenon, <1>3, <2>1, <2>2, <2>3, <2>4, <2>5 DEF RequestStep
<1>4. ASSUME NEW m \in Messages, MessageStep(m) PROVE RequestTypes'
  BY Zenon, <1>4, MessageFrame DEF MessageOnly, requestVars, RequestTypes
<1>5. ASSUME NEW m \in Messages, NEW r \in Requests, ContextStep(m, r) PROVE RequestTypes'
  <2>1. CASE SetFirst(m, r)
    BY Zenon, <2>1, MessageParts DEF SetFirst, RequestTypes
  <2>2. CASE SetLast(m, r)
    BY Zenon, <2>2, MessageParts DEF SetLast, RequestTypes
  <2>3. ASSUME NEW to \in {"cleared", "directCleared"}, Free(m, r, to) PROVE RequestTypes'
    BY Zenon, <2>3 DEF Free, ClearHolder, RequestTypes
  <2>4. CASE Leave(m, r)
    BY Zenon, <2>4 DEF Leave, RequestTypes
  <2>5. ASSUME NEW to \in {"finish", "directFinish"}, TimeOut(m, r, to) PROVE RequestTypes'
    BY Zenon, <2>5 DEF TimeOut, RequestTypes
  <2> QED
    BY Zenon, <1>5, <2>1, <2>2, <2>3, <2>4, <2>5 DEF ContextStep
<1> QED
  BY Zenon, <1>1, <1>2, <1>3, <1>4, <1>5, StepCases

LEMMA MessageTypesStep ==
    ASSUME Types, SentInv, ContextInv, [Next]_vars
    PROVE  MessageTypes'
<1> USE DEF Types
<1>1. CASE LoopStep \/ CancelSkip \/ UNCHANGED vars
  BY Zenon, <1>1, IdleFrame DEF messageVars, countVars, MessageTypes
<1>2. ASSUME NEW r \in Requests, CancelPending(r) \/ CancelLeave(r) PROVE MessageTypes'
  <2>1. CASE CancelPending(r)
    <3>1. mpc' \in [Messages -> MessagePcs]
      BY Zenon, <2>1 DEF CancelPending, StopTimer, MessageTypes, MessagePcs
    <3> QED
      BY Zenon, <2>1, <3>1 DEF CancelPending, countVars, MessageTypes
  <2>2. CASE CancelLeave(r)
    <3>1. decision[r] \in {"origin", "target", "both"}
      BY Zenon, <2>2, SentFacts DEF CancelLeave, ContextInv, ClearingInv
    <3>2. inFlight' \in [{"origin", "target", "both"} -> Int] /\ wg' \in Int
      BY <2>2, <3>1 DEF CancelLeave, MessageTypes
    <3>3. /\ mpc' \in [Messages -> MessagePcs] /\ mctx' \in [Messages -> Requests \cup {None}]
          /\ isProtocolError' \subseteq Messages /\ protocolErrOccurred' \in BOOLEAN
      BY Zenon, <2>2, MessageParts DEF CancelLeave, MessageTypes, MessagePcs, messageVars
    <3> QED
      BY Zenon, <3>2, <3>3 DEF MessageTypes
  <2> QED
    BY Zenon, <1>2, <2>1, <2>2
<1>3. ASSUME NEW r \in Requests, RequestStep(r) PROVE MessageTypes'
  <2>1. CASE StartTimer(r)
    <3>1. decision[r] \in {"origin", "target", "both"}
      BY Zenon, <2>1, SentFacts DEF StartTimer
    <3>2. inFlight' \in [{"origin", "target", "both"} -> Int] /\ wg' \in Int
      BY <2>1, <3>1 DEF StartTimer, MessageTypes
    <3>3. /\ mpc' \in [Messages -> MessagePcs] /\ mctx' \in [Messages -> Requests \cup {None}]
          /\ isProtocolError' \subseteq Messages /\ protocolErrOccurred' \in BOOLEAN
      BY Zenon, <2>1, MessageParts DEF StartTimer, MessageTypes, MessagePcs, Kinds
    <3> QED
      BY Zenon, <3>2, <3>3 DEF MessageTypes
  <2>2. ASSUME NEW c \in Clusters, NEW to \in {"sendTarget", "handled"}, Send(r, c, to) PROVE MessageTypes'
    BY Zenon, <2>2, MessageParts DEF Send, MessageTypes, MessagePcs, Kinds, countVars
  <2>3. CASE ReadRequest(r) \/ Refuse(r) \/ Store(r) \/ Overloaded(r)
             \/ (\E to \in {"queued", "handling", "handled"} : Advance(r, to))
    BY Zenon, <2>3 DEF ReadRequest, Refuse, Store, Overloaded, Advance, messageVars, countVars,
       MessageTypes
  <2> QED
    BY Zenon, <1>3, <2>1, <2>2, <2>3 DEF RequestStep
<1>4. ASSUME NEW m \in Messages, MessageStep(m) PROVE MessageTypes'
  <2>1. ASSUME NEW to \in {"done", "found"}, Find(m, to) PROVE MessageTypes'
    BY Zenon, <2>1, MessageParts DEF Find, RequestTypes, MessageTypes, MessagePcs, countVars
  <2>2. CASE (\E to \in {"read", "direct"} : Read(m, to)) \/ Publish(m) \/ ForwardError(m)
             \/ Ignore(m)
    BY Zenon, <2>2 DEF Read, Publish, ForwardError, Ignore, MessageTypes, MessagePcs, countVars
  <2> QED
    BY Zenon, <1>4, <2>1, <2>2 DEF MessageStep
<1>5. ASSUME NEW m \in Messages, NEW r \in Requests, ContextStep(m, r) PROVE MessageTypes'
  <2>1. ASSUME NEW to \in {"cleared", "directCleared"}, Free(m, r, to) PROVE MessageTypes'
    <3>1. decision[r] \in {"origin", "target", "both"}
      BY Zenon, <2>1, SentFacts DEF Free, SentInv, ContextInv, OwnerInv, Clearing, Finishing
    <3>2. inFlight' \in [{"origin", "target", "both"} -> Int] /\ wg' \in Int
      BY <2>1, <3>1 DEF Free, MessageTypes
    <3>3. /\ mpc' \in [Messages -> MessagePcs] /\ mctx' \in [Messages -> Requests \cup {None}]
          /\ isProtocolError' \subseteq Messages /\ protocolErrOccurred' \in BOOLEAN
      BY Zenon, <2>1, MessageParts DEF Free, MessageTypes, MessagePcs
    <3> QED
      BY Zenon, <3>2, <3>3 DEF MessageTypes
  <2>2. CASE SetLast(m, r)
    BY Zenon, <2>2 DEF SetLast, StopTimer, MessageTypes, MessagePcs, countVars
  <2>3. CASE SetFirst(m, r) \/ Leave(m, r)
             \/ (\E to \in {"finish", "directFinish"} : TimeOut(m, r, to))
    BY <2>3 DEF SetFirst, TimeOut, Leave, MessageTypes, MessagePcs, countVars
  <2> QED
    BY Zenon, <1>5, <2>1, <2>2, <2>3 DEF ContextStep
<1> QED
  BY Zenon, <1>1, <1>2, <1>3, <1>4, <1>5, StepCases

LEMMA SendTypes ==
    ASSUME RequestTypes, ClientTypes, NEW r \in Requests, NEW S \in SUBSET Requests,
           SendResponseToClient(r, S)
    PROVE  ClientTypes'
<1>1. [to |-> waiting[stream[r]], for |-> r, from |-> S] \in
          [to : Requests \cup {None}, for : Requests, from : SUBSET Requests]
  BY Zenon DEF ClientTypes, RequestTypes
<1>2. replies' \subseteq [to : Requests \cup {None}, for : Requests, from : SUBSET Requests]
  BY Zenon, <1>1 DEF SendResponseToClient, ClientTypes
<1>3. waiting' \in [StreamIds -> Requests \cup {None}]
  BY Zenon DEF SendResponseToClient, ClientTypes
<1>4. panics' \subseteq {"clientQueue", "clusterQueue", "respChannel"}
  BY Zenon DEF SendResponseToClient, ClientTypes
<1> QED
  BY Zenon, <1>2, <1>3, <1>4 DEF ClientTypes

LEMMA ClientTypesStep ==
    ASSUME Types, SentInv, ContextInv, [Next]_vars
    PROVE  ClientTypes'
<1> USE DEF Types
<1>1. CASE LoopStep \/ CancelSkip \/ UNCHANGED vars
  BY Zenon, <1>1, IdleFrame DEF clientVars, ClientTypes
<1>2. ASSUME NEW r \in Requests, CancelPending(r) \/ CancelLeave(r) PROVE ClientTypes'
  BY Zenon, <1>2, CancelFrame DEF CancelOnly, clientVars, ClientTypes
<1>3. ASSUME NEW r \in Requests, RequestStep(r) PROVE ClientTypes'
  <2>1. CASE Refuse(r) \/ Overloaded(r)
    BY Zenon, <2>1, SendTypes DEF Refuse, Overloaded
  <2>2. CASE ReadRequest(r)
    BY Zenon, <2>2 DEF ReadRequest, RequestTypes, ClientTypes
  <2>3. CASE Store(r) \/ StartTimer(r)
             \/ (\E to \in {"queued", "handling", "handled"} : Advance(r, to))
             \/ (\E c \in Clusters, to \in {"sendTarget", "handled"} : Send(r, c, to))
    BY Zenon, <2>3 DEF Store, StartTimer, Advance, Send, clientVars, RequestTypes, ClientTypes
  <2> QED
    BY Zenon, <1>3, <2>1, <2>2, <2>3 DEF RequestStep
<1>4. ASSUME NEW m \in Messages, MessageStep(m) PROVE ClientTypes'
  <2>1. CASE ForwardError(m)
    <3>1. m[1] \in Requests /\ {m[1]} \in SUBSET Requests
      BY Zenon, MessageParts
    <3> QED
      BY Zenon, <2>1, <3>1, SendTypes DEF ForwardError
  <2>2. CASE (\E to \in {"read", "direct"} : Read(m, to)) \/ Publish(m) \/ Ignore(m)
             \/ (\E to \in {"done", "found"} : Find(m, to))
    BY Zenon, <2>2 DEF Read, Publish, Ignore, Find, clientVars, ClientTypes
  <2> QED
    BY Zenon, <1>4, <2>1, <2>2 DEF MessageStep
<1>5. ASSUME NEW m \in Messages, NEW r \in Requests, ContextStep(m, r) PROVE ClientTypes'
  <2>1. CASE Leave(m, r)
    <3>1. {got[r][c] : c \in Clusters} \ {None} \in SUBSET Requests
      BY DEF RequestTypes
    <3>2. CASE UNCHANGED clientVars
      BY Zenon, <3>2 DEF clientVars, ClientTypes
    <3> QED
      BY Zenon, <2>1, <3>1, <3>2, SendTypes DEF Leave, Answer
  <2>2. CASE SetFirst(m, r) \/ SetLast(m, r)
             \/ (\E to \in {"finish", "directFinish"} : TimeOut(m, r, to))
             \/ (\E to \in {"cleared", "directCleared"} : Free(m, r, to))
    BY Zenon, <2>2 DEF SetFirst, SetLast, TimeOut, Free, clientVars, ClientTypes
  <2> QED
    BY Zenon, <1>5, <2>1, <2>2 DEF ContextStep
<1> QED
  BY Zenon, <1>1, <1>2, <1>3, <1>4, <1>5, StepCases

LEMMA LoopTypesStep ==
    ASSUME Types, SentInv, ContextInv, [Next]_vars
    PROVE  LoopTypes'
<1> USE DEF Types
<1>1. CASE LoopStep \/ CancelSkip \/ UNCHANGED vars
  <2>0. ASSUME NEW p \in Peers, Stall(p) PROVE LoopTypes'
    BY Zenon, <2>0 DEF Stall, LoopTypes
  <2>1. CASE CancelContext \/ RequestShutdown \/ SetDrainMode
    BY Zenon, <2>1 DEF CancelContext, RequestShutdown, SetDrainMode, LoopTypes
  <2>2. CASE DrainRequests \/ EndRequestLoop \/ CloseRespChannel
    BY ZenonT(40), <2>2 DEF DrainRequests, EndRequestLoop, CloseRespChannel, LoopTypes
  <2>3. CASE EndResponseLoop \/ StopClientConnector \/ CloseClientConnector
    BY Zenon, <2>3 DEF EndResponseLoop, StopClientConnector, CloseClientConnector, LoopTypes
  <2>4. ASSUME NEW s \in StreamIds, ClearGet(s) PROVE LoopTypes'
    BY <2>4 DEF ClearGet, LoopTypes, RequestTypes
  <2>5. ASSUME NEW c \in Clusters, CloseConnection(c) \/ EndConnector(c) PROVE LoopTypes'
    BY <2>5 DEF CloseConnection, EndConnector, LoopTypes
  <2>6. CASE CancelSkip \/ UNCHANGED vars
    BY Zenon, <2>6 DEF CancelSkip, vars, NextHolder, loopVars, LoopTypes
  <2> QED
    BY Zenon, <1>1, <2>0, <2>1, <2>2, <2>3, <2>4, <2>5, <2>6 DEF LoopStep, Stalls
<1>2. ASSUME NEW r \in Requests, CancelPending(r) \/ CancelLeave(r) PROVE LoopTypes'
  BY Zenon, <1>2 DEF CancelPending, CancelLeave, NextHolder, LoopTypes
<1>3. ASSUME NEW r \in Requests, RequestStep(r) PROVE LoopTypes'
  BY <1>3, RequestFrame DEF RequestOnly, loopVars, LoopTypes
<1>4. ASSUME NEW m \in Messages, MessageStep(m) PROVE LoopTypes'
  BY Zenon, <1>4, MessageFrame DEF MessageOnly, loopVars, LoopTypes
<1>5. ASSUME NEW m \in Messages, NEW r \in Requests, ContextStep(m, r) PROVE LoopTypes'
  BY SMTT(30), <1>5, ContextFrame DEF ContextOnly, loopVars, LoopTypes
<1> QED
  BY Zenon, <1>1, <1>2, <1>3, <1>4, <1>5, StepCases

-----------------------------------------------------------------------------
(* The messages of a request and the order of the loops. *)

\* A step that moves neither q nor its messages out of their first state.
Calm(q) ==
    /\ decision'[q] = decision[q] /\ rpc'[q] = rpc[q] /\ (ctx'[q] = "none" <=> ctx[q] = "none")
    /\ \A k \in Kinds : mpc'[<<q, k>>] = "none" <=> mpc[<<q, k>>] = "none"

LEMMA CalmSent == ASSUME NEW q \in Requests, Sent(q), Calm(q) PROVE Sent(q)'
<1>1. /\ rpc'[q] \in {"new", "read", "queued", "handling"} => ctx'[q] = "none"
      /\ rpc'[q] \in {"stored", "sending", "sendTarget"} => ctx'[q] # "none"
      /\ ctx'[q] # "none" => decision'[q] \in {"origin", "target", "both"}
  BY Zenon DEF Sent, Calm
<1>2. /\ rpc'[q] \notin Started => \A k \in Kinds : mpc'[<<q, k>>] = "none"
      /\ rpc'[q] = "sending" => \A c \in Clusters : mpc'[<<q, c>>] = "none"
      /\ rpc'[q] = "sendTarget" => decision'[q] = "both" /\ mpc'[<<q, "target">>] = "none"
  BY Zenon DEF Sent, Calm, Kinds, Clusters
<1>3. /\ \A k \in Kinds : mpc'[<<q, k>>] # "none" => ctx'[q] # "none"
      /\ \A c \in Clusters : mpc'[<<q, c>>] # "none" => decision'[q] \in {c, "both"}
  BY Zenon DEF Sent, Calm, Kinds, Clusters
<1> QED
  BY Zenon, <1>1, <1>2, <1>3 DEF Sent

LEMMA SentStep ==
    ASSUME Types, SentInv, ContextInv, [Next]_vars
    PROVE  SentInv'
<1> SUFFICES ASSUME NEW q \in Requests PROVE Sent(q)'
  BY Zenon DEF SentInv
<1>0. Sent(q)
  BY Zenon DEF SentInv
<1> USE <1>0
<1>1. CASE LoopStep \/ CancelSkip \/ UNCHANGED vars
  <2>1. Calm(q)
    BY Zenon, <1>1, IdleFrame DEF Calm, requestVars, messageVars
  <2> QED
    BY Zenon, <2>1, CalmSent
<1>2. ASSUME NEW r \in Requests, CancelPending(r) \/ CancelLeave(r) PROVE Sent(q)'
  <2>0. CancelOnly(r)
    BY Zenon, <1>2, CancelFrame DEF Types
  <2>1. ctx'[q] = "none" <=> ctx[q] = "none"
    BY Zenon, <1>2 DEF CancelPending, CancelLeave, Types, RequestTypes
  <2>2. Calm(q)
    BY Zenon, <2>1, <2>0, MessageParts DEF CancelOnly, TimerOnly, Calm, Types
  <2> QED
    BY Zenon, <2>2, CalmSent
<1>3. ASSUME NEW r \in Requests, RequestStep(r) PROVE Sent(q)'
  <2>0. RequestOnly(r)
    BY Zenon, <1>3, RequestFrame DEF Types
  <2>1. CASE q # r
    <3>1. Calm(q)
      BY Zenon, <2>1, <2>0, MessageParts DEF RequestOnly, Calm, Types
    <3> QED
      BY Zenon, <3>1, CalmSent
  <2>2. CASE q = r /\ (ReadRequest(r) \/ Refuse(r) \/ Store(r) \/ Overloaded(r)
                        \/ \E to \in {"queued", "handling", "handled"} : Advance(r, to))
    <3>0. q = r
      BY Zenon, <2>2
    <3>1. CASE ReadRequest(r) \/ Refuse(r)
      BY SMTT(30), <3>0, <3>1 DEF ReadRequest, Refuse, messageVars, Sent, Started, Types,
         RequestTypes
    <3>2. CASE Store(r) \/ Overloaded(r)
      BY SMTT(30), <3>0, <3>2 DEF Store, Overloaded, messageVars, Sent, Started, Types,
         RequestTypes
    <3>3. ASSUME NEW to \in {"queued", "handling", "handled"}, Advance(r, to) PROVE Sent(q)'
      BY Zenon, <3>0, <3>3 DEF Advance, messageVars, Sent, Started, Types, RequestTypes
    <3> QED
      BY Zenon, <2>2, <3>1, <3>2, <3>3
  <2>3. CASE q = r /\ StartTimer(r)
    <3>1. \A n \in Messages : mpc'[n] = IF n = <<r, "timer">> THEN "armed" ELSE mpc[n]
      BY Zenon, <2>3 DEF StartTimer, Types, MessageTypes
    <3> QED
      BY <2>3, <3>1, MessageParts DEF StartTimer, Sent, Started, Kinds, Clusters, Types,
         RequestTypes
  <2>4. ASSUME q = r, NEW c \in Clusters, NEW to \in {"sendTarget", "handled"}, Send(r, c, to) PROVE Sent(q)'
    <3>1. /\ rpc'[q] = to /\ ctx' = ctx /\ decision' = decision
          /\ ctx[q] # "none" /\ decision[q] \in {c, "both"} /\ to \in Started
          /\ to = "sendTarget" => c = "origin" /\ decision[q] = "both" /\ mpc[<<q, "target">>] = "none"
      BY Zenon, <2>4 DEF Send, Sent, Started, Clusters, Types, RequestTypes
    <3>2. \A k \in Kinds : mpc'[<<q, k>>] = IF k = c THEN "sent" ELSE mpc[<<q, k>>]
      BY Zenon, <2>4, MessageParts DEF Send, Types, MessageTypes
    <3> QED
      BY Zenon, <3>1, <3>2 DEF Sent, Started, Kinds, Clusters
  <2> QED
    BY Zenon, <1>3, <2>1, <2>2, <2>3, <2>4 DEF RequestStep
<1>4. ASSUME NEW m \in Messages, MessageStep(m) PROVE Sent(q)'
  <2>0. MessageOnly(m)
    BY Zenon, <1>4, MessageFrame DEF Types
  <2>1. Calm(q)
    BY Zenon, <2>0, MessageParts DEF MessageOnly, requestVars, Calm, Types
  <2> QED
    BY Zenon, <2>1, CalmSent
<1>5. ASSUME NEW m \in Messages, NEW r \in Requests, ContextStep(m, r) PROVE Sent(q)'
  <2>0. ContextOnly(m, r)
    BY Zenon, <1>5, ContextFrame DEF Types
  <2>1. ctx'[q] = "none" <=> ctx[q] = "none"
    BY Zenon, <1>5 DEF ContextStep, SetFirst, SetLast, Leave, TimeOut, Free, Types, RequestTypes
  <2>2. \A k \in Kinds : mpc'[<<q, k>>] = "none" <=> mpc[<<q, k>>] = "none"
    BY Zenon, <2>0, MessageParts DEF ContextOnly, TimerOnly, Types
  <2>3. Calm(q)
    BY Zenon, <2>1, <2>2, <2>0 DEF ContextOnly, Calm, Types
  <2> QED
    BY Zenon, <2>3, CalmSent
<1> QED
  BY Zenon, <1>1, <1>2, <1>3, <1>4, <1>5, StepCases

LEMMA LoopInvStep ==
    ASSUME Types, SentInv, ContextInv, LoopInv, [Next]_vars
    PROVE  LoopInv'
<1>1. CASE LoopStep \/ CancelSkip \/ UNCHANGED vars
  <2>1. CASE CancelContext \/ Stalls \/ RequestShutdown \/ SetDrainMode \/ CloseRespChannel \/ EndResponseLoop
    BY <2>1 DEF CancelContext, Stalls, Stall, RequestShutdown, SetDrainMode, CloseRespChannel,
       EndResponseLoop, Unaffected, requestVars, LoopInv, HandlerTasks, Types, LoopTypes
  <2>2. CASE DrainRequests \/ EndRequestLoop
    BY <2>2 DEF DrainRequests, EndRequestLoop, Unaffected, requestVars, LoopInv,
       HandlerTasks, Types, LoopTypes
  <2>3. CASE StopClientConnector
    BY Zenon, <2>3 DEF StopClientConnector, Unaffected, requestVars, LoopInv, HandlerTasks, Types,
       LoopTypes
  <2>4. CASE CloseClientConnector
    BY Zenon, <2>4 DEF CloseClientConnector, Unaffected, requestVars, LoopInv, HandlerTasks, Types,
       LoopTypes
  <2>5. ASSUME NEW s \in StreamIds, ClearGet(s) PROVE LoopInv'
    BY Zenon, <2>5 DEF ClearGet, Unaffected, requestVars, LoopInv, HandlerTasks, Types, LoopTypes
  <2>6. ASSUME NEW c \in Clusters, CloseConnection(c) \/ EndConnector(c) PROVE LoopInv'
    BY <2>6 DEF CloseConnection, EndConnector, Unaffected, requestVars, LoopInv,
       HandlerTasks, Types, LoopTypes
  <2>7. CASE CancelSkip \/ UNCHANGED vars
    BY Zenon, <2>7 DEF CancelSkip, vars, NextHolder, requestVars, loopVars, LoopInv, HandlerTasks,
       Types, LoopTypes
  <2> QED
    BY Zenon, <1>1, <2>1, <2>2, <2>3, <2>4, <2>5, <2>6, <2>7 DEF LoopStep
<1>2. ASSUME NEW r \in Requests, CancelPending(r) \/ CancelLeave(r) PROVE LoopInv'
  BY <1>2 DEF CancelPending, CancelLeave, NextHolder, LoopInv, HandlerTasks, Types,
     LoopTypes
<1>3. ASSUME NEW r \in Requests, RequestStep(r) PROVE LoopInv'
  <2>0. RequestOnly(r)
    BY Zenon, <1>3, RequestFrame DEF Types
  <2>1. ASSUME NEW to \in {"queued", "handling", "handled"}, Advance(r, to) PROVE LoopInv'
    BY Zenon, <2>1 DEF Advance, loopVars, RequestTypes, LoopInv, HandlerTasks, Types, LoopTypes
  <2>2. CASE ReadRequest(r) \/ Refuse(r)
    BY <2>2 DEF ReadRequest, Refuse, loopVars, RequestTypes, LoopInv, HandlerTasks, Types,
       LoopTypes
  <2>3. CASE Store(r) \/ StartTimer(r) \/ Overloaded(r)
             \/ (\E c \in Clusters, to \in {"sendTarget", "handled"} : Send(r, c, to))
    <3>1. r \in HandlerTasks
      BY Zenon, <2>3 DEF Store, StartTimer, Overloaded, Send, HandlerTasks
    <3>2. UNCHANGED loopVars /\ handler.requestLoop = "running"
      BY Zenon, <3>1, <2>0 DEF RequestOnly, LoopInv, Types
    <3> QED
      BY Zenon, <3>2 DEF LoopInv, loopVars
  <2> QED
    BY Zenon, <1>3, <2>1, <2>2, <2>3 DEF RequestStep
<1>4. ASSUME NEW m \in Messages, MessageStep(m) PROVE LoopInv'
  BY <1>4, MessageFrame DEF MessageOnly, requestVars, loopVars, LoopInv, HandlerTasks,
     Types, LoopTypes
<1>5. ASSUME NEW m \in Messages, NEW r \in Requests, ContextStep(m, r) PROVE LoopInv'
  BY <1>5, ContextFrame DEF ContextOnly, loopVars, LoopInv, HandlerTasks, Types, LoopTypes
<1> QED
  BY Zenon, <1>1, <1>2, <1>3, <1>4, <1>5, StepCases

-----------------------------------------------------------------------------
(* Who holds and who completes a context. *)

LEMMA HolderStep ==
    ASSUME Types, SentInv, ContextInv, [Next]_vars
    PROVE  HolderInv'
<1>1. CASE LoopStep \/ CancelSkip \/ UNCHANGED vars
  BY Zenon, <1>1, IdleFrame DEF requestVars, ContextInv, HolderInv, Types, RequestTypes
<1>2. ASSUME NEW r \in Requests, CancelPending(r) \/ CancelLeave(r) PROVE HolderInv'
  <2>1. CASE CancelPending(r)
    BY Zenon, <2>1 DEF CancelPending, ContextInv, HolderInv, Types, RequestTypes
  <2>2. CASE CancelLeave(r)
    BY Zenon, <2>2 DEF CancelLeave, ClearHolder, ContextInv, HolderInv, Types, RequestTypes
  <2> QED
    BY Zenon, <1>2, <2>1, <2>2
<1>3. ASSUME NEW r \in Requests, RequestStep(r) PROVE HolderInv'
  <2>1. CASE Store(r)
    BY <2>1, ConstantsAssumption DEF Store, ContextInv, HolderInv, Types, RequestTypes
  <2>2. CASE ReadRequest(r) \/ Refuse(r) \/ StartTimer(r) \/ Overloaded(r)
             \/ (\E to \in {"queued", "handling", "handled"} : Advance(r, to))
             \/ (\E c \in Clusters, to \in {"sendTarget", "handled"} : Send(r, c, to))
    <3>1. UNCHANGED <<stream, ctx, holder>>
      BY Zenon, <2>2 DEF ReadRequest, Refuse, StartTimer, Overloaded, Advance, Send
    <3> QED
      BY Zenon, <3>1 DEF ContextInv, HolderInv
  <2> QED
    BY Zenon, <1>3, <2>1, <2>2 DEF RequestStep
<1>4. ASSUME NEW m \in Messages, MessageStep(m) PROVE HolderInv'
  BY <1>4, MessageFrame DEF MessageOnly, requestVars, ContextInv, HolderInv, Types,
     RequestTypes
<1>5. ASSUME NEW m \in Messages, NEW r \in Requests, ContextStep(m, r) PROVE HolderInv'
  <2>1. ASSUME NEW to \in {"cleared", "directCleared"}, Free(m, r, to) PROVE HolderInv'
    BY Zenon, <2>1 DEF Free, ClearHolder, ContextInv, HolderInv, Types, RequestTypes
  <2>2. CASE SetFirst(m, r) \/ SetLast(m, r) \/ Leave(m, r)
             \/ (\E to \in {"finish", "directFinish"} : TimeOut(m, r, to))
    <3>1. UNCHANGED <<stream, holder>> /\ \A q \in Requests : ctx[q] # "none" => ctx'[q] # "none"
      BY Zenon, <2>2 DEF SetFirst, SetLast, Leave, TimeOut, Types, RequestTypes
    <3> QED
      BY Zenon, <3>1 DEF ContextInv, HolderInv, Types, RequestTypes
  <2> QED
    BY Zenon, <1>5, <2>1, <2>2 DEF ContextStep
<1> QED
  BY Zenon, <1>1, <1>2, <1>3, <1>4, <1>5, StepCases

\* A step after which no message holds a context that it did not hold before.
Tame ==
    /\ \A m \in Messages :
          /\ Finishing(m)' => Finishing(m) /\ mctx'[m] = mctx[m]
          /\ mpc'[m] = "found" => mpc[m] = "found" /\ mctx'[m] = mctx[m]
    /\ \A q \in Requests :
          /\ ctx[q] # "none" => ctx'[q] # "none"
          /\ ctx[q] \in {"done", "timedout"} => ctx'[q] = ctx[q]

LEMMA TameOwner == ASSUME OwnerInv, Tame PROVE OwnerInv'
<1>1. ASSUME NEW m \in Messages
      PROVE  /\ mpc'[m] = "found" \/ Finishing(m)' => mctx'[m] \in Requests /\ ctx'[mctx'[m]] # "none"
             /\ Finishing(m)' => ctx'[mctx'[m]] \in {"done", "timedout"}
  BY Zenon DEF OwnerInv, Tame
<1>2. ASSUME NEW m \in Messages, NEW n \in Messages, Finishing(m)', Finishing(n)', mctx'[m] = mctx'[n]
      PROVE  m = n
  BY Zenon, <1>2 DEF OwnerInv, Tame
<1> QED
  BY Zenon, <1>1, <1>2 DEF OwnerInv

LEMMA OwnerStep ==
    ASSUME Types, SentInv, ContextInv, [Next]_vars
    PROVE  OwnerInv'
<1>1. CASE LoopStep \/ CancelSkip \/ UNCHANGED vars
  <2>1. Tame
    BY Zenon, <1>1, IdleFrame DEF Tame, Finishing, requestVars, messageVars
  <2> QED
    BY Zenon, <2>1, TameOwner DEF ContextInv
<1>2. ASSUME NEW r \in Requests, CancelPending(r) \/ CancelLeave(r) PROVE OwnerInv'
  <2>0. CancelOnly(r)
    BY Zenon, <1>2, CancelFrame DEF Types
  <2>1. \A n \in Messages :
          /\ Finishing(n)' => Finishing(n) /\ mctx'[n] = mctx[n]
          /\ mpc'[n] = "found" => mpc[n] = "found" /\ mctx'[n] = mctx[n]
    BY Zenon, <2>0 DEF CancelOnly, TimerOnly, Finishing, Types
  <2>2. \A q \in Requests :
          /\ ctx[q] # "none" => ctx'[q] # "none"
          /\ ctx[q] \in {"done", "timedout"} => ctx'[q] = ctx[q]
    BY Zenon, <1>2 DEF CancelPending, CancelLeave, Types, RequestTypes
  <2> QED
    BY Zenon, <2>1, <2>2, TameOwner DEF Tame, ContextInv
<1>3. ASSUME NEW r \in Requests, RequestStep(r) PROVE OwnerInv'
  <2>0. RequestOnly(r)
    BY Zenon, <1>3, RequestFrame DEF Types
  <2>1. \A n \in Messages :
          /\ Finishing(n)' => Finishing(n) /\ mctx'[n] = mctx[n]
          /\ mpc'[n] = "found" => mpc[n] = "found" /\ mctx'[n] = mctx[n]
    BY Zenon, <2>0 DEF RequestOnly, Finishing, Types
  <2>2. \A q \in Requests :
          /\ ctx[q] # "none" => ctx'[q] # "none"
          /\ ctx[q] \in {"done", "timedout"} => ctx'[q] = ctx[q]
    BY Zenon, <2>0 DEF RequestOnly, Types
  <2> QED
    BY Zenon, <2>1, <2>2, TameOwner DEF Tame, ContextInv
<1>4. ASSUME NEW m \in Messages, MessageStep(m) PROVE OwnerInv'
  <2>0. MessageOnly(m)
    BY Zenon, <1>4, MessageFrame DEF Types
  <2>1. ASSUME NEW to \in {"done", "found"}, Find(m, to) PROVE OwnerInv'
    <3>0. \A n \in Messages :
            /\ mpc'[n] = IF n = m THEN to ELSE mpc[n]
            /\ n # m => mctx'[n] = mctx[n]
      BY Zenon, <2>1 DEF Find, Types, MessageTypes
    <3>1. mpc'[m] = "found" => mctx'[m] \in Requests /\ ctx[mctx'[m]] # "none"
      BY <2>1, <3>0, MessageParts DEF Find, ContextInv, HolderInv, Types, RequestTypes,
         MessageTypes
    <3>2. ~Finishing(m)' /\ \A n \in Messages : n # m => Finishing(n)' = Finishing(n)
      BY Zenon, <2>1, <3>0 DEF Finishing
    <3>3. ctx' = ctx
      BY Zenon, <2>1 DEF Find, requestVars
    <3> QED
      BY Zenon, <3>0, <3>1, <3>2, <3>3 DEF ContextInv, OwnerInv
  <2>2. CASE (\E to \in {"read", "direct"} : Read(m, to)) \/ Publish(m) \/ ForwardError(m)
             \/ Ignore(m)
    <3>0. mpc'[m] \notin {"found"} /\ ~Finishing(m)'
      BY Zenon, <2>2 DEF Read, Publish, ForwardError, Ignore, Finishing, Types, MessageTypes
    <3>1. \A n \in Messages :
            /\ Finishing(n)' => Finishing(n) /\ mctx'[n] = mctx[n]
            /\ mpc'[n] = "found" => mpc[n] = "found" /\ mctx'[n] = mctx[n]
      BY Zenon, <3>0, <2>0 DEF MessageOnly, Finishing, Types
    <3>2. \A q \in Requests :
            /\ ctx[q] # "none" => ctx'[q] # "none"
            /\ ctx[q] \in {"done", "timedout"} => ctx'[q] = ctx[q]
      BY Zenon, <2>0 DEF MessageOnly, requestVars, Types
    <3> QED
      BY Zenon, <3>1, <3>2, TameOwner DEF Tame, ContextInv
  <2> QED
    BY Zenon, <1>4, <2>1, <2>2 DEF MessageStep
<1>5. ASSUME NEW m \in Messages, NEW r \in Requests, ContextStep(m, r) PROVE OwnerInv'
  <2>0. ContextOnly(m, r)
    BY Zenon, <1>5, ContextFrame DEF Types
  <2>1. CASE SetLast(m, r) \/ (\E to \in {"finish", "directFinish"} : TimeOut(m, r, to))
    <3>0. /\ Finishing(m)' /\ ~Finishing(m) /\ mctx'[m] = r /\ mpc'[m] # "found" /\ ctx[r] = "pending"
          /\ ctx'[r] \in {"done", "timedout"}
      BY <2>1, MessageParts DEF SetLast, TimeOut, StopTimer, Finishing, Types, MessageTypes,
         RequestTypes
    <3>1. /\ \A n \in Messages : n # m =>
                /\ Finishing(n)' => Finishing(n)
                /\ mpc'[n] = "found" => mpc[n] = "found"
                /\ mctx'[n] = mctx[n]
          /\ \A q \in Requests : q # r => ctx'[q] = ctx[q]
      BY Zenon, <2>0 DEF ContextOnly, TimerOnly, Finishing, Types
    <3>2. \A n \in Messages : Finishing(n) => mctx[n] \in Requests /\ mctx[n] # r
      BY Zenon, <3>0 DEF ContextInv, OwnerInv
    <3>3. ASSUME NEW n \in Messages
          PROVE  /\ mpc'[n] = "found" \/ Finishing(n)' => mctx'[n] \in Requests /\ ctx'[mctx'[n]] # "none"
                 /\ Finishing(n)' => ctx'[mctx'[n]] \in {"done", "timedout"}
      BY <3>0, <3>1, <3>2 DEF ContextInv, OwnerInv
    <3>4. ASSUME NEW n \in Messages, NEW p \in Messages, Finishing(n)', Finishing(p)', mctx'[n] = mctx'[p]
          PROVE  n = p
      BY <3>0, <3>1, <3>2, <3>4 DEF ContextInv, OwnerInv
    <3> QED
      BY Zenon, <3>3, <3>4 DEF OwnerInv
  <2>2. CASE SetFirst(m, r) \/ Leave(m, r)
             \/ (\E to \in {"cleared", "directCleared"} : Free(m, r, to))
    <3>0. mpc'[m] # "found" /\ (Finishing(m)' => Finishing(m) /\ mctx'[m] = mctx[m]) /\ ctx' = ctx
      BY Zenon, <2>2 DEF SetFirst, Leave, Free, Clearing, Finishing, Types, MessageTypes
    <3>1. \A n \in Messages :
            /\ Finishing(n)' => Finishing(n) /\ mctx'[n] = mctx[n]
            /\ mpc'[n] = "found" => mpc[n] = "found" /\ mctx'[n] = mctx[n]
      BY Zenon, <3>0, <2>0 DEF ContextOnly, TimerOnly, Finishing, Types
    <3> QED
      BY Zenon, <3>0, <3>1, TameOwner DEF Tame, ContextInv
  <2> QED
    BY Zenon, <1>5, <2>1, <2>2 DEF ContextStep
<1> QED
  BY Zenon, <1>1, <1>2, <1>3, <1>4, <1>5, StepCases

LEMMA ClearingStep ==
    ASSUME Types, SentInv, ContextInv, [Next]_vars
    PROVE  ClearingInv'
<1>1. CASE LoopStep \/ CancelSkip \/ UNCHANGED vars
  <2>1. CASE CancelContext \/ Stalls \/ RequestShutdown \/ SetDrainMode \/ DrainRequests \/ EndRequestLoop \/ CloseRespChannel \/ EndResponseLoop \/ StopClientConnector \/ CloseClientConnector
    BY Zenon, <2>1, <1>1, IdleFrame DEF CancelContext, Stalls, Stall, RequestShutdown, SetDrainMode,
       DrainRequests, EndRequestLoop, CloseRespChannel, EndResponseLoop,
       StopClientConnector, CloseClientConnector, requestVars, ContextInv, ClearingInv,
       Types, LoopTypes
  <2>2. ASSUME NEW s \in StreamIds, ClearGet(s) PROVE ClearingInv'
    BY Zenon, <2>2 DEF ClearGet, Unaffected, requestVars, HolderInv, RequestTypes, ContextInv,
       ClearingInv, Types, LoopTypes
  <2>3. ASSUME NEW c \in Clusters, CloseConnection(c) \/ EndConnector(c) PROVE ClearingInv'
    BY Zenon, <2>3 DEF CloseConnection, EndConnector, Unaffected, requestVars, ContextInv,
       ClearingInv, Types, LoopTypes
  <2>4. CASE CancelSkip \/ UNCHANGED vars
    BY Zenon, <2>4 DEF CancelSkip, vars, NextHolder, requestVars, loopVars, ContextInv,
       ClearingInv, Types, LoopTypes
  <2> QED
    BY Zenon, <1>1, <2>1, <2>2, <2>3, <2>4 DEF LoopStep
<1>2. ASSUME NEW r \in Requests, CancelPending(r) \/ CancelLeave(r) PROVE ClearingInv'
  <2>1. CASE CancelPending(r)
    BY Zenon, <2>1 DEF CancelPending, RequestTypes, ContextInv, ClearingInv, Types, LoopTypes
  <2>2. CASE CancelLeave(r)
    BY Zenon, <2>2 DEF CancelLeave, NextHolder, ContextInv, ClearingInv, Types, LoopTypes
  <2> QED
    BY Zenon, <1>2, <2>1, <2>2
<1>3. ASSUME NEW r \in Requests, RequestStep(r) PROVE ClearingInv'
  <2>1. CASE Store(r)
    <3>1. ctx[r] = "none"
      BY Zenon, <2>1, SentFacts DEF Store
    <3> QED
      BY Zenon, <2>1, <3>1 DEF Store, loopVars, RequestTypes, ContextInv, ClearingInv, Types,
         LoopTypes
  <2>2. CASE ReadRequest(r) \/ Refuse(r) \/ StartTimer(r) \/ Overloaded(r)
             \/ (\E to \in {"queued", "handling", "handled"} : Advance(r, to))
             \/ (\E c \in Clusters, to \in {"sendTarget", "handled"} : Send(r, c, to))
    <3>1. UNCHANGED <<ctx, clearing>>
      BY Zenon, <2>2 DEF ReadRequest, Refuse, StartTimer, Overloaded, Advance, Send, loopVars
    <3> QED
      BY Zenon, <3>1 DEF ContextInv, ClearingInv
  <2> QED
    BY Zenon, <1>3, <2>1, <2>2 DEF RequestStep
<1>4. ASSUME NEW m \in Messages, MessageStep(m) PROVE ClearingInv'
  <2>0. MessageOnly(m)
    BY Zenon, <1>4, MessageFrame DEF Types
  <2>1. UNCHANGED <<ctx, clearing>>
    BY Zenon, <2>0 DEF MessageOnly, requestVars, loopVars, Types
  <2> QED
    BY Zenon, <2>1 DEF ContextInv, ClearingInv
<1>5. ASSUME NEW m \in Messages, NEW r \in Requests, ContextStep(m, r) PROVE ClearingInv'
  <2>0. ContextOnly(m, r)
    BY Zenon, <1>5, ContextFrame DEF Types
  <2>1. UNCHANGED clearing
    BY Zenon, <2>0 DEF ContextOnly, loopVars, Types
  <2>2. ASSUME NEW q \in Requests PROVE ctx'[q] = ctx[q] \/ (ctx[q] = "pending" /\ ctx'[q] \in {"done", "timedout"})
    BY Zenon, <2>0 DEF ContextOnly, Types
  <2> QED
    BY Zenon, <2>1, <2>2 DEF ContextInv, ClearingInv
<1> QED
  BY Zenon, <1>1, <1>2, <1>3, <1>4, <1>5, StepCases

-----------------------------------------------------------------------------
(* Who holds a stream id. *)

\* A step that changes nothing of what holds the stream id of q.
Unmoved(q) ==
    /\ stream'[q] = stream[q] /\ (holder'[stream[q]] = q <=> holder[stream[q]] = q)
    /\ ctx'[q] = "pending" <=> ctx[q] = "pending"
    /\ \A n \in Messages : mctx'[n] = q /\ Clearing(n)' <=> mctx[n] = q /\ Clearing(n)
    /\ clearing'.step = "cancel" /\ clearing'.ctx = q <=> clearing.step = "cancel" /\ clearing.ctx = q

LEMMA UnmovedHeld ==
    ASSUME NEW q \in Requests, holder[stream[q]] = q <=> Held(q), Unmoved(q)
    PROVE  (holder[stream[q]] = q <=> Held(q))'
<1>1. Held(q)' <=> Held(q)
  BY Zenon DEF Held, Unmoved
<1>2. holder'[stream'[q]] = q <=> holder[stream[q]] = q
  BY Zenon DEF Unmoved
<1> QED
  BY Zenon, <1>1, <1>2

LEMMA HeldStep ==
    ASSUME Types, SentInv, ContextInv, LoopInv, HeldInv, [Next]_vars
    PROVE  HeldInv'
<1> SUFFICES ASSUME NEW q \in Requests PROVE (holder[stream[q]] = q <=> Held(q))'
  BY Zenon DEF HeldInv
<1>0. holder[stream[q]] = q <=> Held(q)
  BY Zenon DEF HeldInv
<1> USE <1>0
<1>1. CASE LoopStep \/ CancelSkip \/ UNCHANGED vars
  <2>1. clearing'.step = "cancel" /\ clearing'.ctx = q <=> clearing.step = "cancel" /\ clearing.ctx = q
    <3>1. CASE LoopStep
      BY <3>1 DEF LoopStep, CancelContext, Stalls, Stall, RequestShutdown, SetDrainMode, DrainRequests,
         EndRequestLoop,
           ClearGet, CloseConnection, EndConnector, CloseRespChannel, EndResponseLoop,
           StopClientConnector, CloseClientConnector, LoopInv, Types, LoopTypes
    <3>2. CASE CancelSkip \/ UNCHANGED vars
      BY Zenon, <3>2 DEF CancelSkip, NextHolder, Types, LoopTypes, vars, loopVars
    <3> QED
      BY Zenon, <1>1, <3>1, <3>2
  <2>2. Unmoved(q)
    BY Zenon, <1>1, <2>1, IdleFrame DEF Unmoved, Clearing, requestVars, messageVars
  <2> QED
    BY Zenon, <2>2, UnmovedHeld
<1>2. ASSUME NEW r \in Requests, CancelPending(r) \/ CancelLeave(r) PROVE (holder[stream[q]] = q <=> Held(q))'
  <2>0. CancelOnly(r)
    BY Zenon, <1>2, CancelFrame DEF Types
  <2>1. CASE CancelPending(r)
    <3>1. CASE q = r
      <4>1. clearing'.step = "cancel" /\ clearing'.ctx = r /\ UNCHANGED <<stream, holder>> /\ ctx[r] = "pending"
        BY Zenon, <2>1 DEF CancelPending, Types, LoopTypes
      <4> QED
        BY Zenon, <3>1, <4>1 DEF Held
    <3>2. CASE q # r
      <4>1. \A n \in Messages : mctx'[n] = q /\ Clearing(n)' <=> mctx[n] = q /\ Clearing(n)
        BY Zenon, <2>0 DEF CancelOnly, TimerOnly, Clearing, Types
      <4>2. Unmoved(q)
        BY Zenon, <2>1, <3>2, <4>1 DEF CancelPending, Unmoved, Types, RequestTypes, LoopTypes
      <4> QED
        BY Zenon, <4>2, UnmovedHeld
    <3> QED
      BY Zenon, <3>1, <3>2
  <2>2. CASE CancelLeave(r)
    <3>1. CASE q = r
      <4>1. /\ ctx[r] = "canceled"
            /\ \A n \in Messages : mctx[n] = r => ~Clearing(n)
        BY Zenon, <2>2 DEF CancelLeave, Clearing, Finishing, ContextInv, OwnerInv, ClearingInv
      <4>2. ~Held(q)'
        BY Zenon, <2>2, <3>1, <4>1, MessageParts DEF CancelLeave, Held, Clearing, messageVars,
           loopVars, Types, LoopTypes, NextHolder
      <4>3. holder'[stream'[q]] # q
        BY Zenon, <2>2, <3>1, ConstantsAssumption DEF CancelLeave, ClearHolder, Types,
           RequestTypes
      <4> QED
        BY Zenon, <4>2, <4>3
    <3>2. CASE q # r
      <4>1. \A n \in Messages : mctx'[n] = q /\ Clearing(n)' <=> mctx[n] = q /\ Clearing(n)
        BY Zenon, <2>2, <3>2 DEF CancelLeave, Clearing, messageVars, Types, MessageTypes
      <4>2. holder'[stream[q]] = q <=> holder[stream[q]] = q
        BY Zenon, <2>2, <3>2, ConstantsAssumption DEF CancelLeave, ClearHolder, Types,
           RequestTypes
      <4>3. Unmoved(q)
        BY Zenon, <2>2, <3>2, <4>1, <4>2 DEF CancelLeave, Unmoved, NextHolder, Types,
           LoopTypes
      <4> QED
        BY Zenon, <4>3, UnmovedHeld
    <3> QED
      BY Zenon, <3>1, <3>2
  <2> QED
    BY Zenon, <1>2, <2>1, <2>2
<1>3. ASSUME NEW r \in Requests, RequestStep(r) PROVE (holder[stream[q]] = q <=> Held(q))'
  <2>0. RequestOnly(r)
    BY Zenon, <1>3, RequestFrame DEF Types
  <2>1. CASE Store(r)
    <3>0. holder[stream[r]] = None /\ None \notin Requests /\ stream[r] \in StreamIds /\ stream[q] \in StreamIds
      BY Zenon, <2>1, ConstantsAssumption DEF Store, Types, RequestTypes
    <3>1. CASE q = r
      <4>1. holder'[stream'[q]] = q /\ ctx'[q] = "pending"
        BY Zenon, <2>1, <3>0, <3>1 DEF Store, Types, RequestTypes
      <4> QED
        BY Zenon, <4>1 DEF Held
    <3>2. CASE q # r
      <4>1. holder'[stream[q]] = q <=> holder[stream[q]] = q
        BY Zenon, <2>1, <3>0, <3>2 DEF Store, Types, RequestTypes
      <4>2. \A n \in Messages : mctx'[n] = q /\ Clearing(n)' <=> mctx[n] = q /\ Clearing(n)
        BY Zenon, <2>0 DEF RequestOnly, Clearing, Types
      <4>3. ctx'[q] = ctx[q] /\ UNCHANGED <<stream, clearing>>
        BY Zenon, <1>3, <3>2, <2>0 DEF RequestOnly, loopVars, Types
      <4>4. Unmoved(q)
        BY Zenon, <4>1, <4>2, <4>3 DEF Unmoved
      <4> QED
        BY Zenon, <4>4, UnmovedHeld
    <3> QED
      BY Zenon, <3>1, <3>2
  <2>2. CASE ReadRequest(r) \/ Refuse(r) \/ StartTimer(r) \/ Overloaded(r)
             \/ (\E to \in {"queued", "handling", "handled"} : Advance(r, to))
             \/ (\E c \in Clusters, to \in {"sendTarget", "handled"} : Send(r, c, to))
    <3>1. UNCHANGED <<ctx, holder>>
      BY Zenon, <2>2 DEF ReadRequest, Refuse, StartTimer, Overloaded, Advance, Send
    <3>2. \A n \in Messages : mctx'[n] = q /\ Clearing(n)' <=> mctx[n] = q /\ Clearing(n)
      BY Zenon, <2>0 DEF RequestOnly, Clearing, Types
    <3>3. UNCHANGED <<stream, clearing>>
      BY Zenon, <2>0 DEF RequestOnly, loopVars, Types
    <3>4. Unmoved(q)
      BY Zenon, <3>1, <3>2, <3>3 DEF Unmoved
    <3> QED
      BY Zenon, <3>4, UnmovedHeld
  <2> QED
    BY Zenon, <1>3, <2>1, <2>2 DEF RequestStep
<1>4. ASSUME NEW m \in Messages, MessageStep(m) PROVE (holder[stream[q]] = q <=> Held(q))'
  <2>0. MessageOnly(m)
    BY Zenon, <1>4, MessageFrame DEF Types
  <2>1. \A n \in Messages : mctx'[n] = q /\ Clearing(n)' <=> mctx[n] = q /\ Clearing(n)
    BY Zenon, <2>0 DEF MessageOnly, Clearing, Types
  <2>2. UNCHANGED <<stream, ctx, holder, clearing>>
    BY Zenon, <2>0 DEF MessageOnly, requestVars, loopVars, Types
  <2>3. Unmoved(q)
    BY Zenon, <2>1, <2>2 DEF Unmoved
  <2> QED
    BY Zenon, <2>3, UnmovedHeld
<1>5. ASSUME NEW m \in Messages, NEW r \in Requests, ContextStep(m, r) PROVE (holder[stream[q]] = q <=> Held(q))'
  <2>0. ContextOnly(m, r)
    BY Zenon, <1>5, ContextFrame DEF Types
  <2>1. CASE SetLast(m, r) \/ (\E to \in {"finish", "directFinish"} : TimeOut(m, r, to))
    <3>0. ctx[r] = "pending" /\ UNCHANGED <<stream, holder>>
      BY Zenon, <2>1 DEF SetLast, TimeOut
    <3>1. CASE q = r
      <4>1. mctx'[m] = r /\ Clearing(m)'
        BY <2>1, MessageParts DEF SetLast, TimeOut, StopTimer, Clearing, Types, MessageTypes
      <4> QED
        BY Zenon, <3>0, <3>1, <4>1 DEF Held
    <3>2. CASE q # r
      <4>1. mctx'[m] # q /\ ~Clearing(m)
        BY Zenon, <2>1, <3>2 DEF SetLast, TimeOut, Clearing, Types, MessageTypes
      <4>2. \A n \in Messages : mctx'[n] = q /\ Clearing(n)' <=> mctx[n] = q /\ Clearing(n)
        BY Zenon, <4>1, <2>0 DEF ContextOnly, TimerOnly, Clearing, Types
      <4>3. ctx'[q] = ctx[q] /\ UNCHANGED clearing
        BY Zenon, <1>5, <3>2, <2>0 DEF ContextOnly, loopVars, Types
      <4>4. Unmoved(q)
        BY Zenon, <3>0, <4>2, <4>3 DEF Unmoved
      <4> QED
        BY Zenon, <4>4, UnmovedHeld
    <3> QED
      BY Zenon, <3>1, <3>2
  <2>2. ASSUME NEW to \in {"cleared", "directCleared"}, Free(m, r, to) PROVE (holder[stream[q]] = q <=> Held(q))'
    <3>1. CASE q = r
      <4>1. /\ ctx[r] \in {"done", "timedout"} /\ ~(clearing.step = "cancel" /\ clearing.ctx = r)
            /\ \A n \in Messages : mctx[n] = r /\ Clearing(n) => n = m
        BY Zenon, <2>2 DEF Free, Clearing, Finishing, ContextInv, OwnerInv, ClearingInv
      <4>2. ~Held(q)'
        BY Zenon, <2>2, <3>1, <4>1, MessageParts DEF Free, Held, Clearing, messageVars,
           loopVars,
           Types, MessageTypes
      <4>3. holder'[stream'[q]] # q
        BY Zenon, <2>2, <3>1, ConstantsAssumption DEF Free, ClearHolder, Types,
           RequestTypes
      <4> QED
        BY Zenon, <4>2, <4>3
    <3>2. CASE q # r
      <4>1. \A n \in Messages : mctx'[n] = q /\ Clearing(n)' <=> mctx[n] = q /\ Clearing(n)
        BY Zenon, <2>2, <3>2 DEF Free, Clearing, messageVars, Types, MessageTypes
      <4>2. holder'[stream[q]] = q <=> holder[stream[q]] = q
        BY Zenon, <2>2, <3>2, ConstantsAssumption DEF Free, ClearHolder, Types,
           RequestTypes
      <4>3. Unmoved(q)
        BY Zenon, <2>2, <3>2, <4>1, <4>2 DEF Free, Unmoved, loopVars
      <4> QED
        BY Zenon, <4>3, UnmovedHeld
    <3> QED
      BY Zenon, <3>1, <3>2
  <2>3. CASE SetFirst(m, r) \/ Leave(m, r)
    <3>0. ~Clearing(m) /\ ~Clearing(m)' /\ UNCHANGED <<ctx, holder>>
      BY Zenon, <2>3 DEF SetFirst, Leave, Clearing, Types, MessageTypes
    <3>1. \A n \in Messages : mctx'[n] = q /\ Clearing(n)' <=> mctx[n] = q /\ Clearing(n)
      BY Zenon, <3>0, <2>0 DEF ContextOnly, TimerOnly, Clearing, Types
    <3>2. UNCHANGED <<stream, clearing>>
      BY Zenon, <2>0 DEF ContextOnly, loopVars, Types
    <3>3. Unmoved(q)
      BY Zenon, <3>0, <3>1, <3>2 DEF Unmoved
    <3> QED
      BY Zenon, <3>3, UnmovedHeld
  <2> QED
    BY Zenon, <1>5, <2>1, <2>2, <2>3 DEF ContextStep
<1> QED
  BY Zenon, <1>1, <1>2, <1>3, <1>4, <1>5, StepCases

\* The inductive invariant of the handler, whatever the clusters answer.
StateInv == Types /\ SentInv /\ ContextInv /\ LoopInv /\ HeldInv

LEMMA InitState == ASSUME Init PROVE StateInv
<1> USE ConstantsAssumption
<1>1. RequestTypes
  BY Zenon DEF Init, RequestTypes
<1>2. MessageTypes
  <2>1. mpc \in [Messages -> MessagePcs] /\ mctx \in [Messages -> Requests \cup {None}]
    BY Zenon DEF Init, MessagePcs
  <2>2. isProtocolError \subseteq Messages /\ protocolErrOccurred \in BOOLEAN
    BY Zenon DEF Init
  <2>3. wg \in Int /\ inFlight \in [{"origin", "target", "both"} -> Int]
    BY DEF Init
  <2> QED
    BY Zenon, <2>1, <2>2, <2>3 DEF MessageTypes
<1>3. ClientTypes /\ LoopTypes
  BY Zenon DEF Init, ClientTypes, LoopTypes, NewClientHandler
<1>4. SentInv
  BY Zenon, MessageParts DEF Init, SentInv, Sent, Kinds, Clusters
<1>5. ContextInv
  BY Zenon DEF Init, ContextInv, HolderInv, OwnerInv, ClearingInv, Finishing
<1>6. LoopInv
  BY Zenon DEF Init, LoopInv, NewClientHandler
<1>7. HeldInv
  BY Zenon DEF Init, HeldInv, Held, Clearing
<1> QED
  BY Zenon, <1>1, <1>2, <1>3, <1>4, <1>5, <1>6, <1>7 DEF StateInv, Types

LEMMA StateStep == ASSUME StateInv, [Next]_vars PROVE StateInv'
<1>1. Types /\ SentInv /\ ContextInv /\ LoopInv /\ HeldInv
  BY Zenon DEF StateInv
<1>2. Types'
  BY Zenon, <1>1, RequestTypesStep, MessageTypesStep, ClientTypesStep, LoopTypesStep DEF Types
<1>3. ContextInv'
  BY Zenon, <1>1, HolderStep, OwnerStep, ClearingStep DEF ContextInv
<1> QED
  BY Zenon, <1>1, <1>2, <1>3, SentStep, LoopInvStep, HeldStep DEF StateInv

LEMMA StateAlways == Spec => []StateInv
  BY InitState, StateStep, PTL DEF Spec

\* A stream id is held exactly while its request is pending or about to be
\* completed: finishRequest and cancelRequest never leave a holder behind, and
\* storeRequestContext never takes a stream id from a pending request, however
\* responses, timeouts, protocol errors and the cancellation interleave.
THEOREM StreamIdsAreHeld == Spec => []StreamIdHeld
<1>1. StateInv => StreamIdHeld
  BY Zenon DEF StateInv, HeldInv, Held, Clearing, StreamIdHeld
<1> QED
  BY <1>1, StateAlways, PTL


Live == {"sent", "read", "queued", "found"}

\* What a request can rely on until a protocol error is forwarded: the client
\* waits for it while it or a response to it is on its way, and its responses
\* find its own context.
Own(r) ==
    /\ rpc[r] \notin {"new", "handled"} => waiting[stream[r]] = r
    /\ ctx[r] \in {"done", "timedout", "canceled"} => rpc[r] \in Started
    /\ \A c \in Clusters :
          /\ mpc[<<r, c>>] \in Live => waiting[stream[r]] = r
          /\ mpc[<<r, c>>] = "found" => mctx[<<r, c>>] = r
          /\ got[r][c] # None =>
                got[r][c] = r /\ waiting[stream[r]] = r /\ mpc[<<r, c>>] \notin Live \cup {"none"}
    /\ \A q \in Requests :
          holder[stream[r]] = q /\ waiting[stream[r]] = r => q = r \/ ctx[r] = "none"

OwnInv == \A r \in Requests : Own(r)

LEMMA StateParts ==
    ASSUME StateInv
    PROVE  /\ Types /\ SentInv /\ ContextInv
           /\ RequestTypes /\ MessageTypes /\ ClientTypes /\ LoopTypes
  BY Zenon DEF StateInv, Types

-----------------------------------------------------------------------------
(* A response finds the context of its own request. *)

\* A step after which q relies on no more than before.
Undisturbed(q) ==
    /\ stream'[q] = stream[q] /\ rpc'[q] = rpc[q]
    /\ ctx'[q] # ctx[q] => ctx[q] # "none" /\ rpc[q] \in Started
    /\ waiting'[stream[q]] = q <=> waiting[stream[q]] = q
    /\ \A c \in Clusters :
          /\ got'[q][c] # None => got'[q][c] = got[q][c]
          /\ mpc'[<<q, c>>] \in Live => mpc[<<q, c>>] \in Live
          /\ mpc'[<<q, c>>] = "none" => mpc[<<q, c>>] = "none"
          /\ mpc'[<<q, c>>] = "found" => mpc[<<q, c>>] = "found" /\ mctx'[<<q, c>>] = mctx[<<q, c>>]
    /\ \A p \in Requests :
          holder'[stream[q]] = p /\ waiting[stream[q]] = q => holder[stream[q]] = p

LEMMA UndisturbedOwn == ASSUME NEW q \in Requests, Own(q), Undisturbed(q) PROVE Own(q)'
<1>1. rpc'[q] \notin {"new", "handled"} => waiting'[stream'[q]] = q
  BY Zenon DEF Own, Undisturbed
<1>2. ctx'[q] \in {"done", "timedout", "canceled"} => rpc'[q] \in Started
  BY Zenon DEF Own, Undisturbed
<1>3. ASSUME NEW c \in Clusters
      PROVE  /\ mpc'[<<q, c>>] \in Live => waiting'[stream'[q]] = q
             /\ mpc'[<<q, c>>] = "found" => mctx'[<<q, c>>] = q
             /\ got'[q][c] # None =>
                   got'[q][c] = q /\ waiting'[stream'[q]] = q /\ mpc'[<<q, c>>] \notin Live \cup {"none"}
  BY Zenon DEF Own, Undisturbed
<1>4. ASSUME NEW p \in Requests, holder'[stream'[q]] = p, waiting'[stream'[q]] = q
      PROVE  p = q \/ ctx'[q] = "none"
  BY Zenon, <1>4 DEF Own, Undisturbed
<1> QED
  BY Zenon, <1>1, <1>2, <1>3, <1>4 DEF Own

\* Until a protocol error is forwarded, a response finds the context of its own
\* request and the client waits for it.
LEMMA OwnStep ==
    ASSUME StateInv, OwnInv, ~protocolErrOccurred', [Next]_vars
    PROVE  OwnInv'
<1> SUFFICES ASSUME NEW q \in Requests PROVE Own(q)'
  BY Zenon DEF OwnInv
<1>0. /\ Types /\ SentInv /\ ContextInv /\ RequestTypes /\ MessageTypes /\ ClientTypes /\ LoopTypes /\ Own(q)
  BY Zenon, StateParts DEF OwnInv
<1> USE <1>0
<1>1. CASE LoopStep \/ CancelSkip \/ UNCHANGED vars
  <2>1. Undisturbed(q)
    BY Zenon, <1>1, IdleFrame DEF Undisturbed, requestVars, messageVars, clientVars
  <2> QED
    BY Zenon, <2>1, UndisturbedOwn
<1>2. ASSUME NEW r \in Requests, CancelPending(r) \/ CancelLeave(r) PROVE Own(q)'
  <2>1. ctx'[r] # ctx[r] => ctx[r] # "none" /\ rpc[r] \in Started
    <3>1. CASE CancelLeave(r)
      BY Zenon, <3>1 DEF CancelLeave
    <3>2. CASE CancelPending(r)
      <4>1. ctx[r] # "none" /\ handler.requestLoop # "running"
        BY Zenon, <3>2 DEF CancelPending, StateInv, LoopInv
      <4>2. rpc[r] \notin {"queued", "handling", "stored", "sending", "sendTarget"}
        BY Zenon, <4>1 DEF StateInv, LoopInv, HandlerTasks
      <4>3. rpc[r] \notin {"new", "read"}
        BY Zenon, <4>1, SentFacts
      <4> QED
        BY Zenon, <4>1, <4>2, <4>3 DEF RequestTypes, Started
    <3> QED
      BY Zenon, <1>2, <3>1, <3>2
  <2>2. \A p \in Requests : holder'[stream[q]] = p => holder[stream[q]] = p
    BY <1>2, ConstantsAssumption DEF CancelPending, CancelLeave, ClearHolder, RequestTypes
  <2>3. \A d \in Clusters : got'[q][d] # None => got'[q][d] = got[q][d]
    BY <1>2 DEF CancelPending, CancelLeave, RequestTypes
  <2>4. \A d \in Clusters : mpc'[<<q, d>>] = mpc[<<q, d>>]
    BY Zenon, <1>2, CancelFrame, MessageParts DEF CancelOnly, TimerOnly, Kinds, Clusters
  <2>5. Undisturbed(q)
    BY Zenon, <1>2, <2>1, <2>2, <2>3, <2>4, CancelFrame DEF CancelOnly, clientVars, Undisturbed
  <2> QED
    BY Zenon, <2>5, UndisturbedOwn
<1>3. ASSUME NEW r \in Requests, RequestStep(r) PROVE Own(q)'
  <2>1. CASE Refuse(r) \/ Overloaded(r)
    <3>0. /\ waiting' = [waiting EXCEPT ![stream[r]] = None] /\ waiting[stream[r]] = r
          /\ rpc'[r] = "handled" /\ UNCHANGED <<stream, ctx, got, holder, mpc>>
      <4>1. rpc[r] \notin {"new", "handled"} => waiting[stream[r]] = r
        BY Zenon DEF OwnInv, Own
      <4> QED
        BY Zenon, <2>1, <4>1 DEF Refuse, Overloaded, SendResponseToClient, messageVars,
           RequestTypes
    <3>1. CASE q # r
      <4>0. waiting'[stream[q]] = q <=> waiting[stream[q]] = q
        BY Zenon, <3>0, <3>1, ConstantsAssumption DEF RequestTypes, ClientTypes
      <4>1. \A p \in Requests : holder'[stream[q]] = p /\ waiting[stream[q]] = q => holder[stream[q]] = p
        BY Zenon, <3>0
      <4>2. \A d \in Clusters : mpc'[<<q, d>>] = mpc[<<q, d>>]
        BY <1>3, <3>1, RequestFrame, MessageParts DEF RequestOnly, Kinds
      <4>3. Undisturbed(q)
        BY <1>3, <3>1, <4>0, <4>1, <4>2, RequestFrame DEF RequestOnly, Undisturbed
      <4> QED
        BY Zenon, <4>3, UndisturbedOwn
    <3>2. CASE q = r
      <4>1. \A c \in Clusters : mpc[<<q, c>>] = "none"
        BY Zenon, <2>1, <3>2, SentFacts DEF Refuse, Overloaded, Kinds, Started
      <4>2. \A c \in Clusters : got[q][c] = None
        BY Zenon, <4>1 DEF Own
      <4>3. waiting'[stream'[q]] # q
        BY Zenon, <3>0, <3>2, ConstantsAssumption DEF RequestTypes, ClientTypes
      <4> QED
        BY Zenon, <3>0, <3>2, <4>1, <4>2, <4>3 DEF Own, Started, Live
    <3> QED
      BY Zenon, <3>1, <3>2
  <2>2. CASE ReadRequest(r)
    <3>0. /\ waiting' = [waiting EXCEPT ![stream[r]] = r] /\ waiting[stream[r]] = None /\ rpc[r] = "new"
          /\ rpc'[r] = "read" /\ UNCHANGED <<stream, ctx, got, holder, mpc>>
      BY Zenon, <2>2 DEF ReadRequest, messageVars, RequestTypes
    <3>1. CASE q # r
      <4>0. waiting'[stream[q]] = q <=> waiting[stream[q]] = q
        BY Zenon, <3>0, <3>1, ConstantsAssumption DEF RequestTypes, ClientTypes
      <4>1. \A p \in Requests : holder'[stream[q]] = p /\ waiting[stream[q]] = q => holder[stream[q]] = p
        BY Zenon, <3>0
      <4>2. \A d \in Clusters : mpc'[<<q, d>>] = mpc[<<q, d>>]
        BY <1>3, <3>1, RequestFrame, MessageParts DEF RequestOnly, Kinds
      <4>3. Undisturbed(q)
        BY <1>3, <3>1, <4>0, <4>1, <4>2, RequestFrame DEF RequestOnly, Undisturbed
      <4> QED
        BY Zenon, <4>3, UndisturbedOwn
    <3>2. CASE q = r
      <4>1. ctx[q] = "none" /\ \A c \in Clusters : mpc[<<q, c>>] = "none"
        BY Zenon, <3>0, <3>2, SentFacts DEF Kinds, Started
      <4>2. \A c \in Clusters : got[q][c] = None
        BY Zenon, <4>1 DEF Own
      <4>3. waiting'[stream'[q]] = q
        BY Zenon, <3>0, <3>2 DEF RequestTypes, ClientTypes
      <4> QED
        BY Zenon, <3>0, <3>2, <4>1, <4>2, <4>3 DEF Own, Started, Live
    <3> QED
      BY Zenon, <3>1, <3>2
  <2>3. CASE Store(r)
    <3>0. waiting[stream[r]] = r /\ ctx[r] = "none" /\ waiting' = waiting
      BY Zenon, <2>3, SentFacts DEF Store, Own, OwnInv, clientVars
    <3>1. CASE q # r
      <4>0. waiting'[stream[q]] = q <=> waiting[stream[q]] = q
        BY Zenon, <3>0
      <4>1. \A p \in Requests : holder'[stream[q]] = p /\ waiting[stream[q]] = q => holder[stream[q]] = p
        BY Zenon, <2>3, <3>0, <3>1 DEF Store, RequestTypes
      <4>2. \A d \in Clusters : mpc'[<<q, d>>] = mpc[<<q, d>>]
        BY <1>3, <3>1, RequestFrame, MessageParts DEF RequestOnly, Kinds
      <4>3. Undisturbed(q)
        BY <1>3, <3>1, <4>0, <4>1, <4>2, RequestFrame DEF RequestOnly, Undisturbed
      <4> QED
        BY Zenon, <4>3, UndisturbedOwn
    <3>2. CASE q = r
      <4>1. /\ rpc'[q] = "stored" /\ ctx'[q] = "pending" /\ holder'[stream'[q]] = q
            /\ UNCHANGED <<stream, got, mpc, mctx>>
        BY Zenon, <2>3, <3>2 DEF Store, messageVars, RequestTypes
      <4> QED
        BY Zenon, <3>0, <3>2, <4>1 DEF Own
    <3> QED
      BY Zenon, <3>1, <3>2
  <2>4. CASE StartTimer(r) \/ (\E to \in {"queued", "handling", "handled"} : Advance(r, to))
             \/ (\E c \in Clusters, to \in {"sendTarget", "handled"} : Send(r, c, to))
    <3>0. /\ UNCHANGED <<stream, ctx, got, holder, mctx, waiting>>
          /\ rpc[r] \notin {"new", "handled"} /\ rpc'[r] # "new"
          /\ ctx[r] \in {"done", "timedout", "canceled"} => rpc'[r] \in Started
      <4>1. ctx[r] \in {"done", "timedout", "canceled"} => rpc[r] \in Started
        BY Zenon DEF OwnInv, Own
      <4>2. CASE \E to \in {"queued", "handling", "handled"} : Advance(r, to)
        BY Zenon, <4>1, <4>2 DEF Advance, clientVars, messageVars, Started, RequestTypes
      <4>3. CASE StartTimer(r)
        BY Zenon, <4>3 DEF StartTimer, clientVars, Started, RequestTypes
      <4>4. CASE \E c \in Clusters, to \in {"sendTarget", "handled"} : Send(r, c, to)
        BY Zenon, <4>4 DEF Send, Started, RequestTypes
      <4> QED
        BY Zenon, <2>4, <4>2, <4>3, <4>4
    <3>00. \A c \in Clusters : \/ mpc'[<<r, c>>] = mpc[<<r, c>>]
                               \/ mpc[<<r, c>>] = "none" /\ mpc'[<<r, c>>] \in {"armed", "sent"}
      BY Zenon, <1>3, RequestFrame, MessageParts DEF RequestOnly, Kinds
    <3>1. CASE q # r
      <4>0. waiting'[stream[q]] = q <=> waiting[stream[q]] = q
        BY Zenon, <3>0
      <4>1. \A p \in Requests : holder'[stream[q]] = p /\ waiting[stream[q]] = q => holder[stream[q]] = p
        BY Zenon, <3>0
      <4>2. \A d \in Clusters : mpc'[<<q, d>>] = mpc[<<q, d>>]
        BY <1>3, <3>1, RequestFrame, MessageParts DEF RequestOnly, Kinds
      <4>3. Undisturbed(q)
        BY <1>3, <3>1, <4>0, <4>1, <4>2, RequestFrame DEF RequestOnly, Undisturbed
      <4> QED
        BY Zenon, <4>3, UndisturbedOwn
    <3>2. CASE q = r
      <4>1. waiting[stream[q]] = q /\ \A c \in Clusters : mpc[<<q, c>>] = "none" => got[q][c] = None
        BY Zenon, <3>0, <3>2 DEF Own
      <4> QED
        BY Zenon, <3>0, <3>00, <3>2, <4>1 DEF Own, Live
    <3> QED
      BY Zenon, <3>1, <3>2
  <2> QED
    BY Zenon, <1>3, <2>1, <2>2, <2>3, <2>4 DEF RequestStep
<1>4. ASSUME NEW m \in Messages, MessageStep(m) PROVE Own(q)'
  <2>1. ASSUME NEW to \in {"done", "found"}, Find(m, to) PROVE Own(q)'
    <3>0. \A d \in Clusters :
            /\ <<q, d>> \in Messages
            /\ mpc'[<<q, d>>] = IF <<q, d>> = m THEN to ELSE mpc[<<q, d>>]
            /\ mctx'[<<q, d>>] = IF <<q, d>> = m THEN holder[stream[q]] ELSE mctx[<<q, d>>]
      BY Zenon, <2>1, MessageParts DEF Find, MessageTypes, Kinds
    <3>1. UNCHANGED <<stream, rpc, ctx, got, holder, waiting>>
      BY Zenon, <2>1 DEF Find, requestVars, clientVars
    <3>2. ASSUME NEW d \in Clusters, <<q, d>> = m
          PROVE  waiting[stream[q]] = q /\ got[q][d] = None /\ (to = "found" => holder[stream[q]] = q)
      <4>1. mpc[<<q, d>>] = "queued" /\ waiting[stream[q]] = q /\ got[q][d] = None
        BY Zenon, <2>1, <3>2 DEF Find, Own, Live
      <4>2. ctx[q] # "none"
        BY Zenon, <4>1, SentFacts DEF Kinds
      <4>3. to = "found" => holder[stream[q]] \in Requests
        BY Zenon, <2>1, <3>2 DEF Find, RequestTypes
      <4> QED
        BY Zenon, <4>1, <4>2, <4>3 DEF Own
    <3> QED
      BY Zenon, <2>1, <3>0, <3>1, <3>2 DEF Own, Live
  <2>2. CASE (\E to \in {"read", "direct"} : Read(m, to)) \/ Publish(m) \/ ForwardError(m)
             \/ Ignore(m)
    <3>0. /\ mpc'[m] \notin {"none", "found"} /\ UNCHANGED waiting
          /\ m[2] \in Clusters /\ mpc'[m] \in Live => mpc[m] \in Live
      BY Zenon, <2>2 DEF Read, Publish, ForwardError, Ignore, Live, Clusters, clientVars,
         MessageTypes
    <3>1. \A d \in Clusters :
            /\ mpc'[<<q, d>>] \in Live => mpc[<<q, d>>] \in Live
            /\ mpc'[<<q, d>>] = "none" => mpc[<<q, d>>] = "none"
            /\ mpc'[<<q, d>>] = "found" => mpc[<<q, d>>] = "found" /\ mctx'[<<q, d>>] = mctx[<<q, d>>]
      BY <1>4, <3>0, MessageFrame, MessageParts DEF MessageOnly, Kinds
    <3>2. Undisturbed(q)
      BY Zenon, <1>4, <3>0, <3>1, MessageFrame DEF MessageOnly, requestVars, Undisturbed
    <3> QED
      BY Zenon, <3>2, UndisturbedOwn
  <2> QED
    BY Zenon, <1>4, <2>1, <2>2 DEF MessageStep
<1>5. ASSUME NEW m \in Messages, NEW r \in Requests, ContextStep(m, r) PROVE Own(q)'
  <2>1. CASE SetFirst(m, r) \/ SetLast(m, r)
    <3>0. m = <<r, m[2]>> /\ m[2] \in Clusters /\ waiting[stream[r]] = r /\ rpc[r] \in Started
      <4>1. m = <<m[1], m[2]>> /\ m[1] \in Requests /\ m[2] \in Clusters /\ mpc[m] = "found" /\ mctx[m] = r
        BY Zenon, <2>1, MessageParts DEF SetFirst, SetLast
      <4>2. mctx[m] = m[1] /\ waiting[stream[m[1]]] = m[1]
        BY <4>1 DEF OwnInv, Own, Live
      <4>3. rpc[m[1]] \in Started
        BY Zenon, <4>1, SentFacts DEF Kinds
      <4> QED
        BY Zenon, <4>1, <4>2, <4>3
    <3>1. \A d \in Clusters :
            /\ mpc'[<<q, d>>] \in Live => mpc[<<q, d>>] \in Live
            /\ mpc'[<<q, d>>] = "none" => mpc[<<q, d>>] = "none"
            /\ mpc'[<<q, d>>] = "found" => mpc[<<q, d>>] = "found" /\ mctx'[<<q, d>>] = mctx[<<q, d>>]
      BY Zenon, <1>5, ContextFrame, MessageParts DEF ContextOnly, TimerOnly, Kinds, Live
    <3>2. /\ UNCHANGED <<waiting, holder>> /\ ctx[r] = "pending"
          /\ \A d \in Clusters : got'[q][d] = IF q = r /\ d = m[2] THEN m[1] ELSE got[q][d]
      BY <2>1 DEF SetFirst, SetLast, clientVars, RequestTypes
    <3>3. CASE q # r
      <4>1. Undisturbed(q)
        BY <1>5, <3>1, <3>2, <3>3, ContextFrame DEF ContextOnly, Undisturbed
      <4> QED
        BY Zenon, <4>1, UndisturbedOwn
    <3>4. CASE q = r
      <4>1. m[1] = r /\ mpc'[<<q, m[2]>>] \notin Live \cup {"none"}
        BY <1>5, <3>0, <3>4, ContextFrame DEF ContextOnly, Live
      <4> QED
        BY <1>5, <3>0, <3>1, <3>2, <3>4, <4>1, ContextFrame DEF ContextOnly, Own
    <3> QED
      BY Zenon, <3>3, <3>4
  <2>2. CASE Leave(m, r)
    <3>0. \A d \in Clusters :
            /\ mpc'[<<q, d>>] \in Live => mpc[<<q, d>>] \in Live
            /\ mpc'[<<q, d>>] = "none" => mpc[<<q, d>>] = "none"
            /\ mpc'[<<q, d>>] = "found" => mpc[<<q, d>>] = "found" /\ mctx'[<<q, d>>] = mctx[<<q, d>>]
      BY Zenon, <1>5, ContextFrame, MessageParts DEF ContextOnly, TimerOnly, Kinds, Live
    <3>1. UNCHANGED <<stream, rpc, ctx, holder>> /\ \A d \in Clusters : got'[q][d] = IF q = r THEN None ELSE got[q][d]
      BY Zenon, <2>2 DEF Leave, RequestTypes
    <3>2. CASE waiting'[stream[q]] = q <=> waiting[stream[q]] = q
      BY Zenon, <3>0, <3>1, <3>2, UndisturbedOwn DEF Undisturbed
    <3>3. CASE Complete(r, got[r]) /\ SendResponseToClient(r, {got[r][c] : c \in Clusters} \ {None})
      <4>1. Sent(r) /\ Own(r) /\ decision[r] \in {"origin", "target", "both"}
        BY Zenon, <2>2, SentFacts DEF Leave, SentInv, OwnInv, ContextInv, OwnerInv, Finishing
      <4>2. waiting[stream[r]] = r /\ rpc[r] = "handled" /\ \A c \in Clusters : mpc[<<r, c>>] \notin Live
        <5>1. PICK d \in Clusters : decision[r] \in {d, "both"}
          BY Zenon, <4>1 DEF Clusters
        <5>2. got[r][d] # None /\ waiting[stream[r]] = r /\ mpc[<<r, d>>] # "none"
          BY Zenon, <3>3, <4>1, <5>1 DEF Complete, Own
        <5>3. rpc[r] \in Started /\ rpc[r] # "sending"
          BY Zenon, <4>1, <5>2 DEF Sent, Kinds
        <5>4. rpc[r] # "sendTarget"
          BY Zenon, <3>3, <4>1 DEF Sent, Complete, Own, Clusters
        <5>5. \A c \in Clusters : mpc[<<r, c>>] \notin Live
          BY Zenon, <3>3, <4>1 DEF Sent, Complete, Own, Live
        <5> QED
          BY Zenon, <5>2, <5>3, <5>4, <5>5 DEF Started
      <4>3. waiting' = [waiting EXCEPT ![stream[r]] = None]
        BY Zenon, <3>3 DEF SendResponseToClient
      <4>4. CASE q = r
        <5>1. waiting'[stream[q]] # q
          BY Zenon, <4>3, <4>4, ConstantsAssumption DEF RequestTypes, ClientTypes
        <5> QED
          BY Zenon, <3>0, <3>1, <4>2, <4>4, <5>1 DEF Own, Live, Started
      <4>5. CASE q # r
        BY Zenon, <3>2, <4>2, <4>3, <4>5, ConstantsAssumption DEF RequestTypes, ClientTypes
      <4> QED
        BY Zenon, <4>4, <4>5
    <3> QED
      BY Zenon, <2>2, <3>2, <3>3 DEF Leave, Answer, clientVars
  <2>3. CASE (\E to \in {"finish", "directFinish"} : TimeOut(m, r, to))
             \/ (\E to \in {"cleared", "directCleared"} : Free(m, r, to))
    <3>0. ctx'[r] # ctx[r] => ctx[r] # "none" /\ rpc[r] \in Started
      <4>1. CASE ctx' = ctx
        BY Zenon, <4>1
      <4>2. CASE ctx' # ctx
        <5>1. m = <<r, "timer">> /\ mpc[m] # "none" /\ ctx[r] # "none"
          BY Zenon, <2>3, <4>2, MessageParts DEF TimeOut, Free
        <5> QED
          BY Zenon, <5>1 DEF SentInv, Sent, Kinds
      <4> QED
        BY Zenon, <4>1, <4>2
    <3>1. \A d \in Clusters :
            /\ mpc'[<<q, d>>] \in Live => mpc[<<q, d>>] \in Live
            /\ mpc'[<<q, d>>] = "none" => mpc[<<q, d>>] = "none"
            /\ mpc'[<<q, d>>] = "found" => mpc[<<q, d>>] = "found" /\ mctx'[<<q, d>>] = mctx[<<q, d>>]
      BY Zenon, <1>5, ContextFrame, MessageParts DEF ContextOnly, TimerOnly, Kinds, Live
    <3>2. UNCHANGED <<waiting, got>> /\ \A p \in Requests : holder'[stream[q]] = p => holder[stream[q]] = p
      BY <2>3, ConstantsAssumption DEF TimeOut, Free, ClearHolder, clientVars, RequestTypes
    <3>3. Undisturbed(q)
      BY <1>5, <3>0, <3>1, <3>2, ContextFrame DEF ContextOnly, Undisturbed
    <3> QED
      BY Zenon, <3>3, UndisturbedOwn
  <2> QED
    BY Zenon, <1>5, <2>1, <2>2, <2>3 DEF ContextStep
<1> QED
  BY Zenon, <1>1, <1>2, <1>3, <1>4, <1>5, StepCases

-----------------------------------------------------------------------------
(* The answers. *)

AnswersInv == \A a \in replies : a.to = a.for /\ a.from \subseteq {a.for}

LEMMA SendAnswer ==
    ASSUME AnswersInv, NEW r \in Requests, NEW S \in SUBSET {r}, waiting[stream[r]] = r,
           SendResponseToClient(r, S)
    PROVE  AnswersInv'
<1> DEFINE a == [to |-> waiting[stream[r]], for |-> r, from |-> S]
<1>1. a.to = a.for /\ a.from \subseteq {a.for}
  BY Zenon
<1>2. replies' = replies \cup {a}
  BY Zenon DEF SendResponseToClient
<1> HIDE DEF a
<1> QED
  BY Zenon, <1>1, <1>2 DEF AnswersInv

LEMMA AnswersStep ==
    ASSUME StateInv, OwnInv, AnswersInv, ~protocolErrOccurred', [Next]_vars
    PROVE  AnswersInv'
<1>0. /\ Types /\ SentInv /\ ContextInv /\ RequestTypes /\ MessageTypes /\ ClientTypes /\ LoopTypes
  BY Zenon, StateParts
<1> USE <1>0
<1>1. CASE LoopStep \/ CancelSkip \/ UNCHANGED vars
  BY Zenon, <1>1, IdleFrame DEF clientVars, AnswersInv
<1>2. ASSUME NEW r \in Requests, CancelPending(r) \/ CancelLeave(r) PROVE AnswersInv'
  BY Zenon, <1>2, CancelFrame DEF CancelOnly, clientVars, AnswersInv
<1>3. ASSUME NEW r \in Requests, RequestStep(r) PROVE AnswersInv'
  <2>1. CASE Refuse(r) \/ Overloaded(r)
    <3>1. waiting[stream[r]] = r /\ SendResponseToClient(r, {}) /\ {} \in SUBSET {r}
      BY Zenon, <2>1 DEF Refuse, Overloaded, OwnInv, Own
    <3> QED
      BY Zenon, <3>1, SendAnswer
  <2>2. CASE ReadRequest(r) \/ Store(r) \/ StartTimer(r)
             \/ (\E to \in {"queued", "handling", "handled"} : Advance(r, to))
             \/ (\E c \in Clusters, to \in {"sendTarget", "handled"} : Send(r, c, to))
    BY Zenon, <2>2 DEF ReadRequest, Store, StartTimer, Advance, Send, clientVars, AnswersInv
  <2> QED
    BY Zenon, <1>3, <2>1, <2>2 DEF RequestStep
<1>4. ASSUME NEW m \in Messages, MessageStep(m) PROVE AnswersInv'
  BY Zenon, <1>4, MessageFrame DEF MessageOnly, AnswersInv
<1>5. ASSUME NEW m \in Messages, NEW r \in Requests, ContextStep(m, r) PROVE AnswersInv'
  <2>1. CASE Leave(m, r)
    <3>1. CASE UNCHANGED clientVars
      BY Zenon, <3>1 DEF clientVars, AnswersInv
    <3>2. CASE Complete(r, got[r]) /\ SendResponseToClient(r, {got[r][c] : c \in Clusters} \ {None})
      <4>0. \A c \in Clusters : got[r][c] \in {None, r}
        BY Zenon DEF OwnInv, Own
      <4>1. {got[r][c] : c \in Clusters} \ {None} \in SUBSET {r}
        BY Zenon, <4>0
      <4>2. decision[r] \in {"origin", "target", "both"}
        BY Zenon, <2>1, SentFacts DEF Leave, SentInv, ContextInv, OwnerInv, Finishing
      <4>3. waiting[stream[r]] = r
        BY Zenon, <3>2, <4>2 DEF Complete, Clusters, OwnInv, Own
      <4> QED
        BY Zenon, <3>2, <4>1, <4>3, SendAnswer
    <3> QED
      BY Zenon, <2>1, <3>1, <3>2 DEF Leave, Answer
  <2>2. CASE SetFirst(m, r) \/ SetLast(m, r)
             \/ (\E to \in {"finish", "directFinish"} : TimeOut(m, r, to))
             \/ (\E to \in {"cleared", "directCleared"} : Free(m, r, to))
    BY Zenon, <2>2 DEF SetFirst, SetLast, TimeOut, Free, clientVars, AnswersInv
  <2> QED
    BY Zenon, <1>5, <2>1, <2>2 DEF ContextStep
<1> QED
  BY Zenon, <1>1, <1>2, <1>3, <1>4, <1>5, StepCases

\* protocolErrOccurred is never reset.
LEMMA ErrorStays ==
    ASSUME StateInv, ~protocolErrOccurred', [Next]_vars
    PROVE  ~protocolErrOccurred
<1>0. /\ Types /\ SentInv /\ ContextInv /\ RequestTypes /\ MessageTypes /\ ClientTypes /\ LoopTypes
  BY Zenon, StateParts
<1> USE <1>0
<1>1. CASE LoopStep \/ CancelSkip \/ UNCHANGED vars
  BY Zenon, <1>1, IdleFrame DEF messageVars
<1>2. ASSUME NEW r \in Requests, CancelPending(r) \/ CancelLeave(r) PROVE ~protocolErrOccurred
  BY Zenon, <1>2, CancelFrame DEF CancelOnly
<1>3. ASSUME NEW r \in Requests, RequestStep(r) PROVE ~protocolErrOccurred
  BY Zenon, <1>3, RequestFrame DEF RequestOnly
<1>4. ASSUME NEW m \in Messages, MessageStep(m) PROVE ~protocolErrOccurred
  BY Zenon, <1>4, MessageFrame DEF MessageOnly
<1>5. ASSUME NEW m \in Messages, NEW r \in Requests, ContextStep(m, r) PROVE ~protocolErrOccurred
  BY Zenon, <1>5, ContextFrame DEF ContextOnly
<1> QED
  BY Zenon, <1>1, <1>2, <1>3, <1>4, <1>5, StepCases


\* The counters of the handler count the requests that are in flight.
InFlight(r) == rpc[r] \in Started /\ holder[stream[r]] = r

InGroup == {r \in Requests : InWaitGroup(r)}
FlightOf(d) == {r \in Requests : decision[r] = d /\ InFlight(r)}

GroupInv == wg = Cardinality(InGroup)
FlightInv == \A d \in {"origin", "target", "both"} : inFlight[d] = Cardinality(FlightOf(d))

\* The order in which the loops of the handler end.
ChannelInv ==
    /\ \A c \in Clusters : handler.connector[c] = "done" => \A r \in Requests : mpc[<<r, c>>] # "read"
    /\ handler.respChannelClosed =>
          /\ \A c \in Clusters : handler.connector[c] = "done"
          /\ \A r \in Requests : mpc[<<r, "timer">>] # "read"
    /\ handler.clientConnector # "open" => handler.ctxDone /\ handler.requestLoop = "done"
    /\ handler.clientConnector = "closed" => \A r \in Requests : rpc[r] # "read"

\* The wait group stays empty once the request loop has ended.
DrainedInv == handler.requestLoop = "done" => wg = 0
PanicInv == panics = {}

-----------------------------------------------------------------------------
(* The wait group. *)

\* What the proofs use of the sizes of sets of requests; CountingHolds proves it.
Counting ==
    /\ Cardinality({}) = 0
    /\ \A T \in SUBSET Requests :
          /\ Cardinality(T) \in Nat
          /\ Cardinality(T) = 0 => T = {}
          /\ \A r \in Requests : /\ r \notin T => Cardinality(T \cup {r}) = Cardinality(T) + 1
                                 /\ r \in T => Cardinality(T \ {r}) = Cardinality(T) - 1

\* A step that changes nothing of what keeps q in the wait group.
Waits(q) ==
    /\ rpc'[q] \in Started <=> rpc[q] \in Started
    /\ ctx'[q] = "pending" <=> ctx[q] = "pending"
    /\ \A n \in Messages : mctx'[n] = q /\ Finishing(n)' <=> mctx[n] = q /\ Finishing(n)
    /\ clearing'.step = "cancel" /\ clearing'.ctx = q <=> clearing.step = "cancel" /\ clearing.ctx = q

LEMMA WaitsInGroup ==
    ASSUME NEW q \in Requests, Waits(q) PROVE q \in InGroup' <=> q \in InGroup
<1>1. Completing(q)' <=> Completing(q)
  BY Zenon DEF Completing, Waits, Finishing
<1>2. InWaitGroup(q)' <=> InWaitGroup(q)
  BY Zenon, <1>1 DEF InWaitGroup, Waits, Started
<1> QED
  BY Zenon, <1>2 DEF InGroup

LEMMA SameGroup ==
    ASSUME GroupInv, wg' = wg, \A q \in Requests : q \in InGroup' <=> q \in InGroup
    PROVE  GroupInv'
<1>1. InGroup' = InGroup
  BY Zenon DEF InGroup
<1> QED
  BY Zenon, <1>1 DEF GroupInv

\* Every request that enters the wait group leaves it once.
LEMMA GroupStep ==
    ASSUME Counting, StateInv, OwnInv, GroupInv, ~protocolErrOccurred', [Next]_vars
    PROVE  GroupInv'
<1>0. /\ Types /\ SentInv /\ ContextInv /\ RequestTypes /\ MessageTypes /\ ClientTypes /\ LoopTypes
  BY Zenon, StateParts
<1> USE <1>0
<1>1. CASE LoopStep \/ CancelSkip \/ UNCHANGED vars
  <2>1. ASSUME NEW q \in Requests PROVE q \in InGroup' <=> q \in InGroup
    <3>1. clearing'.step = "cancel" /\ clearing'.ctx = q <=> clearing.step = "cancel" /\ clearing.ctx = q
      <4>1. CASE LoopStep
        BY <4>1 DEF LoopStep, CancelContext, Stalls, Stall, RequestShutdown, SetDrainMode, DrainRequests,
           EndRequestLoop, ClearGet, CloseConnection, EndConnector, CloseRespChannel,
           EndResponseLoop, StopClientConnector, CloseClientConnector, StateInv, LoopInv, LoopTypes
      <4>2. CASE CancelSkip \/ UNCHANGED vars
        BY Zenon, <4>2 DEF CancelSkip, NextHolder, LoopTypes, vars, loopVars
      <4> QED
        BY Zenon, <1>1, <4>1, <4>2
    <3>2. Waits(q)
      BY Zenon, <1>1, <3>1, IdleFrame DEF Waits, Finishing, requestVars, messageVars
    <3> QED
      BY Zenon, <3>2, WaitsInGroup
  <2>2. wg' = wg
    BY Zenon, <1>1, IdleFrame DEF countVars
  <2> QED
    BY Zenon, <2>1, <2>2, SameGroup
<1>2. ASSUME NEW r \in Requests, CancelPending(r) \/ CancelLeave(r) PROVE GroupInv'
  <2>1. CASE CancelPending(r)
    <3>1. ASSUME NEW q \in Requests PROVE q \in InGroup' <=> q \in InGroup
      <4>1. \A n \in Messages : mctx'[n] = q /\ Finishing(n)' <=> mctx[n] = q /\ Finishing(n)
        BY Zenon, <1>2, CancelFrame DEF CancelOnly, TimerOnly, Finishing
      <4>2. CASE q # r
        <5>1. Waits(q)
          BY Zenon, <2>1, <4>1, <4>2 DEF CancelPending, Waits, RequestTypes, LoopTypes
        <5> QED
          BY Zenon, <5>1, WaitsInGroup
      <4>3. CASE q = r
        <5>1. handler.requestLoop # "running" /\ ctx[r] = "pending" /\ rpc' = rpc
          BY Zenon, <2>1 DEF CancelPending, StateInv, LoopInv
        <5>2. rpc[r] \notin {"queued", "handling", "stored", "sending", "sendTarget"}
          BY Zenon, <5>1 DEF StateInv, LoopInv, HandlerTasks
        <5>3. rpc[r] = "handled"
          BY Zenon, <5>1, <5>2 DEF SentInv, Sent, RequestTypes
        <5>4. clearing'.step = "cancel" /\ clearing'.ctx = r
          BY Zenon, <2>1 DEF CancelPending, LoopTypes
        <5> QED
          BY Zenon, <4>3, <5>1, <5>3, <5>4 DEF InGroup, InWaitGroup, Completing
      <4> QED
        BY Zenon, <4>2, <4>3
    <3>2. wg' = wg
      BY Zenon, <2>1 DEF CancelPending, countVars
    <3> QED
      BY Zenon, <3>1, <3>2, SameGroup
  <2>2. CASE CancelLeave(r)
    <3>1. /\ ctx[r] = "canceled"
          /\ \A n \in Messages : mctx[n] = r => ~Finishing(n)
      BY Zenon, <2>2 DEF CancelLeave, ContextInv, OwnerInv, ClearingInv
    <3>2. r \in InGroup /\ r \notin InGroup'
      <4>1. rpc[r] \in Started /\ rpc' = rpc /\ ctx' = ctx
        BY Zenon, <2>2, <3>1 DEF CancelLeave, OwnInv, Own
      <4>2. Completing(r) /\ ~Completing(r)'
        BY Zenon, <2>2, <3>1 DEF CancelLeave, Completing, Finishing, NextHolder, messageVars,
           LoopTypes
      <4> QED
        BY Zenon, <3>1, <4>1, <4>2 DEF InGroup, InWaitGroup, Started
    <3>3. ASSUME NEW q \in Requests, q # r PROVE q \in InGroup' <=> q \in InGroup
      <4>1. \A n \in Messages : mctx'[n] = q /\ Finishing(n)' <=> mctx[n] = q /\ Finishing(n)
        BY Zenon, <2>2, <3>3, ConstantsAssumption DEF CancelLeave, Finishing, messageVars,
           MessageTypes
      <4>2. Waits(q)
        BY Zenon, <2>2, <3>3, <4>1 DEF CancelLeave, Waits, NextHolder, LoopTypes
      <4> QED
        BY Zenon, <4>2, WaitsInGroup
    <3>4. InGroup' = InGroup \ {r}
      BY Zenon, <3>2, <3>3 DEF InGroup
    <3>5. Cardinality(InGroup') = Cardinality(InGroup) - 1
      BY Zenon, <3>2, <3>4 DEF Counting, InGroup
    <3> QED
      BY Zenon, <2>2, <3>5 DEF CancelLeave, GroupInv
  <2> QED
    BY Zenon, <1>2, <2>1, <2>2
<1>3. ASSUME NEW r \in Requests, RequestStep(r) PROVE GroupInv'
  <2>1. CASE StartTimer(r)
    <3>1. ctx[r] = "pending" /\ rpc[r] \notin Started
      BY Zenon, <2>1, SentFacts DEF StartTimer, OwnInv, Own, Started, RequestTypes
    <3>2. r \notin InGroup /\ r \in InGroup'
      BY Zenon, <2>1, <3>1 DEF StartTimer, InGroup, InWaitGroup, Started, RequestTypes
    <3>3. ASSUME NEW q \in Requests, q # r PROVE q \in InGroup' <=> q \in InGroup
      <4>1. \A n \in Messages : mctx'[n] = q /\ Finishing(n)' <=> mctx[n] = q /\ Finishing(n)
        BY Zenon, <1>3, RequestFrame DEF RequestOnly, Finishing
      <4>2. Waits(q)
        BY <1>3, <3>3, <4>1, RequestFrame DEF RequestOnly, Waits, loopVars
      <4> QED
        BY Zenon, <4>2, WaitsInGroup
    <3>4. InGroup' = InGroup \cup {r}
      BY Zenon, <3>2, <3>3 DEF InGroup
    <3>5. Cardinality(InGroup') = Cardinality(InGroup) + 1
      BY Zenon, <3>2, <3>4 DEF Counting, InGroup
    <3> QED
      BY Zenon, <2>1, <3>5 DEF StartTimer, GroupInv
  <2>2. CASE ReadRequest(r) \/ Refuse(r) \/ Store(r) \/ Overloaded(r)
             \/ (\E to \in {"queued", "handling", "handled"} : Advance(r, to))
             \/ (\E c \in Clusters, to \in {"sendTarget", "handled"} : Send(r, c, to))
    <3>1. ASSUME NEW q \in Requests PROVE q \in InGroup' <=> q \in InGroup
      <4>1. \A n \in Messages : mctx'[n] = q /\ Finishing(n)' <=> mctx[n] = q /\ Finishing(n)
        BY Zenon, <1>3, RequestFrame DEF RequestOnly, Finishing
      <4>2. CASE q # r
        <5>1. Waits(q)
          BY <1>3, <4>1, <4>2, RequestFrame DEF RequestOnly, Waits, loopVars
        <5> QED
          BY Zenon, <5>1, WaitsInGroup
      <4>3. CASE q = r /\ rpc[r] \in Started
        <5>1. rpc'[r] \in Started /\ ctx' = ctx
          BY Zenon, <2>2, <4>3 DEF ReadRequest, Refuse, Store, Overloaded, Advance, Send, Started,
             RequestTypes
        <5>2. Waits(q)
          BY Zenon, <1>3, <4>1, <4>3, <5>1, RequestFrame DEF RequestOnly, Waits, loopVars
        <5> QED
          BY Zenon, <5>2, WaitsInGroup
      <4>4. CASE q = r /\ rpc[r] \notin Started
        <5>0. \/ rpc'[r] = "stored"
              \/ ctx' = ctx /\ rpc[r] \in {"new", "read", "queued", "handling"}
          BY Zenon, <2>2, <4>4 DEF ReadRequest, Refuse, Store, Overloaded, Advance, Send, Started,
             RequestTypes
        <5>1. rpc'[r] \notin Started \/ ctx'[r] = "none"
          BY Zenon, <5>0 DEF SentInv, Sent, Started
        <5>2. ctx'[r] = "none" => ~Completing(r)
          BY <1>3, RequestFrame DEF RequestOnly, ContextInv, OwnerInv, ClearingInv,
             Completing, Finishing
        <5>3. Completing(r)' <=> Completing(r)
          BY Zenon, <1>3, <4>1, <4>4, RequestFrame DEF RequestOnly, Completing, Finishing, loopVars
        <5> QED
          BY Zenon, <4>4, <5>1, <5>2, <5>3 DEF InGroup, InWaitGroup, Started
      <4> QED
        BY Zenon, <4>2, <4>3, <4>4
    <3>2. wg' = wg
      BY Zenon, <2>2 DEF ReadRequest, Refuse, Store, Overloaded, Advance, Send, countVars
    <3> QED
      BY Zenon, <3>1, <3>2, SameGroup
  <2> QED
    BY Zenon, <1>3, <2>1, <2>2 DEF RequestStep
<1>4. ASSUME NEW m \in Messages, MessageStep(m) PROVE GroupInv'
  <2>1. ASSUME NEW q \in Requests PROVE q \in InGroup' <=> q \in InGroup
    <3>1. \A n \in Messages : mctx'[n] = q /\ Finishing(n)' <=> mctx[n] = q /\ Finishing(n)
      BY Zenon, <1>4, MessageFrame DEF MessageOnly, Finishing
    <3>2. Waits(q)
      BY Zenon, <1>4, <3>1, MessageFrame DEF MessageOnly, Waits, requestVars, loopVars
    <3> QED
      BY Zenon, <3>2, WaitsInGroup
  <2>2. wg' = wg
    BY Zenon, <1>4, MessageFrame DEF MessageOnly, countVars
  <2> QED
    BY Zenon, <2>1, <2>2, SameGroup
<1>5. ASSUME NEW m \in Messages, NEW r \in Requests, ContextStep(m, r) PROVE GroupInv'
  <2>1. CASE SetLast(m, r) \/ (\E to \in {"finish", "directFinish"} : TimeOut(m, r, to))
    <3>1. ASSUME NEW q \in Requests PROVE q \in InGroup' <=> q \in InGroup
      <4>1. /\ Finishing(m)' /\ ~Finishing(m) /\ mctx'[m] = r /\ ctx[r] = "pending"
        BY <2>1, MessageParts DEF SetLast, TimeOut, StopTimer, Finishing, MessageTypes
      <4>2. CASE q # r
        <5>1. \A n \in Messages : mctx'[n] = q /\ Finishing(n)' <=> mctx[n] = q /\ Finishing(n)
          BY <1>5, <4>1, <4>2, ContextFrame DEF ContextOnly, TimerOnly, Finishing
        <5>2. Waits(q)
          BY <1>5, <4>2, <5>1, ContextFrame DEF ContextOnly, Waits, loopVars
        <5> QED
          BY Zenon, <5>2, WaitsInGroup
      <4>3. CASE q = r
        <5>1. m = <<m[1], m[2]>> /\ m[1] \in Requests /\ m[2] \in Kinds
          BY Zenon, MessageParts
        <5>2. m[1] = r /\ mpc[<<r, m[2]>>] # "none"
          BY <2>1, <5>1 DEF SetLast, TimeOut, OwnInv, Own
        <5>3. rpc[r] \in Started
          BY Zenon, <5>1, <5>2 DEF SentInv, Sent
        <5>4. rpc' = rpc
          BY Zenon, <1>5, ContextFrame DEF ContextOnly
        <5> QED
          BY Zenon, <4>1, <4>3, <5>3, <5>4 DEF InGroup, InWaitGroup, Completing, Finishing, Started
      <4> QED
        BY Zenon, <4>2, <4>3
    <3>2. wg' = wg
      BY Zenon, <2>1 DEF SetLast, TimeOut, countVars
    <3> QED
      BY Zenon, <3>1, <3>2, SameGroup
  <2>2. CASE Leave(m, r)
    <3>1. /\ ctx[r] \in {"done", "timedout"} /\ ~(clearing.step = "cancel" /\ clearing.ctx = r)
          /\ \A n \in Messages : mctx[n] = r /\ Finishing(n) => n = m
      BY Zenon, <2>2 DEF Leave, Finishing, ContextInv, OwnerInv, ClearingInv
    <3>2. r \in InGroup /\ r \notin InGroup'
      <4>1. rpc[r] \in Started /\ rpc' = rpc /\ ctx' = ctx
        BY Zenon, <2>2, <3>1 DEF Leave, OwnInv, Own
      <4>2. Completing(r) /\ ~Completing(r)'
        BY Zenon, <2>2, <3>1 DEF Leave, Completing, Finishing, loopVars, MessageTypes
      <4> QED
        BY Zenon, <3>1, <4>1, <4>2 DEF InGroup, InWaitGroup, Started
    <3>3. ASSUME NEW q \in Requests, q # r PROVE q \in InGroup' <=> q \in InGroup
      <4>1. \A n \in Messages : mctx'[n] = q /\ Finishing(n)' <=> mctx[n] = q /\ Finishing(n)
        BY Zenon, <2>2, <3>3, ConstantsAssumption DEF Leave, Finishing, messageVars, MessageTypes
      <4>2. Waits(q)
        BY Zenon, <2>2, <3>3, <4>1 DEF Leave, Waits, loopVars
      <4> QED
        BY Zenon, <4>2, WaitsInGroup
    <3>4. InGroup' = InGroup \ {r}
      BY Zenon, <3>2, <3>3 DEF InGroup
    <3>5. Cardinality(InGroup') = Cardinality(InGroup) - 1
      BY Zenon, <3>2, <3>4 DEF Counting, InGroup
    <3> QED
      BY Zenon, <2>2, <3>5 DEF Leave, GroupInv
  <2>3. CASE SetFirst(m, r) \/ (\E to \in {"cleared", "directCleared"} : Free(m, r, to))
    <3>1. ASSUME NEW q \in Requests PROVE q \in InGroup' <=> q \in InGroup
      <4>1. /\ IF Finishing(m) THEN Finishing(m)' /\ mctx'[m] = mctx[m] ELSE ~Finishing(m)'
            /\ ctx' = ctx
        BY Zenon, <2>3 DEF SetFirst, Free, Clearing, Finishing, MessageTypes
      <4>2. \A n \in Messages : mctx'[n] = q /\ Finishing(n)' <=> mctx[n] = q /\ Finishing(n)
        BY Zenon, <1>5, <4>1, ContextFrame DEF ContextOnly, TimerOnly, Finishing
      <4>3. Waits(q)
        BY Zenon, <1>5, <4>1, <4>2, ContextFrame DEF ContextOnly, Waits, loopVars
      <4> QED
        BY Zenon, <4>3, WaitsInGroup
    <3>2. wg' = wg
      BY Zenon, <2>3 DEF SetFirst, Free, countVars
    <3> QED
      BY Zenon, <3>1, <3>2, SameGroup
  <2> QED
    BY Zenon, <1>5, <2>1, <2>2, <2>3 DEF ContextStep
<1> QED
  BY Zenon, <1>1, <1>2, <1>3, <1>4, <1>5, StepCases

-----------------------------------------------------------------------------
(* The in-flight metrics. *)

LEMMA SameFlight ==
    ASSUME FlightInv, inFlight' = inFlight, decision' = decision,
           \A q \in Requests : InFlight(q)' <=> InFlight(q)
    PROVE  FlightInv'
<1>1. ASSUME NEW d PROVE FlightOf(d)' = FlightOf(d)
  BY Zenon DEF FlightOf
<1> QED
  BY Zenon, <1>1 DEF FlightInv

\* r is the only request that enters or leaves, and its counter says so.
LEMMA OneFlight ==
    ASSUME Counting, FlightInv, MessageTypes, NEW r \in Requests, decision' = decision,
           decision[r] \in {"origin", "target", "both"},
           \A q \in Requests : q # r => (InFlight(q)' <=> InFlight(q)),
           \/ ~InFlight(r) /\ InFlight(r)' /\ inFlight' = [inFlight EXCEPT ![decision[r]] = @ + 1]
           \/ InFlight(r) /\ ~InFlight(r)' /\ inFlight' = [inFlight EXCEPT ![decision[r]] = @ - 1]
    PROVE  FlightInv'
<1> SUFFICES ASSUME NEW d \in {"origin", "target", "both"}
             PROVE  inFlight'[d] = Cardinality(FlightOf(d)')
  BY Zenon DEF FlightInv
<1>1. inFlight[d] = Cardinality(FlightOf(d)) /\ Cardinality(FlightOf(d)) \in Nat
  BY Zenon DEF Counting, FlightInv, FlightOf
<1>2. CASE d # decision[r]
  <2>1. FlightOf(d)' = FlightOf(d)
    BY <1>2 DEF FlightOf
  <2>2. inFlight'[d] = inFlight[d]
    BY Zenon, <1>2 DEF MessageTypes
  <2> QED
    BY Zenon, <1>1, <2>1, <2>2
<1>3. CASE d = decision[r] /\ ~InFlight(r) /\ InFlight(r)' /\ inFlight' = [inFlight EXCEPT ![decision[r]] = @ + 1]
  <2>1. FlightOf(d)' = FlightOf(d) \cup {r} /\ r \notin FlightOf(d)
    BY Zenon, <1>3 DEF FlightOf
  <2>2. Cardinality(FlightOf(d)') = Cardinality(FlightOf(d)) + 1
    BY <2>1 DEF Counting, FlightOf
  <2>3. inFlight'[d] = inFlight[d] + 1
    BY Zenon, <1>3 DEF MessageTypes
  <2> QED
    BY Zenon, <1>1, <2>2, <2>3
<1>4. CASE d = decision[r] /\ InFlight(r) /\ ~InFlight(r)' /\ inFlight' = [inFlight EXCEPT ![decision[r]] = @ - 1]
  <2>1. FlightOf(d)' = FlightOf(d) \ {r} /\ r \in FlightOf(d)
    BY Zenon, <1>4 DEF FlightOf
  <2>2. Cardinality(FlightOf(d)') = Cardinality(FlightOf(d)) - 1
    BY Zenon, <2>1 DEF Counting, FlightOf
  <2>3. inFlight'[d] = inFlight[d] - 1
    BY Zenon, <1>4 DEF MessageTypes
  <2> QED
    BY Zenon, <1>1, <2>2, <2>3
<1> QED
  BY Zenon, <1>2, <1>3, <1>4

\* The in-flight metrics count the requests that hold a stream id.
LEMMA FlightStep ==
    ASSUME Counting, StateInv, OwnInv, FlightInv, ~protocolErrOccurred', [Next]_vars
    PROVE  FlightInv'
<1>0. /\ Types /\ SentInv /\ ContextInv /\ RequestTypes /\ MessageTypes /\ ClientTypes /\ LoopTypes
  BY Zenon, StateParts
<1> USE <1>0
<1>1. CASE LoopStep \/ CancelSkip \/ UNCHANGED vars
  BY Zenon, <1>1, IdleFrame, SameFlight DEF requestVars, countVars, InFlight
<1>2. ASSUME NEW r \in Requests, CancelPending(r) \/ CancelLeave(r) PROVE FlightInv'
  <2>1. CASE CancelPending(r)
    <3>1. inFlight' = inFlight /\ decision' = decision
      BY Zenon, <2>1 DEF CancelPending, countVars, requestVars
    <3>2. \A q \in Requests : InFlight(q)' <=> InFlight(q)
      BY Zenon, <2>1 DEF CancelPending, InFlight
    <3> QED
      BY Zenon, <3>1, <3>2, SameFlight
  <2>2. CASE CancelLeave(r)
    <3>1. /\ rpc[r] \in Started /\ decision[r] \in {"origin", "target", "both"}
          /\ Held(r)
      <4>1. ctx[r] \in {"done", "timedout", "canceled"}
        BY Zenon, <2>2 DEF CancelLeave, ContextInv, OwnerInv, ClearingInv
      <4> QED
        BY Zenon, <2>2, <4>1, SentFacts DEF CancelLeave, Held, OwnInv, Own, StateInv
    <3>2. holder[stream[r]] = r
      BY Zenon, <3>1 DEF StateInv, HeldInv
    <3>3. /\ InFlight(r) /\ ~InFlight(r)' /\ decision' = decision
          /\ \A q \in Requests : q # r => (InFlight(q)' <=> InFlight(q))
      BY Zenon, <2>2, <3>1, <3>2, ConstantsAssumption DEF CancelLeave, ClearHolder, InFlight,
         RequestTypes
    <3> QED
      BY Zenon, <2>2, <3>1, <3>3, OneFlight DEF CancelLeave
  <2> QED
    BY Zenon, <1>2, <2>1, <2>2
<1>3. ASSUME NEW r \in Requests, RequestStep(r) PROVE FlightInv'
  <2>1. CASE StartTimer(r)
    <3>1. ctx[r] = "pending" /\ rpc[r] \notin Started /\ decision[r] \in {"origin", "target", "both"}
      BY Zenon, <2>1, SentFacts DEF StartTimer, OwnInv, Own, Started, RequestTypes
    <3>2. holder[stream[r]] = r
      BY Zenon, <3>1 DEF StateInv, HeldInv, Held
    <3>3. /\ ~InFlight(r) /\ InFlight(r)' /\ decision' = decision
          /\ \A q \in Requests : q # r => (InFlight(q)' <=> InFlight(q))
      BY Zenon, <2>1, <3>1, <3>2 DEF StartTimer, InFlight, Started, RequestTypes
    <3> QED
      BY Zenon, <2>1, <3>1, <3>3, OneFlight DEF StartTimer
  <2>2. CASE Store(r)
    <3>1. inFlight' = inFlight /\ decision' = decision
      BY Zenon, <2>2 DEF Store, countVars, requestVars
    <3>2. \A q \in Requests : InFlight(q)' <=> InFlight(q)
      BY Zenon, <2>2, ConstantsAssumption DEF Store, InFlight, Started, RequestTypes
    <3> QED
      BY Zenon, <3>1, <3>2, SameFlight
  <2>3. CASE ReadRequest(r) \/ Refuse(r) \/ Overloaded(r)
             \/ (\E to \in {"queued", "handling", "handled"} : Advance(r, to))
             \/ (\E c \in Clusters, to \in {"sendTarget", "handled"} : Send(r, c, to))
    <3>1. inFlight' = inFlight /\ decision' = decision
      BY Zenon, <2>3 DEF ReadRequest, Refuse, Overloaded, Advance, Send, countVars, requestVars
    <3>2. \A q \in Requests : InFlight(q)' <=> InFlight(q)
      <4>1. /\ UNCHANGED <<stream, holder>> /\ \A q \in Requests : q # r => rpc'[q] = rpc[q]
            /\ \/ rpc'[r] \in Started <=> rpc[r] \in Started
               \/ rpc[r] \in {"read", "queued", "handling"}
        BY Zenon, <2>3 DEF ReadRequest, Refuse, Overloaded, Advance, Send, Started, RequestTypes
      <4>2. rpc[r] \in {"read", "queued", "handling"} => holder[stream[r]] # r
        <5>1. rpc[r] \in {"read", "queued", "handling"} => ctx[r] = "none"
          BY Zenon DEF SentInv, Sent
        <5> QED
          BY <5>1, ConstantsAssumption DEF ContextInv, HolderInv, RequestTypes
      <4> QED
        BY Zenon, <4>1, <4>2 DEF InFlight
    <3> QED
      BY Zenon, <3>1, <3>2, SameFlight
  <2> QED
    BY Zenon, <1>3, <2>1, <2>2, <2>3 DEF RequestStep
<1>4. ASSUME NEW m \in Messages, MessageStep(m) PROVE FlightInv'
  BY Zenon, <1>4, MessageFrame, SameFlight DEF MessageOnly, requestVars, countVars, InFlight
<1>5. ASSUME NEW m \in Messages, NEW r \in Requests, ContextStep(m, r) PROVE FlightInv'
  <2>1. ASSUME NEW to \in {"cleared", "directCleared"}, Free(m, r, to) PROVE FlightInv'
    <3>1. /\ rpc[r] \in Started /\ decision[r] \in {"origin", "target", "both"}
          /\ Held(r)
      <4>1. ctx[r] \in {"done", "timedout", "canceled"}
        BY Zenon, <2>1 DEF Free, Clearing, Finishing, ContextInv, OwnerInv, ClearingInv
      <4> QED
        BY Zenon, <2>1, <4>1, SentFacts DEF Free, Held, OwnInv, Own, StateInv
    <3>2. holder[stream[r]] = r
      BY Zenon, <3>1 DEF StateInv, HeldInv
    <3>3. /\ InFlight(r) /\ ~InFlight(r)' /\ decision' = decision
          /\ \A q \in Requests : q # r => (InFlight(q)' <=> InFlight(q))
      BY <2>1, <3>1, <3>2, ConstantsAssumption DEF Free, ClearHolder, InFlight, RequestTypes
    <3> QED
      BY Zenon, <2>1, <3>1, <3>3, OneFlight DEF Free
  <2>2. CASE SetFirst(m, r) \/ SetLast(m, r) \/ Leave(m, r)
             \/ (\E to \in {"finish", "directFinish"} : TimeOut(m, r, to))
    <3>1. inFlight' = inFlight /\ decision' = decision
      BY Zenon, <2>2 DEF SetFirst, SetLast, Leave, TimeOut, countVars, requestVars
    <3>2. \A q \in Requests : InFlight(q)' <=> InFlight(q)
      BY Zenon, <2>2 DEF SetFirst, SetLast, Leave, TimeOut, InFlight
    <3> QED
      BY Zenon, <3>1, <3>2, SameFlight
  <2> QED
    BY Zenon, <1>5, <2>1, <2>2 DEF ContextStep
<1> QED
  BY Zenon, <1>1, <1>2, <1>3, <1>4, <1>5, StepCases

-----------------------------------------------------------------------------
(* The end of the loops. *)

\* No task of the request loop is left when it waits for the wait group.
LEMMA NoTasks ==
    ASSUME StateInv, handler.requestLoop # "running", NEW r \in Requests
    PROVE  rpc[r] \notin {"queued", "handling", "stored", "sending", "sendTarget"}
  BY Zenon DEF StateInv, LoopInv, HandlerTasks

LEMMA NotClosed ==
    ASSUME StateInv, PanicInv, ChannelInv, DrainedInv, NEW r \in Requests, NEW S, SendResponseToClient(r, S),
           rpc[r] \in {"read", "queued", "handling", "sending"} \/ wg # 0
    PROVE  PanicInv'
<1>1. handler.clientConnector # "closed"
  BY Zenon, NoTasks DEF ChannelInv, DrainedInv
<1> QED
  BY Zenon, <1>1 DEF SendResponseToClient, PanicInv

\* No step sends to a channel or a queue that is closed.
LEMMA PanicStep ==
    ASSUME Counting, StateInv, OwnInv, GroupInv, PanicInv, ChannelInv, DrainedInv, ~protocolErrOccurred', [Next]_vars
    PROVE  PanicInv'
<1>0. /\ Types /\ SentInv /\ ContextInv /\ RequestTypes /\ MessageTypes /\ ClientTypes /\ LoopTypes
  BY Zenon, StateParts
<1> USE <1>0
<1>1. CASE LoopStep \/ CancelSkip \/ UNCHANGED vars
  BY Zenon, <1>1, IdleFrame DEF clientVars, PanicInv
<1>2. ASSUME NEW r \in Requests, CancelPending(r) \/ CancelLeave(r) PROVE PanicInv'
  BY Zenon, <1>2, CancelFrame DEF CancelOnly, clientVars, PanicInv
<1>3. ASSUME NEW r \in Requests, RequestStep(r) PROVE PanicInv'
  <2>1. CASE Refuse(r) \/ Overloaded(r)
    BY Zenon, <2>1, NotClosed DEF Refuse, Overloaded
  <2>2. ASSUME NEW c \in Clusters, NEW to \in {"sendTarget", "handled"}, Send(r, c, to) PROVE PanicInv'
    <3>1. handler.requestLoop # "done"
      BY Zenon, <2>2, NoTasks DEF Send
    <3> QED
      BY Zenon, <2>2, <3>1 DEF Send, PanicInv
  <2>3. CASE ReadRequest(r) \/ Store(r) \/ StartTimer(r)
             \/ (\E to \in {"queued", "handling", "handled"} : Advance(r, to))
    BY Zenon, <2>3 DEF ReadRequest, Store, StartTimer, Advance, clientVars, PanicInv
  <2> QED
    BY Zenon, <1>3, <2>1, <2>2, <2>3 DEF RequestStep
<1>4. ASSUME NEW m \in Messages, MessageStep(m) PROVE PanicInv'
  <2>1. CASE Publish(m)
    <3>1. ~handler.respChannelClosed
      <4>1. m = <<m[1], m[2]>> /\ m[1] \in Requests /\ m[2] \in Clusters \cup {"timer"}
        BY Zenon, MessageParts DEF Kinds
      <4> QED
        BY Zenon, <2>1, <4>1 DEF Publish, ChannelInv
    <3> QED
      BY Zenon, <2>1, <3>1 DEF Publish, PanicInv
  <2>2. CASE (\E to \in {"read", "direct"} : Read(m, to)) \/ ForwardError(m) \/ Ignore(m)
             \/ (\E to \in {"done", "found"} : Find(m, to))
    BY Zenon, <2>2 DEF Read, ForwardError, Ignore, Find, clientVars, PanicInv
  <2> QED
    BY Zenon, <1>4, <2>1, <2>2 DEF MessageStep
<1>5. ASSUME NEW m \in Messages, NEW r \in Requests, ContextStep(m, r) PROVE PanicInv'
  <2>1. CASE Leave(m, r)
    <3>1. r \in InGroup
      <4>1. Finishing(m) /\ ctx[r] \in {"done", "timedout"}
        BY Zenon, <2>1 DEF Leave, Finishing, ContextInv, OwnerInv
      <4> QED
        BY Zenon, <2>1, <4>1 DEF Leave, InGroup, InWaitGroup, Completing, Finishing, OwnInv, Own,
           Started
    <3>2. wg # 0
      BY Zenon, <3>1 DEF Counting, GroupInv, InGroup
    <3> QED
      BY Zenon, <2>1, <3>2, NotClosed DEF Leave, Answer, clientVars, PanicInv
  <2>2. CASE SetFirst(m, r) \/ SetLast(m, r)
             \/ (\E to \in {"finish", "directFinish"} : TimeOut(m, r, to))
             \/ (\E to \in {"cleared", "directCleared"} : Free(m, r, to))
    BY Zenon, <2>2 DEF SetFirst, SetLast, TimeOut, Free, clientVars, PanicInv
  <2> QED
    BY Zenon, <1>5, <2>1, <2>2 DEF ContextStep
<1> QED
  BY Zenon, <1>1, <1>2, <1>3, <1>4, <1>5, StepCases

\* A step that neither reads a message nor a request and leaves the loops alone.
Settled ==
    /\ handler' = handler
    /\ \A m \in Messages : mpc'[m] = "read" => mpc[m] = "read"
    /\ \A r \in Requests : rpc'[r] = "read" => rpc[r] = "read"

LEMMA SettledChannels == ASSUME ChannelInv, Settled PROVE ChannelInv'
  BY Zenon, MessageParts DEF ChannelInv, Settled, Kinds

LEMMA ChannelStep ==
    ASSUME StateInv, ChannelInv, ~protocolErrOccurred', [Next]_vars
    PROVE  ChannelInv'
<1>0. /\ Types /\ SentInv /\ ContextInv /\ RequestTypes /\ MessageTypes /\ ClientTypes /\ LoopTypes
  BY Zenon, StateParts
<1> USE <1>0
<1>1. CASE LoopStep \/ CancelSkip \/ UNCHANGED vars
  <2>1. CASE CancelContext \/ Stalls \/ RequestShutdown \/ SetDrainMode
    BY <2>1 DEF CancelContext, Stalls, Stall, RequestShutdown, SetDrainMode, Unaffected, requestVars,
       messageVars, ChannelInv, LoopTypes
  <2>2. CASE DrainRequests \/ EndRequestLoop
    BY <2>2 DEF DrainRequests, EndRequestLoop, Unaffected, requestVars, messageVars,
       ChannelInv, LoopTypes
  <2>3. CASE CloseRespChannel \/ EndResponseLoop
    BY <2>3 DEF CloseRespChannel, EndResponseLoop, Unaffected, requestVars, messageVars,
       ChannelInv, LoopTypes
  <2>4. CASE StopClientConnector
    BY <2>4 DEF StopClientConnector, Unaffected, requestVars, messageVars, ChannelInv,
       LoopTypes
  <2>5. CASE CloseClientConnector
    BY Zenon, <2>5 DEF CloseClientConnector, Unaffected, requestVars, messageVars, ChannelInv,
       LoopTypes
  <2>6. ASSUME NEW s \in StreamIds, ClearGet(s) PROVE ChannelInv'
    BY <2>6 DEF ClearGet, Unaffected, requestVars, messageVars, ChannelInv, LoopTypes
  <2>7. ASSUME NEW c \in Clusters, CloseConnection(c) \/ EndConnector(c) PROVE ChannelInv'
    BY <2>7 DEF CloseConnection, EndConnector, Unaffected, requestVars, messageVars,
       ChannelInv, LoopTypes
  <2>8. CASE CancelSkip \/ UNCHANGED vars
    BY Zenon, <2>8 DEF CancelSkip, vars, requestVars, messageVars, loopVars, ChannelInv
  <2> QED
    BY Zenon, <1>1, <2>1, <2>2, <2>3, <2>4, <2>5, <2>6, <2>7, <2>8 DEF LoopStep
<1>2. ASSUME NEW r \in Requests, CancelPending(r) \/ CancelLeave(r) PROVE ChannelInv'
  BY Zenon, <1>2, CancelFrame, SettledChannels DEF CancelOnly, TimerOnly, Settled
<1>3. ASSUME NEW r \in Requests, RequestStep(r) PROVE ChannelInv'
  <2>1. CASE ReadRequest(r)
    <3>1. /\ UNCHANGED <<mpc, handler>> /\ ~handler.ctxDone
          /\ \A p \in Requests : rpc'[p] = "read" => rpc[p] = "read" \/ p = r
      BY Zenon, <2>1 DEF ReadRequest, messageVars, loopVars, RequestTypes
    <3> QED
      BY Zenon, <3>1 DEF ChannelInv
  <2>2. CASE Refuse(r) \/ Store(r) \/ StartTimer(r) \/ Overloaded(r)
             \/ (\E to \in {"queued", "handling", "handled"} : Advance(r, to))
             \/ (\E c \in Clusters, to \in {"sendTarget", "handled"} : Send(r, c, to))
    <3>1. rpc'[r] # "read"
      BY Zenon, <2>2 DEF Refuse, Store, StartTimer, Overloaded, Advance, Send, RequestTypes
    <3> QED
      BY Zenon, <1>3, <3>1, RequestFrame, SettledChannels DEF RequestOnly, Settled, loopVars
  <2> QED
    BY Zenon, <1>3, <2>1, <2>2 DEF RequestStep
<1>4. ASSUME NEW m \in Messages, MessageStep(m) PROVE ChannelInv'
  <2>1. ASSUME NEW to \in {"read", "direct"}, Read(m, to) PROVE ChannelInv'
    <3>1. UNCHANGED <<rpc, handler>> /\ \A n \in Messages : n # m => mpc'[n] = mpc[n]
      BY Zenon, <2>1 DEF Read, requestVars, loopVars, MessageTypes
    <3>2. mpc'[m] = "read" => \/ m[2] \in Clusters /\ handler.connector[m[2]] = "open"
                              \/ m[2] = "timer" /\ ~handler.respChannelClosed
      <4>1. mpc'[m] = to
        BY Zenon, <2>1 DEF Read, MessageTypes
      <4> QED
        BY Zenon, <2>1, <4>1 DEF Read
    <3>3. \A r \in Requests, k \in Kinds : <<r, k>> \in Messages /\ (<<r, k>> = m => m[2] = k)
      BY Zenon, MessageParts
    <3> QED
      BY Zenon, <3>1, <3>2, <3>3 DEF ChannelInv, Kinds, Clusters
  <2>2. CASE Publish(m) \/ ForwardError(m) \/ Ignore(m)
             \/ (\E to \in {"done", "found"} : Find(m, to))
    <3>1. mpc'[m] # "read"
      BY Zenon, <2>2 DEF Publish, ForwardError, Ignore, Find, MessageTypes
    <3> QED
      BY Zenon, <1>4, <3>1, MessageFrame, SettledChannels DEF MessageOnly, Settled, requestVars,
         loopVars
  <2> QED
    BY Zenon, <1>4, <2>1, <2>2 DEF MessageStep
<1>5. ASSUME NEW m \in Messages, NEW r \in Requests, ContextStep(m, r) PROVE ChannelInv'
  BY Zenon, <1>5, ContextFrame, SettledChannels DEF ContextOnly, TimerOnly, Settled, loopVars
<1> QED
  BY Zenon, <1>1, <1>2, <1>3, <1>4, <1>5, StepCases

\* EndRequestLoop waits for the wait group, and no request enters it afterwards.
LEMMA DrainedStep ==
    ASSUME Counting, StateInv, DrainedInv, GroupInv', ~protocolErrOccurred', [Next]_vars
    PROVE  DrainedInv'
<1>0. /\ Types /\ SentInv /\ ContextInv /\ RequestTypes /\ MessageTypes /\ ClientTypes /\ LoopTypes
  BY Zenon, StateParts
<1> USE <1>0
<1>00. wg' >= 0
  <2>1. wg' \in Nat
    BY Zenon DEF Counting, GroupInv, InGroup
  <2> QED
    BY <2>1
<1>1. CASE LoopStep \/ CancelSkip \/ UNCHANGED vars
  <2>1. CASE CancelContext \/ Stalls \/ RequestShutdown \/ SetDrainMode
    BY Zenon, <2>1 DEF CancelContext, Stalls, Stall, RequestShutdown, SetDrainMode, Unaffected, countVars,
       DrainedInv, LoopTypes
  <2>2. CASE DrainRequests \/ EndRequestLoop
    BY Zenon, <2>2 DEF DrainRequests, EndRequestLoop, Unaffected, countVars, DrainedInv, LoopTypes
  <2>3. CASE CloseRespChannel \/ EndResponseLoop
    BY Zenon, <2>3 DEF CloseRespChannel, EndResponseLoop, Unaffected, countVars, DrainedInv,
       LoopTypes
  <2>4. CASE StopClientConnector \/ CloseClientConnector
    BY Zenon, <2>4 DEF StopClientConnector, CloseClientConnector, Unaffected, countVars,
       DrainedInv, LoopTypes
  <2>5. ASSUME NEW s \in StreamIds, ClearGet(s) PROVE DrainedInv'
    BY Zenon, <2>5 DEF ClearGet, Unaffected, countVars, DrainedInv, LoopTypes
  <2>6. ASSUME NEW c \in Clusters, CloseConnection(c) \/ EndConnector(c) PROVE DrainedInv'
    BY Zenon, <2>6 DEF CloseConnection, EndConnector, Unaffected, countVars, DrainedInv, LoopTypes
  <2>7. CASE CancelSkip \/ UNCHANGED vars
    BY Zenon, <2>7 DEF CancelSkip, vars, countVars, loopVars, DrainedInv
  <2> QED
    BY Zenon, <1>1, <2>1, <2>2, <2>3, <2>4, <2>5, <2>6, <2>7 DEF LoopStep
<1>2. ASSUME NEW r \in Requests, CancelPending(r) \/ CancelLeave(r) PROVE DrainedInv'
  <2>1. CASE CancelPending(r)
    BY Zenon, <2>1 DEF CancelPending, countVars, DrainedInv
  <2>2. CASE CancelLeave(r)
    <3>1. wg' = wg - 1 /\ handler' = handler
      BY Zenon, <2>2 DEF CancelLeave
    <3> QED
      BY <3>1, <1>00 DEF DrainedInv
  <2> QED
    BY Zenon, <1>2, <2>1, <2>2
<1>3. ASSUME NEW r \in Requests, RequestStep(r) PROVE DrainedInv'
  <2>1. CASE StartTimer(r)
    BY Zenon, <2>1, NoTasks DEF StartTimer, loopVars, DrainedInv
  <2>2. CASE ReadRequest(r) \/ Refuse(r) \/ Store(r) \/ Overloaded(r)
             \/ (\E to \in {"queued", "handling", "handled"} : Advance(r, to))
             \/ (\E c \in Clusters, to \in {"sendTarget", "handled"} : Send(r, c, to))
    BY Zenon, <2>2 DEF ReadRequest, Refuse, Store, Overloaded, Advance, Send, loopVars, countVars,
       DrainedInv
  <2> QED
    BY Zenon, <1>3, <2>1, <2>2 DEF RequestStep
<1>4. ASSUME NEW m \in Messages, MessageStep(m) PROVE DrainedInv'
  BY Zenon, <1>4, MessageFrame DEF MessageOnly, loopVars, countVars, DrainedInv
<1>5. ASSUME NEW m \in Messages, NEW r \in Requests, ContextStep(m, r) PROVE DrainedInv'
  <2>1. CASE Leave(m, r)
    <3>1. wg' = wg - 1 /\ handler' = handler
      BY Zenon, <2>1 DEF Leave, loopVars
    <3> QED
      BY <3>1, <1>00 DEF DrainedInv
  <2>2. CASE SetFirst(m, r) \/ SetLast(m, r)
             \/ (\E to \in {"finish", "directFinish"} : TimeOut(m, r, to))
             \/ (\E to \in {"cleared", "directCleared"} : Free(m, r, to))
    BY Zenon, <2>2 DEF SetFirst, SetLast, TimeOut, Free, loopVars, countVars, DrainedInv
  <2> QED
    BY Zenon, <1>5, <2>1, <2>2 DEF ContextStep
<1> QED
  BY Zenon, <1>1, <1>2, <1>3, <1>4, <1>5, StepCases

-----------------------------------------------------------------------------
(* The theorems. *)

\* What holds until a protocol error is forwarded.
QuietInv == OwnInv /\ AnswersInv /\ GroupInv /\ FlightInv /\ ChannelInv /\ DrainedInv /\ PanicInv

HandlerInv == StateInv /\ (~protocolErrOccurred => QuietInv)

LEMMA InitQuiet == ASSUME Counting, Init PROVE QuietInv
<1>1. OwnInv
  BY Zenon, ConstantsAssumption, MessageParts DEF Init, OwnInv, Own, Live, Started, Kinds
<1>2. InGroup = {} /\ \A d : FlightOf(d) = {}
  BY Zenon DEF Init, InGroup, InWaitGroup, FlightOf, InFlight, Started
<1>3. GroupInv /\ FlightInv
  BY Zenon, <1>2 DEF Counting, Init, GroupInv, FlightInv
<1>4. AnswersInv /\ ChannelInv /\ DrainedInv /\ PanicInv
  BY Zenon DEF Init, NewClientHandler, AnswersInv, ChannelInv, DrainedInv, PanicInv
<1> QED
  BY Zenon, <1>1, <1>3, <1>4 DEF QuietInv

LEMMA QuietStep ==
    ASSUME Counting, StateInv, QuietInv, ~protocolErrOccurred', [Next]_vars
    PROVE  QuietInv'
<1>1. OwnInv /\ AnswersInv /\ GroupInv /\ FlightInv /\ ChannelInv /\ DrainedInv /\ PanicInv
  BY Zenon DEF QuietInv
<1>2. GroupInv'
  BY Zenon, <1>1, GroupStep
<1> QED
  BY Zenon, <1>1, <1>2, OwnStep, AnswersStep, FlightStep, ChannelStep, DrainedStep, PanicStep
     DEF QuietInv

INSTANCE FiniteSetTheorems

LEMMA CountingHolds == Counting
<1>1. Cardinality({}) = 0
  BY FS_EmptySet
<1>2. ASSUME NEW T \in SUBSET Requests
      PROVE  /\ Cardinality(T) \in Nat
             /\ Cardinality(T) = 0 => T = {}
             /\ \A r \in Requests : /\ r \notin T => Cardinality(T \cup {r}) = Cardinality(T) + 1
                                    /\ r \in T => Cardinality(T \ {r}) = Cardinality(T) - 1
  <2>1. IsFiniteSet(T)
    BY FS_Subset, ConstantsAssumption
  <2> QED
    BY <2>1, FS_CardinalityType, FS_EmptySet, FS_AddElement, FS_RemoveElement
<1> QED
  BY Zenon, <1>1, <1>2 DEF Counting

LEMMA HandlerAlways == Spec => []HandlerInv
<1>1. Init => HandlerInv
  BY Zenon, CountingHolds, InitState, InitQuiet DEF HandlerInv
<1>2. HandlerInv /\ [Next]_vars => HandlerInv'
  BY Zenon, CountingHolds, StateStep, ErrorStays, QuietStep DEF HandlerInv
<1> QED
  BY <1>1, <1>2, PTL DEF Spec

\* Until a protocol error is forwarded the client gets at most one answer to a
\* request, and finishRequest made it from the responses to that request: a late
\* response never completes the request that uses its stream id next.
THEOREM AnswersAreTheirs == Spec => []AnswersMatch
<1>1. HandlerInv => AnswersMatch
  BY Zenon DEF HandlerInv, QuietInv, AnswersInv, AnswersMatch
<1> QED
  BY <1>1, HandlerAlways, PTL

\* The wait group of the handler is the number of requests in flight, and never
\* negative, however responses, timeouts and the cancellation of their contexts
\* race: clientHandlerRequestWaitGroup.Wait neither returns early nor hangs.
THEOREM WaitGroupIsExact == Spec => []WaitGroupExact
<1>1. HandlerInv => WaitGroupExact
  <2> SUFFICES ASSUME HandlerInv PROVE WaitGroupExact
    BY Zenon
  <2>1. RequestTypes /\ MessageTypes /\ ClientTypes /\ LoopTypes
    BY Zenon, StateParts DEF HandlerInv
  <2>2. protocolErrOccurred \/ wg = Cardinality({r \in Requests : InWaitGroup(r)})
    BY Zenon DEF HandlerInv, QuietInv, GroupInv, InGroup
  <2>3. ~protocolErrOccurred => wg >= 0
    <3>1. Cardinality({r \in Requests : InWaitGroup(r)}) \in Nat
      BY Zenon, CountingHolds DEF Counting
    <3> QED
      BY <2>2, <3>1
  <2>4. TypeOK
    BY Zenon, <2>1, <2>3 DEF RequestTypes, MessageTypes, ClientTypes, LoopTypes, TypeOK
  <2> QED
    BY Zenon, <2>2, <2>4 DEF WaitGroupExact
<1> QED
  BY <1>1, HandlerAlways, PTL

\* Until a protocol error is forwarded nothing is sent to a channel or a write
\* queue that is closed, and when requestLoop has ended no stream id is held and
\* the in-flight metrics are zero.
THEOREM ShutdownIsClean == Spec => []CleanShutdown
<1>1. HandlerInv => CleanShutdown
  <2> SUFFICES ASSUME HandlerInv, ~protocolErrOccurred PROVE
          /\ panics = {}
          /\ handler.requestLoop = "done" =>
              /\ wg = 0 /\ \A d \in DOMAIN inFlight : inFlight[d] = 0
              /\ \A s \in StreamIds : holder[s] = None
    BY Zenon DEF CleanShutdown
  <2>0. StateInv /\ QuietInv /\ RequestTypes /\ MessageTypes
    BY Zenon, StateParts DEF HandlerInv
  <2>1. panics = {}
    BY Zenon, <2>0 DEF QuietInv, PanicInv
  <2>2. ASSUME handler.requestLoop = "done" PROVE wg = 0 /\ InGroup = {}
    <3>1. wg = 0 /\ wg = Cardinality(InGroup)
      BY Zenon, <2>0, <2>2 DEF QuietInv, DrainedInv, GroupInv
    <3> QED
      BY Zenon, <3>1, CountingHolds DEF Counting, InGroup
  <2>3. ASSUME handler.requestLoop = "done", NEW r \in Requests PROVE holder[stream[r]] # r
    <3>1. r \notin InGroup /\ rpc[r] \notin {"queued", "handling", "stored", "sending", "sendTarget"}
      BY Zenon, <2>0, <2>2, <2>3, NoTasks
    <3>2. SUFFICES ASSUME Held(r) PROVE FALSE
      BY Zenon, <2>0 DEF StateInv, HeldInv
    <3>3. ctx[r] # "none"
      BY Zenon, <2>0, <3>2 DEF Held, Clearing, Finishing, StateInv, ContextInv, OwnerInv,
         ClearingInv
    <3>4. rpc[r] = "handled"
      BY Zenon, <2>0, <3>1, <3>3, SentFacts DEF StateInv, RequestTypes
    <3>5. ctx[r] = "pending" \/ Completing(r)
      BY Zenon, <3>2 DEF Held, Clearing, Completing
    <3> QED
      BY Zenon, <3>1, <3>4, <3>5 DEF InGroup, InWaitGroup
  <2>4. ASSUME handler.requestLoop = "done" PROVE \A s \in StreamIds : holder[s] = None
    BY Zenon, <2>0, <2>3, <2>4 DEF StateInv, ContextInv, HolderInv, RequestTypes
  <2>5. ASSUME handler.requestLoop = "done" PROVE \A d \in DOMAIN inFlight : inFlight[d] = 0
    <3>1. \A d : FlightOf(d) = {}
      BY Zenon, <2>3, <2>5 DEF FlightOf, InFlight
    <3> QED
      BY Zenon, <2>0, <3>1, CountingHolds DEF Counting, QuietInv, FlightInv, MessageTypes
  <2> QED
    BY Zenon, <2>1, <2>2, <2>4, <2>5
<1> QED
  BY <1>1, HandlerAlways, PTL
=============================================================================
