------------------------ MODULE AsyncConnectorProofs ------------------------
(***************************************************************************)
(* The asynchronous connector's wait group for any number of requests and  *)
(* stream ids, any size of the write queue and any set of answers.         *)
(*                                                                         *)
(* WaitGroupSound counts units, so the invariant says who owns each one.   *)
(*  - JobInv: what is set of a job at each point of its way (Job), and     *)
(*    when its PREPARE and its handshake request exist (Link).             *)
(*  - HolderInv: a pending request has its context.                        *)
(*  - LoopInv: no request is being sent once the request loop has ended,   *)
(*    and the context that is being cleared exists.                        *)
(*  - CountInv: the wait group is the number of jobs that own a unit       *)
(*    (Units), the in-flight metric of those that it counts (Flight), and  *)
(*    a connector that has drained has none.                               *)
(* Each step changes what one job holds and moves the counters with it.    *)
(* All of it is claimed until two parties meet over one request (raced).   *)
(***************************************************************************)
EXTENDS AsyncConnector, TLAPS

Marked == {"markedOk", "markedUnprepared", "leaving"}

\* What holds of a job at each point of its way.
Job(j) ==
    /\ jpc[j] \in {"idle", "assign"} => id[j] = None
    /\ jpc[j] \in {"idle", "assign", "store"} => actx[j] = "none"
    /\ jpc[j] \in {"idle", "assign", "store", "track"} => timer[j] = "off"
    /\ jpc[j] \in {"track", "enqueue"} => actx[j] = "pending"
    /\ jpc[j] = "failed" => actx[j] \in {"none", "canceled"}
    /\ jpc[j] # "handed" => rpc[j] = "none" /\ j \notin queue \cup wire
    /\ jpc[j] \in {"store", "track", "enqueue"} \/ j \in queue \cup wire
         \/ rpc[j] # "none" \/ actx[j] # "none" => id[j] \in Ids
    /\ j \in queue => j \notin wire
    /\ j \in queue \cup wire => rpc[j] = "none"
    /\ timer[j] = "armed" => actx[j] = "pending"
    /\ timer[j] = "fired" => actx[j] = "timedout"
    /\ rctx[j] \in {None, j}
    /\ rpc[j] = "none" => rctx[j] = None
    /\ rpc[j] \in Marked => rctx[j] = j /\ actx[j] = "done"
    /\ rpc[j] \in {"unprepared", "markedUnprepared"} => j[2] = "request"

\* A PREPARE is sent for a fire and forget request that has been answered.
Link(r) ==
    /\ jpc[<<r, "prepare">>] # "idle" =>
          kind[r] = "async" /\ rpc[<<r, "request">>] = "done"
    /\ main[r] # "none" <=> kind[r] = "handshake" /\ jpc[<<r, "request">>] # "idle"

JobInv == (\A j \in Jobs : Job(j)) /\ (\A r \in Requests : Link(r))

\* A pending request has its context.
HolderInv == \A i \in Ids : pending[i] # None => actx[pending[i]] # "none"

LoopInv ==
    /\ requestLoop # "running" => \A r \in Requests : ~InProgress(<<r, "request">>)
    /\ clearing.step \in {"found", "clear"} =>
          clearing.ctx \in Jobs /\ actx[clearing.ctx] # "none"

\* The jobs with a unit of the wait group.
Holds(j) ==
    \/ jpc[j] \in {"assign", "store", "failed"}
    \/ actx[j] = "pending" \/ timer[j] = "fired" \/ rpc[j] \in Marked

HasUnit(j) ==
    IF ExpectedResponse(j) THEN main[j[1]] = "pending" ELSE Holds(j)

Units == {j \in Jobs : HasUnit(j)}

\* The requests that the in-flight metric counts.
Flying(j) == Tracked(j) = 1 /\ actx[j] = "pending" /\ jpc[j] # "track"

Flight == {j \in Jobs : Flying(j)}

CountInv ==
    /\ wg = Cardinality(Units) /\ inFlight = Cardinality(Flight)
    /\ requestLoop = "done" => wg = 0
    /\ panics = {}

IInv == TypeOK /\ JobInv /\ HolderInv /\ LoopInv /\ CountInv

-----------------------------------------------------------------------------
(* The types, one group of variables at a time. *)

Outcomes == {"none", "pending", "done", "timedout", "canceled"}

JobTypes ==
    /\ kind \in [Requests -> Kinds] /\ main \in [Requests -> Outcomes]
    /\ jpc \in [Jobs -> {"idle", "assign", "store", "track", "enqueue", "failed", "handed"}]
    /\ id \in [Jobs -> Ids \cup {None}] /\ actx \in [Jobs -> Outcomes]
    /\ timer \in [Jobs -> {"off", "armed", "fired", "stopped"}]

RespTypes ==
    /\ rpc \in [Jobs -> Answers \cup {"none", "markedOk", "markedUnprepared", "leaving", "done"}]
    /\ rctx \in [Jobs -> Jobs \cup {None}]

ConnTypes ==
    /\ clusterIds \in Seq(Ids) /\ pending \in [Ids -> Jobs \cup {None}]
    /\ queue \subseteq Jobs /\ wire \subseteq Jobs
    /\ state \in {"handshake", "ready", "shutdown"} /\ connClosed \in BOOLEAN

EndTypes ==
    /\ requestLoop \in {"running", "waiting", "done"} /\ ctxDone \in BOOLEAN
    /\ clearing \in [step : {"off", "main", "next", "found", "clear"},
                     visited : SUBSET (Requests \cup Ids), ctx : Jobs \cup {None}]

Types == JobTypes /\ RespTypes /\ ConnTypes /\ EndTypes

-----------------------------------------------------------------------------
(* The steps, as they show at one job.  An action of the connector changes the *)
(* fields of one job, and FreePending the PREPARE of the same request as well. *)

SameContext(j) == actx'[j] = actx[j] /\ timer'[j] = timer[j]
SameResponse(j) == rpc'[j] = rpc[j] /\ rctx'[j] = rctx[j]
SameWire(j) == (j \in queue' <=> j \in queue) /\ (j \in wire' <=> j \in wire)
SameSender(j) == jpc'[j] = jpc[j] /\ id'[j] = id[j]

Same(j) == SameSender(j) /\ SameContext(j) /\ SameResponse(j) /\ SameWire(j)

Others(j) == \A k \in Jobs : k # j => Same(k)
OtherMains(r) == \A q \in Requests : q # r => main'[q] = main[q]

SameCounts == wg' = wg /\ inFlight' = inFlight
SameIds == clusterIds' = clusterIds
SamePending == pending' = pending
Cleared(j) == pending' = ClearPending(j)
Stopped(j) == timer'[j] = IF timer[j] = "armed" THEN "stopped" ELSE timer[j]

\* j's unit is given back, unless somebody else answered the request.
Leaves(j) ==
    /\ inFlight' = inFlight /\ OtherMains(j[1])
    /\ IF ExpectedResponse(j)
       THEN /\ main'[j[1]] # "pending" /\ main'[j[1]] # "none"
            /\ wg' = wg - (IF main[j[1]] = "pending" THEN 1 ELSE 0)
       ELSE main' = main /\ wg' = wg - 1

\* A request is sent, or refused because the connector is not ready for it.
Begins(j, to) ==
    /\ jpc[j] = "idle" /\ j[2] = "request" /\ requestLoop = "running"
    /\ jpc'[j] = to /\ to \in {"assign", "handed"}
    /\ id'[j] = id[j] /\ SameContext(j) /\ SameResponse(j) /\ SameWire(j)
    /\ SameIds /\ SamePending /\ OtherMains(j[1]) /\ inFlight' = inFlight
    /\ wg' = IF to = "assign" THEN wg + 1 ELSE wg
    /\ main'[j[1]] = IF ~ExpectedResponse(j) THEN main[j[1]]
                     ELSE IF to = "assign" THEN "pending" ELSE "canceled"

Assigns(j) ==
    /\ jpc[j] = "assign" /\ jpc'[j] = "store" /\ clusterIds # <<>>
    /\ id'[j] = Head(clusterIds) /\ clusterIds' = Tail(clusterIds)
    /\ SameContext(j) /\ SameResponse(j) /\ SameWire(j)
    /\ SamePending /\ SameCounts /\ main' = main

Fails(j) ==
    /\ jpc[j] \in {"assign", "store"} /\ jpc'[j] = "failed"
    /\ id'[j] = id[j] /\ SameContext(j) /\ SameResponse(j) /\ SameWire(j)
    /\ SameIds /\ SamePending /\ SameCounts /\ main' = main

Stores(j) ==
    /\ jpc[j] = "store" /\ jpc'[j] = "track" /\ actx'[j] = "pending"
    /\ pending[id[j]] = None /\ pending' = [pending EXCEPT ![id[j]] = j]
    /\ id'[j] = id[j] /\ timer'[j] = timer[j] /\ SameResponse(j) /\ SameWire(j)
    /\ SameIds /\ SameCounts /\ main' = main

Tracks(j) ==
    /\ jpc[j] = "track" /\ jpc'[j] = "enqueue" /\ timer'[j] = "armed"
    /\ id'[j] = id[j] /\ actx'[j] = actx[j] /\ SameResponse(j) /\ SameWire(j)
    /\ SameIds /\ SamePending /\ main' = main
    /\ wg' = wg /\ inFlight' = inFlight + Tracked(j)

Queues(j) ==
    /\ jpc[j] = "enqueue" /\ jpc'[j] = "handed" /\ j \in queue' /\ (j \in wire' <=> j \in wire)
    /\ id'[j] = id[j] /\ SameContext(j) /\ SameResponse(j)
    /\ SameIds /\ SamePending /\ SameCounts /\ main' = main

\* The write queue is full.
Overflows(j) ==
    /\ jpc[j] = "enqueue" /\ jpc'[j] = "failed" /\ actx'[j] = "canceled" /\ Stopped(j)
    /\ id'[j] = id[j] /\ SameResponse(j) /\ SameWire(j)
    /\ SameIds /\ Cleared(j) /\ main' = main
    /\ wg' = wg /\ inFlight' = inFlight - Tracked(j)

GivesUp(j) ==
    /\ jpc[j] = "failed" /\ jpc'[j] = "handed" /\ Leaves(j)
    /\ id'[j] = id[j] /\ SameContext(j) /\ SameResponse(j) /\ SameWire(j)
    /\ SameIds /\ SamePending

Fires(j) ==
    /\ timer[j] = "armed" /\ ~InProgress(j) /\ actx[j] = "pending"
    /\ actx'[j] = "timedout" /\ timer'[j] = "fired"
    /\ SameSender(j) /\ SameResponse(j) /\ SameWire(j)
    /\ SameIds /\ SamePending /\ main' = main
    /\ wg' = wg /\ inFlight' = inFlight - Tracked(j)

Expires(j) ==
    /\ timer[j] = "fired" /\ timer'[j] = "stopped" /\ actx'[j] = actx[j] /\ Leaves(j)
    /\ SameSender(j) /\ SameResponse(j) /\ SameWire(j)
    /\ SameIds /\ Cleared(j)

Writes(j) ==
    /\ j \in queue /\ j \notin queue'
    /\ SameSender(j) /\ SameContext(j) /\ SameResponse(j)
    /\ SameIds /\ SamePending /\ SameCounts /\ main' = main

Reads(j) ==
    /\ j \in wire /\ j \notin wire' /\ (j \in queue' <=> j \in queue)
    /\ rpc'[j] \in Answers /\ (rpc'[j] = "unprepared" => j[2] = "request")
    /\ SameSender(j) /\ SameContext(j) /\ rctx'[j] = rctx[j]
    /\ clusterIds' = Append(clusterIds, id[j])
    /\ SamePending /\ SameCounts /\ main' = main

\* A response without effect: a protocol error, or its context is gone or was
\* completed by others.
Drops(j) ==
    /\ rpc[j] \in {"ok", "unprepared", "protocolError"} /\ rpc'[j] = "done"
    /\ rctx'[j] = rctx[j] /\ SameSender(j) /\ SameContext(j) /\ SameWire(j)
    /\ SameIds /\ SamePending /\ SameCounts /\ main' = main

Finds(j) ==
    /\ rpc[j] \in {"ok", "unprepared"} /\ rpc'[j] = rpc[j] /\ rctx'[j] = j
    /\ SameSender(j) /\ SameContext(j) /\ SameWire(j)
    /\ SameIds /\ SamePending /\ SameCounts /\ main' = main

Responds(j) ==
    /\ rpc[j] \in {"ok", "unprepared"} /\ actx[j] = "pending" /\ rctx[j] = j
    /\ actx'[j] = "done" /\ Stopped(j) /\ rctx'[j] = j
    /\ rpc'[j] = IF rpc[j] = "ok" THEN "markedOk" ELSE "markedUnprepared"
    /\ SameSender(j) /\ SameWire(j)
    /\ SameIds /\ SamePending /\ main' = main
    /\ wg' = wg /\ inFlight' = inFlight - Tracked(j)

Frees(j) ==
    /\ rpc[j] \in {"markedOk", "markedUnprepared"} /\ rpc'[j] = "leaving" /\ rctx'[j] = rctx[j]
    /\ SameSender(j) /\ SameContext(j) /\ SameWire(j)
    /\ SameIds /\ Cleared(j) /\ SameCounts /\ main' = main

Finishes(j) ==
    /\ rpc[j] = "leaving" /\ rpc'[j] = "done" /\ rctx'[j] = rctx[j] /\ Leaves(j)
    /\ SameSender(j) /\ SameContext(j) /\ SameWire(j)
    /\ SameIds /\ SamePending

JobStep(j) ==
    /\ Others(j) /\ UNCHANGED <<kind, requestLoop, ctxDone, clearing, panics>>
    /\ \/ Begins(j, "assign") \/ Begins(j, "handed") \/ Assigns(j) \/ Fails(j) \/ Stores(j)
       \/ Tracks(j) \/ Queues(j) \/ Overflows(j) \/ GivesUp(j) \/ Fires(j) \/ Expires(j)
       \/ Writes(j) \/ Reads(j) \/ Drops(j) \/ Finds(j) \/ Responds(j) \/ Frees(j)
       \/ Finishes(j)

\* The PREPARE of an unprepared statement takes the unit over.
PrepareStep(j) ==
    LET p == <<j[1], "prepare">>
    IN  /\ \A k \in Jobs : k \notin {j, p} => Same(k)
        /\ rpc[j] = "markedUnprepared" /\ rpc'[j] = "done" /\ ~ExpectedResponse(j)
        /\ rctx'[j] = rctx[j] /\ SameSender(j) /\ SameContext(j) /\ SameWire(j)
        /\ jpc'[p] = "assign" /\ id'[p] = id[p]
        /\ SameContext(p) /\ SameResponse(p) /\ SameWire(p)
        /\ SameIds /\ Cleared(j) /\ SameCounts
        /\ UNCHANGED <<main, kind, requestLoop, ctxDone, clearing, panics>>

CancelStep(j) ==
    /\ Others(j) /\ clearing.step = "found" /\ clearing.ctx = j
    /\ actx[j] = "pending" /\ ~InProgress(j)
    /\ actx'[j] = "canceled" /\ Stopped(j)
    /\ SameSender(j) /\ SameResponse(j) /\ SameWire(j)
    /\ SameIds /\ SamePending /\ inFlight' = inFlight - Tracked(j)
    /\ wg' = wg - (IF ExpectedResponse(j) THEN 0 ELSE 1)
    /\ clearing' = [clearing EXCEPT !.step = "clear"]
    /\ UNCHANGED <<main, kind, requestLoop, ctxDone, panics>>

ClearSkip ==
    /\ clearing.step = "found"
    /\ clearing' = [clearing EXCEPT !.step = "next", !.ctx = None]
    /\ UNCHANGED <<jobVars, respVars, connVars, countVars, requestLoop, ctxDone, panics>>

LoopStep ==
    \/ SetReady \/ CloseConnection \/ EndResponseLoop \/ DrainRequests \/ EndRequestLoop
    \/ CancelHandler
    \/ \E r \in Requests : ClearRequestContexts(r)
    \/ \E i \in Ids : ClearGet(i)
    \/ ClearSkip \/ ClearHolder \/ UNCHANGED vars

-----------------------------------------------------------------------------
(* Every step is one of these. *)

LEMMA JobParts ==
    /\ \A j \in Jobs : j[1] \in Requests /\ j[2] \in {"request", "prepare"} /\ j = <<j[1], j[2]>>
    /\ \A r \in Requests : <<r, "request">> \in Jobs /\ <<r, "prepare">> \in Jobs
    /\ None \notin Jobs /\ None \notin Ids
  BY ConstantsAssumption DEF Jobs, Ids

LEMMA SendView ==
    ASSUME Types, NEW r \in Requests, SendToAsyncConnector(r)
    PROVE  JobStep(<<r, "request">>)
<1> DEFINE j == <<r, "request">>
<1>1. j \in Jobs /\ j[1] = r /\ j[2] = "request"
  BY Zenon, JobParts
<1> HIDE DEF j
<1>2. /\ requestLoop = "running" /\ jpc[j] = "idle"
      /\ \/ Valid(j) /\ jpc' = [jpc EXCEPT ![j] = "assign"] /\ wg' = wg + 1
         \/ ~Valid(j) /\ jpc' = [jpc EXCEPT ![j] = "handed"] /\ wg' = wg
      /\ main' = IF ~ExpectedResponse(j) THEN main
                 ELSE [main EXCEPT ![r] = IF Valid(j) THEN "pending" ELSE "canceled"]
      /\ UNCHANGED <<kind, id, actx, timer, rpc, rctx, clusterIds, pending, queue, wire,
                     inFlight, requestLoop, ctxDone, clearing, panics>>
  BY Zenon DEF SendToAsyncConnector, At, j, respVars, connVars, endVars
<1>3. Others(j)
  BY Zenon, <1>1, <1>2 DEF Types, JobTypes, Others, Same, SameSender, SameContext, SameResponse, SameWire
<1>4. OtherMains(r)
  BY Zenon, <1>2 DEF Types, JobTypes, OtherMains
<1>5. CASE Valid(j)
  <2>1. jpc'[j] = "assign" /\ main'[r] = IF ~ExpectedResponse(j) THEN main[r] ELSE "pending"
    BY Zenon, <1>1, <1>2, <1>5 DEF Types, JobTypes
  <2>2. Begins(j, "assign")
    BY Zenon, <1>1, <1>2, <1>4, <1>5, <2>1
       DEF Begins, SameContext, SameResponse, SameWire, SameIds, SamePending
  <2> QED
    BY Zenon, <1>2, <1>3, <2>2 DEF JobStep, j
<1>6. CASE ~Valid(j)
  <2>1. jpc'[j] = "handed" /\ main'[r] = IF ~ExpectedResponse(j) THEN main[r] ELSE "canceled"
    BY Zenon, <1>1, <1>2, <1>6 DEF Types, JobTypes
  <2>2. Begins(j, "handed")
    BY Zenon, <1>1, <1>2, <1>4, <1>6, <2>1
       DEF Begins, SameContext, SameResponse, SameWire, SameIds, SamePending
  <2> QED
    BY Zenon, <1>2, <1>3, <2>2 DEF JobStep, j
<1> QED
  BY Zenon, <1>5, <1>6

LEMMA AssignView ==
    ASSUME Types, NEW j \in Jobs, AssignUniqueId(j)
    PROVE  JobStep(j)
<1>1. /\ jpc[j] = "assign"
      /\ UNCHANGED <<kind, main, actx, timer, rpc, rctx, pending, queue, wire, wg, inFlight,
                     requestLoop, ctxDone, clearing, panics>>
  BY Zenon DEF AssignUniqueId, respVars, countVars, endVars
<1>2. CASE Valid(j) /\ clusterIds # <<>>
  <2>1. /\ id' = [id EXCEPT ![j] = Head(clusterIds)] /\ clusterIds' = Tail(clusterIds)
        /\ jpc' = [jpc EXCEPT ![j] = "store"]
    BY Zenon, <1>2 DEF AssignUniqueId, At
  <2>2. Others(j) /\ jpc'[j] = "store" /\ id'[j] = Head(clusterIds)
    BY Zenon, <1>1, <2>1
       DEF Types, JobTypes, Others, Same, SameSender, SameContext, SameResponse, SameWire
  <2>3. Assigns(j)
    BY Zenon, <1>1, <1>2, <2>1, <2>2
       DEF Assigns, SameContext, SameResponse, SameWire, SamePending, SameCounts
  <2> QED
    BY Zenon, <1>1, <2>2, <2>3 DEF JobStep
<1>3. CASE ~(Valid(j) /\ clusterIds # <<>>)
  <2>1. jpc' = [jpc EXCEPT ![j] = "failed"] /\ UNCHANGED <<id, clusterIds>>
    BY Zenon, <1>3 DEF AssignUniqueId, At
  <2>2. Others(j) /\ jpc'[j] = "failed"
    BY Zenon, <1>1, <2>1
       DEF Types, JobTypes, Others, Same, SameSender, SameContext, SameResponse, SameWire
  <2>3. Fails(j)
    BY Zenon, <1>1, <2>1, <2>2
       DEF Fails, SameContext, SameResponse, SameWire, SameIds, SamePending, SameCounts
  <2> QED
    BY Zenon, <1>1, <2>2, <2>3 DEF JobStep
<1> QED
  BY Zenon, <1>2, <1>3

LEMMA StoreView ==
    ASSUME Types, NEW j \in Jobs, Store(j)
    PROVE  JobStep(j)
<1>1. /\ jpc[j] = "store"
      /\ UNCHANGED <<kind, main, id, timer, rpc, rctx, clusterIds, queue, wire, wg, inFlight,
                     requestLoop, ctxDone, clearing, panics>>
  BY Zenon DEF Store, respVars, countVars, endVars
<1>2. CASE pending[id[j]] = None
  <2>1. /\ pending' = [pending EXCEPT ![id[j]] = j] /\ actx' = [actx EXCEPT ![j] = "pending"]
        /\ jpc' = [jpc EXCEPT ![j] = "track"]
    BY Zenon, <1>2 DEF Store, At
  <2>2. Others(j) /\ jpc'[j] = "track" /\ actx'[j] = "pending"
    BY Zenon, <1>1, <2>1
       DEF Types, JobTypes, Others, Same, SameSender, SameContext, SameResponse, SameWire
  <2>3. Stores(j)
    BY Zenon, <1>1, <1>2, <2>1, <2>2 DEF Stores, SameResponse, SameWire, SameIds, SameCounts
  <2> QED
    BY Zenon, <1>1, <2>2, <2>3 DEF JobStep
<1>3. CASE pending[id[j]] # None
  <2>1. jpc' = [jpc EXCEPT ![j] = "failed"] /\ UNCHANGED <<pending, actx>>
    BY Zenon, <1>3 DEF Store, At
  <2>2. Others(j) /\ jpc'[j] = "failed"
    BY Zenon, <1>1, <2>1
       DEF Types, JobTypes, Others, Same, SameSender, SameContext, SameResponse, SameWire
  <2>3. Fails(j)
    BY Zenon, <1>1, <2>1, <2>2
       DEF Fails, SameContext, SameResponse, SameWire, SameIds, SamePending, SameCounts
  <2> QED
    BY Zenon, <1>1, <2>2, <2>3 DEF JobStep
<1> QED
  BY Zenon, <1>2, <1>3

LEMMA TrackView ==
    ASSUME Types, NEW j \in Jobs, Track(j)
    PROVE  JobStep(j)
<1>1. /\ jpc[j] = "track" /\ jpc' = [jpc EXCEPT ![j] = "enqueue"]
      /\ timer' = [timer EXCEPT ![j] = "armed"] /\ inFlight' = inFlight + Tracked(j)
      /\ UNCHANGED <<kind, main, id, actx, rpc, rctx, clusterIds, pending, queue, wire, wg,
                     requestLoop, ctxDone, clearing, panics>>
  BY Zenon DEF Track, At, respVars, connVars, endVars
<1>2. Others(j) /\ jpc'[j] = "enqueue" /\ timer'[j] = "armed"
  BY Zenon, <1>1
     DEF Types, JobTypes, Others, Same, SameSender, SameContext, SameResponse, SameWire
<1>3. Tracks(j)
  BY Zenon, <1>1, <1>2 DEF Tracks, SameResponse, SameWire, SameIds, SamePending
<1> QED
  BY Zenon, <1>1, <1>2, <1>3 DEF JobStep

LEMMA EnqueueView ==
    ASSUME Types, NEW j \in Jobs, EnqueueAsync(j), requestLoop # "done", actx[j] = "pending"
    PROVE  JobStep(j)
<1>1. /\ jpc[j] = "enqueue"
      /\ UNCHANGED <<kind, main, id, rpc, rctx, clusterIds, wire, wg, requestLoop, ctxDone,
                     clearing, panics>>
  BY Zenon DEF EnqueueAsync, respVars
<1>2. CASE Cardinality(queue) < QueueSize
  <2>1. /\ queue' = queue \cup {j} /\ jpc' = [jpc EXCEPT ![j] = "handed"]
        /\ UNCHANGED <<pending, actx, timer, inFlight>>
    BY Zenon, <1>2 DEF EnqueueAsync, At
  <2>2. Others(j) /\ jpc'[j] = "handed" /\ j \in queue'
    BY Zenon, <1>1, <2>1
       DEF Types, JobTypes, Others, Same, SameSender, SameContext, SameResponse, SameWire
  <2>3. Queues(j)
    BY Zenon, <1>1, <2>1, <2>2
       DEF Queues, SameContext, SameResponse, SameIds, SamePending, SameCounts
  <2> QED
    BY Zenon, <1>1, <2>2, <2>3 DEF JobStep
<1>3. CASE ~(Cardinality(queue) < QueueSize)
  <2>1. /\ actx' = [actx EXCEPT ![j] = "canceled"] /\ pending' = ClearPending(j)
        /\ timer' = [timer EXCEPT ![j] = IF timer[j] = "armed" THEN "stopped" ELSE timer[j]]
        /\ jpc' = [jpc EXCEPT ![j] = "failed"]
        /\ inFlight' = inFlight - Tracked(j) /\ queue' = queue
    BY Zenon, <1>3 DEF EnqueueAsync, At, CancelContext, StopTimer
  <2>2. Others(j) /\ jpc'[j] = "failed" /\ actx'[j] = "canceled" /\ Stopped(j)
    BY Zenon, <1>1, <2>1
       DEF Types, JobTypes, Others, Same, SameSender, SameContext, SameResponse, SameWire, Stopped
  <2>3. Overflows(j)
    BY Zenon, <1>1, <2>1, <2>2 DEF Overflows, SameResponse, SameWire, SameIds, Cleared
  <2> QED
    BY Zenon, <1>1, <2>2, <2>3 DEF JobStep
<1> QED
  BY Zenon, <1>2, <1>3

LEMMA LeaveView ==
    ASSUME Types, NEW j \in Jobs, NEW outcome \in Outcomes \ {"none", "pending"},
           Leave(j, outcome), inFlight' = inFlight,
           ExpectedResponse(j) => main[j[1]] # "none"
    PROVE  Leaves(j)
<1>1. j[1] \in Requests
  BY Zenon, JobParts
<1>2. CASE ExpectedResponse(j)
  <2>1. /\ main' = [main EXCEPT ![j[1]] = IF main[j[1]] = "pending" THEN outcome ELSE main[j[1]]]
        /\ wg' = wg - (IF main[j[1]] = "pending" THEN 1 ELSE 0)
    BY Zenon, <1>2 DEF Leave
  <2>2. /\ OtherMains(j[1])
        /\ main'[j[1]] = IF main[j[1]] = "pending" THEN outcome ELSE main[j[1]]
    BY Zenon, <1>1, <2>1 DEF Types, JobTypes, OtherMains
  <2>3. main'[j[1]] # "pending" /\ main'[j[1]] # "none"
    BY Zenon, <1>2, <2>2
  <2> QED
    BY Zenon, <1>2, <2>1, <2>2, <2>3 DEF Leaves
<1>3. CASE ~ExpectedResponse(j)
  <2>1. main' = main /\ wg' = wg - 1
    BY Zenon, <1>3 DEF Leave
  <2> QED
    BY Zenon, <1>3, <2>1 DEF Leaves, OtherMains
<1> QED
  BY Zenon, <1>2, <1>3

LEMMA Awaited ==
    ASSUME JobInv, NEW j \in Jobs, ExpectedResponse(j), jpc[j] # "idle"
    PROVE  main[j[1]] # "none" /\ j[2] = "request"
<1>1. j[1] \in Requests /\ j[2] \in {"request", "prepare"} /\ j = <<j[1], j[2]>>
  BY Zenon, JobParts
<1>2. Link(j[1])
  BY Zenon, <1>1 DEF JobInv
<1>3. kind[j[1]] = "handshake"
  BY Zenon DEF ExpectedResponse
<1> QED
  BY Zenon, <1>1, <1>2, <1>3 DEF Link

LEMMA SendFailedView ==
    ASSUME Types, JobInv, NEW j \in Jobs, SendFailed(j)
    PROVE  JobStep(j)
<1>1. /\ jpc[j] = "failed" /\ jpc' = [jpc EXCEPT ![j] = "handed"] /\ Leave(j, "canceled")
      /\ UNCHANGED <<kind, id, actx, timer, rpc, rctx, clusterIds, pending, queue, wire,
                     inFlight, requestLoop, ctxDone, clearing, panics>>
  BY Zenon DEF SendFailed, At, respVars, connVars, endVars
<1>2. Others(j) /\ jpc'[j] = "handed"
  BY Zenon, <1>1
     DEF Types, JobTypes, Others, Same, SameSender, SameContext, SameResponse, SameWire
<1>3. Leaves(j)
  BY Zenon, <1>1, LeaveView, Awaited DEF Outcomes
<1>4. GivesUp(j)
  BY Zenon, <1>1, <1>2, <1>3 DEF GivesUp, SameContext, SameResponse, SameWire, SameIds, SamePending
<1> QED
  BY Zenon, <1>1, <1>2, <1>4 DEF JobStep

LEMMA TimerView ==
    ASSUME Types, JobInv, ~raced', NEW j \in Jobs, TimerFires(j)
    PROVE  JobStep(j)
<1>1. actx[j] = "pending" /\ ~InProgress(j) /\ timer[j] = "armed"
  BY Zenon DEF TimerFires, Overtakes, JobInv, Job
<1>2. /\ actx' = [actx EXCEPT ![j] = "timedout"] /\ timer' = [timer EXCEPT ![j] = "fired"]
      /\ inFlight' = inFlight - Tracked(j)
      /\ UNCHANGED <<kind, main, jpc, id, rpc, rctx, clusterIds, pending, queue, wire, wg,
                     requestLoop, ctxDone, clearing, panics>>
  BY Zenon, <1>1 DEF TimerFires, respVars, connVars, endVars
<1>3. Others(j) /\ actx'[j] = "timedout" /\ timer'[j] = "fired"
  BY Zenon, <1>2
     DEF Types, JobTypes, Others, Same, SameSender, SameContext, SameResponse, SameWire
<1>4. Fires(j)
  BY Zenon, <1>1, <1>2, <1>3 DEF Fires, SameSender, SameResponse, SameWire, SameIds, SamePending
<1> QED
  BY Zenon, <1>2, <1>3, <1>4 DEF JobStep

LEMMA TimeoutView ==
    ASSUME Types, JobInv, NEW j \in Jobs, OnTimeout(j)
    PROVE  JobStep(j)
<1>1. /\ timer[j] = "fired" /\ timer' = [timer EXCEPT ![j] = "stopped"]
      /\ pending' = ClearPending(j) /\ Leave(j, "timedout")
      /\ UNCHANGED <<kind, jpc, id, actx, rpc, rctx, clusterIds, queue, wire, inFlight,
                     requestLoop, ctxDone, clearing, panics>>
  BY Zenon DEF OnTimeout, respVars, endVars
<1>2. Others(j) /\ timer'[j] = "stopped"
  BY Zenon, <1>1
     DEF Types, JobTypes, Others, Same, SameSender, SameContext, SameResponse, SameWire
<1>3. jpc[j] # "idle"
  BY Zenon, <1>1 DEF JobInv, Job
<1>4. Leaves(j)
  BY Zenon, <1>1, <1>3, LeaveView, Awaited DEF Outcomes
<1>5. Expires(j)
  BY Zenon, <1>1, <1>2, <1>4 DEF Expires, SameSender, SameResponse, SameWire, SameIds, Cleared
<1> QED
  BY Zenon, <1>1, <1>2, <1>5 DEF JobStep

LEMMA WriteView ==
    ASSUME Types, NEW j \in Jobs, WriteFrame(j)
    PROVE  JobStep(j)
<1>1. /\ j \in queue /\ queue' = queue \ {j}
      /\ wire' = (IF connClosed THEN wire ELSE wire \cup {j})
      /\ UNCHANGED <<kind, main, jpc, id, actx, timer, rpc, rctx, clusterIds, pending, wg,
                     inFlight, requestLoop, ctxDone, clearing, panics>>
  BY Zenon DEF WriteFrame, jobVars, respVars, countVars, endVars
<1>2. Others(j) /\ j \notin queue'
  BY Zenon, <1>1 DEF Others, Same, SameSender, SameContext, SameResponse, SameWire
<1>3. Writes(j)
  BY Zenon, <1>1, <1>2
     DEF Writes, SameSender, SameContext, SameResponse, SameIds, SamePending, SameCounts
<1> QED
  BY Zenon, <1>1, <1>2, <1>3 DEF JobStep

LEMMA ReadView ==
    ASSUME Types, NEW j \in Jobs, NEW a \in Answers, ReadResponse(j, a)
    PROVE  JobStep(j)
<1>1. /\ j \in wire /\ wire' = wire \ {j} /\ (j[2] = "prepare" => a # "unprepared")
      /\ clusterIds' = Append(clusterIds, id[j]) /\ rpc' = [rpc EXCEPT ![j] = a]
      /\ UNCHANGED <<kind, main, jpc, id, actx, timer, rctx, pending, queue, wg, inFlight,
                     requestLoop, ctxDone, clearing, panics>>
  BY Zenon DEF ReadResponse, jobVars, countVars, endVars
<1>2. Others(j) /\ j \notin wire' /\ rpc'[j] = a
  BY Zenon, <1>1
     DEF Types, RespTypes, Others, Same, SameSender, SameContext, SameResponse, SameWire
<1>3. rpc'[j] = "unprepared" => j[2] = "request"
  BY Zenon, <1>1, <1>2, JobParts
<1>4. Reads(j)
  BY Zenon, <1>1, <1>2, <1>3 DEF Reads, SameSender, SameContext, SamePending, SameCounts
<1> QED
  BY Zenon, <1>1, <1>2, <1>4 DEF JobStep

LEMMA FindView ==
    ASSUME Types, JobInv, ~raced', NEW j \in Jobs, FindContext(j)
    PROVE  JobStep(j)
<1>1. /\ rpc[j] \in {"ok", "unprepared", "protocolError"} /\ rctx[j] = None
      /\ UNCHANGED <<kind, main, jpc, id, actx, timer, clusterIds, pending, queue, wire, wg,
                     inFlight, requestLoop, ctxDone, clearing, panics>>
  BY Zenon DEF FindContext, jobVars, countVars
<1>2. ASSUME rpc' = [rpc EXCEPT ![j] = "done"], rctx'[j] = rctx[j],
             \A k \in Jobs : k # j => rctx'[k] = rctx[k]
      PROVE  JobStep(j)
  <2>1. Others(j) /\ rpc'[j] = "done"
    BY Zenon, <1>1, <1>2
       DEF Types, RespTypes, Others, Same, SameSender, SameContext, SameResponse, SameWire
  <2>2. Drops(j)
    BY Zenon, <1>1, <1>2, <2>1
       DEF Drops, SameSender, SameContext, SameWire, SameIds, SamePending, SameCounts
  <2> QED
    BY Zenon, <1>1, <2>1, <2>2 DEF JobStep
<1>3. CASE rpc[j] = "protocolError"
  BY Zenon, <1>2, <1>3 DEF FindContext
<1>4. CASE rpc[j] # "protocolError"
  <2>1. /\ rctx' = [rctx EXCEPT ![j] = pending[id[j]]]
        /\ rpc' = [rpc EXCEPT ![j] = IF pending[id[j]] = None THEN "done" ELSE rpc[j]]
    BY Zenon, <1>4 DEF FindContext
  <2>2. CASE pending[id[j]] = None
    <3>1. rpc' = [rpc EXCEPT ![j] = "done"] /\ rctx' = [rctx EXCEPT ![j] = None]
      BY Zenon, <2>1, <2>2
    <3>2. rctx'[j] = rctx[j] /\ \A k \in Jobs : k # j => rctx'[k] = rctx[k]
      BY Zenon, <1>1, <3>1 DEF Types, RespTypes
    <3> QED
      BY Zenon, <1>2, <3>1, <3>2
  <2>3. CASE pending[id[j]] # None
    <3>1. pending[id[j]] = j
      BY Zenon, <1>4, <2>3 DEF FindContext
    <3>2. rpc' = [rpc EXCEPT ![j] = rpc[j]] /\ rctx' = [rctx EXCEPT ![j] = j]
      BY Zenon, <2>1, <2>3, <3>1
    <3>3. Others(j) /\ rpc'[j] = rpc[j] /\ rctx'[j] = j
      BY Zenon, <1>1, <3>2
         DEF Types, RespTypes, Others, Same, SameSender, SameContext, SameResponse, SameWire
    <3>4. Finds(j)
      BY Zenon, <1>1, <1>4, <3>3
         DEF Finds, SameSender, SameContext, SameWire, SameIds, SamePending, SameCounts
    <3> QED
      BY Zenon, <1>1, <3>3, <3>4 DEF JobStep
  <2> QED
    BY Zenon, <2>2, <2>3
<1> QED
  BY Zenon, <1>3, <1>4

LEMMA ResponseView ==
    ASSUME Types, JobInv, NEW j \in Jobs, SetResponse(j)
    PROVE  JobStep(j)
<1>1. /\ rpc[j] \in {"ok", "unprepared"} /\ rctx[j] = j
      /\ UNCHANGED <<kind, main, jpc, id, rctx, clusterIds, pending, queue, wire, wg,
                     requestLoop, ctxDone, clearing, panics>>
  BY Zenon DEF SetResponse, connVars, endVars, JobInv, Job
<1>2. CASE actx[j] = "pending"
  <2>1. /\ actx' = [actx EXCEPT ![j] = "done"]
        /\ timer' = [timer EXCEPT ![j] = IF timer[j] = "armed" THEN "stopped" ELSE timer[j]]
        /\ inFlight' = inFlight - Tracked(j)
        /\ rpc' = [rpc EXCEPT ![j] = IF rpc[j] = "ok" THEN "markedOk" ELSE "markedUnprepared"]
    BY Zenon, <1>1, <1>2 DEF SetResponse, StopTimer
  <2>2. /\ Others(j) /\ actx'[j] = "done" /\ Stopped(j)
        /\ rpc'[j] = IF rpc[j] = "ok" THEN "markedOk" ELSE "markedUnprepared"
    BY Zenon, <1>1, <2>1
       DEF Types, JobTypes, RespTypes, Others, Same, SameSender, SameContext, SameResponse,
           SameWire, Stopped
  <2>3. Responds(j)
    BY Zenon, <1>1, <1>2, <2>1, <2>2 DEF Responds, SameSender, SameWire, SameIds, SamePending
  <2> QED
    BY Zenon, <1>1, <2>2, <2>3 DEF JobStep
<1>3. CASE actx[j] # "pending"
  <2>1. rpc' = [rpc EXCEPT ![j] = "done"] /\ UNCHANGED <<actx, timer, inFlight>>
    BY Zenon, <1>1, <1>3 DEF SetResponse
  <2>2. Others(j) /\ rpc'[j] = "done"
    BY Zenon, <1>1, <2>1
       DEF Types, RespTypes, Others, Same, SameSender, SameContext, SameResponse, SameWire
  <2>3. Drops(j)
    BY Zenon, <1>1, <2>1, <2>2
       DEF Drops, SameSender, SameContext, SameWire, SameIds, SamePending, SameCounts
  <2> QED
    BY Zenon, <1>1, <2>2, <2>3 DEF JobStep
<1> QED
  BY Zenon, <1>2, <1>3

LEMMA FreeView ==
    ASSUME Types, JobInv, NEW j \in Jobs, FreePending(j)
    PROVE  JobStep(j) \/ PrepareStep(j)
<1>1. /\ rpc[j] \in {"markedOk", "markedUnprepared"} /\ rctx[j] = j
      /\ pending' = ClearPending(j)
      /\ UNCHANGED <<kind, main, id, actx, timer, rctx, clusterIds, queue, wire, wg, inFlight,
                     requestLoop, ctxDone, clearing, panics>>
  BY Zenon DEF FreePending, countVars, endVars, JobInv, Job, Marked
<1>2. CASE rpc' = [rpc EXCEPT ![j] = "leaving"] /\ UNCHANGED jpc
  <2>1. Others(j) /\ rpc'[j] = "leaving"
    BY Zenon, <1>1, <1>2
       DEF Types, RespTypes, Others, Same, SameSender, SameContext, SameResponse, SameWire
  <2>2. Frees(j)
    BY Zenon, <1>1, <1>2, <2>1
       DEF Frees, SameSender, SameContext, SameWire, SameIds, Cleared, SameCounts
  <2> QED
    BY Zenon, <1>1, <2>1, <2>2 DEF JobStep
<1>3. CASE /\ rpc[j] = "markedUnprepared" /\ ~ExpectedResponse(j)
           /\ rpc' = [rpc EXCEPT ![j] = "done"]
           /\ jpc' = [jpc EXCEPT ![<<j[1], "prepare">>] = "assign"]
  <2> DEFINE p == <<j[1], "prepare">>
  <2>1. p \in Jobs /\ p # j
    <3>1. j[2] = "request" /\ j[1] \in Requests
      BY Zenon, <1>3, JobParts DEF JobInv, Job
    <3>2. p \in Jobs
      BY Zenon, <3>1, JobParts
    <3> QED
      BY <3>1, <3>2
  <2> HIDE DEF p
  <2>2. jpc' = [jpc EXCEPT ![p] = "assign"]
    BY Zenon, <1>3 DEF p
  <2>3. \A k \in Jobs : k \notin {j, p} => Same(k)
    BY Zenon, <1>1, <1>3, <2>1, <2>2
       DEF Types, JobTypes, RespTypes, Same, SameSender, SameContext, SameResponse, SameWire
  <2>4. rpc'[j] = "done" /\ jpc'[j] = jpc[j] /\ jpc'[p] = "assign" /\ rpc'[p] = rpc[p]
    BY Zenon, <1>3, <2>1, <2>2 DEF Types, JobTypes, RespTypes
  <2>5. PrepareStep(j)
    BY Zenon, <1>1, <1>3, <2>3, <2>4
       DEF PrepareStep, SameSender, SameContext, SameResponse, SameWire, SameIds, Cleared,
           SameCounts, p
  <2> QED
    BY Zenon, <2>5
<1> QED
  BY Zenon, <1>1, <1>2, <1>3 DEF FreePending, At

LEMMA DoneView ==
    ASSUME Types, JobInv, NEW j \in Jobs, Done(j)
    PROVE  JobStep(j)
<1>1. /\ rpc[j] = "leaving" /\ rctx[j] = j /\ Leave(j, "done") /\ jpc[j] # "idle"
      /\ rpc' = [rpc EXCEPT ![j] = "done"]
      /\ UNCHANGED <<kind, jpc, id, actx, timer, rctx, clusterIds, pending, queue, wire,
                     inFlight, requestLoop, ctxDone, clearing, panics>>
  BY Zenon DEF Done, connVars, endVars, JobInv, Job, Marked
<1>2. Others(j) /\ rpc'[j] = "done"
  BY Zenon, <1>1
     DEF Types, RespTypes, Others, Same, SameSender, SameContext, SameResponse, SameWire
<1>3. Leaves(j)
  BY Zenon, <1>1, LeaveView, Awaited DEF Outcomes
<1>4. Finishes(j)
  BY Zenon, <1>1, <1>2, <1>3 DEF Finishes, SameSender, SameContext, SameWire, SameIds, SamePending
<1> QED
  BY Zenon, <1>1, <1>2, <1>4 DEF JobStep

LEMMA CancelView ==
    ASSUME Types, LoopInv, ~raced', ClearCancel
    PROVE  ClearSkip \/ \E j \in Jobs : CancelStep(j)
<1> DEFINE j == clearing.ctx
<1>1. clearing.step = "found"
  BY Zenon DEF ClearCancel
<1>2. j \in Jobs
  BY Zenon, <1>1 DEF LoopInv
<1> HIDE DEF j
<1>3. UNCHANGED <<kind, main, jpc, id, rpc, rctx, clusterIds, pending, queue, wire, state,
                  connClosed, requestLoop, ctxDone, panics>>
  BY Zenon DEF ClearCancel, respVars, connVars
<1>4. CASE actx[j] = "pending"
  <2>1. /\ actx' = [actx EXCEPT ![j] = "canceled"]
        /\ timer' = [timer EXCEPT ![j] = IF timer[j] = "armed" THEN "stopped" ELSE timer[j]]
        /\ inFlight' = inFlight - Tracked(j)
        /\ wg' = wg - (IF ExpectedResponse(j) THEN 0 ELSE 1)
        /\ clearing' = [clearing EXCEPT !.step = "clear"] /\ ~InProgress(j)
    BY Zenon, <1>4 DEF ClearCancel, CancelContext, StopTimer, Overtakes, j
  <2>2. Others(j) /\ actx'[j] = "canceled" /\ Stopped(j)
    BY Zenon, <1>2, <1>3, <2>1
       DEF Types, JobTypes, Others, Same, SameSender, SameContext, SameResponse, SameWire, Stopped
  <2>3. clearing.ctx = j
    BY Zenon DEF j
  <2>4. CancelStep(j)
    BY Zenon, <1>1, <1>3, <1>4, <2>1, <2>2, <2>3
       DEF CancelStep, SameSender, SameResponse, SameWire, SameIds, SamePending
  <2> QED
    BY Zenon, <1>2, <2>4
<1>5. CASE actx[j] # "pending"
  BY Zenon, <1>1, <1>3, <1>5
     DEF ClearCancel, ClearSkip, jobVars, respVars, connVars, countVars, j
<1> QED
  BY Zenon, <1>4, <1>5

\* With the invariant, the write queue is not closed while a job is enqueued.
Open(j) == jpc[j] = "enqueue" => requestLoop # "done" /\ actx[j] = "pending"

LEMMA StepCases ==
    ASSUME Types, JobInv, LoopInv, ~raced', \A j \in Jobs : Open(j), [Next]_vars
    PROVE  \/ LoopStep
           \/ \E j \in Jobs : JobStep(j) \/ PrepareStep(j) \/ CancelStep(j)
<1>1. ASSUME NEW j \in Jobs, EnqueueAsync(j)
      PROVE  JobStep(j)
  <2>1. requestLoop # "done" /\ actx[j] = "pending"
    BY Zenon, <1>1 DEF EnqueueAsync, Open
  <2> QED
    BY Zenon, <1>1, <2>1, EnqueueView
<1>2. ASSUME NEW j \in Jobs,
             \/ AssignUniqueId(j) \/ Store(j) \/ Track(j) \/ EnqueueAsync(j) \/ SendFailed(j)
             \/ TimerFires(j) \/ OnTimeout(j) \/ WriteFrame(j)
             \/ FindContext(j) \/ SetResponse(j) \/ FreePending(j) \/ Done(j)
      PROVE  JobStep(j) \/ PrepareStep(j)
  BY Zenon, <1>1, <1>2, AssignView, StoreView, TrackView, SendFailedView, TimerView, TimeoutView,
     WriteView, FindView, ResponseView, FreeView, DoneView
<1>3. CASE ProxyStep
  BY Zenon, <1>2, <1>3, CancelView DEF ProxyStep, LoopStep
<1>4. ASSUME NEW r \in Requests, SendToAsyncConnector(r)
      PROVE  \E j \in Jobs : JobStep(j)
  BY Zenon, <1>4, SendView, JobParts
<1>5. ASSUME NEW j \in Jobs, NEW a \in Answers, ReadResponse(j, a)
      PROVE  JobStep(j)
  BY Zenon, <1>5, ReadView
<1>6. CASE CancelHandler
  BY Zenon, <1>6 DEF LoopStep
<1>7. CASE SetReady \/ CloseConnection \/ DrainRequests \/ Terminated \/ UNCHANGED vars
  BY Zenon, <1>7 DEF LoopStep, Terminated
<1> QED
  BY Zenon, <1>3, <1>4, <1>5, <1>6, <1>7 DEF Next

-----------------------------------------------------------------------------
(* The types are kept. *)

LEMMA ClearPendingType ==
    ASSUME ConnTypes, NEW j
    PROVE  ClearPending(j) \in [Ids -> Jobs \cup {None}]
  BY Zenon DEF ConnTypes, ClearPending

LEMMA LeaveType ==
    ASSUME JobTypes, NEW j, NEW o \in Outcomes, Leave(j, o)
    PROVE  main' \in [Requests -> Outcomes]
  BY Zenon DEF JobTypes, Leave

LEMMA StopTimerType ==
    ASSUME JobTypes, NEW j
    PROVE  /\ timer \in [Jobs -> {"off", "armed", "fired", "stopped"}]
           /\ StopTimer(j) \in [Jobs -> {"off", "armed", "fired", "stopped"}]
  BY Zenon DEF JobTypes, StopTimer

\* The next id, and what is left.
LEMMA IdTypes ==
    ASSUME ConnTypes
    PROVE  /\ clusterIds # <<>> => Head(clusterIds) \in Ids /\ Tail(clusterIds) \in Seq(Ids)
           /\ \A i \in Ids : Append(clusterIds, i) \in Seq(Ids)
  BY DEF ConnTypes

LEMMA SendingTypes ==
    ASSUME Types, NEW j \in Jobs,
           \/ AssignUniqueId(j) \/ Store(j) \/ Track(j) \/ EnqueueAsync(j) \/ SendFailed(j)
           \/ \E r \in Requests : SendToAsyncConnector(r)
    PROVE  Types'
<1>1. CASE \E r \in Requests : SendToAsyncConnector(r)
  <2>1. PICK r \in Requests : SendToAsyncConnector(r)
    BY Zenon, <1>1
  <2>2. JobTypes'
    BY <2>1 DEF SendToAsyncConnector, At, Types, JobTypes, Outcomes
  <2> QED
    BY Zenon, <2>1, <2>2
       DEF SendToAsyncConnector, Types, RespTypes, ConnTypes, EndTypes, respVars, connVars, endVars
<1>2. CASE AssignUniqueId(j)
  <2>1. JobTypes'
    BY Zenon, <1>2, IdTypes DEF AssignUniqueId, At, Types, JobTypes
  <2>2. clusterIds' \in Seq(Ids)
    BY Zenon, <1>2, IdTypes DEF AssignUniqueId, Types, ConnTypes
  <2> QED
    BY Zenon, <1>2, <2>1, <2>2
       DEF AssignUniqueId, Types, RespTypes, ConnTypes, EndTypes, respVars, endVars
<1>3. CASE Store(j)
  <2>1. JobTypes'
    BY Zenon, <1>3 DEF Store, At, Types, JobTypes, Outcomes
  <2>2. pending' \in [Ids -> Jobs \cup {None}]
    BY Zenon, <1>3 DEF Store, Types, ConnTypes
  <2> QED
    BY Zenon, <1>3, <2>1, <2>2
       DEF Store, Types, RespTypes, ConnTypes, EndTypes, respVars, endVars
<1>4. CASE Track(j)
  <2>1. JobTypes'
    BY Zenon, <1>4 DEF Track, At, Types, JobTypes
  <2> QED
    BY Zenon, <1>4, <2>1
       DEF Track, Types, RespTypes, ConnTypes, EndTypes, respVars, connVars, endVars
<1>5. CASE EnqueueAsync(j)
  <2>1. timer' \in [Jobs -> {"off", "armed", "fired", "stopped"}]
    <3>1. timer' = timer \/ timer' = StopTimer(j)
      BY Zenon, <1>5 DEF EnqueueAsync, CancelContext
    <3> QED
      BY Zenon, <3>1, StopTimerType DEF Types
  <2>2. actx' \in [Jobs -> Outcomes]
    BY Zenon, <1>5 DEF EnqueueAsync, CancelContext, Types, JobTypes, Outcomes
  <2>3. jpc' \in [Jobs -> {"idle", "assign", "store", "track", "enqueue", "failed", "handed"}]
    BY Zenon, <1>5 DEF EnqueueAsync, At, Types, JobTypes
  <2>4. JobTypes'
    BY Zenon, <1>5, <2>1, <2>2, <2>3 DEF EnqueueAsync, Types, JobTypes
  <2>5. pending' \in [Ids -> Jobs \cup {None}]
    BY Zenon, <1>5, ClearPendingType DEF EnqueueAsync, Types, ConnTypes
  <2>6. queue' \subseteq Jobs
    BY Zenon, <1>5 DEF EnqueueAsync, Types, ConnTypes
  <2> QED
    BY Zenon, <1>5, <2>4, <2>5, <2>6
       DEF EnqueueAsync, Types, RespTypes, ConnTypes, EndTypes, respVars
<1>6. CASE SendFailed(j)
  <2>1. main' \in [Requests -> Outcomes]
    BY Zenon, <1>6, LeaveType DEF SendFailed, Types, Outcomes
  <2>2. JobTypes'
    BY Zenon, <1>6, <2>1 DEF SendFailed, At, Types, JobTypes
  <2> QED
    BY Zenon, <1>6, <2>2
       DEF SendFailed, Types, RespTypes, ConnTypes, EndTypes, respVars, connVars, endVars
<1> QED
  BY Zenon, <1>1, <1>2, <1>3, <1>4, <1>5, <1>6

LEMMA AnswerTypes ==
    ASSUME Types, JobInv, NEW j \in Jobs,
           \/ TimerFires(j) \/ OnTimeout(j) \/ WriteFrame(j)
           \/ \E a \in Answers : ReadResponse(j, a)
           \/ FindContext(j) \/ SetResponse(j) \/ FreePending(j) \/ Done(j)
    PROVE  Types'
<1>1. CASE TimerFires(j)
  <2>1. JobTypes'
    BY Zenon, <1>1 DEF TimerFires, Types, JobTypes, Outcomes
  <2> QED
    BY Zenon, <1>1, <2>1
       DEF TimerFires, Types, RespTypes, ConnTypes, EndTypes, respVars, connVars, endVars
<1>2. CASE OnTimeout(j)
  <2>1. main' \in [Requests -> Outcomes]
    BY Zenon, <1>2, LeaveType DEF OnTimeout, Types, Outcomes
  <2>2. JobTypes'
    BY Zenon, <1>2, <2>1 DEF OnTimeout, Types, JobTypes
  <2>3. pending' \in [Ids -> Jobs \cup {None}]
    BY Zenon, <1>2, ClearPendingType DEF OnTimeout, Types
  <2> QED
    BY Zenon, <1>2, <2>2, <2>3
       DEF OnTimeout, Types, RespTypes, ConnTypes, EndTypes, respVars, endVars
<1>3. CASE WriteFrame(j)
  BY Zenon, <1>3
     DEF WriteFrame, Types, JobTypes, RespTypes, ConnTypes, EndTypes, jobVars, respVars, endVars
<1>4. CASE \E a \in Answers : ReadResponse(j, a)
  <2>1. PICK a \in Answers : ReadResponse(j, a)
    BY Zenon, <1>4
  <2>2. RespTypes'
    BY Zenon, <2>1 DEF ReadResponse, Types, RespTypes
  <2>3. id[j] \in Ids
    BY Zenon, <2>1 DEF ReadResponse, JobInv, Job
  <2>4. clusterIds' \in Seq(Ids)
    BY Zenon, <2>1, <2>3, IdTypes DEF ReadResponse, Types
  <2> QED
    BY Zenon, <2>1, <2>2, <2>4
       DEF ReadResponse, Types, JobTypes, ConnTypes, EndTypes, jobVars, endVars
<1>5. CASE FindContext(j)
  <2>1. id[j] \in Ids
    BY Zenon, <1>5 DEF FindContext, JobInv, Job
  <2>2. RespTypes'
    BY Zenon, <1>5, <2>1 DEF FindContext, Types, RespTypes, ConnTypes
  <2>3. connClosed' \in BOOLEAN
    BY Zenon, <1>5 DEF FindContext, Types, ConnTypes
  <2> QED
    BY Zenon, <1>5, <2>2, <2>3 DEF FindContext, Types, JobTypes, ConnTypes, EndTypes, jobVars, endVars
<1>6. CASE SetResponse(j)
  <2>1. rctx[j] \in Jobs
    BY Zenon, <1>6 DEF SetResponse, Types, RespTypes
  <2>2. timer' \in [Jobs -> {"off", "armed", "fired", "stopped"}]
    <3>1. timer' = timer \/ timer' = StopTimer(rctx[j])
      BY Zenon, <1>6 DEF SetResponse
    <3> QED
      BY Zenon, <3>1, StopTimerType DEF Types
  <2>3. JobTypes'
    BY Zenon, <1>6, <2>1, <2>2 DEF SetResponse, Types, JobTypes, Outcomes
  <2>4. RespTypes'
    BY Zenon, <1>6 DEF SetResponse, Types, RespTypes
  <2> QED
    BY Zenon, <1>6, <2>3, <2>4 DEF SetResponse, Types, ConnTypes, EndTypes, connVars, endVars
<1>7. CASE FreePending(j)
  <2>1. JobTypes'
    BY Zenon, <1>7 DEF FreePending, At, Types, JobTypes
  <2>2. RespTypes'
    BY Zenon, <1>7 DEF FreePending, Types, RespTypes
  <2>3. pending' \in [Ids -> Jobs \cup {None}]
    BY Zenon, <1>7, ClearPendingType DEF FreePending, Types
  <2> QED
    BY Zenon, <1>7, <2>1, <2>2, <2>3 DEF FreePending, Types, ConnTypes, EndTypes, endVars
<1>8. CASE Done(j)
  <2>1. main' \in [Requests -> Outcomes]
    BY Zenon, <1>8, LeaveType DEF Done, Types, Outcomes
  <2>2. RespTypes'
    BY Zenon, <1>8 DEF Done, Types, RespTypes
  <2> QED
    BY Zenon, <1>8, <2>1, <2>2 DEF Done, Types, JobTypes, ConnTypes, EndTypes, connVars, endVars
<1> QED
  BY Zenon, <1>1, <1>2, <1>3, <1>4, <1>5, <1>6, <1>7, <1>8

LEMMA ClearingTypes ==
    ASSUME Types,
           \/ SetReady \/ CloseConnection \/ EndResponseLoop
           \/ DrainRequests \/ EndRequestLoop \/ CancelHandler
           \/ \E r \in Requests : ClearRequestContexts(r)
           \/ \E i \in Ids : ClearGet(i)
           \/ ClearCancel \/ ClearHolder \/ UNCHANGED vars
    PROVE  Types'
<1>1. CASE SetReady \/ CloseConnection \/ EndResponseLoop
  BY Zenon, <1>1
     DEF SetReady, CloseConnection, EndResponseLoop, Types, JobTypes, RespTypes, ConnTypes,
         EndTypes, jobVars, respVars, endVars
<1>2. CASE DrainRequests \/ EndRequestLoop \/ CancelHandler
  <2>1. EndTypes'
    BY Zenon, <1>2 DEF DrainRequests, EndRequestLoop, CancelHandler, Types, EndTypes
  <2> QED
    BY Zenon, <1>2, <2>1
       DEF DrainRequests, EndRequestLoop, CancelHandler, Types, JobTypes, RespTypes, ConnTypes,
           jobVars, respVars, connVars
<1>3. ASSUME NEW r \in Requests, ClearRequestContexts(r)
      PROVE  Types'
  <2>1. JobTypes'
    BY Zenon, <1>3 DEF ClearRequestContexts, Types, JobTypes, Outcomes
  <2>2. EndTypes'
    BY Zenon, <1>3 DEF ClearRequestContexts, Types, EndTypes
  <2> QED
    BY Zenon, <1>3, <2>1, <2>2
       DEF ClearRequestContexts, Types, RespTypes, ConnTypes, respVars, connVars
<1>4. ASSUME NEW i \in Ids, ClearGet(i)
      PROVE  Types'
  <2>1. EndTypes'
    BY Zenon, <1>4 DEF ClearGet, Types, EndTypes, ConnTypes
  <2> QED
    BY Zenon, <1>4, <2>1
       DEF ClearGet, Types, JobTypes, RespTypes, ConnTypes, jobVars, respVars, connVars
<1>5. CASE ClearCancel
  <2>1. timer' \in [Jobs -> {"off", "armed", "fired", "stopped"}]
    <3>1. timer' = timer \/ timer' = StopTimer(clearing.ctx)
      BY Zenon, <1>5 DEF ClearCancel, CancelContext
    <3> QED
      BY Zenon, <3>1, StopTimerType DEF Types
  <2>2. actx' \in [Jobs -> Outcomes]
    BY Zenon, <1>5 DEF ClearCancel, CancelContext, Types, JobTypes, Outcomes
  <2>3. JobTypes'
    BY Zenon, <1>5, <2>1, <2>2 DEF ClearCancel, Types, JobTypes
  <2>4. EndTypes'
    BY Zenon, <1>5 DEF ClearCancel, Types, EndTypes
  <2> QED
    BY Zenon, <1>5, <2>3, <2>4 DEF ClearCancel, Types, RespTypes, ConnTypes, respVars, connVars
<1>6. CASE ClearHolder
  <2>1. pending' \in [Ids -> Jobs \cup {None}]
    BY Zenon, <1>6, ClearPendingType DEF ClearHolder, Types
  <2>2. EndTypes'
    BY Zenon, <1>6 DEF ClearHolder, Types, EndTypes
  <2> QED
    BY Zenon, <1>6, <2>1, <2>2
       DEF ClearHolder, Types, JobTypes, RespTypes, ConnTypes, jobVars, respVars
<1>7. CASE UNCHANGED vars
  BY Zenon, <1>7
     DEF vars, Types, JobTypes, RespTypes, ConnTypes, EndTypes, jobVars, respVars, connVars, endVars
<1> QED
  BY Zenon, <1>1, <1>2, <1>3, <1>4, <1>5, <1>6, <1>7

LEMMA TypesStep ==
    ASSUME Types, JobInv, [Next]_vars
    PROVE  Types'
<1>1. CASE ProxyStep
  BY Zenon, <1>1, SendingTypes, AnswerTypes, ClearingTypes DEF ProxyStep
<1>2. ASSUME NEW r \in Requests, SendToAsyncConnector(r)
      PROVE  Types'
  <2>1. <<r, "request">> \in Jobs
    BY Zenon, JobParts
  <2> QED
    BY Zenon, <1>2, <2>1, SendingTypes
<1>3. ASSUME NEW j \in Jobs, NEW a \in Answers, ReadResponse(j, a)
      PROVE  Types'
  BY Zenon, <1>3, AnswerTypes
<1>4. CASE \/ CancelHandler \/ SetReady \/ CloseConnection \/ DrainRequests \/ Terminated
           \/ UNCHANGED vars
  BY Zenon, <1>4, ClearingTypes DEF Terminated
<1> QED
  BY Zenon, <1>1, <1>2, <1>3, <1>4 DEF Next

-----------------------------------------------------------------------------
(* The way of a job. *)

LEMMA SameJob ==
    ASSUME NEW j \in Jobs, Job(j), Same(j)
    PROVE  Job(j)'
  BY Zenon DEF Job, Same, SameSender, SameContext, SameResponse, SameWire

LEMMA SenderJob ==
    ASSUME Types, NEW j \in Jobs, Job(j),
           \/ Begins(j, "assign") \/ Begins(j, "handed") \/ Assigns(j) \/ Fails(j) \/ Stores(j)
           \/ Tracks(j) \/ Queues(j) \/ Overflows(j) \/ GivesUp(j)
    PROVE  Job(j)'
<1> USE DEF Job, Marked
<1>1. CASE Begins(j, "assign") \/ Begins(j, "handed")
  BY Zenon, <1>1 DEF Begins, SameContext, SameResponse, SameWire
<1>2. CASE Assigns(j)
  <2>1. id'[j] \in Ids
    BY Zenon, <1>2, IdTypes DEF Types, Assigns
  <2> QED
    BY Zenon, <1>2, <2>1 DEF Assigns, SameContext, SameResponse, SameWire
<1>3. CASE Fails(j)
  BY Zenon, <1>3 DEF Fails, SameContext, SameResponse, SameWire
<1>4. CASE Stores(j)
  BY Zenon, <1>4 DEF Stores, SameResponse, SameWire
<1>5. CASE Tracks(j)
  BY Zenon, <1>5 DEF Tracks, SameResponse, SameWire
<1>6. CASE Queues(j)
  BY Zenon, <1>6 DEF Queues, SameContext, SameResponse
<1>7. CASE Overflows(j)
  BY Zenon, <1>7 DEF Overflows, Stopped, SameResponse, SameWire
<1>8. CASE GivesUp(j)
  BY Zenon, <1>8 DEF GivesUp, SameContext, SameResponse, SameWire
<1> QED
  BY Zenon, <1>1, <1>2, <1>3, <1>4, <1>5, <1>6, <1>7, <1>8

LEMMA AnswerJob ==
    ASSUME Types, NEW j \in Jobs, Job(j),
           \/ Fires(j) \/ Expires(j) \/ Writes(j) \/ Reads(j) \/ Drops(j) \/ Finds(j)
           \/ Responds(j) \/ Frees(j) \/ Finishes(j)
    PROVE  Job(j)'
<1> USE DEF Job, Marked
<1>1. CASE Fires(j)
  BY Zenon, <1>1 DEF Fires, InProgress, SameSender, SameResponse, SameWire
<1>2. CASE Expires(j)
  BY Zenon, <1>2 DEF Expires, SameSender, SameResponse, SameWire
<1>3. CASE Writes(j)
  BY Zenon, <1>3 DEF Writes, SameSender, SameContext, SameResponse
<1>4. CASE Reads(j)
  <2>1. rpc'[j] \in {"ok", "unprepared", "protocolError"}
    BY Zenon, <1>4, ConstantsAssumption DEF Reads
  <2>2. j[2] = "prepare" => rpc'[j] # "unprepared"
    BY Zenon, <1>4 DEF Reads
  <2> QED
    BY Zenon, <1>4, <2>1, <2>2 DEF Reads, SameSender, SameContext
<1>5. CASE Drops(j)
  BY Zenon, <1>5 DEF Drops, SameSender, SameContext, SameWire
<1>6. CASE Finds(j)
  BY Zenon, <1>6 DEF Finds, SameSender, SameContext, SameWire
<1>7. CASE Responds(j)
  BY Zenon, <1>7 DEF Responds, Stopped, SameSender, SameWire
<1>8. CASE Frees(j)
  BY Zenon, <1>8 DEF Frees, SameSender, SameContext, SameWire
<1>9. CASE Finishes(j)
  BY Zenon, <1>9 DEF Finishes, SameSender, SameContext, SameWire
<1> QED
  BY Zenon, <1>1, <1>2, <1>3, <1>4, <1>5, <1>6, <1>7, <1>8, <1>9

LEMMA CancelJob ==
    ASSUME NEW j \in Jobs, Job(j), CancelStep(j), ~InProgress(j)
    PROVE  Job(j)'
  BY Zenon DEF Job, Marked, CancelStep, Stopped, InProgress, SameSender, SameResponse, SameWire

LEMMA PrepareJobs ==
    ASSUME NEW j \in Jobs, NEW p \in Jobs, p = <<j[1], "prepare">>, Job(j), Job(p),
           jpc[p] = "idle", PrepareStep(j)
    PROVE  Job(j)' /\ Job(p)'
<1>1. Job(j)'
  BY Zenon DEF Job, Marked, PrepareStep, SameSender, SameContext, SameWire
<1>2. /\ jpc'[p] = "assign" /\ id'[p] = id[p] /\ SameContext(p) /\ SameResponse(p) /\ SameWire(p)
  BY Zenon DEF PrepareStep
<1>3. Job(p)'
  BY Zenon, <1>2 DEF Job, Marked, SameContext, SameResponse, SameWire
<1> QED
  BY Zenon, <1>1, <1>3

\* What a step of a job never takes back, and which one sets the request
\* context of a handshake request.
Begun(j) == jpc[j] = "idle" /\ jpc'[j] # "idle"

Forward(j) ==
    /\ jpc[j] # "idle" => jpc'[j] # "idle"
    /\ rpc[j] = "done" => rpc'[j] = "done"
    /\ Begun(j) => j[2] = "request"
    /\ \A r \in Requests :
          main'[r] # "none" <=> main[r] # "none" \/ (r = j[1] /\ ExpectedResponse(j) /\ Begun(j))

LEMMA LeavesMain ==
    ASSUME JobInv, NEW j \in Jobs, Leaves(j), jpc[j] # "idle"
    PROVE  \A r \in Requests : main'[r] # "none" <=> main[r] # "none"
<1>1. CASE ExpectedResponse(j)
  <2>1. main[j[1]] # "none" /\ main'[j[1]] # "none" /\ OtherMains(j[1])
    BY Zenon, <1>1, Awaited DEF Leaves
  <2> QED
    BY Zenon, <2>1 DEF OtherMains
<1>2. CASE ~ExpectedResponse(j)
  BY Zenon, <1>2 DEF Leaves
<1> QED
  BY Zenon, <1>1, <1>2

LEMMA JobForward ==
    ASSUME JobInv, NEW j \in Jobs, JobStep(j)
    PROVE  Forward(j)
<1>0. Job(j)
  BY Zenon DEF JobInv
<1>1. CASE Begins(j, "assign") \/ Begins(j, "handed")
  <2>1. /\ jpc[j] = "idle" /\ jpc'[j] # "idle" /\ j[2] = "request" /\ rpc'[j] = rpc[j]
        /\ OtherMains(j[1])
        /\ ExpectedResponse(j) => main'[j[1]] # "none"
        /\ ~ExpectedResponse(j) => main'[j[1]] = main[j[1]]
    BY Zenon, <1>1 DEF Begins, SameResponse
  <2>2. ExpectedResponse(j) => main[j[1]] = "none"
    <3>1. j[1] \in Requests /\ j = <<j[1], j[2]>>
      BY Zenon, JobParts
    <3>2. Link(j[1])
      BY Zenon, <3>1 DEF JobInv
    <3> QED
      BY Zenon, <2>1, <3>1, <3>2 DEF Link
  <2>3. \A r \in Requests :
          main'[r] # "none" <=> main[r] # "none" \/ (r = j[1] /\ ExpectedResponse(j) /\ Begun(j))
    BY Zenon, <2>1, <2>2 DEF OtherMains, Begun
  <2> QED
    BY Zenon, <2>1, <2>3 DEF Forward, Begun
<1>2. CASE \/ Assigns(j) \/ Fails(j) \/ Stores(j) \/ Tracks(j) \/ Queues(j) \/ Overflows(j)
  <2>1. jpc[j] # "idle" /\ jpc'[j] # "idle" /\ rpc'[j] = rpc[j] /\ main' = main
    BY Zenon, <1>2 DEF Assigns, Fails, Stores, Tracks, Queues, Overflows, SameResponse
  <2> QED
    BY Zenon, <2>1 DEF Forward, Begun
<1>3. CASE Fires(j) \/ Writes(j) \/ Reads(j) \/ Drops(j) \/ Finds(j) \/ Responds(j) \/ Frees(j)
  <2>1. jpc'[j] = jpc[j] /\ main' = main
    BY Zenon, <1>3 DEF Fires, Writes, Reads, Drops, Finds, Responds, Frees, SameSender
  <2>2. rpc[j] = "done" => rpc'[j] = "done"
    BY Zenon, <1>0, <1>3 DEF Fires, Writes, Reads, Drops, Finds, Responds, Frees, SameResponse, Job
  <2> QED
    BY Zenon, <2>1, <2>2 DEF Forward, Begun
<1>4. CASE GivesUp(j) \/ Expires(j) \/ Finishes(j)
  <2>1. /\ Leaves(j) /\ jpc[j] # "idle" /\ jpc'[j] # "idle"
        /\ rpc[j] = "done" => rpc'[j] = "done"
    BY Zenon, <1>0, <1>4 DEF GivesUp, Expires, Finishes, SameSender, SameResponse, Job
  <2> QED
    BY Zenon, <2>1, LeavesMain DEF Forward, Begun
<1> QED
  BY Zenon, <1>1, <1>2, <1>3, <1>4 DEF JobStep

LEMMA LoopSame ==
    ASSUME Types, LoopStep
    PROVE  /\ \A j \in Jobs : Same(j)
           /\ UNCHANGED <<kind, clusterIds, inFlight, panics>>
           /\ ClearHolder \/ pending' = pending
           /\ (\E r \in Requests : ClearRequestContexts(r)) \/ UNCHANGED <<main, wg>>
<1> USE DEF jobVars, respVars, connVars, countVars, endVars, vars, Same, SameSender, SameContext,
            SameResponse, SameWire
<1>1. CASE SetReady \/ CloseConnection \/ EndResponseLoop
  BY Zenon, <1>1 DEF SetReady, CloseConnection, EndResponseLoop
<1>2. CASE DrainRequests \/ EndRequestLoop \/ CancelHandler
  BY Zenon, <1>2 DEF DrainRequests, EndRequestLoop, CancelHandler
<1>3. CASE \E r \in Requests : ClearRequestContexts(r)
  BY Zenon, <1>3 DEF ClearRequestContexts
<1>4. CASE \E i \in Ids : ClearGet(i)
  BY Zenon, <1>4 DEF ClearGet
<1>5. CASE ClearSkip \/ UNCHANGED vars
  BY Zenon, <1>5 DEF ClearSkip
<1>6. CASE ClearHolder
  BY Zenon, <1>6 DEF ClearHolder
<1> QED
  BY Zenon, <1>1, <1>2, <1>3, <1>4, <1>5, <1>6 DEF LoopStep

LEMMA ClearMain ==
    ASSUME Types, NEW r \in Requests, ClearRequestContexts(r)
    PROVE  /\ OtherMains(r) /\ wg' = wg - (IF main[r] = "pending" THEN 1 ELSE 0)
           /\ main'[r] = IF main[r] = "pending" THEN "canceled" ELSE main[r]
  BY Zenon DEF ClearRequestContexts, Types, JobTypes, OtherMains

LEMMA LinkKept ==
    ASSUME NEW r \in Requests, Link(r), kind' = kind,
           jpc'[<<r, "prepare">>] # "idle" =>
              \/ jpc[<<r, "prepare">>] # "idle"
              \/ kind[r] = "async" /\ rpc'[<<r, "request">>] = "done",
           rpc[<<r, "request">>] = "done" => rpc'[<<r, "request">>] = "done",
           jpc[<<r, "request">>] # "idle" => jpc'[<<r, "request">>] # "idle",
           main'[r] # "none" <=> \/ main[r] # "none"
                                 \/ /\ kind[r] = "handshake" /\ jpc[<<r, "request">>] = "idle"
                                    /\ jpc'[<<r, "request">>] # "idle"
    PROVE  Link(r)'
  BY Zenon DEF Link

LEMMA LoopJobs ==
    ASSUME Types, JobInv, LoopStep
    PROVE  JobInv'
<1>1. \A j \in Jobs : Job(j)'
  BY Zenon, LoopSame, SameJob DEF JobInv
<1>2. ASSUME NEW r \in Requests
      PROVE  Link(r)'
  <2>1. <<r, "request">> \in Jobs /\ <<r, "prepare">> \in Jobs
    BY Zenon, JobParts
  <2>2. main'[r] # "none" <=> main[r] # "none"
    <3>1. ASSUME NEW q \in Requests, ClearRequestContexts(q)
          PROVE  main'[r] # "none" <=> main[r] # "none"
      BY Zenon, <3>1, ClearMain DEF OtherMains
    <3> QED
      BY Zenon, <3>1, LoopSame
  <2>3. Same(<<r, "request">>) /\ Same(<<r, "prepare">>) /\ kind' = kind
    BY Zenon, <2>1, LoopSame
  <2>4. /\ jpc'[<<r, "request">>] = jpc[<<r, "request">>]
        /\ jpc'[<<r, "prepare">>] = jpc[<<r, "prepare">>]
        /\ rpc'[<<r, "request">>] = rpc[<<r, "request">>]
    BY Zenon, <2>3 DEF Same, SameSender, SameResponse
  <2>5. Link(r)
    BY Zenon DEF JobInv
  <2> QED
    BY Zenon, <2>2, <2>3, <2>4, <2>5 DEF Link
<1> QED
  BY Zenon, <1>1, <1>2 DEF JobInv

LEMMA StepJobs ==
    ASSUME Types, JobInv, NEW j \in Jobs, JobStep(j)
    PROVE  JobInv'
<1>1. \A k \in Jobs : Job(k)'
  <2>1. Job(j)'
    BY Zenon, SenderJob, AnswerJob DEF JobStep, JobInv
  <2> QED
    BY Zenon, <2>1, SameJob DEF JobStep, Others, JobInv
<1>2. ASSUME NEW r \in Requests
      PROVE  Link(r)'
  <2> DEFINE a == <<r, "request">>
             b == <<r, "prepare">>
  <2>1. a \in Jobs /\ b \in Jobs /\ a[1] = r /\ a[2] = "request" /\ b[2] = "prepare"
    BY Zenon, JobParts
  <2>2. j[1] = r /\ j[2] = "request" <=> j = a
    BY Zenon, JobParts
  <2>3. Forward(j) /\ kind' = kind /\ Link(r) /\ \A k \in Jobs : k # j => Same(k)
    BY Zenon, JobForward DEF JobStep, JobInv, Others
  <2> HIDE DEF a, b
  <2>4. jpc'[b] # "idle" => jpc[b] # "idle"
    BY Zenon, <2>1, <2>3 DEF Forward, Begun, Same, SameSender
  <2>5. (jpc[a] # "idle" => jpc'[a] # "idle") /\ (rpc[a] = "done" => rpc'[a] = "done")
    BY Zenon, <2>1, <2>3 DEF Forward, Same, SameSender, SameResponse
  <2>6. main'[r] # "none" <=> \/ main[r] # "none"
                              \/ kind[r] = "handshake" /\ jpc[a] = "idle" /\ jpc'[a] # "idle"
    <3>1. CASE j = a
      BY Zenon, <2>1, <2>3, <3>1 DEF Forward, Begun, ExpectedResponse
    <3>2. CASE j # a
      <4>1. ~(j[1] = r /\ Begun(j))
        BY Zenon, <2>2, <2>3, <3>2 DEF Forward
      <4>2. jpc'[a] = jpc[a]
        BY Zenon, <2>1, <2>3, <3>2 DEF Same, SameSender
      <4> QED
        BY Zenon, <2>3, <4>1, <4>2 DEF Forward
    <3> QED
      BY Zenon, <3>1, <3>2
  <2> QED
    BY Zenon, <2>3, <2>4, <2>5, <2>6, LinkKept DEF a, b
<1> QED
  BY Zenon, <1>1, <1>2 DEF JobInv

LEMMA CancelJobs ==
    ASSUME Types, JobInv, NEW j \in Jobs, CancelStep(j)
    PROVE  JobInv'
<1>1. ~InProgress(j)
  BY Zenon DEF CancelStep
<1>2. \A k \in Jobs : Job(k)'
  BY Zenon, <1>1, CancelJob, SameJob DEF CancelStep, Others, JobInv
<1>3. ASSUME NEW r \in Requests
      PROVE  Link(r)'
  <2>1. <<r, "request">> \in Jobs /\ <<r, "prepare">> \in Jobs
    BY Zenon, JobParts
  <2>2. \A k \in Jobs : jpc'[k] = jpc[k] /\ rpc'[k] = rpc[k]
    BY Zenon DEF CancelStep, Others, Same, SameSender, SameResponse
  <2>3. Link(r) /\ main' = main /\ kind' = kind
    BY Zenon DEF JobInv, CancelStep
  <2> QED
    BY Zenon, <2>1, <2>2, <2>3 DEF Link
<1> QED
  BY Zenon, <1>2, <1>3 DEF JobInv

\* The request of an unprepared statement, and its PREPARE.
Prepared(j, p) ==
    /\ p \in Jobs /\ p = <<j[1], "prepare">> /\ j = <<j[1], "request">> /\ p # j
    /\ j[1] \in Requests /\ jpc[p] = "idle"

LEMMA PreparesOnce ==
    ASSUME JobInv, NEW j \in Jobs, PrepareStep(j)
    PROVE  Prepared(j, <<j[1], "prepare">>)
<1>1. rpc[j] = "markedUnprepared"
  BY Zenon DEF PrepareStep
<1>2. j[2] = "request" /\ j[1] \in Requests /\ j = <<j[1], "request">>
  <2>1. j[2] = "request"
    BY Zenon, <1>1 DEF JobInv, Job
  <2>2. j[1] \in Requests /\ j = <<j[1], j[2]>>
    BY Zenon, JobParts
  <2> QED
    BY Zenon, <2>1, <2>2
<1>3. Link(j[1]) /\ <<j[1], "prepare">> \in Jobs
  BY Zenon, <1>2, JobParts DEF JobInv
<1>4. jpc[<<j[1], "prepare">>] = "idle"
  BY Zenon, <1>1, <1>2, <1>3 DEF Link
<1>5. <<j[1], "prepare">> # j
  BY <1>2
<1> QED
  BY Zenon, <1>2, <1>3, <1>4, <1>5 DEF Prepared

LEMMA PrepareJobInv ==
    ASSUME Types, JobInv, NEW j \in Jobs, PrepareStep(j)
    PROVE  JobInv'
<1> DEFINE p == <<j[1], "prepare">>
<1>1. Prepared(j, p)
  BY Zenon, PreparesOnce
<1>2. \A k \in Jobs : Job(k)'
  <2>1. Job(j)' /\ Job(p)'
    BY Zenon, <1>1, PrepareJobs DEF Prepared, JobInv
  <2>2. \A k \in Jobs : k \notin {j, p} => Same(k)
    BY Zenon DEF PrepareStep
  <2> QED
    BY Zenon, <2>1, <2>2, SameJob DEF JobInv
<1>3. ASSUME NEW r \in Requests
      PROVE  Link(r)'
  <2>1. Link(r) /\ main' = main /\ kind' = kind
    BY Zenon DEF JobInv, PrepareStep
  <2>2. CASE r = j[1]
    <3>1. kind[r] = "async"
      <4>1. j[2] = "request" /\ kind[j[1]] # "handshake"
        BY Zenon, <1>1, JobParts DEF PrepareStep, ExpectedResponse, Prepared
      <4> QED
        BY Zenon, <2>2, <4>1, ConstantsAssumption DEF Types, JobTypes
    <3>2. rpc'[j] = "done" /\ jpc'[j] = jpc[j] /\ j = <<r, "request">>
      BY Zenon, <1>1, <2>2 DEF PrepareStep, SameSender, Prepared
    <3> QED
      BY Zenon, <2>1, <3>1, <3>2 DEF Link
  <2>3. CASE r # j[1]
    <3>1. <<r, "request">> \in Jobs \ {j, p} /\ <<r, "prepare">> \in Jobs \ {j, p}
      BY Zenon, <1>1, <2>3, JobParts DEF Prepared
    <3>2. Same(<<r, "request">>) /\ Same(<<r, "prepare">>)
      BY Zenon, <3>1 DEF PrepareStep
    <3> QED
      BY Zenon, <2>1, <3>2 DEF Link, Same, SameSender, SameResponse
  <2> QED
    BY Zenon, <2>2, <2>3
<1> QED
  BY Zenon, <1>2, <1>3 DEF JobInv

-----------------------------------------------------------------------------
(* The holders. *)

LEMMA ClearPendingAt ==
    ASSUME Types, NEW j, Cleared(j)
    PROVE  \A i \in Ids : pending'[i] \in {pending[i], None}
  BY Zenon DEF Types, ConnTypes, Cleared, ClearPending

\* A context that exists does not go away.
Lasts(j) == actx[j] # "none" => actx'[j] # "none"

LEMMA SameLasts ==
    ASSUME NEW j \in Jobs, Same(j) \/ SameContext(j)
    PROVE  Lasts(j)
  BY Zenon DEF Same, SameContext, Lasts

LEMMA JobLasts ==
    ASSUME NEW j \in Jobs, JobStep(j)
    PROVE  Lasts(j)
<1> USE DEF Lasts
<1>1. CASE \/ Begins(j, "assign") \/ Begins(j, "handed") \/ Assigns(j) \/ Fails(j)
           \/ Queues(j) \/ GivesUp(j)
  BY Zenon, <1>1 DEF Begins, Assigns, Fails, Queues, GivesUp, SameContext
<1>2. CASE Stores(j) \/ Tracks(j) \/ Overflows(j) \/ Fires(j) \/ Expires(j) \/ Responds(j)
  BY Zenon, <1>2 DEF Stores, Tracks, Overflows, Fires, Expires, Responds
<1>3. CASE Writes(j) \/ Reads(j) \/ Drops(j) \/ Finds(j) \/ Frees(j) \/ Finishes(j)
  BY Zenon, <1>3 DEF Writes, Reads, Drops, Finds, Frees, Finishes, SameContext
<1> QED
  BY Zenon, <1>1, <1>2, <1>3 DEF JobStep

LEMMA AllLast ==
    ASSUME Types, JobInv,
           LoopStep \/ \E j \in Jobs : JobStep(j) \/ PrepareStep(j) \/ CancelStep(j)
    PROVE  \A k \in Jobs : Lasts(k)
<1>1. CASE LoopStep
  BY Zenon, <1>1, LoopSame, SameLasts
<1>2. ASSUME NEW j \in Jobs, JobStep(j)
      PROVE  \A k \in Jobs : Lasts(k)
  BY Zenon, <1>2, JobLasts, SameLasts DEF JobStep, Others
<1>3. ASSUME NEW j \in Jobs, PrepareStep(j)
      PROVE  \A k \in Jobs : Lasts(k)
  BY Zenon, <1>3, SameLasts DEF PrepareStep
<1>4. ASSUME NEW j \in Jobs, CancelStep(j)
      PROVE  \A k \in Jobs : Lasts(k)
  <2>1. Lasts(j)
    BY Zenon, <1>4 DEF CancelStep, Lasts
  <2> QED
    BY Zenon, <1>4, <2>1, SameLasts DEF CancelStep, Others
<1> QED
  BY Zenon, <1>1, <1>2, <1>3, <1>4

\* Only Store makes a job the holder of its id.
LEMMA HolderStep ==
    ASSUME Types, JobInv, HolderInv,
           LoopStep \/ \E j \in Jobs : JobStep(j) \/ PrepareStep(j) \/ CancelStep(j)
    PROVE  HolderInv'
<1>1. SUFFICES ASSUME NEW i \in Ids, pending'[i] # None
               PROVE  actx'[pending'[i]] # "none"
  BY Zenon DEF HolderInv
<1>2. ASSUME pending'[i] = pending[i]
      PROVE  actx'[pending'[i]] # "none"
  <2>1. pending[i] \in Jobs /\ actx[pending[i]] # "none"
    BY Zenon, <1>1, <1>2 DEF HolderInv, Types, ConnTypes
  <2> QED
    BY Zenon, <1>2, <2>1, AllLast DEF Lasts
<1>3. ASSUME NEW j, Cleared(j)
      PROVE  pending'[i] = pending[i]
  BY Zenon, <1>1, <1>3, ClearPendingAt
<1>4. CASE LoopStep
  BY Zenon, <1>2, <1>3, <1>4, LoopSame DEF ClearHolder, Cleared
<1>5. ASSUME NEW j \in Jobs, JobStep(j)
      PROVE  actx'[pending'[i]] # "none"
  <2>1. CASE Stores(j)
    <3>1. pending'[i] \in {pending[i], j} /\ actx'[j] = "pending"
      BY Zenon, <2>1 DEF Stores, Types, ConnTypes
    <3> QED
      BY Zenon, <1>2, <3>1
  <2>2. CASE ~Stores(j)
    <3>1. pending' = pending \/ Cleared(j)
      BY Zenon, <1>5, <2>2
         DEF JobStep, Begins, Assigns, Fails, Tracks, Queues, Overflows, GivesUp, Fires, Expires,
             Writes, Reads, Drops, Finds, Responds, Frees, Finishes, SamePending
    <3> QED
      BY Zenon, <1>2, <1>3, <3>1
  <2> QED
    BY Zenon, <2>1, <2>2
<1>6. ASSUME NEW j \in Jobs, PrepareStep(j) \/ CancelStep(j)
      PROVE  actx'[pending'[i]] # "none"
  BY Zenon, <1>2, <1>3, <1>6 DEF PrepareStep, CancelStep, SamePending
<1> QED
  BY Zenon, <1>4, <1>5, <1>6

-----------------------------------------------------------------------------
(* The end of the client handler. *)

\* Who may start to send.
Calm(j) ==
    InProgress(j)' => \/ InProgress(j) \/ j[2] = "prepare"
                      \/ j[2] = "request" /\ requestLoop = "running"

LEMMA SameCalm ==
    ASSUME NEW j \in Jobs, Same(j) \/ SameSender(j)
    PROVE  Calm(j)
  BY Zenon DEF Same, SameSender, Calm, InProgress

LEMMA JobCalm ==
    ASSUME NEW j \in Jobs, JobStep(j)
    PROVE  Calm(j)
<1> USE DEF Calm, InProgress
<1>1. CASE Begins(j, "assign") \/ Begins(j, "handed")
  BY Zenon, <1>1 DEF Begins
<1>2. CASE Assigns(j) \/ Fails(j) \/ Stores(j) \/ Tracks(j) \/ Queues(j) \/ Overflows(j) \/ GivesUp(j)
  BY Zenon, <1>2 DEF Assigns, Fails, Stores, Tracks, Queues, Overflows, GivesUp
<1>3. CASE Fires(j) \/ Expires(j) \/ Writes(j) \/ Reads(j)
  BY Zenon, <1>3 DEF Fires, Expires, Writes, Reads, SameSender
<1>4. CASE Drops(j) \/ Finds(j) \/ Responds(j) \/ Frees(j) \/ Finishes(j)
  BY Zenon, <1>4 DEF Drops, Finds, Responds, Frees, Finishes, SameSender
<1> QED
  BY Zenon, <1>1, <1>2, <1>3, <1>4 DEF JobStep

LEMMA PrepareCalm ==
    ASSUME JobInv, NEW j \in Jobs, PrepareStep(j)
    PROVE  \A k \in Jobs : Calm(k)
<1> DEFINE p == <<j[1], "prepare">>
<1>1. p[2] = "prepare"
  BY Zenon, PreparesOnce, JobParts DEF Prepared
<1>2. SameSender(j) /\ \A k \in Jobs : k \notin {j, p} => Same(k)
  BY Zenon DEF PrepareStep
<1> HIDE DEF p
<1>3. Calm(p)
  BY Zenon, <1>1 DEF Calm
<1> QED
  BY Zenon, <1>2, <1>3, SameCalm

LEMMA CalmKept ==
    ASSUME LoopInv, \A j \in Jobs : Calm(j), requestLoop' = requestLoop
    PROVE  requestLoop' # "running" => \A r \in Requests : ~InProgress(<<r, "request">>)'
<1>1. SUFFICES ASSUME requestLoop' # "running", NEW r \in Requests
               PROVE  ~InProgress(<<r, "request">>)'
  BY Zenon
<1>2. <<r, "request">> \in Jobs /\ <<r, "request">>[2] # "prepare"
  BY Zenon, JobParts
<1>3. Calm(<<r, "request">>) /\ requestLoop # "running" /\ ~InProgress(<<r, "request">>)
  BY Zenon, <1>1, <1>2 DEF LoopInv
<1> QED
  BY Zenon, <1>2, <1>3 DEF Calm

LEMMA JobLoop ==
    ASSUME LoopInv, \A j \in Jobs : Calm(j) /\ Lasts(j), UNCHANGED <<requestLoop, clearing>>
    PROVE  LoopInv'
<1>1. clearing'.step \in {"found", "clear"} =>
          clearing'.ctx \in Jobs /\ actx'[clearing'.ctx] # "none"
  BY Zenon DEF LoopInv, Lasts
<1> QED
  BY Zenon, <1>1, CalmKept DEF LoopInv

LEMMA CancelLoop ==
    ASSUME Types, LoopInv, NEW j \in Jobs, CancelStep(j)
    PROVE  LoopInv'
<1>1. \A k \in Jobs : Calm(k)
  BY Zenon, SameCalm DEF CancelStep, Others
<1>2. requestLoop' = requestLoop /\ actx'[j] = "canceled" /\ clearing.ctx = j
  BY Zenon DEF CancelStep
<1>3. clearing'.ctx = j
  BY Zenon, <1>2 DEF CancelStep, Types, EndTypes
<1>4. clearing'.step \in {"found", "clear"} =>
          clearing'.ctx \in Jobs /\ actx'[clearing'.ctx] # "none"
  BY Zenon, <1>2, <1>3
<1> QED
  BY Zenon, <1>1, <1>2, <1>4, CalmKept DEF LoopInv

\* Every job is as it was.
Frozen == \A j \in Jobs : Same(j)

LEMMA FrozenLoop ==
    ASSUME LoopInv, Frozen,
           requestLoop' # "running" =>
              requestLoop # "running" \/ \A r \in Requests : ~InProgress(<<r, "request">>),
           clearing'.step \in {"found", "clear"} =>
              clearing'.ctx \in Jobs /\ actx[clearing'.ctx] # "none"
    PROVE  LoopInv'
<1>1. \A j \in Jobs : jpc'[j] = jpc[j] /\ actx'[j] = actx[j]
  BY Zenon DEF Frozen, Same, SameSender, SameContext
<1>2. \A r \in Requests : InProgress(<<r, "request">>)' <=> InProgress(<<r, "request">>)
  BY Zenon, <1>1, JobParts DEF InProgress
<1> QED
  BY Zenon, <1>1, <1>2 DEF LoopInv

LEMMA QuietLoop ==
    ASSUME Types, LoopInv, Frozen,
           \/ SetReady \/ CloseConnection \/ EndResponseLoop \/ EndRequestLoop \/ DrainRequests
           \/ CancelHandler \/ UNCHANGED vars
    PROVE  LoopInv'
<1>1. CASE \/ SetReady \/ CloseConnection \/ EndResponseLoop \/ CancelHandler \/ UNCHANGED vars
  <2>1. UNCHANGED <<requestLoop, clearing>>
    BY Zenon, <1>1 DEF SetReady, CloseConnection, EndResponseLoop, CancelHandler, vars, endVars
  <2> QED
    BY Zenon, <2>1, FrozenLoop DEF LoopInv
<1>2. CASE EndRequestLoop
  <2>1. requestLoop = "waiting" /\ clearing' = clearing
    BY Zenon, <1>2 DEF EndRequestLoop
  <2>2. requestLoop # "running"
    BY Zenon, <2>1
  <2> QED
    BY Zenon, <2>1, <2>2, FrozenLoop DEF LoopInv
<1>3. CASE DrainRequests
  <2>1. clearing'.step = "main" /\ \A r \in Requests : ~InProgress(<<r, "request">>)
    BY Zenon, <1>3 DEF DrainRequests, Types, EndTypes
  <2>2. clearing'.step \notin {"found", "clear"}
    BY Zenon, <2>1
  <2> QED
    BY Zenon, <2>1, <2>2, FrozenLoop
<1> QED
  BY Zenon, <1>1, <1>2, <1>3

LEMMA ClearingLoop ==
    ASSUME Types, HolderInv, LoopInv, Frozen,
           \/ \E r \in Requests : ClearRequestContexts(r)
           \/ \E i \in Ids : ClearGet(i)
           \/ ClearSkip \/ ClearHolder
    PROVE  LoopInv'
<1>1. requestLoop' = requestLoop
  BY Zenon DEF ClearRequestContexts, ClearGet, ClearSkip, ClearHolder
<1>2. clearing'.step \in {"found", "clear"} =>
            clearing'.ctx \in Jobs /\ actx[clearing'.ctx] # "none"
  <2>1. CASE \E r \in Requests : ClearRequestContexts(r)
    <3>1. clearing'.step \in {"next", "main"}
      BY <2>1 DEF ClearRequestContexts, Types, EndTypes
    <3> QED
      BY Zenon, <3>1
  <2>2. CASE ClearSkip \/ ClearHolder
    <3>1. clearing'.step = "next"
      BY Zenon, <2>2 DEF ClearSkip, ClearHolder, Types, EndTypes
    <3> QED
      BY Zenon, <3>1
  <2>3. ASSUME NEW i \in Ids, ClearGet(i)
        PROVE  /\ clearing'.ctx = pending[i]
               /\ clearing'.step = IF pending[i] = None THEN "next" ELSE "found"
    BY Zenon, <2>3 DEF ClearGet
  <2>4. CASE \E i \in Ids : ClearGet(i)
    <3>1. PICK i \in Ids : ClearGet(i)
      BY Zenon, <2>4
    <3>2. pending[i] # None => pending[i] \in Jobs /\ actx[pending[i]] # "none"
      BY Zenon DEF HolderInv, Types, ConnTypes
    <3>3. clearing'.step \in {"found", "clear"} => pending[i] # None
      BY Zenon, <2>3, <3>1
    <3> QED
      BY Zenon, <2>3, <3>1, <3>2, <3>3
  <2> QED
    BY Zenon, <2>1, <2>2, <2>4
<1> QED
  BY Zenon, <1>1, <1>2, FrozenLoop DEF LoopInv

LEMMA LoopInvStep ==
    ASSUME Types, JobInv, HolderInv, LoopInv,
           LoopStep \/ \E j \in Jobs : JobStep(j) \/ PrepareStep(j) \/ CancelStep(j)
    PROVE  LoopInv'
<1>1. CASE LoopStep
  <2>1. Frozen
    BY Zenon, <1>1, LoopSame DEF Frozen
  <2> QED
    BY Zenon, <1>1, <2>1, QuietLoop, ClearingLoop DEF LoopStep
<1>2. ASSUME NEW j \in Jobs, JobStep(j)
      PROVE  LoopInv'
  <2>1. \A k \in Jobs : Calm(k) /\ Lasts(k)
    BY Zenon, <1>2, JobCalm, SameCalm, AllLast DEF JobStep, Others
  <2> QED
    BY Zenon, <1>2, <2>1, JobLoop DEF JobStep
<1>3. ASSUME NEW j \in Jobs, PrepareStep(j)
      PROVE  LoopInv'
  BY Zenon, <1>3, PrepareCalm, AllLast, JobLoop DEF PrepareStep
<1> QED
  BY Zenon, <1>1, <1>2, <1>3, CancelLoop

LEMMA JobInvStep ==
    ASSUME Types, JobInv,
           LoopStep \/ \E j \in Jobs : JobStep(j) \/ PrepareStep(j) \/ CancelStep(j)
    PROVE  JobInv'
  BY Zenon, LoopJobs, StepJobs, PrepareJobInv, CancelJobs

-----------------------------------------------------------------------------
(* The units of the wait group. *)

OneUnit(j) ==
    /\ \A k \in Jobs : k # j => (HasUnit(k)' <=> HasUnit(k))
    /\ \/ (HasUnit(j)' <=> HasUnit(j)) /\ wg' = wg
       \/ HasUnit(j) /\ ~HasUnit(j)' /\ wg' = wg - 1
       \/ ~HasUnit(j) /\ HasUnit(j)' /\ wg' = wg + 1 /\ requestLoop = "running"

\* The other jobs keep their units when only the request context of the
\* request of j changes.
LEMMA OtherUnits ==
    ASSUME NEW j \in Jobs, Others(j), kind' = kind, OtherMains(j[1]),
           main' = main \/ j[2] = "request"
    PROVE  \A k \in Jobs : k # j => (HasUnit(k)' <=> HasUnit(k))
<1>1. SUFFICES ASSUME NEW k \in Jobs, k # j
               PROVE  HasUnit(k)' <=> HasUnit(k)
  BY Zenon
<1>2. Same(k) /\ (ExpectedResponse(k)' <=> ExpectedResponse(k))
  BY Zenon, <1>1 DEF Others, ExpectedResponse
<1>3. Holds(k)' <=> Holds(k)
  BY Zenon, <1>2 DEF Same, SameSender, SameContext, SameResponse, Holds
<1>4. k[1] \in Requests /\ (k[2] = "request" => main'[k[1]] = main[k[1]])
  <2>1. k[1] \in Requests /\ k = <<k[1], k[2]>> /\ j = <<j[1], j[2]>>
    BY Zenon, JobParts
  <2>2. CASE main' = main
    BY Zenon, <2>1, <2>2
  <2>3. CASE j[2] = "request"
    <3>1. k[2] = "request" => k[1] # j[1]
      BY Zenon, <1>1, <2>1, <2>3
    <3> QED
      BY Zenon, <2>1, <3>1 DEF OtherMains
  <2> QED
    BY Zenon, <2>2, <2>3
<1>5. ExpectedResponse(k) => k[2] = "request"
  BY Zenon DEF ExpectedResponse
<1> QED
  BY Zenon, <1>2, <1>3, <1>4, <1>5 DEF HasUnit

\* A job keeps its unit on its way from the sender to the wire and back.
Onward(j) ==
    \/ Assigns(j) \/ Fails(j) \/ Stores(j) \/ Tracks(j) \/ Queues(j) \/ Overflows(j)
    \/ Fires(j) \/ Writes(j) \/ Reads(j) \/ Drops(j) \/ Finds(j) \/ Responds(j) \/ Frees(j)

LEMMA OnwardHolds ==
    ASSUME NEW j \in Jobs, Job(j), Onward(j)
    PROVE  /\ Holds(j)' <=> Holds(j)
           /\ main' = main /\ wg' = wg
<1> USE DEF Job, Holds, Marked
<1>1. CASE Assigns(j) \/ Fails(j)
  BY Zenon, <1>1 DEF Assigns, Fails, SameContext, SameResponse, SameCounts
<1>2. CASE Stores(j) \/ Tracks(j)
  BY Zenon, <1>2 DEF Stores, Tracks, SameResponse, SameCounts
<1>3. CASE Queues(j) \/ Overflows(j)
  BY Zenon, <1>3 DEF Queues, Overflows, Stopped, SameContext, SameResponse, SameCounts
<1>4. CASE Fires(j) \/ Writes(j)
  BY Zenon, <1>4 DEF Fires, Writes, SameSender, SameContext, SameResponse, SameCounts
<1>5. CASE Reads(j)
  BY Zenon, <1>5, ConstantsAssumption DEF Reads, SameSender, SameContext, SameCounts
<1>6. CASE Drops(j) \/ Finds(j)
  BY Zenon, <1>6 DEF Drops, Finds, SameSender, SameContext, SameCounts
<1>7. CASE Responds(j) \/ Frees(j)
  BY Zenon, <1>7 DEF Responds, Frees, Stopped, SameSender, SameContext, SameCounts
<1> QED
  BY Zenon, <1>1, <1>2, <1>3, <1>4, <1>5, <1>6, <1>7 DEF Onward

LEMMA OnwardUnit ==
    ASSUME NEW j \in Jobs, Job(j), Others(j), kind' = kind, Onward(j)
    PROVE  OneUnit(j)
<1>1. (Holds(j)' <=> Holds(j)) /\ main' = main /\ wg' = wg
  BY Zenon, OnwardHolds
<1>2. HasUnit(j)' <=> HasUnit(j)
  BY Zenon, <1>1 DEF HasUnit, ExpectedResponse
<1>3. OtherMains(j[1])
  BY Zenon, <1>1 DEF OtherMains
<1> QED
  BY Zenon, <1>1, <1>2, <1>3, OtherUnits DEF OneUnit

LEMMA LeavesHolds ==
    ASSUME NEW j \in Jobs, Job(j), GivesUp(j) \/ Expires(j) \/ Finishes(j)
    PROVE  Leaves(j) /\ Holds(j) /\ ~Holds(j)' /\ jpc[j] # "idle"
<1> USE DEF Job, Holds, Marked
<1>1. CASE GivesUp(j)
  BY Zenon, <1>1 DEF GivesUp, SameContext, SameResponse
<1>2. CASE Expires(j)
  BY Zenon, <1>2 DEF Expires, SameSender, SameResponse
<1>3. CASE Finishes(j)
  BY Zenon, <1>3 DEF Finishes, SameSender, SameContext
<1> QED
  BY Zenon, <1>1, <1>2, <1>3

LEMMA LeavesUnit ==
    ASSUME JobInv, wg \in Nat, NEW j \in Jobs, Others(j), kind' = kind,
           GivesUp(j) \/ Expires(j) \/ Finishes(j)
    PROVE  OneUnit(j)
<1>1. Leaves(j) /\ Holds(j) /\ ~Holds(j)' /\ jpc[j] # "idle"
  BY Zenon, LeavesHolds DEF JobInv
<1>2. ExpectedResponse(j)' <=> ExpectedResponse(j)
  BY Zenon DEF ExpectedResponse
<1>3. CASE ExpectedResponse(j)
  <2>1. /\ j[2] = "request" /\ OtherMains(j[1]) /\ main'[j[1]] # "pending"
        /\ wg' = wg - (IF main[j[1]] = "pending" THEN 1 ELSE 0)
    BY Zenon, <1>1, <1>3, Awaited DEF Leaves
  <2>2. \A k \in Jobs : k # j => (HasUnit(k)' <=> HasUnit(k))
    BY Zenon, <2>1, OtherUnits
  <2>3. (HasUnit(j) <=> main[j[1]] = "pending") /\ ~HasUnit(j)'
    BY Zenon, <1>2, <1>3, <2>1 DEF HasUnit
  <2>4. \/ HasUnit(j) /\ wg' = wg - 1
        \/ ~HasUnit(j) /\ wg' = wg
    BY <2>1, <2>3
  <2> QED
    BY Zenon, <2>2, <2>3, <2>4 DEF OneUnit
<1>4. CASE ~ExpectedResponse(j)
  <2>1. main' = main /\ wg' = wg - 1 /\ OtherMains(j[1])
    BY Zenon, <1>1, <1>4 DEF Leaves
  <2>2. HasUnit(j) /\ ~HasUnit(j)'
    BY Zenon, <1>1, <1>2, <1>4 DEF HasUnit
  <2> QED
    BY Zenon, <2>1, <2>2, OtherUnits DEF OneUnit
<1> QED
  BY Zenon, <1>3, <1>4

LEMMA BeginsUnit ==
    ASSUME JobInv, NEW j \in Jobs, Others(j), kind' = kind,
           Begins(j, "assign") \/ Begins(j, "handed")
    PROVE  OneUnit(j)
<1>1. /\ j[2] = "request" /\ jpc[j] = "idle" /\ OtherMains(j[1]) /\ requestLoop = "running"
      /\ SameContext(j) /\ SameResponse(j)
  BY Zenon DEF Begins
<1>2. \A k \in Jobs : k # j => (HasUnit(k)' <=> HasUnit(k))
  BY Zenon, <1>1, OtherUnits
<1>3. actx[j] = "none" /\ timer[j] = "off" /\ rpc[j] = "none"
  BY Zenon, <1>1 DEF JobInv, Job
<1>4. ~Holds(j)
  BY Zenon, <1>1, <1>3 DEF Holds, Marked
<1>5. ExpectedResponse(j)' <=> ExpectedResponse(j)
  BY Zenon DEF ExpectedResponse
<1>6. ExpectedResponse(j) => main[j[1]] = "none"
  <2>1. j[1] \in Requests /\ j = <<j[1], j[2]>>
    BY Zenon, JobParts
  <2>2. Link(j[1])
    BY Zenon, <2>1 DEF JobInv
  <2> QED
    BY Zenon, <1>1, <2>1, <2>2 DEF Link
<1>7. ~HasUnit(j)
  BY Zenon, <1>4, <1>6 DEF HasUnit
<1>8. CASE Begins(j, "assign")
  <2>1. wg' = wg + 1 /\ jpc'[j] = "assign" /\ (ExpectedResponse(j) => main'[j[1]] = "pending")
    BY Zenon, <1>8 DEF Begins
  <2>2. HasUnit(j)'
    BY Zenon, <1>1, <1>5, <2>1 DEF HasUnit, Holds
  <2> QED
    BY Zenon, <1>1, <1>2, <1>7, <2>1, <2>2 DEF OneUnit
<1>9. CASE Begins(j, "handed")
  <2>1. wg' = wg /\ jpc'[j] = "handed" /\ (ExpectedResponse(j) => main'[j[1]] = "canceled")
    BY Zenon, <1>9 DEF Begins
  <2>2. ~Holds(j)'
    BY Zenon, <1>1, <1>3, <2>1 DEF Holds, Marked, SameContext, SameResponse
  <2>3. ~HasUnit(j)'
    BY Zenon, <1>5, <2>1, <2>2 DEF HasUnit
  <2> QED
    BY Zenon, <1>2, <1>7, <2>1, <2>3 DEF OneUnit
<1> QED
  BY Zenon, <1>8, <1>9

LEMMA JobUnit ==
    ASSUME JobInv, wg \in Nat, NEW j \in Jobs, JobStep(j)
    PROVE  OneUnit(j)
<1>1. Others(j) /\ kind' = kind /\ Job(j)
  BY Zenon DEF JobStep, JobInv
<1>2. \/ Begins(j, "assign") \/ Begins(j, "handed") \/ Onward(j)
      \/ GivesUp(j) \/ Expires(j) \/ Finishes(j)
  BY Zenon DEF JobStep, Onward
<1> QED
  BY Zenon, <1>1, <1>2, BeginsUnit, OnwardUnit, LeavesUnit

LEMMA CancelUnit ==
    ASSUME JobInv, wg \in Nat, NEW j \in Jobs, CancelStep(j)
    PROVE  OneUnit(j)
<1>1. /\ Others(j) /\ kind' = kind /\ main' = main /\ OtherMains(j[1]) /\ actx[j] = "pending"
      /\ wg' = wg - (IF ExpectedResponse(j) THEN 0 ELSE 1)
  BY Zenon DEF CancelStep, OtherMains
<1>2. \A k \in Jobs : k # j => (HasUnit(k)' <=> HasUnit(k))
  BY Zenon, <1>1, OtherUnits
<1>3. ExpectedResponse(j)' <=> ExpectedResponse(j)
  BY Zenon, <1>1 DEF ExpectedResponse
<1>4. CASE ExpectedResponse(j)
  <2>1. (HasUnit(j)' <=> HasUnit(j))
    BY Zenon, <1>1, <1>3, <1>4 DEF HasUnit
  <2>2. wg' = wg
    BY <1>1, <1>4
  <2> QED
    BY Zenon, <1>2, <2>1, <2>2 DEF OneUnit
<1>5. CASE ~ExpectedResponse(j)
  <2>1. ~InProgress(j)
    BY Zenon DEF CancelStep
  <2>2. Job(j)
    BY Zenon DEF JobInv
  <2>3. ~Holds(j)'
    BY Zenon, <2>1, <2>2 DEF CancelStep, Stopped, InProgress, Job, Holds, Marked, SameSender, SameResponse
  <2>4. HasUnit(j) /\ ~HasUnit(j)'
    BY Zenon, <1>1, <1>3, <1>5, <2>3 DEF HasUnit, Holds
  <2>5. wg' = wg - 1
    BY Zenon, <1>1, <1>5
  <2> QED
    BY Zenon, <1>2, <2>4, <2>5 DEF OneUnit
<1> QED
  BY Zenon, <1>4, <1>5

LEMMA LoopUnit ==
    ASSUME Types, JobInv, wg \in Nat, LoopStep
    PROVE  \/ (\A k \in Jobs : HasUnit(k)' <=> HasUnit(k)) /\ wg' = wg
           \/ \E j \in Jobs : OneUnit(j)
<1>1. \A k \in Jobs : (Holds(k)' <=> Holds(k)) /\ (ExpectedResponse(k)' <=> ExpectedResponse(k))
  <2>1. kind' = kind /\ \A k \in Jobs : Same(k)
    BY Zenon, LoopSame
  <2> QED
    BY Zenon, <2>1 DEF Same, SameSender, SameContext, SameResponse, Holds, ExpectedResponse
<1>2. CASE UNCHANGED <<main, wg>>
  BY Zenon, <1>1, <1>2 DEF HasUnit
<1>3. ASSUME NEW r \in Requests, ClearRequestContexts(r)
      PROVE  OneUnit(<<r, "request">>)
  <2> DEFINE j == <<r, "request">>
  <2>1. /\ OtherMains(r) /\ wg' = wg - (IF main[r] = "pending" THEN 1 ELSE 0)
        /\ main'[r] = IF main[r] = "pending" THEN "canceled" ELSE main[r]
    BY Zenon, <1>3, ClearMain
  <2>2. j \in Jobs /\ j[1] = r /\ j[2] = "request"
    BY Zenon, JobParts
  <2>3. \A k \in Jobs : k # j => k[1] \in Requests /\ (k[2] = "request" => k[1] # r)
    BY Zenon, JobParts
  <2>4. main[r] = "pending" => ExpectedResponse(j)
    <3>1. Link(r)
      BY Zenon DEF JobInv
    <3> QED
      BY Zenon, <2>2, <3>1 DEF Link, ExpectedResponse
  <2> HIDE DEF j
  <2>5. \A k \in Jobs : k # j => (HasUnit(k)' <=> HasUnit(k))
    <3>1. \A k \in Jobs : ExpectedResponse(k) => k[2] = "request"
      BY Zenon DEF ExpectedResponse
    <3> QED
      BY Zenon, <1>1, <2>1, <2>3, <3>1 DEF HasUnit, OtherMains
  <2>6. CASE main[r] = "pending"
    <3>1. wg' = wg - 1 /\ main'[r] = "canceled" /\ main'[r] # "pending"
      BY Zenon, <2>1, <2>6
    <3>2. HasUnit(j) /\ ~HasUnit(j)'
      BY Zenon, <1>1, <2>2, <2>4, <2>6, <3>1 DEF HasUnit
    <3> QED
      BY Zenon, <2>5, <3>1, <3>2 DEF OneUnit, j
  <2>7. CASE main[r] # "pending"
    <3>1. wg' = wg /\ main'[r] = main[r]
      BY <2>1, <2>7
    <3>2. HasUnit(j)' <=> HasUnit(j)
      BY Zenon, <1>1, <2>2, <3>1 DEF HasUnit
    <3> QED
      BY Zenon, <2>5, <3>1, <3>2 DEF OneUnit, j
  <2> QED
    BY Zenon, <2>6, <2>7
<1>4. ASSUME NEW r \in Requests, ClearRequestContexts(r)
      PROVE  \E j \in Jobs : OneUnit(j)
  BY Zenon, <1>3, <1>4, JobParts
<1> QED
  BY Zenon, <1>2, <1>4, LoopSame

\* The PREPARE takes over the unit of the request.
LEMMA PrepareUnit ==
    ASSUME JobInv, NEW j \in Jobs, PrepareStep(j)
    PROVE  \E p \in Jobs : /\ HasUnit(j) /\ ~HasUnit(j)' /\ ~HasUnit(p) /\ HasUnit(p)'
                           /\ \A k \in Jobs \ {j, p} : HasUnit(k)' <=> HasUnit(k)
<1> DEFINE p == <<j[1], "prepare">>
<1>1. p \in Jobs /\ p[1] = j[1] /\ jpc[p] = "idle" /\ p # j
  BY Zenon, PreparesOnce DEF Prepared
<1>2. /\ kind' = kind /\ main' = main /\ ~ExpectedResponse(j)
      /\ rpc[j] = "markedUnprepared" /\ rpc'[j] = "done" /\ SameSender(j) /\ SameContext(j)
      /\ jpc'[p] = "assign" /\ \A k \in Jobs : k \notin {j, p} => Same(k)
  BY Zenon DEF PrepareStep
<1>3. Job(j) /\ Job(p)
  BY Zenon, <1>1 DEF JobInv
<1> HIDE DEF p
<1>4. Holds(j) /\ ~Holds(j)'
  BY Zenon, <1>2, <1>3 DEF Job, Holds, Marked, SameSender, SameContext
<1>5. ~Holds(p) /\ Holds(p)'
  BY Zenon, <1>1, <1>2, <1>3 DEF Job, Holds, Marked
<1>6. ~ExpectedResponse(p) /\ ~ExpectedResponse(p)' /\ ~ExpectedResponse(j)'
  <2>1. p[2] = "prepare"
    BY Zenon, JobParts DEF p
  <2> QED
    BY Zenon, <1>1, <1>2, <2>1 DEF ExpectedResponse
<1>7. HasUnit(j) /\ ~HasUnit(j)' /\ ~HasUnit(p) /\ HasUnit(p)'
  BY Zenon, <1>2, <1>4, <1>5, <1>6 DEF HasUnit
<1>8. ASSUME NEW k \in Jobs \ {j, p}
      PROVE  HasUnit(k)' <=> HasUnit(k)
  <2>1. Same(k) /\ (ExpectedResponse(k)' <=> ExpectedResponse(k))
    BY Zenon, <1>2 DEF ExpectedResponse
  <2>2. Holds(k)' <=> Holds(k)
    BY Zenon, <2>1 DEF Same, SameSender, SameContext, SameResponse, Holds
  <2> QED
    BY Zenon, <1>2, <2>1, <2>2 DEF HasUnit
<1> QED
  BY Zenon, <1>1, <1>7, <1>8

\* What the proofs use of the sizes of sets of jobs; CountingHolds proves it.
Counting ==
    /\ Cardinality({}) = 0
    /\ \A T \in SUBSET Jobs :
          /\ Cardinality(T) \in Nat
          /\ Cardinality(T) = 0 => T = {}
          /\ \A j \in Jobs : /\ j \notin T => Cardinality(T \cup {j}) = Cardinality(T) + 1
                             /\ j \in T => Cardinality(T \ {j}) = Cardinality(T) - 1

LEMMA OneUnitCount ==
    ASSUME Counting, wg = Cardinality(Units), NEW j \in Jobs, OneUnit(j)
    PROVE  wg' = Cardinality(Units') /\ (wg' <= wg \/ requestLoop = "running")
<1>1. Units \in SUBSET Jobs /\ Cardinality(Units) \in Nat
  BY Zenon DEF Units, Counting
<1>2. CASE (HasUnit(j)' <=> HasUnit(j)) /\ wg' = wg
  <2>1. Units' = Units
    BY Zenon, <1>2 DEF OneUnit, Units
  <2> QED
    BY <1>1, <1>2, <2>1
<1>3. CASE HasUnit(j) /\ ~HasUnit(j)' /\ wg' = wg - 1
  <2>1. j \in Units /\ Units' = Units \ {j}
    BY Zenon, <1>3 DEF OneUnit, Units
  <2>2. Cardinality(Units') = Cardinality(Units) - 1
    BY Zenon, <1>1, <2>1 DEF Counting
  <2> QED
    BY <1>1, <1>3, <2>2
<1>4. CASE ~HasUnit(j) /\ HasUnit(j)' /\ wg' = wg + 1 /\ requestLoop = "running"
  <2>1. j \notin Units /\ Units' = Units \cup {j}
    BY Zenon, <1>4 DEF OneUnit, Units
  <2>2. Cardinality(Units') = Cardinality(Units) + 1
    BY Zenon, <1>1, <2>1 DEF Counting
  <2> QED
    BY Zenon, <1>4, <2>2
<1> QED
  BY Zenon, <1>2, <1>3, <1>4 DEF OneUnit

LEMMA UnitStep ==
    ASSUME Counting, Types, JobInv, wg = Cardinality(Units),
           LoopStep \/ \E j \in Jobs : JobStep(j) \/ PrepareStep(j) \/ CancelStep(j)
    PROVE  wg' = Cardinality(Units') /\ (wg' <= wg \/ requestLoop = "running")
<1>1. Units \in SUBSET Jobs /\ Cardinality(Units) \in Nat /\ wg \in Nat
  BY Zenon DEF Units, Counting
<1>2. CASE \E j \in Jobs : OneUnit(j)
  BY Zenon, <1>2, OneUnitCount
<1>3. CASE (\A k \in Jobs : HasUnit(k)' <=> HasUnit(k)) /\ wg' = wg
  <2>1. Units' = Units
    BY Zenon, <1>3 DEF Units
  <2> QED
    BY <1>1, <1>3, <2>1
<1>4. ASSUME NEW j \in Jobs, PrepareStep(j)
      PROVE  wg' = Cardinality(Units') /\ wg' <= wg
  <2>1. PICK p \in Jobs : /\ HasUnit(j) /\ ~HasUnit(j)' /\ ~HasUnit(p) /\ HasUnit(p)'
                          /\ \A k \in Jobs \ {j, p} : HasUnit(k)' <=> HasUnit(k)
    BY Zenon, <1>4, PrepareUnit
  <2> DEFINE T == Units \ {j}
  <2>2. j \in Units /\ T \in SUBSET Jobs /\ p \notin T
    BY Zenon, <2>1 DEF Units
  <2>3. Units' = T \cup {p}
    <3>1. \A k \in Jobs : HasUnit(k)' <=> k \in T \cup {p}
      BY Zenon, <2>1 DEF Units
    <3> QED
      BY Zenon, <2>2, <3>1 DEF Units
  <2> HIDE DEF T
  <2>4. Cardinality(T) = Cardinality(Units) - 1
    BY Zenon, <1>1, <2>2 DEF Counting, T
  <2>5. Cardinality(Units') = Cardinality(T) + 1
    BY Zenon, <2>2, <2>3 DEF Counting
  <2>6. wg' = wg
    BY Zenon, <1>4 DEF PrepareStep, SameCounts
  <2> QED
    BY <1>1, <2>4, <2>5, <2>6
<1> QED
  BY Zenon, <1>1, <1>2, <1>3, <1>4, LoopUnit, JobUnit, CancelUnit

-----------------------------------------------------------------------------
(* The in-flight metric. *)

\* The job j is counted, is no longer counted, or neither.
OneFlight(j) ==
    \/ (Flying(j)' <=> Flying(j)) /\ inFlight' = inFlight
    \/ actx[j] = "pending" /\ jpc[j] # "track" /\ ~Flying(j)' /\ inFlight' = inFlight - Tracked(j)
    \/ ~Flying(j) /\ actx'[j] = "pending" /\ jpc'[j] # "track" /\ inFlight' = inFlight + Tracked(j)

LEMMA SameFlight ==
    ASSUME NEW j \in Jobs, Same(j), kind' = kind
    PROVE  Flying(j)' <=> Flying(j)
  BY Zenon DEF Same, SameSender, SameContext, Flying, Tracked

LEMMA JobFlight ==
    ASSUME JobInv, NEW j \in Jobs, JobStep(j)
    PROVE  OneFlight(j)
<1>0. Job(j) /\ kind' = kind
  BY Zenon DEF JobInv, JobStep
<1>1. Tracked(j)' = Tracked(j)
  BY Zenon, <1>0 DEF Tracked
<1>2. CASE /\ inFlight' = inFlight
           /\ actx'[j] = "pending" /\ jpc'[j] # "track" <=> actx[j] = "pending" /\ jpc[j] # "track"
  BY Zenon, <1>1, <1>2 DEF OneFlight, Flying
<1>3. CASE Begins(j, "assign") \/ Begins(j, "handed") \/ Assigns(j) \/ Fails(j) \/ Stores(j)
  <2>1. actx[j] = "none" /\ inFlight' = inFlight /\ (actx'[j] = "none" \/ jpc'[j] = "track")
    BY Zenon, <1>0, <1>3 DEF Begins, Assigns, Fails, Stores, SameContext, SameCounts, Job
  <2> QED
    BY Zenon, <1>2, <2>1
<1>4. CASE Tracks(j)
  <2>1. /\ jpc[j] = "track" /\ actx'[j] = "pending" /\ jpc'[j] # "track"
        /\ inFlight' = inFlight + Tracked(j)
    BY Zenon, <1>0, <1>4 DEF Tracks, Job
  <2> QED
    BY Zenon, <2>1 DEF OneFlight, Flying
<1>5. CASE Queues(j) \/ GivesUp(j)
  <2>1. /\ inFlight' = inFlight /\ actx'[j] = actx[j] /\ jpc[j] # "track" /\ jpc'[j] # "track"
    BY Zenon, <1>5 DEF Queues, GivesUp, Leaves, SameContext, SameCounts
  <2> QED
    BY Zenon, <1>2, <2>1
<1>6. CASE Expires(j) \/ Writes(j) \/ Reads(j) \/ Drops(j) \/ Finds(j) \/ Frees(j) \/ Finishes(j)
  <2>1. /\ inFlight' = inFlight /\ actx'[j] = actx[j] /\ jpc'[j] = jpc[j]
    BY Zenon, <1>6 DEF Expires, Writes, Reads, Drops, Finds, Frees, Finishes, Leaves, SameSender,
       SameContext, SameCounts
  <2> QED
    BY Zenon, <1>2, <2>1
<1>7. CASE Overflows(j) \/ Fires(j) \/ Responds(j)
  <2>1. /\ actx[j] = "pending" /\ jpc[j] # "track" /\ actx'[j] # "pending"
        /\ inFlight' = inFlight - Tracked(j)
    BY Zenon, <1>0, <1>7 DEF Overflows, Fires, Responds, InProgress, Job
  <2> QED
    BY Zenon, <2>1 DEF OneFlight, Flying
<1> QED
  BY Zenon, <1>3, <1>4, <1>5, <1>6, <1>7 DEF JobStep

LEMMA CancelFlight ==
    ASSUME NEW j \in Jobs, CancelStep(j)
    PROVE  OneFlight(j)
<1>1. ~InProgress(j)
  BY Zenon DEF CancelStep
<1>2. /\ actx[j] = "pending" /\ jpc[j] # "track" /\ actx'[j] # "pending"
      /\ inFlight' = inFlight - Tracked(j)
  BY Zenon, <1>1 DEF CancelStep, InProgress
<1> QED
  BY Zenon, <1>2 DEF OneFlight, Flying

LEMMA PrepareFlight ==
    ASSUME JobInv, NEW j \in Jobs, PrepareStep(j)
    PROVE  inFlight' = inFlight /\ \A k \in Jobs : Flying(k)' <=> Flying(k)
<1> DEFINE p == <<j[1], "prepare">>
<1>1. p \in Jobs /\ jpc[p] = "idle"
  BY Zenon, PreparesOnce DEF Prepared
<1>2. /\ kind' = kind /\ inFlight' = inFlight /\ SameSender(j) /\ SameContext(j)
      /\ SameContext(p) /\ \A k \in Jobs : k \notin {j, p} => Same(k)
  BY Zenon DEF PrepareStep, SameCounts
<1>3. actx[p] = "none"
  BY Zenon, <1>1 DEF JobInv, Job
<1> HIDE DEF p
<1>4. ~Flying(p) /\ ~Flying(p)'
  BY Zenon, <1>2, <1>3 DEF Flying, SameContext
<1>5. Flying(j)' <=> Flying(j)
  BY Zenon, <1>2 DEF Flying, Tracked, SameSender, SameContext
<1> QED
  BY Zenon, <1>2, <1>4, <1>5, SameFlight

LEMMA OneFlightCount ==
    ASSUME Counting, inFlight = Cardinality(Flight), NEW j \in Jobs, Others(j), kind' = kind,
           OneFlight(j)
    PROVE  inFlight' = Cardinality(Flight')
<1>1. Flight \in SUBSET Jobs /\ Cardinality(Flight) \in Nat
  BY Zenon DEF Flight, Counting
<1>2. \A k \in Jobs : k # j => (Flying(k)' <=> Flying(k))
  BY Zenon, SameFlight DEF Others
<1>3. Tracked(j) \in {0, 1} /\ Tracked(j)' = Tracked(j)
  BY Zenon DEF Tracked
<1>4. CASE (Flying(j)' <=> Flying(j)) /\ inFlight' = inFlight
  <2>1. Flight' = Flight
    BY Zenon, <1>2, <1>4 DEF Flight
  <2> QED
    BY Zenon, <1>4, <2>1
<1>5. CASE /\ actx[j] = "pending" /\ jpc[j] # "track" /\ ~Flying(j)'
           /\ inFlight' = inFlight - Tracked(j)
  <2>1. CASE Tracked(j) = 1
    <3>1. j \in Flight /\ Flight' = Flight \ {j}
      BY Zenon, <1>2, <1>5, <2>1 DEF Flight, Flying
    <3>2. Cardinality(Flight') = Cardinality(Flight) - 1
      BY Zenon, <1>1, <3>1 DEF Counting
    <3> QED
      BY Zenon, <1>5, <2>1, <3>2
  <2>2. CASE Tracked(j) = 0
    <3>1. ~Flying(j)
      BY <2>2 DEF Flying
    <3>2. Flight' = Flight
      BY Zenon, <1>2, <1>5, <3>1 DEF Flight
    <3> QED
      BY <1>1, <1>5, <2>2, <3>2
  <2> QED
    BY Zenon, <1>3, <2>1, <2>2
<1>6. CASE /\ ~Flying(j) /\ actx'[j] = "pending" /\ jpc'[j] # "track"
           /\ inFlight' = inFlight + Tracked(j)
  <2>1. CASE Tracked(j) = 1
    <3>1. Flying(j)'
      BY Zenon, <1>3, <1>6, <2>1 DEF Flying
    <3>2. j \notin Flight /\ Flight' = Flight \cup {j}
      BY Zenon, <1>2, <1>6, <3>1 DEF Flight
    <3>3. Cardinality(Flight') = Cardinality(Flight) + 1
      BY Zenon, <1>1, <3>2 DEF Counting
    <3> QED
      BY Zenon, <1>6, <2>1, <3>3
  <2>2. CASE Tracked(j) = 0
    <3>1. ~Flying(j)'
      BY <1>3, <2>2 DEF Flying
    <3>2. Flight' = Flight
      BY Zenon, <1>2, <1>6, <3>1 DEF Flight
    <3> QED
      BY <1>1, <1>6, <2>2, <3>2
  <2> QED
    BY Zenon, <1>3, <2>1, <2>2
<1> QED
  BY Zenon, <1>4, <1>5, <1>6 DEF OneFlight

LEMMA FlightStep ==
    ASSUME Counting, Types, JobInv, LoopInv, inFlight = Cardinality(Flight),
           LoopStep \/ \E j \in Jobs : JobStep(j) \/ PrepareStep(j) \/ CancelStep(j)
    PROVE  inFlight' = Cardinality(Flight')
<1>1. ASSUME inFlight' = inFlight, \A k \in Jobs : Flying(k)' <=> Flying(k)
      PROVE  inFlight' = Cardinality(Flight')
  <2>1. Flight' = Flight
    BY Zenon, <1>1 DEF Flight
  <2> QED
    BY Zenon, <1>1, <2>1
<1>2. CASE LoopStep
  BY Zenon, <1>1, <1>2, LoopSame, SameFlight
<1>3. ASSUME NEW j \in Jobs, JobStep(j)
      PROVE  inFlight' = Cardinality(Flight')
  BY Zenon, <1>3, JobFlight, OneFlightCount DEF JobStep
<1>4. ASSUME NEW j \in Jobs, CancelStep(j)
      PROVE  inFlight' = Cardinality(Flight')
  BY Zenon, <1>4, CancelFlight, OneFlightCount DEF CancelStep
<1>5. ASSUME NEW j \in Jobs, PrepareStep(j)
      PROVE  inFlight' = Cardinality(Flight')
  BY Zenon, <1>1, <1>5, PrepareFlight
<1> QED
  BY Zenon, <1>2, <1>3, <1>4, <1>5

-----------------------------------------------------------------------------
(* The invariant. *)

LEMMA TypeGroups ==
    TypeOK <=> Types /\ wg \in Nat /\ inFlight \in Int /\ panics \subseteq {"writeQueue"}
              /\ raced \in BOOLEAN
  BY Zenon DEF TypeOK, Types, JobTypes, RespTypes, ConnTypes, EndTypes, Outcomes

\* When the wait group is empty nobody is about to use the write queue.
LEMMA NoUnits ==
    ASSUME Counting, IInv, requestLoop = "done"
    PROVE  wg = 0 /\ Units = {} /\ \A j \in Jobs : ~HasUnit(j)
<1>1. wg = 0 /\ wg = Cardinality(Units)
  BY Zenon DEF IInv, CountInv
<1>2. Units = {}
  BY Zenon, <1>1 DEF Counting, Units
<1> QED
  BY Zenon, <1>1, <1>2 DEF Units

LEMMA QueueIsOpen ==
    ASSUME Counting, IInv, NEW j \in Jobs
    PROVE  Open(j)
<1>1. SUFFICES ASSUME jpc[j] = "enqueue"
               PROVE  requestLoop # "done" /\ actx[j] = "pending"
  BY Zenon DEF Open
<1>2. actx[j] = "pending" /\ jpc[j] # "idle"
  BY Zenon, <1>1 DEF IInv, JobInv, Job
<1>3. ASSUME requestLoop = "done"
      PROVE  FALSE
  <2>1. ~HasUnit(j)
    BY Zenon, <1>3, NoUnits
  <2>2. ExpectedResponse(j)
    BY Zenon, <1>2, <2>1 DEF HasUnit, Holds
  <2>3. j[2] = "request" /\ j = <<j[1], j[2]>> /\ j[1] \in Requests
    BY Zenon, <1>2, <2>2, Awaited, JobParts DEF IInv
  <2>4. requestLoop # "running"
    BY Zenon, <1>3
  <2>5. ~InProgress(<<j[1], "request">>)
    BY Zenon, <2>3, <2>4 DEF IInv, LoopInv
  <2> QED
    BY Zenon, <1>1, <2>3, <2>5 DEF InProgress
<1> QED
  BY Zenon, <1>2, <1>3

LEMMA RacedStays ==
    ASSUME raced \in BOOLEAN, [Next]_vars
    PROVE  raced' \in BOOLEAN /\ (raced => raced')
<1>1. CASE UNCHANGED vars
  BY Zenon, <1>1 DEF vars, endVars
<1>2. ASSUME NEW j \in Jobs,
             \/ AssignUniqueId(j) \/ Store(j) \/ Track(j) \/ EnqueueAsync(j) \/ SendFailed(j)
             \/ TimerFires(j) \/ OnTimeout(j) \/ WriteFrame(j)
             \/ FindContext(j) \/ SetResponse(j) \/ FreePending(j) \/ Done(j)
      PROVE  raced' \in BOOLEAN /\ (raced => raced')
  BY Zenon, <1>2
     DEF AssignUniqueId, Store, Track, EnqueueAsync, SendFailed, TimerFires, OnTimeout,
         WriteFrame, FindContext, SetResponse, FreePending, Done, Overtakes, endVars
<1>3. ASSUME NEW r \in Requests, SendToAsyncConnector(r) \/ ClearRequestContexts(r)
      PROVE  raced' \in BOOLEAN /\ (raced => raced')
  BY Zenon, <1>3 DEF SendToAsyncConnector, ClearRequestContexts, endVars
<1>4. ASSUME NEW j \in Jobs, NEW a \in Answers, ReadResponse(j, a)
      PROVE  raced' \in BOOLEAN /\ (raced => raced')
  BY Zenon, <1>4 DEF ReadResponse, endVars
<1>5. CASE \/ (\E i \in Ids : ClearGet(i)) \/ ClearCancel \/ ClearHolder
           \/ EndResponseLoop \/ EndRequestLoop \/ CancelHandler \/ SetReady
           \/ CloseConnection \/ DrainRequests
  BY Zenon, <1>5
     DEF ClearGet, ClearCancel, ClearHolder, EndResponseLoop, EndRequestLoop, CancelHandler,
         SetReady, CloseConnection, DrainRequests, Overtakes, endVars
<1> QED
  BY Zenon, <1>1, <1>2, <1>3, <1>4, <1>5 DEF Next, ProxyStep, Terminated

LEMMA IInvStep ==
    ASSUME Counting, IInv, ~raced', [Next]_vars
    PROVE  IInv'
<1>1. Types /\ JobInv /\ HolderInv /\ LoopInv /\ CountInv
  BY Zenon, TypeGroups DEF IInv
<1>2. LoopStep \/ \E j \in Jobs : JobStep(j) \/ PrepareStep(j) \/ CancelStep(j)
  BY Zenon, <1>1, QueueIsOpen, StepCases
<1>3. Types' /\ JobInv'
  BY Zenon, <1>1, <1>2, TypesStep, JobInvStep
<1>4. HolderInv' /\ LoopInv'
  BY Zenon, <1>1, <1>2, <1>3, HolderStep, LoopInvStep
<1>5. /\ wg = Cardinality(Units) /\ inFlight = Cardinality(Flight) /\ panics = {}
      /\ requestLoop = "done" => wg = 0
  BY Zenon, <1>1 DEF CountInv
<1>6. /\ wg' = Cardinality(Units') /\ inFlight' = Cardinality(Flight')
      /\ wg' <= wg \/ requestLoop = "running"
  BY Zenon, <1>1, <1>2, <1>5, UnitStep, FlightStep
<1>7. wg \in Nat /\ wg' \in Nat /\ inFlight' \in Nat
  <2>1. Units \in SUBSET Jobs /\ Units' \in SUBSET Jobs /\ Flight' \in SUBSET Jobs
    BY Zenon DEF Units, Flight
  <2> QED
    BY Zenon, <1>5, <1>6, <2>1 DEF Counting
<1>8. panics' = {}
  BY Zenon, <1>1, <1>2, <1>5, LoopSame DEF JobStep, PrepareStep, CancelStep
<1>9. requestLoop' = "done" => wg' = 0
  <2>1. CASE EndRequestLoop
    BY Zenon, <2>1 DEF EndRequestLoop, countVars
  <2>2. CASE requestLoop' = requestLoop
    BY <1>5, <1>6, <1>7, <2>2
  <2>3. CASE DrainRequests
    BY Zenon, <2>3 DEF DrainRequests
  <2>4. EndRequestLoop \/ DrainRequests \/ requestLoop' = requestLoop
    BY Zenon, <1>2 DEF LoopStep, SetReady, CloseConnection, EndResponseLoop, CancelHandler,
       ClearRequestContexts, ClearGet, ClearSkip, ClearHolder, vars, endVars, JobStep, PrepareStep,
       CancelStep
  <2> QED
    BY Zenon, <2>1, <2>2, <2>3, <2>4
<1>10. TypeOK'
  <2>1. inFlight' \in Int /\ panics' \subseteq {"writeQueue"}
    BY <1>7, <1>8
  <2>2. raced' \in BOOLEAN
    BY Zenon, RacedStays DEF IInv, TypeOK
  <2> QED
    BY Zenon, <1>3, <1>7, <2>1, <2>2
       DEF TypeOK, Types, JobTypes, RespTypes, ConnTypes, EndTypes, Outcomes
<1> QED
  BY Zenon, <1>3, <1>4, <1>6, <1>8, <1>9, <1>10 DEF IInv, CountInv

LEMMA InitInv ==
    ASSUME Counting, Init
    PROVE  IInv
<1>1. Types
  <2>1. JobTypes
    BY Zenon DEF Init, JobTypes, Outcomes
  <2>2. RespTypes
    BY Zenon DEF Init, RespTypes
  <2>3. ConnTypes
    <3>1. [i \in 1 .. NumIds |-> i - 1] \in Seq(Ids)
      BY ConstantsAssumption DEF Ids
    <3> QED
      BY Zenon, <3>1 DEF Init, ConnTypes
  <2>4. EndTypes
    BY Zenon DEF Init, EndTypes
  <2> QED
    BY Zenon, <2>1, <2>2, <2>3, <2>4 DEF Types
<1>2. \A j \in Jobs : /\ jpc[j] = "idle" /\ id[j] = None /\ actx[j] = "none" /\ timer[j] = "off"
                      /\ rpc[j] = "none" /\ rctx[j] = None /\ j \notin queue \cup wire
  BY Zenon DEF Init
<1>3. \A r \in Requests : main[r] = "none" /\ <<r, "request">> \in Jobs /\ <<r, "prepare">> \in Jobs
  BY Zenon, JobParts DEF Init
<1>4. JobInv
  <2>1. \A j \in Jobs : Job(j)
    BY Zenon, <1>2 DEF Job, Marked
  <2>2. \A r \in Requests : Link(r)
    BY Zenon, <1>2, <1>3 DEF Link
  <2> QED
    BY Zenon, <2>1, <2>2 DEF JobInv
<1>5. HolderInv
  BY Zenon DEF Init, HolderInv
<1>6. LoopInv
  BY Zenon DEF Init, LoopInv
<1>7. CountInv
  <2>1. \A j \in Jobs : ~HasUnit(j)
    <3>1. \A j \in Jobs : ~Holds(j)
      BY Zenon, <1>2 DEF Holds, Marked
    <3>2. \A j \in Jobs : j[1] \in Requests
      BY Zenon, JobParts
    <3>3. \A j \in Jobs : main[j[1]] # "pending"
      BY Zenon, <1>3, <3>2
    <3> QED
      BY Zenon, <3>1, <3>3 DEF HasUnit
  <2>2. \A j \in Jobs : ~Flying(j)
    BY Zenon, <1>2 DEF Flying
  <2>3. Units = {} /\ Flight = {}
    BY Zenon, <2>1, <2>2 DEF Units, Flight
  <2> QED
    BY Zenon, <2>3 DEF Init, CountInv, Counting
<1>8. TypeOK
  <2>1. wg \in Nat /\ inFlight \in Int /\ panics \subseteq {"writeQueue"}
    BY DEF Init
  <2>2. raced \in BOOLEAN
    BY Zenon DEF Init
  <2> QED
    BY Zenon, <1>1, <2>1, <2>2, TypeGroups
<1> QED
  BY Zenon, <1>4, <1>5, <1>6, <1>7, <1>8 DEF IInv

LEMMA InvSound ==
    ASSUME Counting, IInv
    PROVE  WaitGroupSound
<1>1. TypeOK /\ panics = {}
  BY Zenon DEF IInv, CountInv
<1>2. ASSUME requestLoop = "done"
      PROVE  /\ wg = 0 /\ inFlight = 0 /\ \A r \in Requests : main[r] # "pending"
             /\ \A j \in Jobs : ~ExpectedResponse(j) => ~WillLeave(j)
  <2>1. wg = 0 /\ \A j \in Jobs : ~HasUnit(j)
    BY Zenon, <1>2, NoUnits
  <2>2. \A j \in Jobs : ~ExpectedResponse(j) => ~Holds(j)
    BY Zenon, <2>1 DEF HasUnit
  <2>3. inFlight = 0
    <3>1. \A j \in Jobs : Tracked(j) = 1 => ~ExpectedResponse(j)
      BY DEF Tracked, ExpectedResponse
    <3>2. Flight = {}
      BY Zenon, <2>2, <3>1 DEF Flight, Flying, Holds
    <3> QED
      BY Zenon, <3>2 DEF IInv, CountInv, Counting
  <2>4. ASSUME NEW r \in Requests, main[r] = "pending"
        PROVE  FALSE
    <3> DEFINE j == <<r, "request">>
    <3>1. j \in Jobs /\ j[1] = r /\ j[2] = "request"
      BY Zenon, JobParts
    <3>2. Link(r)
      BY Zenon DEF IInv, JobInv
    <3>3. ExpectedResponse(j)
      BY Zenon, <2>4, <3>1, <3>2 DEF Link, ExpectedResponse
    <3> HIDE DEF j
    <3> QED
      BY Zenon, <2>1, <2>4, <3>1, <3>3 DEF HasUnit
  <2>5. ASSUME NEW j \in Jobs, ~ExpectedResponse(j)
        PROVE  ~WillLeave(j)
    <3>1. ~Holds(j)
      BY Zenon, <2>2, <2>5
    <3>2. ASSUME NEW k \in Jobs, rctx[k] = j
          PROVE  k = j
      <4>1. rctx[k] \in {None, k} /\ None \notin Jobs
        BY Zenon, JobParts DEF IInv, JobInv, Job
      <4> QED
        BY Zenon, <3>2, <4>1
    <3> QED
      BY Zenon, <3>1, <3>2 DEF Holds, WillLeave, Marked
  <2> QED
    BY Zenon, <2>1, <2>3, <2>4, <2>5
<1> QED
  BY Zenon, <1>1, <1>2 DEF WaitGroupSound

INSTANCE FiniteSetTheorems

LEMMA CountingHolds == Counting
<1>1. IsFiniteSet(Jobs)
  <2>1. IsFiniteSet({"request", "prepare"})
    <3>1. IsFiniteSet({"request"}) /\ {"request", "prepare"} = {"request"} \cup {"prepare"}
      BY Zenon, FS_Singleton
    <3> QED
      BY Zenon, <3>1, FS_AddElement
  <2> QED
    BY Zenon, <2>1, ConstantsAssumption, FS_Product DEF Jobs
<1>2. \A T \in SUBSET Jobs : IsFiniteSet(T)
  BY Zenon, <1>1, FS_Subset
<1> QED
  BY Zenon, <1>2, FS_EmptySet, FS_CardinalityType, FS_AddElement, FS_RemoveElement DEF Counting

\* Every request that enters the wait group of the client handler leaves it
\* exactly once, whether it is answered, times out, is canceled or cannot be
\* sent, so the request loop never ends with work left and the write queue is
\* never used after it was closed, in every interleaving up to the first step
\* in which two parties meet over one request; for every number of requests,
\* stream ids and queue slots.
THEOREM WaitGroupIsSound == Spec => []WaitGroupSound
<1> DEFINE Inv == raced \in BOOLEAN /\ (~raced => IInv)
<1>1. Init => Inv
  BY Zenon, InitInv, CountingHolds DEF IInv, TypeOK
<1>2. Inv /\ [Next]_vars => Inv'
  <2>1. SUFFICES ASSUME Inv, [Next]_vars, ~raced'
                 PROVE  IInv'
    BY Zenon, RacedStays
  <2>2. IInv
    BY Zenon, <2>1, RacedStays
  <2> QED
    BY Zenon, <2>1, <2>2, IInvStep, CountingHolds
<1>3. Inv => WaitGroupSound
  <2>1. SUFFICES ASSUME Inv, ~raced
                 PROVE  WaitGroupSound
    BY Zenon DEF WaitGroupSound
  <2>2. IInv
    BY Zenon, <2>1
  <2> QED
    BY Zenon, <2>2, InvSound, CountingHolds
<1> HIDE DEF Inv
<1> QED
  BY <1>1, <1>2, <1>3, PTL DEF Spec
=============================================================================
