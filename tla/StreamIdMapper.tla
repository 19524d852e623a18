--------------------------- MODULE StreamIdMapper ---------------------------
(***************************************************************************)
(* The stream id mapper of a cluster connection                            *)
(* (proxy/pkg/zdmproxy/streamidmapper.go, reached through                  *)
(* frameprocessor.go).                                                     *)
(*                                                                         *)
(* A connection owns maxStreamIds synthetic ids, kept in the buffered      *)
(* channel clusterIds.  GetNewIdFor takes one and remembers the client's   *)
(* stream id under it; ReleaseId gives it back.  Only the accesses to      *)
(* idMapper are under the mutex: the receive from and the send to the      *)
(* channel, and the updates of the gauge, are outside of it, so each call  *)
(* is several steps that interleave with the steps of other goroutines.    *)
(***************************************************************************)
EXTENDS Integers, Sequences, FiniteSets

CONSTANTS
    Procs,              \* goroutines that call the mapper
    ClientStreamIds,    \* stream ids callers pass to GetNewIdFor
    ProtocolVersion,    \* negotiated version of the connection
    ProxyMaxStreamIds,  \* configured limit (conf.ProxyMaxStreamIds)
    None                \* "no id"

ASSUME ConstantsAssumption ==
    /\ IsFiniteSet(Procs)
    /\ ClientStreamIds \subseteq Int
    /\ ProtocolVersion \in Nat
    /\ ProxyMaxStreamIds \in Nat
    /\ None \notin Int

maxStreamIds ==
    LET maxSupported == IF ProtocolVersion = 2 THEN 127 ELSE 2048
    IN  IF maxSupported < ProxyMaxStreamIds THEN maxSupported ELSE ProxyMaxStreamIds

validateStreamId(streamId) ==
    /\ ProtocolVersion < 3 => streamId \in (-128)..127
    /\ streamId >= 0

Ids == 0 .. (maxStreamIds - 1)

VARIABLES
    clusterIds,  \* the channel of free ids, a queue
    idMapper,    \* synthetic id -> client stream id, or None when not in the map
    metrics,     \* this mapper's contribution to the used-stream-ids gauge
    pc,          \* where each goroutine is inside GetNewIdFor or ReleaseId
    id,          \* the synthetic id each goroutine is working on
    streamId,    \* the client stream id each goroutine is working on
    dropped,     \* ids that an error branch has lost for good
    closed,      \* Close has run
    wire,        \* requests at the cluster: <<synthetic id, client stream id>>
    asked,       \* the client stream id of the request that a response answers
    misled       \* a response nobody waits for took the id of a request

traffic == <<wire, asked, misled>>
vars == <<clusterIds, idMapper, metrics, pc, id, streamId, dropped, closed, traffic>>

MappedIds == {i \in Ids : idMapper[i] # None}

NewStreamIdMapper ==
    /\ clusterIds = [i \in 1..maxStreamIds |-> i - 1]
    /\ idMapper = [i \in Ids |-> None]
    /\ metrics = 0

Init ==
    /\ NewStreamIdMapper
    /\ pc = [p \in Procs |-> "idle"]
    /\ id = [p \in Procs |-> None]
    /\ streamId = [p \in Procs |-> None]
    /\ dropped = {}
    /\ closed = FALSE
    /\ wire = {} /\ asked = [p \in Procs |-> None] /\ misled = FALSE

Return(p) ==
    /\ pc' = [pc EXCEPT ![p] = "idle"]
    /\ id' = [id EXCEPT ![p] = None]
    /\ streamId' = [streamId EXCEPT ![p] = None]

\* GetNewIdFor: the non-blocking receive from clusterIds, or the error of an
\* invalid stream id or an empty channel.
GetNewIdFor(p, s) ==
    /\ pc[p] = "idle" /\ ~closed
    /\ IF validateStreamId(s) /\ clusterIds # <<>>
       THEN /\ id' = [id EXCEPT ![p] = Head(clusterIds)]
            /\ streamId' = [streamId EXCEPT ![p] = s]
            /\ clusterIds' = Tail(clusterIds)
            /\ pc' = [pc EXCEPT ![p] = "received"]
       ELSE Return(p) /\ UNCHANGED clusterIds
    /\ asked' = [asked EXCEPT ![p] = None]
    /\ UNCHANGED <<idMapper, metrics, dropped, closed, wire, misled>>

\* GetNewIdFor: metrics.Add(1).
CountUsed(p) ==
    /\ pc[p] = "received"
    /\ metrics' = metrics + 1
    /\ pc' = [pc EXCEPT ![p] = "counted"]
    /\ UNCHANGED <<clusterIds, idMapper, id, streamId, dropped, closed, traffic>>

\* GetNewIdFor: the critical section, and the return of the id.
Insert(p) ==
    /\ pc[p] = "counted"
    /\ IF id[p] \in MappedIds
       THEN Return(p) /\ dropped' = dropped \cup {id[p]} /\ UNCHANGED idMapper
       ELSE /\ idMapper' = [idMapper EXCEPT ![id[p]] = streamId[p]]
            /\ pc' = [pc EXCEPT ![p] = "assigned"]
            /\ UNCHANGED <<id, streamId, dropped>>
    /\ UNCHANGED <<clusterIds, metrics, closed, traffic>>

\* The caller (AssignUniqueId in frameprocessor.go, then the connection) sends
\* the request under the id that GetNewIdFor returned, or fails to.
Send(p) ==
    /\ pc[p] = "assigned"
    /\ \/ wire' = wire \cup {<<id[p], streamId[p]>>}
       \/ UNCHANGED wire
    /\ Return(p)
    /\ UNCHANGED <<clusterIds, idMapper, metrics, dropped, closed, asked, misled>>

\* Mutant: the id is given back without looking it up in the map.
ReleaseIdUnchecked(p, i) ==
    /\ pc[p] = "idle" /\ ~closed
    /\ i \in Ids
    /\ id' = [id EXCEPT ![p] = i]
    /\ streamId' = [streamId EXCEPT ![p] = idMapper[i]]
    /\ idMapper' = [idMapper EXCEPT ![i] = None]
    /\ pc' = [pc EXCEPT ![p] = "deleted"]
    /\ UNCHANGED <<clusterIds, metrics, dropped, closed>>

\* Mutant: the synthetic id is given to the response.
ReleaseIdSynthetic(p, i) ==
    /\ pc[p] = "idle" /\ ~closed
    /\ i \in Ids /\ i \in MappedIds
    /\ id' = [id EXCEPT ![p] = i]
    /\ streamId' = [streamId EXCEPT ![p] = i]
    /\ idMapper' = [idMapper EXCEPT ![i] = None]
    /\ pc' = [pc EXCEPT ![p] = "deleted"]
    /\ UNCHANGED <<clusterIds, metrics, dropped, closed>>

\* ReleaseId: the range check and the critical section, for a response that
\* carries the synthetic id i; an error when i is not in the map.
ReleaseId(p, i) ==
    /\ pc[p] = "idle" /\ ~closed
    /\ IF i \in Ids /\ i \in MappedIds
       THEN /\ id' = [id EXCEPT ![p] = i]
            /\ streamId' = [streamId EXCEPT ![p] = idMapper[i]]
            /\ idMapper' = [idMapper EXCEPT ![i] = None]
            /\ pc' = [pc EXCEPT ![p] = "deleted"]
       ELSE Return(p) /\ UNCHANGED idMapper
    /\ UNCHANGED <<clusterIds, metrics, dropped, closed>>

\* A goroutine reads the response of the request w.
Response(p, w) ==
    /\ ReleaseId(p, w[1])
    /\ wire' = wire \ {w} /\ asked' = [asked EXCEPT ![p] = w[2]]
    /\ UNCHANGED misled

\* The ids of a response that answers no request at the cluster, a duplicate
\* or one with an id that was never assigned.
ResponseIds == (-1) .. maxStreamIds

StrayResponse(p, i) ==
    /\ ReleaseId(p, i)
    /\ misled' = (misled \/ i \in MappedIds) /\ asked' = [asked EXCEPT ![p] = None]
    /\ UNCHANGED wire

\* ReleaseId: the non-blocking send to clusterIds.
SendBack(p) ==
    /\ pc[p] = "deleted"
    /\ IF Len(clusterIds) < maxStreamIds
       THEN /\ clusterIds' = Append(clusterIds, id[p])
            /\ pc' = [pc EXCEPT ![p] = "sent"]
            /\ UNCHANGED <<id, streamId, dropped>>
       ELSE Return(p) /\ dropped' = dropped \cup {id[p]} /\ UNCHANGED clusterIds
    /\ UNCHANGED <<idMapper, metrics, closed, traffic>>

\* ReleaseId: metrics.Subtract(1), and the return of streamId[p], under which
\* the response is passed on.
CountFree(p) ==
    /\ pc[p] = "sent"
    /\ metrics' = metrics - 1
    /\ Return(p) /\ asked' = [asked EXCEPT ![p] = None]
    /\ UNCHANGED <<clusterIds, idMapper, dropped, closed, wire, misled>>

\* Close runs once, after every goroutine of the client handler has ended
\* (clienthandler.go, the goroutine that waits for localClientHandlerWg).
Close ==
    /\ ~closed /\ \A p \in Procs : pc[p] = "idle"
    /\ metrics' = metrics - (maxStreamIds - Len(clusterIds))
    /\ closed' = TRUE
    /\ UNCHANGED <<clusterIds, idMapper, pc, id, streamId, dropped, traffic>>

Next ==
    \/ \E p \in Procs :
          \/ \E s \in ClientStreamIds : GetNewIdFor(p, s)
          \/ CountUsed(p) \/ Insert(p) \/ Send(p)
          \/ \E w \in wire : Response(p, w)
          \/ \E i \in ResponseIds : StrayResponse(p, i)
          \/ SendBack(p) \/ CountFree(p)
    \/ Close

Spec == Init /\ [][Next]_vars

-----------------------------------------------------------------------------
\* The range of every variable of the mapper and of its callers.
TypeOK ==
    /\ clusterIds \in Seq(Ids)
    /\ idMapper \in [Ids -> ClientStreamIds \cup {None}]
    /\ metrics \in Int
    /\ pc \in [Procs -> {"idle", "received", "counted", "assigned", "deleted", "sent"}]
    /\ id \in [Procs -> Ids \cup {None}]
    /\ streamId \in [Procs -> ClientStreamIds \cup {None}]
    /\ dropped \subseteq Ids /\ closed \in BOOLEAN
    /\ wire \subseteq Ids \X ClientStreamIds
    /\ asked \in [Procs -> ClientStreamIds \cup {None}] /\ misled \in BOOLEAN

FreeIds == {clusterIds[k] : k \in DOMAIN clusterIds}
InTransit(p) == pc[p] \in {"received", "counted", "deleted"}

\* Every synthetic id is in exactly one place: in the channel (once), in the
\* hands of one goroutine that is between the channel and the map, or in the
\* map.  No interleaving of GetNewIdFor and ReleaseId, whatever ids the
\* responses carry, loses or duplicates an id.
IdsConserved ==
    /\ \A j, k \in DOMAIN clusterIds : clusterIds[j] = clusterIds[k] => j = k
    /\ \A p, q \in Procs : InTransit(p) /\ InTransit(q) /\ id[p] = id[q] => p = q
    /\ FreeIds \cap MappedIds = {}
    /\ \A p \in Procs :
          InTransit(p) => id[p] \in Ids \ (FreeIds \cup MappedIds)
    /\ \A i \in Ids \ (FreeIds \cup MappedIds) :
          \E p \in Procs : InTransit(p) /\ id[p] = i

\* The two branches that drop an id for good (the collision in GetNewIdFor
\* and the full channel in ReleaseId) are never taken.
NoIdDropped == dropped = {}

\* The response of a request is passed on under the stream id that the client
\* gave to this very request, however GetNewIdFor and ReleaseId of other
\* goroutines interleave and although the synthetic ids are used again and
\* again: ReleaseId does not refuse it, and it returns the request's stream id.
\* Responses that answer no request change nothing, unless one carries the id
\* of a request that is waiting (misled): that one takes its place.
OwnStreamId ==
    ~misled => \A p \in Procs :
        asked[p] # None => pc[p] \in {"deleted", "sent"} /\ streamId[p] = asked[p]

\* Whenever no call is in progress the gauge counts the ids that are out of
\* the channel, and Close takes it back to zero although requests may still
\* be unanswered ("Close zeroes out the stream id metrics").
GaugeExact ==
    (\A p \in Procs : pc[p] = "idle") =>
        metrics = IF closed THEN 0 ELSE Cardinality(MappedIds)
=============================================================================
