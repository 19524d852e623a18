------------------------- MODULE PreparedStatements -------------------------
(***************************************************************************)
(* How a request of a client is routed to the two clusters and how their   *)
(* answers become the client's answer: the forward decision, the prepared  *)
(* statement cache shared by all client handlers, the replacement of       *)
(* prepared ids and of now(), the aggregation of the two answers.          *)
(*                                                                         *)
(* A client handler serves here one request at a time (what concurrent     *)
(* requests of one client do is the subject of ClientHandler); the cache   *)
(* and the nodes of the clusters are shared by all clients.                *)
(***************************************************************************)
EXTENDS Naturals

CONSTANTS
    None,
    Clients,
    Statements,          \* [type, keyspace, table, now]: the CQL statements
    Keyspaces,           \* the keyspaces of a connection, None before USE
    PrimaryCluster,      \* ZDM_PRIMARY_CLUSTER
    DualReads,           \* ZDM_READ_MODE is DUAL_ASYNC_ON_SECONDARY
    SystemQueriesToTarget,
    VirtualizationEnabled,
    ReplaceCqlFunctions,
    HashKeyspace,        \* the clusters whose ids always depend on the
                         \* connection's keyspace
    Failing,             \* the kinds of requests a cluster may answer with an error
    MaxRequests,         \* bound on the requests of a behaviour
    MaxRestarts          \* bound on the restarts of nodes

Clusters == {"origin", "target"}

VARIABLES
    cache,               \* origin id -> what Store keeps of a PREPARE
    index,               \* target id -> origin id
    interceptedCache,    \* id computed by the proxy -> what it keeps
    currentKeyspace,     \* client -> ClientHandler.currentKeyspaceName
    connKeyspace,        \* client -> cluster -> keyspace of the connection
    nodes,               \* cluster -> the prepared ids its node knows
    request,             \* client -> its last request
    info,                \* client -> the RequestInfo of that request
    sent,                \* client -> connector -> the request sent to it
    response,            \* client -> cluster -> the answer received
    effect,              \* client -> cluster -> the writes it applied
    answer,              \* client -> the answer it got, None while it waits
    fresh,               \* client -> the ids it prepared since a restart
    clock,               \* the next time uuid
    requests,
    restarts

psCache == <<cache, index, interceptedCache>>
perRequest == <<request, info, sent, response, effect, answer>>
vars == <<psCache, currentKeyspace, connKeyspace, nodes, perRequest, fresh,
          clock, requests, restarts>>

Secondary == IF PrimaryCluster = "target" THEN "origin" ELSE "target"
Connectors == Clusters \cup {"async"}

-----------------------------------------------------------------------------
(* What the clusters are assumed to do.                                    *)

ApplicableKeyspace(s, k) == IF s.keyspace = None THEN k ELSE s.keyspace

\* Clients send USE as a QUERY and prepare reads and writes.
Preparable == {s \in Statements : s.type # "use"}

\* The id a node gives to a statement prepared on a connection in keyspace k.
PreparedId(cl, s, k) ==
    [cluster |-> cl, stmt |-> s,
     keyspace |-> IF cl \in HashKeyspace THEN k ELSE ApplicableKeyspace(s, k)]

Ids(cl) == {PreparedId(cl, s, k) : s \in Preparable, k \in Keyspaces \cup {None}}

\* The table an id or a statement stands for.
Meaning(s, k) == [stmt |-> s, keyspace |-> ApplicableKeyspace(s, k)]

-----------------------------------------------------------------------------
(* The forward decision.                                                   *)

isSystemKeyspace(k) == k = "system"

isSystemQuery(k) == isSystemKeyspace(k) \/ k = "system_schema"

isIntercepted(s, k) ==
    /\ VirtualizationEnabled
    /\ isSystemKeyspace(ApplicableKeyspace(s, k))
    /\ s.table \in {"local", "peers", "peers_v2"}

getRequestInfoFromQueryInfo(s, k) ==
    IF s.type # "select"
    THEN [decision |-> "both", async |-> s.type = "use"]
    ELSE IF isIntercepted(s, k)
    THEN [decision |-> "none", async |-> FALSE]
    ELSE IF isSystemQuery(ApplicableKeyspace(s, k))
    THEN [decision |-> IF SystemQueriesToTarget THEN "target" ELSE "origin",
          async |-> FALSE]
    ELSE [decision |-> PrimaryCluster, async |-> TRUE]

\* PREPARE goes to both clusters whatever its EXECUTEs will do.
PrepareRequestInfo(base) ==
    [decision |-> IF base.decision = "none" THEN "none" ELSE "both",
     async |-> base.async, base |-> base]

-----------------------------------------------------------------------------
(* The prepared statement cache.                                           *)

\* An entry of a map is written.
Put(f, key, value) ==
    [k \in DOMAIN f \cup {key} |-> IF k = key THEN value ELSE f[k]]

Store(originId, targetId, base, replaced) ==
    /\ cache' = Put(cache, originId, [target |-> targetId, base |-> base,
                                      replaced |-> replaced])
    /\ index' = Put(index, targetId, originId)
    /\ UNCHANGED interceptedCache

StoreIntercepted(id, base) ==
    /\ interceptedCache' =
           Put(interceptedCache, id, [target |-> id, base |-> base, replaced |-> FALSE])
    /\ UNCHANGED <<cache, index>>

\* Mutation: the lookup misses the statements the proxy answers itself.
CachedWithoutIntercepted(id) == id \in DOMAIN cache

Cached(id) == id \in DOMAIN cache \/ id \in DOMAIN interceptedCache

Get(id) == IF id \in DOMAIN cache THEN cache[id] ELSE interceptedCache[id]

\* None when the lookup fails: the answer that needed it is then dropped.
GetByTargetPreparedId(id) ==
    IF id \in DOMAIN index /\ index[id] \in DOMAIN cache
    THEN index[id] ELSE None

-----------------------------------------------------------------------------
(* Requests and what is sent for them.                                     *)

Writes == {s \in Statements : s.type = "write"}

InterceptedIds == Ids("proxy")

\* A client may hold ids prepared through another proxy or before a restart.
ClientRequests ==
    [op : {"query"}, stmt : Statements, ids : {{}}]
        \cup [op : {"prepare"}, stmt : Preparable, ids : {{}}]
        \cup [op : {"execute"}, stmt : {None},
              ids : {{i} : i \in Ids("origin") \cup InterceptedIds}]
        \cup [op : {"batch"}, stmt : Writes,
              ids : {{i} : i \in {j \in Ids("origin") : j.stmt \in Writes}}]
        \cup [op : {"options", "register"}, stmt : {None}, ids : {{}}]

\* What travels between the proxy and the clusters.
AnyIds == Ids("origin") \cup Ids("target") \cup InterceptedIds
TimeUuids == {"proxy"} \X (0..MaxRequests)
Messages ==
    [op : {"query", "prepare", "execute", "batch", "options", "register"},
     stmt : Statements \cup {None}, uuid : TimeUuids \cup {None}, ids : SUBSET AnyIds]
Responses ==
    [kind : {"prepared", "unprepared"}, arg : AnyIds]
        \cup [kind : {"keyspace"}, arg : Keyspaces \cup {None}]
        \cup [kind : {"ready", "result", "error", "supported", "dropped"}, arg : {None}]

ASSUME ConstantsAssumption ==
    /\ PrimaryCluster \in Clusters /\ MaxRequests \in Nat
    /\ \A s \in Statements : /\ s.type \in {"select", "write", "use"} /\ s.now \in BOOLEAN
                              /\ s.keyspace \in Keyspaces \cup {None}
    /\ None \notin Statements \cup AnyIds \cup TimeUuids
    /\ None \notin ClientRequests /\ None \notin Messages /\ None \notin Responses

buildRequestInfo(r, k) ==
    CASE r.op = "query" -> getRequestInfoFromQueryInfo(r.stmt, k)
      [] r.op = "prepare" ->
             PrepareRequestInfo(getRequestInfoFromQueryInfo(r.stmt, k))
      [] r.op = "execute" -> Get(CHOOSE i \in r.ids : TRUE).base
      [] r.op = "options" -> [decision |-> "both", async |-> TRUE]
      [] OTHER -> [decision |-> "both", async |-> FALSE]

\* Whether replaceQueryString takes the now() calls out of a statement: it
\* puts a value in a QUERY or BATCH, a bind marker in a PREPARE.
requiresQueryReplacement(s) == ReplaceCqlFunctions /\ s.now

\* Whether a value is generated for a request: replaced in its text, or a term
\* that was replaced when its statement was prepared.
NeedsTimeUuid(r) ==
    \/ r.op \in {"query", "batch"} /\ requiresQueryReplacement(r.stmt)
    \/ \E i \in r.ids : Get(i).replaced

TargetIds(ids) == {Get(i).target : i \in ids}

\* Mutation: the target gets the ids of the origin.
RequestWithOriginIds(cl, r, uuid) ==
    [op |-> r.op, stmt |-> r.stmt, uuid |-> uuid, ids |-> r.ids]

\* handleExecuteRequest, handleBatchRequest: one time uuid for all clusters,
\* the ids of the target in the request to the target.
RequestTo(cl, r, uuid) ==
    [op |-> r.op, stmt |-> r.stmt, uuid |-> uuid,
     ids |-> IF cl = "origin" THEN r.ids ELSE TargetIds(r.ids)]

ConnectorsOf(inf) ==
    (CASE inf.decision = "both" -> Clusters
       [] inf.decision = "none" -> {}
       [] OTHER -> {inf.decision})
        \cup (IF inf.async /\ DualReads THEN {"async"} ELSE {})

ClusterOf(conn) == IF conn = "async" THEN Secondary ELSE conn

\* The client sends its next request when the last one was answered.
CanSend(c) == answer[c] # None /\ requests < MaxRequests

Begin(c, r) ==
    /\ requests' = requests + 1
    /\ request' = [request EXCEPT ![c] = r]
    /\ effect' = [effect EXCEPT ![c] = [cl \in Clusters |-> {}]]
    /\ response' = [response EXCEPT ![c] = [cl \in Clusters |-> None]]

\* A prepared id the cache does not hold: the proxy itself answers UNPREPARED.
CacheMiss(c, r) ==
    /\ Begin(c, r)
    /\ \E i \in r.ids :
           /\ ~Cached(i)
           /\ answer' = [answer EXCEPT ![c] = [kind |-> "unprepared", arg |-> i]]
    /\ sent' = [sent EXCEPT ![c] = [conn \in Connectors |-> None]]
    /\ info' = [info EXCEPT ![c] = None]
    /\ UNCHANGED <<psCache, currentKeyspace, connKeyspace, nodes, fresh, clock, restarts>>

\* Queries on system.local and system.peers are answered by the proxy; a
\* PREPARE of one is stored under an id of the proxy's own.
handleInterceptedRequest(c, r, inf) ==
    /\ Begin(c, r)
    /\ \A i \in r.ids : Cached(i)
    /\ inf.decision = "none"
    /\ \/ /\ r.op = "prepare"
          /\ r.stmt.table # "peers_v2"
          /\ LET id == PreparedId("proxy", r.stmt, currentKeyspace[c])
             IN  /\ StoreIntercepted(id, inf.base)
                 /\ fresh' = [fresh EXCEPT ![c] = @ \cup {id}]
                 /\ answer' = [answer EXCEPT ![c] = [kind |-> "prepared", arg |-> id]]
       \/ /\ r.op # "prepare"
          /\ r.op = "query" => r.stmt.table # "peers_v2"
          /\ answer' = [answer EXCEPT ![c] = [kind |-> "result", arg |-> None]]
          /\ UNCHANGED <<psCache, fresh>>
       \/ /\ answer' = [answer EXCEPT ![c] = [kind |-> "error", arg |-> None]]
          /\ UNCHANGED <<psCache, fresh>>
    /\ info' = [info EXCEPT ![c] = inf]
    /\ sent' = [sent EXCEPT ![c] = [conn \in Connectors |-> None]]
    /\ UNCHANGED <<currentKeyspace, connKeyspace, nodes, clock, restarts>>

executeRequest(c, r, inf) ==
    /\ Begin(c, r)
    /\ \A i \in r.ids : Cached(i)
    /\ inf.decision # "none"
    /\ LET uuid == IF NeedsTimeUuid(r) THEN <<"proxy", clock>> ELSE None
       IN  sent' = [sent EXCEPT ![c] = [conn \in Connectors |->
                       IF conn \in ConnectorsOf(inf)
                       THEN RequestTo(ClusterOf(conn), r, uuid) ELSE None]]
    /\ clock' = IF NeedsTimeUuid(r) THEN clock + 1 ELSE clock
    /\ info' = [info EXCEPT ![c] = inf]
    /\ answer' = [answer EXCEPT ![c] = None]
    /\ UNCHANGED <<psCache, currentKeyspace, connKeyspace, nodes, fresh, restarts>>

\* forwardRequest
Forward(c, r) ==
    \/ CacheMiss(c, r)
    \/ handleInterceptedRequest(c, r, buildRequestInfo(r, currentKeyspace[c]))
    \/ executeRequest(c, r, buildRequestInfo(r, currentKeyspace[c]))

-----------------------------------------------------------------------------
(* The clusters.                                                           *)

\* The statements a request runs on a connection in keyspace k.
Work(m, k) ==
    {Meaning(i.stmt, i.keyspace) : i \in m.ids}
        \cup (IF m.stmt = None THEN {} ELSE {Meaning(m.stmt, k)})

\* The value of now(): the proxy's when it replaced the call.
NowValue(cl, s, uuid) ==
    IF ~s.now THEN None ELSE IF uuid = None THEN <<cl, 0>> ELSE uuid

\* A USE is told apart from other queries.
Kind(m) == IF m.op = "query" /\ m.stmt.type = "use" THEN "use" ELSE m.op

Reply(c, cl, kind, arg) ==
    response' = [response EXCEPT ![c][cl] = [kind |-> kind, arg |-> arg]]

Run(c, cl, m) ==
    IF Kind(m) = "use"
    THEN /\ Reply(c, cl, "keyspace", m.stmt.keyspace)
         /\ connKeyspace' = [connKeyspace EXCEPT ![c][cl] = m.stmt.keyspace]
         /\ UNCHANGED effect
    ELSE /\ Reply(c, cl, "result", None)
         /\ effect' = [effect EXCEPT ![c][cl] =
                {[write |-> w, now |-> NowValue(cl, w.stmt, m.uuid)] :
                     w \in {v \in Work(m, connKeyspace[c][cl]) :
                                v.stmt.type = "write"}}]
         /\ UNCHANGED connKeyspace

\* A node answers the request the client's connection holds.
Serve(c, cl) ==
    LET m == sent[c][cl]
    IN  /\ answer[c] = None
        /\ m # None
        /\ response[c][cl] = None
        /\ \/ /\ Kind(m) \in Failing
              /\ Reply(c, cl, "error", None)
              /\ UNCHANGED <<nodes, effect, connKeyspace>>
           \/ /\ m.op = "prepare"
              /\ LET id == PreparedId(cl, m.stmt, connKeyspace[c][cl])
                 IN  /\ nodes' = [nodes EXCEPT ![cl] = @ \cup {id}]
                     /\ Reply(c, cl, "prepared", id)
              /\ UNCHANGED <<effect, connKeyspace>>
           \/ /\ \E i \in m.ids \ nodes[cl] : Reply(c, cl, "unprepared", i)
              /\ UNCHANGED <<nodes, effect, connKeyspace>>
           \/ /\ m.op \in {"query", "execute", "batch"}
              /\ m.ids \subseteq nodes[cl]
              /\ Run(c, cl, m)
              /\ UNCHANGED nodes
           \/ /\ m.op \in {"options", "register"}
              /\ Reply(c, cl, IF m.op = "options" THEN "supported" ELSE "result", None)
              /\ UNCHANGED <<nodes, effect, connKeyspace>>
        /\ UNCHANGED <<psCache, currentKeyspace, request, info, sent, answer,
                       fresh, clock, requests, restarts>>

\* A node restarts, or evicts its prepared statements; one that holds none
\* does so unnoticed.
Restart(cl) ==
    /\ nodes[cl] # {}
    /\ restarts < MaxRestarts
    /\ restarts' = restarts + 1
    /\ nodes' = [nodes EXCEPT ![cl] = {}]
    /\ fresh' = [c \in Clients |-> {i \in fresh[c] : i.cluster = "proxy"}]
    /\ UNCHANGED <<psCache, currentKeyspace, connKeyspace, perRequest, clock, requests>>

-----------------------------------------------------------------------------
(* The answer to the client.                                               *)

isResponseSuccessful(resp) == resp.kind \notin {"error", "unprepared"}

\* Mutation: the primary's answer is returned whatever the other one is.
aggregatePrimary(op, o, t) ==
    IF op = "prepare" THEN "origin" ELSE PrimaryCluster

\* The cluster whose answer the client gets when both were asked.
aggregateAndTrackResponses(op, o, t) ==
    IF isResponseSuccessful(o) /\ isResponseSuccessful(t)
    THEN IF o.kind = "supported" THEN "target"
         ELSE IF op = "prepare" THEN "origin" ELSE PrimaryCluster
    ELSE IF ~isResponseSuccessful(o) THEN "origin" ELSE "target"

computeClientResponse(c) ==
    IF info[c].decision = "both"
    THEN aggregateAndTrackResponses(request[c].op,
             response[c]["origin"], response[c]["target"])
    ELSE info[c].decision

\* Mutation: the cache keeps the decision of the PREPARE itself.
processPreparedOwnInfo(c) ==
    LET originId == response[c]["origin"].arg
        targetId == response[c]["target"].arg
    IN  /\ Store(originId, targetId,
                 [decision |-> info[c].decision, async |-> info[c].async],
                 requiresQueryReplacement(request[c].stmt))
        /\ answer' = [answer EXCEPT ![c] = [kind |-> "prepared", arg |-> originId]]
        /\ fresh' = IF originId \in nodes["origin"] /\ targetId \in nodes["target"]
                    THEN [fresh EXCEPT ![c] = @ \cup {originId}] ELSE fresh
        /\ UNCHANGED currentKeyspace

processPreparedResponse(c) ==
    LET originId == response[c]["origin"].arg
        targetId == response[c]["target"].arg
    IN  /\ Store(originId, targetId, info[c].base,
                 requiresQueryReplacement(request[c].stmt))
        /\ answer' = [answer EXCEPT ![c] = [kind |-> "prepared", arg |-> originId]]
        /\ fresh' = IF originId \in nodes["origin"] /\ targetId \in nodes["target"]
                    THEN [fresh EXCEPT ![c] = @ \cup {originId}] ELSE fresh
        /\ UNCHANGED currentKeyspace

\* Mutation: the id of the cluster that answered is passed on.
UnpreparedAnswerAsReceived(cl, resp) ==
    [kind |-> "unprepared", arg |-> resp.arg]

\* UNPREPARED names the statement by its origin id; without one the request
\* is never answered.
UnpreparedAnswer(cl, resp) ==
    LET id == IF cl = "origin" THEN resp.arg ELSE GetByTargetPreparedId(resp.arg)
    IN  IF id = None THEN [kind |-> "dropped", arg |-> None]
        ELSE [kind |-> "unprepared", arg |-> id]

processClientResponse(c, cl, resp) ==
    \/ /\ resp.kind = "prepared"
       /\ processPreparedResponse(c)
    \/ /\ resp.kind = "keyspace"
       /\ currentKeyspace' = [currentKeyspace EXCEPT ![c] = resp.arg]
       /\ answer' = [answer EXCEPT ![c] = resp]
       /\ UNCHANGED <<psCache, fresh>>
    \/ /\ resp.kind = "unprepared"
       /\ answer' = [answer EXCEPT ![c] = UnpreparedAnswer(cl, resp)]
       /\ UNCHANGED <<psCache, currentKeyspace, fresh>>
    \/ /\ resp.kind \notin {"prepared", "keyspace", "unprepared"}
       /\ answer' = [answer EXCEPT ![c] = resp]
       /\ UNCHANGED <<psCache, currentKeyspace, fresh>>

finishRequest(c) ==
    /\ answer[c] = None
    /\ \A cl \in Clusters : sent[c][cl] # None => response[c][cl] # None
    /\ LET cl == computeClientResponse(c)
       IN  processClientResponse(c, cl, response[c][cl])
    /\ UNCHANGED <<connKeyspace, nodes, request, info, sent, response, effect,
                   clock, requests, restarts>>

Idle ==
    /\ requests = MaxRequests
    /\ \A c \in Clients : answer[c] # None
    /\ UNCHANGED vars

Init ==
    /\ cache = << >> /\ index = << >> /\ interceptedCache = << >>
    /\ currentKeyspace = [c \in Clients |-> None]
    /\ connKeyspace = [c \in Clients |-> [cl \in Clusters |-> None]]
    /\ nodes = [cl \in Clusters |-> {}]
    /\ request = [c \in Clients |-> None]
    /\ info = [c \in Clients |-> None]
    /\ sent = [c \in Clients |-> [conn \in Connectors |-> None]]
    /\ response = [c \in Clients |-> [cl \in Clusters |-> None]]
    /\ effect = [c \in Clients |-> [cl \in Clusters |-> {}]]
    /\ answer = [c \in Clients |-> [kind |-> "ready", arg |-> None]]
    /\ fresh = [c \in Clients |-> {}]
    /\ clock = 0 /\ requests = 0 /\ restarts = 0

Next ==
    \/ \E c \in Clients : CanSend(c) /\ \E r \in ClientRequests : Forward(c, r)
    \/ \E c \in Clients, cl \in Clusters : Serve(c, cl)
    \/ \E c \in Clients : finishRequest(c)
    \/ \E cl \in Clusters : Restart(cl)
    \/ Idle

Spec == Init /\ [][Next]_vars

-----------------------------------------------------------------------------
(* Properties.                                                             *)

OriginIds == Ids("origin")
OwnTargetIds == Ids("target")

Entries == [target : OwnTargetIds \cup InterceptedIds,
            base : [decision : Clusters \cup {"both", "none"}, async : BOOLEAN],
            replaced : BOOLEAN]

\* The cache maps ids of the origin, or of the proxy, to entries; the index
\* maps ids of the target to ids of the origin; keyspaces are keyspaces.
TypeOK ==
    /\ DOMAIN cache \subseteq OriginIds
    /\ DOMAIN index \subseteq OwnTargetIds
    /\ DOMAIN interceptedCache \subseteq InterceptedIds
    /\ \A i \in DOMAIN cache : cache[i] \in Entries
    /\ \A i \in DOMAIN index : index[i] \in OriginIds
    /\ \A i \in DOMAIN interceptedCache : interceptedCache[i] \in Entries
    /\ currentKeyspace \in [Clients -> Keyspaces \cup {None}]
    /\ connKeyspace \in [Clients -> [Clusters -> Keyspaces \cup {None}]]
    /\ nodes["origin"] \subseteq OriginIds /\ nodes["target"] \subseteq OwnTargetIds
    /\ clock \in 0..MaxRequests

IdMeaning(i) == Meaning(i.stmt, i.keyspace)

\* A request that names prepared statements reaches every cluster, also
\* through the asynchronous connector, with ids that cluster itself gave to
\* the statements the client named (handleExecuteRequest, handleBatchRequest),
\* whatever other clients prepared since.
OwnIds ==
    /\ TypeOK
    /\ \A c \in Clients, conn \in Connectors :
        sent[c][conn] # None =>
            /\ \A i \in sent[c][conn].ids : i.cluster = ClusterOf(conn)
            /\ {IdMeaning(i) : i \in sent[c][conn].ids}
                   = {IdMeaning(i) : i \in request[c].ids}

\* EXECUTE goes where its statement would go as a QUERY in the keyspace it was
\* prepared in: the decision PREPARE left in the cache is never stale.
RoutedAsPrepared ==
    \A c \in Clients :
        (request[c] # None /\ info[c] # None /\ request[c].op = "execute") =>
            \A i \in request[c].ids :
                info[c] = getRequestInfoFromQueryInfo(i.stmt, i.keyspace)

Answered(c, kinds) == answer[c] # None /\ answer[c].kind \in kinds

\* What the client asked to be written.
AskedWrites(c) ==
    {w \in Work(request[c], currentKeyspace[c]) : w.stmt.type = "write"}

\* A write the client was told to have succeeded was applied by both clusters
\* to the same tables (the aggregation lets a failure win) and, with the
\* replacement of now() enabled, with the same value: one time uuid is generated
\* for a request and added to both.
AckedWritesOnBoth ==
    \A c \in Clients : (Answered(c, {"result"}) /\ request[c].op # "prepare") =>
        /\ \A cl \in Clusters : {e.write : e \in effect[c][cl]} = AskedWrites(c)
        /\ ReplaceCqlFunctions => effect[c]["origin"] = effect[c]["target"]

\* UNPREPARED carries an id the client used in the request it answers, so that
\* the client knows which statement to prepare again, and none of the target is
\* lost for want of an entry in the index ("most likely a bug",
\* GetByTargetPreparedId).
UnpreparedNamesExecuted ==
    \A c \in Clients :
        /\ ~Answered(c, {"dropped"})
        /\ Answered(c, {"unprepared"}) => answer[c].arg \in request[c].ids

\* Preparing again heals: as long as no node restarts, a client that prepared a
\* statement never gets UNPREPARED for it, whatever other clients prepare.
PreparingHeals ==
    \A c \in Clients :
        (Answered(c, {"unprepared"}) /\ request[c].op = "execute") =>
            request[c].ids \cap fresh[c] = {}

=============================================================================
