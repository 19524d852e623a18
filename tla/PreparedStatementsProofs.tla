---------------------- MODULE PreparedStatementsProofs ----------------------
(***************************************************************************)
(* Routing and prepared statements for any set of clients, statements and  *)
(* keyspaces, any primary cluster and any failures and restarts, except    *)
(* that a USE does not fail (UsesSucceed).                                 *)
(*                                                                         *)
(* Inv follows a request: what was sent is what the client asked, with the *)
(* ids of each cluster; a response is the cluster's answer to that, in the *)
(* keyspace of the client; and the caches hold what PREPARE found          *)
(* (CacheInv).  Which statement UNPREPARED names and whether preparing     *)
(* again heals depend in addition on the ids: each cluster's must          *)
(* determine the other's (OneOrigin, OneTarget).                           *)
(***************************************************************************)
EXTENDS PreparedStatements, TLAPS

-----------------------------------------------------------------------------
(* The cache. *)

\* Where a prepared statement goes, and its id on the other cluster.
Route(i) == getRequestInfoFromQueryInfo(i.stmt, i.keyspace)
OriginOf(t) == PreparedId("origin", t.stmt, t.keyspace)
TargetOf(i) == PreparedId("target", i.stmt, i.keyspace)

\* t is an id of the target for the statement of i.
Twin(i, t) == t \in Ids("target") /\ t.stmt = i.stmt /\ IdMeaning(t) = IdMeaning(i)

\* Every entry is what its id says, and every target id in use is in the index.
CacheInv ==
    /\ \A i \in DOMAIN cache :
          /\ i \in Ids("origin") /\ Route(i).decision # "none"
          /\ Twin(i, cache[i].target) /\ cache[i].target \in DOMAIN index
          /\ cache[i] = [target |-> cache[i].target, base |-> Route(i),
                         replaced |-> requiresQueryReplacement(i.stmt)]
    /\ \A t \in DOMAIN index : t \in Ids("target") /\ index[t] \in DOMAIN cache
    /\ \A i \in DOMAIN interceptedCache :
          /\ i \in InterceptedIds /\ Route(i).decision = "none"
          /\ interceptedCache[i] = [target |-> i, base |-> Route(i), replaced |-> FALSE]

-----------------------------------------------------------------------------
(* One request of a client. *)

Moved(c, cl) == answer[c] = None /\ response[c][cl] # None /\ response[c][cl].kind = "keyspace"

\* The connections of a client are in its keyspace, but for a USE under way.
KeyspaceInv(c) ==
    \A cl \in Clusters :
        connKeyspace[c][cl] = IF Moved(c, cl) THEN request[c].stmt.keyspace ELSE currentKeyspace[c]

\* The ids in a request to cluster cl are its own for the statements of ids.
IdsSent(cl, ids, own) ==
    /\ \A i \in ids : i \in Ids("origin")
    /\ cl = "origin" => own = ids
    /\ cl = "target" => /\ \A t \in own : t \in DOMAIN index /\ \E i \in ids : Twin(i, t)
                        /\ \A i \in ids : \E t \in own : Twin(i, t)

\* Without a time uuid there is no now() to replace.
NoNow(r) == (r.stmt # None => ~r.stmt.now) /\ \A i \in r.ids : ~i.stmt.now

\* What was sent to a cluster says what the client said.
SentAs(r, cl, m) ==
    /\ m.op = r.op /\ m.stmt = r.stmt /\ IdsSent(cl, r.ids, m.ids)
    /\ ReplaceCqlFunctions /\ r.op # "prepare" /\ m.uuid = None => NoNow(r)

SentInv(c) ==
    /\ \A conn \in Connectors :
          sent[c][conn] # None => request[c] # None /\ SentAs(request[c], ClusterOf(conn), sent[c][conn])
    /\ sent[c]["origin"] # None /\ sent[c]["target"] # None => sent[c]["origin"].uuid = sent[c]["target"].uuid

\* The decision on a request: all that is not a read goes to both clusters.
Decided(r, inf, k) ==
    /\ inf.decision \in {"both", "origin", "target"}
    /\ r.op = "prepare" => /\ inf.decision = "both" /\ inf.base.decision # "none"
                           /\ inf.base = getRequestInfoFromQueryInfo(r.stmt, k)
    /\ r.stmt # None /\ r.stmt.type # "select" => inf.decision = "both"
    /\ \A i \in r.ids : i.stmt.type # "select" => inf.decision = "both"
    /\ r.op \in {"batch", "options", "register"} => inf.decision = "both"

\* The request that a client waits for was sent where the decision says.
WaitInv(c) ==
    answer[c] = None =>
        /\ request[c] # None /\ Decided(request[c], info[c], currentKeyspace[c])
        /\ \A cl \in Clusters : sent[c][cl] # None <=> info[c].decision \in {cl, "both"}

WritesOf(m, k) == {v \in Work(m, k) : v.stmt.type = "write"}

Written(cl, m, k) == {[write |-> w, now |-> NowValue(cl, w.stmt, m.uuid)] : w \in WritesOf(m, k)}

\* What a cluster answers to m on a connection in keyspace k, and what it wrote.
AnswerTo(cl, m, k, x, written) ==
    /\ x.kind \in {"error", "prepared", "unprepared", "keyspace", "result", "supported"}
    /\ x.kind = "prepared" => x.arg = PreparedId(cl, m.stmt, k)
    /\ x.kind = "unprepared" => x.arg \in m.ids
    /\ x.kind = "keyspace" => x.arg = m.stmt.keyspace
    /\ x.kind = "keyspace" <=> Kind(m) = "use"
    /\ x.kind \in {"prepared", "error"} \/ m.op # "prepare"
    /\ x.kind \in {"supported", "error"} \/ m.op # "options"
    /\ x.kind = "prepared" => m.op = "prepare"
    /\ x.kind = "supported" => m.op = "options"
    /\ written = IF x.kind = "result" THEN Written(cl, m, k) ELSE {}

\* The answers of the clusters are answers to what they were sent.
ResponseInv(c) ==
    \A cl \in Clusters :
        IF response[c][cl] = None THEN effect[c][cl] = {}
        ELSE /\ sent[c][cl] # None
             /\ AnswerTo(cl, sent[c][cl], currentKeyspace[c], response[c][cl], effect[c][cl])

\* What RoutedAsPrepared and AckedWritesOnBoth say of one client.
RoutedInv(c) ==
    (request[c] # None /\ info[c] # None /\ request[c].op = "execute") =>
        \A i \in request[c].ids : info[c] = Route(i)

AckedInv(c) ==
    (Answered(c, {"result"}) /\ request[c].op # "prepare") =>
        /\ \A cl \in Clusters : {e.write : e \in effect[c][cl]} = AskedWrites(c)
        /\ ReplaceCqlFunctions => effect[c]["origin"] = effect[c]["target"]

\* The range of the state.
Keys == Keyspaces \cup {None}
ShapeInv ==
    /\ request \in [Clients -> ClientRequests \cup {None}]
    /\ sent \in [Clients -> [Connectors -> Messages \cup {None}]]
    /\ response \in [Clients -> [Clusters -> Responses \cup {None}]]
    /\ answer \in [Clients -> Responses \cup {None}]
    /\ info = [c \in Clients |-> info[c]]
    /\ effect = [c \in Clients |-> [cl \in Clusters |-> effect[c][cl]]]
    /\ currentKeyspace \in [Clients -> Keys]
    /\ connKeyspace \in [Clients -> [Clusters -> Keys]]
    /\ nodes = [cl \in Clusters |-> nodes[cl]]
    /\ \A cl \in Clusters : nodes[cl] \subseteq Ids(cl)
    /\ fresh \in [Clients -> SUBSET (Ids("origin") \cup InterceptedIds)]
    /\ requests \in Nat /\ requests <= MaxRequests /\ clock \in Nat /\ clock <= requests

ClientInv(c) ==
    KeyspaceInv(c) /\ SentInv(c) /\ WaitInv(c) /\ ResponseInv(c) /\ RoutedInv(c) /\ AckedInv(c)

\* The inductive invariant.
Inv == ShapeInv /\ CacheInv /\ \A c \in Clients : ClientInv(c)

-----------------------------------------------------------------------------
(* What depends on how the clusters answer. *)

\* Neither cluster fails a USE: the two connections of a client stay in one
\* keyspace.
UsesSucceed == "use" \notin Failing

\* An id of the target determines the one of the origin, and the other way.
OneOrigin == "origin" \in HashKeyspace => "target" \in HashKeyspace
OneTarget == "target" \in HashKeyspace => "origin" \in HashKeyspace

IndexInv ==
    /\ \A i \in DOMAIN cache : OriginOf(cache[i].target) = i
    /\ \A t \in DOMAIN index : index[t] = OriginOf(t)

NamesInv(c) ==
    /\ sent[c]["target"] # None => \A t \in sent[c]["target"].ids : OriginOf(t) \in request[c].ids
    /\ ~Answered(c, {"dropped"})
    /\ Answered(c, {"unprepared"}) => answer[c].arg \in request[c].ids

FreshInv(c) ==
    \A i \in fresh[c] :
          \/ i \in DOMAIN cache /\ i \in nodes["origin"] /\ TargetOf(i) \in nodes["target"]
          \/ i \in DOMAIN interceptedCache

HealsInv(c) ==
    /\ sent[c]["target"] # None => \A t \in sent[c]["target"].ids : \E i \in request[c].ids : t = TargetOf(i)
    /\ \A cl \in Clusters :
          response[c][cl] # None /\ response[c][cl].kind = "unprepared" => request[c].ids \cap fresh[c] = {}
    /\ (Answered(c, {"unprepared"}) /\ request[c].op = "execute") => request[c].ids \cap fresh[c] = {}

TwinsInv == \A i \in DOMAIN cache : cache[i].target = TargetOf(i)

-----------------------------------------------------------------------------
(* Ids, requests and decisions. *)

\* An id says which statement it stands for, and where that goes, whether its
\* cluster hashes the keyspace of the connection or the statement's.
LEMMA PreparedFacts ==
    ASSUME NEW cl, NEW s \in Preparable, NEW k \in Keys
    PROVE  LET i == PreparedId(cl, s, k) IN
           /\ i \in Ids(cl) /\ i.stmt = s /\ i.cluster = cl /\ i.keyspace \in Keys
           /\ IdMeaning(i) = Meaning(s, k) /\ Route(i) = getRequestInfoFromQueryInfo(s, k)
<1>. DEFINE i == PreparedId(cl, s, k)
<1>1. i \in Ids(cl) /\ i.stmt = s /\ i.cluster = cl
    BY DEF Ids, PreparedId, Keys
<1>2. i.keyspace \in Keys
    BY Zenon, ConstantsAssumption DEF PreparedId, Keys, ApplicableKeyspace, Preparable
<1>3. ApplicableKeyspace(s, i.keyspace) = ApplicableKeyspace(s, k)
    BY Zenon DEF PreparedId, ApplicableKeyspace
<1>4. IdMeaning(i) = Meaning(s, k)
    BY Zenon, <1>1, <1>3 DEF IdMeaning, Meaning
<1>5. Route(i) = getRequestInfoFromQueryInfo(s, k)
    BY Zenon, <1>1, <1>3 DEF Route, getRequestInfoFromQueryInfo, isIntercepted
<1>. QED BY Zenon, <1>1, <1>2, <1>4, <1>5

LEMMA IdFacts ==
    ASSUME NEW cl, NEW i \in Ids(cl)
    PROVE  i.cluster = cl /\ i.stmt \in Preparable /\ i.keyspace \in Keys
<1>1. PICK s \in Preparable, k \in Keys : i = PreparedId(cl, s, k)
    BY DEF Ids, Keys
<1>. QED BY <1>1, PreparedFacts

\* The ids of one statement on the two clusters mean the same.
LEMMA Twins ==
    ASSUME NEW s \in Preparable, NEW k \in Keys
    PROVE  Twin(PreparedId("origin", s, k), PreparedId("target", s, k))
BY PreparedFacts DEF Twin

LEMMA DecisionFacts ==
    ASSUME NEW s, NEW k
    PROVE  LET b == getRequestInfoFromQueryInfo(s, k) IN
           /\ b.decision \in {"both", "origin", "target", "none"} /\ b.async \in BOOLEAN
           /\ s.type # "select" <=> b.decision = "both"
           /\ b = [decision |-> b.decision, async |-> b.async]
BY Zenon, ConstantsAssumption DEF getRequestInfoFromQueryInfo, Clusters

\* The shape of what a client may ask.
LEMMA RequestFacts ==
    ASSUME NEW r \in ClientRequests
    PROVE  /\ r.op \in {"query", "prepare", "execute", "batch", "options", "register"}
           /\ r.stmt \in Statements \cup {None} /\ r.ids \subseteq Ids("origin") \cup InterceptedIds
           /\ r.op = "query" => r.stmt \in Statements /\ r.ids = {}
           /\ r.op = "prepare" => r.stmt \in Preparable /\ r.ids = {}
           /\ r.op = "execute" => r.stmt = None /\ \E i \in Ids("origin") \cup InterceptedIds : r.ids = {i}
           /\ r.op = "batch" => r.stmt \in Writes /\ \E i \in Ids("origin") : i.stmt \in Writes /\ r.ids = {i}
           /\ r.op \in {"options", "register"} => r.stmt = None /\ r.ids = {}
BY Zenon DEF ClientRequests, Preparable, Writes

LEMMA NoneIsApart ==
    /\ None \notin Statements /\ None \notin AnyIds /\ None \notin TimeUuids
    /\ None \notin ClientRequests /\ None \notin Messages /\ None \notin Responses
BY Zenon, ConstantsAssumption

-----------------------------------------------------------------------------
(* What a step does, client by client. *)

\* Nothing of the request of d changes.
Quiet(d) ==
    /\ request[d]' = request[d] /\ info[d]' = info[d] /\ sent[d]' = sent[d]
    /\ response[d]' = response[d] /\ effect[d]' = effect[d] /\ answer[d]' = answer[d]
    /\ currentKeyspace[d]' = currentKeyspace[d] /\ connKeyspace[d]' = connKeyspace[d]

Others(c) == \A d \in Clients : d # c => Quiet(d) /\ fresh[d]' = fresh[d]

\* What the request r of c starts with.
Begun(c, r) ==
    /\ request[c]' = r /\ requests' = requests + 1 /\ currentKeyspace[c]' = currentKeyspace[c]
    /\ connKeyspace[c]' = connKeyspace[c]
    /\ \A cl \in Clusters : effect[c][cl]' = {} /\ response[c][cl]' = None

LEMMA MissFacts ==
    ASSUME ShapeInv, NEW c \in Clients, NEW r \in ClientRequests, CacheMiss(c, r)
    PROVE  /\ Others(c) /\ Begun(c, r) /\ UNCHANGED <<psCache, nodes, clock, fresh>>
           /\ \A conn \in Connectors : sent[c][conn]' = None
           /\ info[c]' = None
           /\ \E i \in r.ids : ~Cached(i) /\ answer[c]' = [kind |-> "unprepared", arg |-> i]
BY Zenon DEF ShapeInv, CacheMiss, Begin, Others, Quiet, Begun

LEMMA InterceptFacts ==
    ASSUME ShapeInv, NEW c \in Clients, NEW r \in ClientRequests, NEW inf,
           handleInterceptedRequest(c, r, inf)
    PROVE  /\ Others(c) /\ Begun(c, r) /\ UNCHANGED <<nodes, clock>>
           /\ \A conn \in Connectors : sent[c][conn]' = None
           /\ info[c]' = inf /\ inf.decision = "none" /\ \A i \in r.ids : Cached(i)
           /\ \/ LET id == PreparedId("proxy", r.stmt, currentKeyspace[c])
                 IN  /\ r.op = "prepare" /\ StoreIntercepted(id, inf.base)
                     /\ fresh[c]' = fresh[c] \cup {id}
                     /\ answer[c]' = [kind |-> "prepared", arg |-> id]
              \/ /\ r.op # "prepare" /\ answer[c]' = [kind |-> "result", arg |-> None]
                 /\ UNCHANGED <<psCache, fresh>>
              \/ /\ answer[c]' = [kind |-> "error", arg |-> None]
                 /\ UNCHANGED <<psCache, fresh>>
<1>1. Others(c) /\ Begun(c, r)
    BY Zenon DEF ShapeInv, handleInterceptedRequest, Begin, Others, Quiet, Begun
<1>2. /\ \A conn \in Connectors : sent[c][conn]' = None
      /\ UNCHANGED <<nodes, clock>>
      /\ info[c]' = inf /\ inf.decision = "none" /\ \A i \in r.ids : Cached(i)
    BY Zenon DEF ShapeInv, handleInterceptedRequest
<1>. DEFINE id == PreparedId("proxy", r.stmt, currentKeyspace[c])
<1>3. CASE /\ r.op = "prepare" /\ StoreIntercepted(id, inf.base)
           /\ fresh' = [fresh EXCEPT ![c] = @ \cup {id}]
           /\ answer' = [answer EXCEPT ![c] = [kind |-> "prepared", arg |-> id]]
    BY Zenon, <1>1, <1>2, <1>3 DEF ShapeInv
<1>4. CASE /\ r.op # "prepare" /\ answer' = [answer EXCEPT ![c] = [kind |-> "result", arg |-> None]]
           /\ UNCHANGED <<psCache, fresh>>
    BY Zenon, <1>1, <1>2, <1>4 DEF ShapeInv
<1>5. CASE /\ answer' = [answer EXCEPT ![c] = [kind |-> "error", arg |-> None]]
           /\ UNCHANGED <<psCache, fresh>>
    BY Zenon, <1>1, <1>2, <1>5 DEF ShapeInv
<1>. QED BY Zenon, <1>3, <1>4, <1>5 DEF handleInterceptedRequest

TimeUuid(r) == IF NeedsTimeUuid(r) THEN <<"proxy", clock>> ELSE None

LEMMA ExecuteFacts ==
    ASSUME ShapeInv, NEW c \in Clients, NEW r \in ClientRequests, NEW inf, executeRequest(c, r, inf)
    PROVE  /\ Others(c) /\ Begun(c, r) /\ UNCHANGED <<psCache, nodes, fresh>>
           /\ clock' = IF NeedsTimeUuid(r) THEN clock + 1 ELSE clock
           /\ \A conn \in Connectors : sent[c][conn]' =
                 IF conn \in ConnectorsOf(inf) THEN RequestTo(ClusterOf(conn), r, TimeUuid(r)) ELSE None
           /\ info[c]' = inf /\ inf.decision # "none" /\ \A i \in r.ids : Cached(i)
           /\ answer[c]' = None
<1>1. Others(c) /\ Begun(c, r)
    BY Zenon DEF ShapeInv, executeRequest, Begin, Others, Quiet, Begun
<1>. QED BY Zenon, <1>1 DEF ShapeInv, executeRequest, TimeUuid

\* The answers of a cluster.
Silent(c, cl) == effect[c][cl]' = effect[c][cl] /\ connKeyspace[c][cl]' = connKeyspace[c][cl]

Failed(c, cl) ==
    /\ Kind(sent[c][cl]) \in Failing /\ response[c][cl]' = [kind |-> "error", arg |-> None]
    /\ Silent(c, cl) /\ nodes' = nodes

Prepared(c, cl) ==
    LET id == PreparedId(cl, sent[c][cl].stmt, connKeyspace[c][cl]) IN
    /\ sent[c][cl].op = "prepare" /\ response[c][cl]' = [kind |-> "prepared", arg |-> id]
    /\ Silent(c, cl) /\ nodes' = [nodes EXCEPT ![cl] = @ \cup {id}]

Unknown(c, cl) ==
    /\ \E i \in sent[c][cl].ids \ nodes[cl] : response[c][cl]' = [kind |-> "unprepared", arg |-> i]
    /\ Silent(c, cl) /\ nodes' = nodes

Used(c, cl) ==
    /\ Kind(sent[c][cl]) = "use"
    /\ response[c][cl]' = [kind |-> "keyspace", arg |-> sent[c][cl].stmt.keyspace]
    /\ connKeyspace[c][cl]' = sent[c][cl].stmt.keyspace /\ effect[c][cl]' = effect[c][cl] /\ nodes' = nodes

Ran(c, cl) ==
    /\ Kind(sent[c][cl]) # "use" /\ sent[c][cl].op \in {"query", "execute", "batch"}
    /\ response[c][cl]' = [kind |-> "result", arg |-> None]
    /\ connKeyspace[c][cl]' = connKeyspace[c][cl] /\ nodes' = nodes
    /\ effect[c][cl]' = Written(cl, sent[c][cl], connKeyspace[c][cl])

Noted(c, cl) ==
    /\ \/ sent[c][cl].op = "options" /\ response[c][cl]' = [kind |-> "supported", arg |-> None]
       \/ sent[c][cl].op = "register" /\ response[c][cl]' = [kind |-> "result", arg |-> None]
    /\ Silent(c, cl) /\ nodes' = nodes

LEMMA ServeFacts ==
    ASSUME ShapeInv, NEW c \in Clients, NEW cl \in Clusters, Serve(c, cl)
    PROVE  /\ Others(c) /\ answer[c] = None /\ sent[c][cl] # None /\ response[c][cl] = None
           /\ request[c]' = request[c] /\ info[c]' = info[c] /\ sent[c]' = sent[c]
           /\ answer[c]' = answer[c] /\ currentKeyspace[c]' = currentKeyspace[c]
           /\ UNCHANGED <<psCache, fresh, clock, requests>>
           /\ \A o \in Clusters : o # cl => response[c][o]' = response[c][o] /\ Silent(c, o)
           /\ \/ Failed(c, cl) \/ Prepared(c, cl) \/ Unknown(c, cl) \/ Used(c, cl)
              \/ Ran(c, cl) \/ Noted(c, cl)
<1>. DEFINE m == sent[c][cl]
            Common == /\ Others(c)
                      /\ \A o \in Clusters : o # cl => response[c][o]' = response[c][o] /\ Silent(c, o)
<1>1. /\ answer[c] = None /\ m # None /\ response[c][cl] = None
      /\ UNCHANGED <<psCache, currentKeyspace, request, info, sent, answer, fresh, clock, requests>>
    BY Zenon DEF Serve
<1>. SUFFICES Common /\ \/ Failed(c, cl) \/ Prepared(c, cl) \/ Unknown(c, cl) \/ Used(c, cl)
                        \/ Ran(c, cl) \/ Noted(c, cl)
    BY Zenon, <1>1
<1>. USE DEF ShapeInv, Reply, Others, Quiet, Silent
<1>2. CASE Kind(m) \in Failing /\ Reply(c, cl, "error", None) /\ UNCHANGED <<nodes, effect, connKeyspace>>
    BY Zenon, <1>1, <1>2 DEF Failed
<1>3. CASE /\ m.op = "prepare"
           /\ LET id == PreparedId(cl, m.stmt, connKeyspace[c][cl])
              IN  nodes' = [nodes EXCEPT ![cl] = @ \cup {id}] /\ Reply(c, cl, "prepared", id)
           /\ UNCHANGED <<effect, connKeyspace>>
  <2>. DEFINE id == PreparedId(cl, m.stmt, connKeyspace[c][cl])
  <2>1. /\ nodes' = [nodes EXCEPT ![cl] = @ \cup {id}] /\ UNCHANGED <<effect, connKeyspace>>
        /\ response' = [response EXCEPT ![c][cl] = [kind |-> "prepared", arg |-> id]]
    BY Zenon, <1>3
  <2>. HIDE DEF id
  <2>2. Common /\ response[c][cl]' = [kind |-> "prepared", arg |-> id]
    BY Zenon, <1>1, <2>1
  <2>3. Prepared(c, cl)
    BY Zenon, <1>3, <2>1, <2>2 DEF Prepared, id
  <2>. QED BY Zenon, <2>2, <2>3
<1>4. CASE /\ \E i \in m.ids \ nodes[cl] : Reply(c, cl, "unprepared", i)
           /\ UNCHANGED <<nodes, effect, connKeyspace>>
    BY <1>1, <1>4 DEF Unknown
<1>5. CASE m.op \in {"query", "execute", "batch"} /\ Run(c, cl, m) /\ UNCHANGED nodes
  <2>1. CASE Kind(m) = "use"
    <3>1. /\ connKeyspace' = [connKeyspace EXCEPT ![c][cl] = m.stmt.keyspace] /\ UNCHANGED effect
          /\ response' = [response EXCEPT ![c][cl] = [kind |-> "keyspace", arg |-> m.stmt.keyspace]]
        BY Zenon, <1>5, <2>1 DEF Run
    <3>2. Common
        BY Zenon, <1>1, <3>1
    <3>3. Used(c, cl)
        BY Zenon, <1>1, <1>5, <2>1, <3>1 DEF Used
    <3>. QED BY Zenon, <3>2, <3>3
  <2>2. CASE Kind(m) # "use"
    <3>1. effect' = [effect EXCEPT ![c][cl] = Written(cl, m, connKeyspace[c][cl])]
        BY Zenon, <1>5, <2>2 DEF Run, Written, WritesOf
    <3>. QED BY <1>1, <1>5, <2>2, <3>1 DEF Ran, Run
  <2>. QED BY Zenon, <2>1, <2>2
<1>6. CASE /\ m.op \in {"options", "register"}
           /\ Reply(c, cl, IF m.op = "options" THEN "supported" ELSE "result", None)
           /\ UNCHANGED <<nodes, effect, connKeyspace>>
    BY Zenon, <1>1, <1>6 DEF Noted
<1>. QED BY Zenon, <1>2, <1>3, <1>4, <1>5, <1>6 DEF Serve

\* The answer of c is computed, and nothing else of its request changes.
LEMMA FinishFacts ==
    ASSUME ShapeInv, NEW c \in Clients, finishRequest(c)
    PROVE  LET cl == computeClientResponse(c) x == response[c][cl] IN
           /\ Others(c) /\ answer[c] = None
           /\ \A o \in Clusters : sent[c][o] # None => response[c][o] # None
           /\ request[c]' = request[c] /\ info[c]' = info[c] /\ sent[c]' = sent[c]
           /\ response[c]' = response[c] /\ effect[c]' = effect[c] /\ connKeyspace[c]' = connKeyspace[c]
           /\ UNCHANGED <<nodes, clock, requests>>
           /\ \/ /\ x.kind = "prepared" /\ currentKeyspace[c]' = currentKeyspace[c]
                 /\ LET originId == response[c]["origin"].arg targetId == response[c]["target"].arg
                    IN  /\ Store(originId, targetId, info[c].base, requiresQueryReplacement(request[c].stmt))
                        /\ answer[c]' = [kind |-> "prepared", arg |-> originId]
                        /\ fresh[c]' = IF originId \in nodes["origin"] /\ targetId \in nodes["target"]
                                       THEN fresh[c] \cup {originId} ELSE fresh[c]
              \/ /\ x.kind = "keyspace" /\ currentKeyspace[c]' = x.arg /\ answer[c]' = x
                 /\ UNCHANGED <<psCache, fresh>>
              \/ /\ x.kind = "unprepared" /\ answer[c]' = UnpreparedAnswer(cl, x)
                 /\ UNCHANGED <<psCache, currentKeyspace, fresh>>
              \/ /\ x.kind \notin {"prepared", "keyspace", "unprepared"} /\ answer[c]' = x
                 /\ UNCHANGED <<psCache, currentKeyspace, fresh>>
<1>. DEFINE cl == computeClientResponse(c) x == response[c][cl]
            Kept == /\ answer[c] = None /\ \A o \in Clusters : sent[c][o] # None => response[c][o] # None
                    /\ UNCHANGED <<connKeyspace, nodes, request, info, sent, response, effect, clock, requests>>
<1>1. Kept /\ processClientResponse(c, cl, x)
    BY Zenon DEF finishRequest
<1>. USE DEF ShapeInv, Others, Quiet
<1>2. CASE x.kind = "prepared" /\ processPreparedResponse(c)
    BY Zenon, <1>1, <1>2 DEF processPreparedResponse
<1>3. CASE /\ x.kind = "keyspace" /\ currentKeyspace' = [currentKeyspace EXCEPT ![c] = x.arg]
           /\ answer' = [answer EXCEPT ![c] = x] /\ UNCHANGED <<psCache, fresh>>
    BY Zenon, <1>1, <1>3
<1>4. CASE /\ x.kind = "unprepared" /\ answer' = [answer EXCEPT ![c] = UnpreparedAnswer(cl, x)]
           /\ UNCHANGED <<psCache, currentKeyspace, fresh>>
    BY Zenon, <1>1, <1>4
<1>5. CASE /\ x.kind \notin {"prepared", "keyspace", "unprepared"} /\ answer' = [answer EXCEPT ![c] = x]
           /\ UNCHANGED <<psCache, currentKeyspace, fresh>>
    BY Zenon, <1>1, <1>5
<1>. QED BY Zenon, <1>1, <1>2, <1>3, <1>4, <1>5 DEF processClientResponse

LEMMA FinishKept ==
    ASSUME Inv, NEW c \in Clients, finishRequest(c)
    PROVE  /\ Others(c) /\ answer[c] = None /\ UNCHANGED nodes
           /\ request[c]' = request[c] /\ info[c]' = info[c] /\ sent[c]' = sent[c]
           /\ response[c]' = response[c] /\ effect[c]' = effect[c] /\ connKeyspace[c]' = connKeyspace[c]
BY Zenon, FinishFacts DEF Inv

-----------------------------------------------------------------------------
(* What is kept. *)

\* A client that a step leaves alone keeps its invariant: the index only grows.
LEMMA QuietKept ==
    ASSUME NEW d \in Clients, ClientInv(d), Quiet(d), DOMAIN index \subseteq DOMAIN index'
    PROVE  ClientInv(d)'
<1>. USE DEF Quiet
<1>1. KeyspaceInv(d)'
    BY Zenon DEF ClientInv, KeyspaceInv, Moved
<1>2. SentInv(d)'
    BY ZenonT(60) DEF ClientInv, SentInv, SentAs, IdsSent
<1>3. WaitInv(d)'
    BY Zenon DEF ClientInv, WaitInv
<1>4. ResponseInv(d)'
    BY Zenon DEF ClientInv, ResponseInv
<1>5. RoutedInv(d)'
    BY Zenon DEF ClientInv, RoutedInv
<1>6. AckedInv(d)'
    BY Zenon DEF ClientInv, AckedInv, Answered, AskedWrites
<1>. QED BY Zenon, <1>1, <1>2, <1>3, <1>4, <1>5, <1>6 DEF ClientInv

LEMMA CacheKept ==
    ASSUME CacheInv, UNCHANGED psCache
    PROVE  CacheInv' /\ DOMAIN index \subseteq DOMAIN index'
BY Zenon DEF CacheInv, psCache

\* Store keeps what its two ids say.
LEMMA StoreKept ==
    ASSUME CacheInv, NEW s \in Preparable, NEW k \in Keys,
           NEW o, o = PreparedId("origin", s, k), NEW t, t = PreparedId("target", s, k),
           NEW b, b = getRequestInfoFromQueryInfo(s, k), b.decision # "none",
           Store(o, t, b, requiresQueryReplacement(s))
    PROVE  CacheInv' /\ DOMAIN index \subseteq DOMAIN index'
<1>1. /\ DOMAIN cache' = DOMAIN cache \cup {o} /\ DOMAIN index' = DOMAIN index \cup {t}
      /\ cache'[o] = [target |-> t, base |-> b, replaced |-> requiresQueryReplacement(s)]
      /\ index'[t] = o /\ interceptedCache' = interceptedCache
      /\ \A i \in DOMAIN cache : i # o => cache'[i] = cache[i]
      /\ \A i \in DOMAIN index : i # t => index'[i] = index[i]
    BY Zenon DEF Store, Put
<1>2. /\ o \in Ids("origin") /\ o.stmt = s /\ Route(o) = b /\ Twin(o, t) /\ t \in Ids("target")
    BY PreparedFacts, Twins DEF Twin
<1>3. ASSUME NEW i \in DOMAIN cache'
      PROVE  /\ i \in Ids("origin") /\ Route(i).decision # "none"
             /\ Twin(i, cache'[i].target) /\ cache'[i].target \in DOMAIN index'
             /\ cache'[i] = [target |-> cache'[i].target, base |-> Route(i),
                             replaced |-> requiresQueryReplacement(i.stmt)]
  <2>1. CASE i = o
    BY <1>1, <1>2, <2>1
  <2>2. CASE i # o
    BY Zenon, <1>1, <2>2 DEF CacheInv
  <2>. QED BY Zenon, <2>1, <2>2
<1>4. \A i \in DOMAIN index' : i \in Ids("target") /\ index'[i] \in DOMAIN cache'
    BY Zenon, <1>1, <1>2 DEF CacheInv
<1>. QED BY Zenon, <1>1, <1>3, <1>4 DEF CacheInv

LEMMA InterceptKept ==
    ASSUME CacheInv, NEW s \in Preparable, NEW k \in Keys,
           NEW o, o = PreparedId("proxy", s, k),
           NEW b, b = getRequestInfoFromQueryInfo(s, k), b.decision = "none",
           StoreIntercepted(o, b)
    PROVE  CacheInv' /\ DOMAIN index \subseteq DOMAIN index'
<1>1. /\ DOMAIN interceptedCache' = DOMAIN interceptedCache \cup {o} /\ UNCHANGED <<cache, index>>
      /\ interceptedCache'[o] = [target |-> o, base |-> b, replaced |-> FALSE]
      /\ \A i \in DOMAIN interceptedCache : i # o => interceptedCache'[i] = interceptedCache[i]
    BY Zenon DEF StoreIntercepted, Put
<1>2. o \in InterceptedIds /\ Route(o) = b
    BY ZenonT(60), PreparedFacts DEF InterceptedIds
<1>. QED BY Zenon, <1>1, <1>2 DEF CacheInv

-----------------------------------------------------------------------------
(* A request of a client. *)

\* The ids of the clusters and of the proxy are apart.
LEMMA IdsApart ==
    /\ Ids("origin") \cap InterceptedIds = {} /\ Ids("origin") \cap Ids("target") = {}
    /\ Ids("target") \cap InterceptedIds = {}
BY IdFacts DEF InterceptedIds

\* What is looked up is what the id says.
LEMMA GetFacts ==
    ASSUME CacheInv, NEW i \in Ids("origin") \cup InterceptedIds, Cached(i)
    PROVE  /\ Get(i).base = Route(i)
           /\ Route(i).decision # "none" => /\ i \in DOMAIN cache /\ i \in Ids("origin")
                                            /\ Get(i) = cache[i] /\ Twin(i, Get(i).target)
                                            /\ Get(i).target \in DOMAIN index
                                            /\ Get(i).replaced = requiresQueryReplacement(i.stmt)
           /\ i \in Ids("origin") => Route(i).decision # "none"
<1>1. CASE i \in DOMAIN cache
    BY <1>1, IdsApart DEF CacheInv, Get
<1>2. CASE i \notin DOMAIN cache
  <2>1. i \in DOMAIN interceptedCache /\ Get(i) = interceptedCache[i]
    BY Zenon, <1>2 DEF Cached, Get
  <2>. QED BY <2>1, IdsApart DEF CacheInv
<1>. QED BY Zenon, <1>1, <1>2

\* The decision on a request whose ids the cache holds.
LEMMA BuildFacts ==
    ASSUME CacheInv, NEW r \in ClientRequests, NEW k \in Keys, \A i \in r.ids : Cached(i),
           NEW inf, inf = buildRequestInfo(r, k)
    PROVE  /\ r.op = "execute" => \A i \in r.ids : inf = Route(i)
           /\ r.op = "prepare" => /\ inf.base = getRequestInfoFromQueryInfo(r.stmt, k)
                                  /\ inf.decision = "none" <=> inf.base.decision = "none"
           /\ inf.decision = "none" /\ r.op # "prepare" => WritesOf(r, k) = {}
           /\ inf.decision # "none" => Decided(r, inf, k) /\ \A i \in r.ids : Get(i) = cache[i] /\ i \in DOMAIN cache
<1>1. CASE r.op = "query"
  <2>1. inf = getRequestInfoFromQueryInfo(r.stmt, k) /\ r.ids = {} /\ r.stmt \in Statements
    BY Zenon, <1>1, RequestFacts DEF buildRequestInfo
  <2>2. inf.decision \in {"both", "origin", "target", "none"} /\ (r.stmt.type # "select" <=> inf.decision = "both")
    BY <2>1, DecisionFacts
  <2>3. inf.decision = "none" => WritesOf(r, k) = {}
    BY <2>1, <2>2 DEF WritesOf, Work, Meaning
  <2>. QED BY Zenon, <1>1, <2>1, <2>2, <2>3 DEF Decided
<1>2. CASE r.op = "prepare"
  <2>1. /\ inf = PrepareRequestInfo(getRequestInfoFromQueryInfo(r.stmt, k)) /\ r.ids = {}
    BY Zenon, <1>2, RequestFacts DEF buildRequestInfo
  <2>. QED BY <1>2, <2>1 DEF Decided, PrepareRequestInfo
<1>3. CASE r.op = "execute"
  <2>1. PICK i \in Ids("origin") \cup InterceptedIds : r.ids = {i}
    BY Zenon, <1>3, RequestFacts
  <2>2. inf = Route(i) /\ r.stmt = None
    BY Zenon, <1>3, <2>1, GetFacts, RequestFacts DEF buildRequestInfo
  <2>3. inf.decision \in {"both", "origin", "target", "none"} /\ (i.stmt.type # "select" <=> inf.decision = "both")
    BY <2>2, DecisionFacts DEF Route
  <2>4. inf.decision = "none" => WritesOf(r, k) = {}
    BY <2>1, <2>2, <2>3 DEF WritesOf, Work, Meaning
  <2>5. inf.decision # "none" => i \in DOMAIN cache /\ Get(i) = cache[i]
    BY Zenon, <2>1, <2>2, GetFacts
  <2>. QED BY Zenon, <1>3, <2>1, <2>2, <2>3, <2>4, <2>5 DEF Decided
<1>4. CASE r.op = "batch"
  <2>1. PICK i \in Ids("origin") : r.ids = {i}
    BY Zenon, <1>4, RequestFacts
  <2>2. inf.decision = "both" /\ i \in DOMAIN cache /\ Get(i) = cache[i]
    BY Zenon, <1>4, <2>1, GetFacts DEF buildRequestInfo
  <2>. QED BY Zenon, <1>4, <2>1, <2>2 DEF Decided
<1>5. CASE r.op \in {"options", "register"}
  <2>1. inf.decision = "both" /\ r.ids = {} /\ r.stmt = None
    BY Zenon, <1>5, RequestFacts DEF buildRequestInfo
  <2>. QED BY Zenon, <1>5, <2>1 DEF Decided
<1>. QED BY Zenon, <1>1, <1>2, <1>3, <1>4, <1>5, RequestFacts

\* While no request of c is under way, its connections are in its keyspace.
LEMMA AtRest ==
    ASSUME NEW c \in Clients, KeyspaceInv(c), answer[c] # None
    PROVE  \A cl \in Clusters : connKeyspace[c][cl] = currentKeyspace[c]
BY Zenon DEF KeyspaceInv, Moved

LEMMA MissStep ==
    ASSUME Inv, NEW c \in Clients, CanSend(c), NEW r \in ClientRequests, CacheMiss(c, r)
    PROVE  ClientInv(c)' /\ answer[c]' \in Responses
<1>1. PICK i \in r.ids : answer[c]' = [kind |-> "unprepared", arg |-> i]
    BY Zenon, MissFacts DEF Inv
<1>2. answer[c]' \in Responses /\ answer[c]' # None
    BY <1>1, RequestFacts, NoneIsApart DEF Responses, AnyIds
<1>3. /\ Begun(c, r) /\ info[c]' = None /\ \A conn \in Connectors : sent[c][conn]' = None
    BY Zenon, MissFacts DEF Inv
<1>4. KeyspaceInv(c)'
    BY ZenonT(60), <1>2, <1>3, AtRest DEF Inv, ClientInv, CanSend, KeyspaceInv, Moved, Begun
<1>5. SentInv(c)' /\ WaitInv(c)' /\ RoutedInv(c)' /\ AckedInv(c)'
    BY <1>1, <1>2, <1>3 DEF SentInv, WaitInv, RoutedInv, AckedInv, Answered, Connectors, Clusters
<1>6. ResponseInv(c)'
    BY Zenon, <1>3 DEF ResponseInv, Begun
<1>. QED BY Zenon, <1>2, <1>4, <1>5, <1>6 DEF ClientInv

LEMMA InterceptStep ==
    ASSUME Inv, NEW c \in Clients, CanSend(c), NEW r \in ClientRequests,
           NEW inf, inf = buildRequestInfo(r, currentKeyspace[c]), handleInterceptedRequest(c, r, inf)
    PROVE  ClientInv(c)' /\ answer[c]' \in Responses
<1>0. currentKeyspace[c] \in Keys
    BY Zenon DEF Inv, ShapeInv
<1>1. /\ Begun(c, r) /\ info[c]' = inf /\ inf.decision = "none" /\ \A conn \in Connectors : sent[c][conn]' = None
      /\ \A i \in r.ids : Cached(i)
    BY ZenonT(60), InterceptFacts DEF Inv
<1>2. \/ r.op = "prepare" /\ answer[c]' = [kind |-> "prepared", arg |-> PreparedId("proxy", r.stmt, currentKeyspace[c])]
      \/ r.op # "prepare" /\ answer[c]' = [kind |-> "result", arg |-> None]
      \/ answer[c]' = [kind |-> "error", arg |-> None]
    BY Zenon, InterceptFacts DEF Inv
<1>3. answer[c]' \in Responses /\ answer[c]' # None
  <2>1. r.op = "prepare" => PreparedId("proxy", r.stmt, currentKeyspace[c]) \in AnyIds
    BY Zenon, <1>0, RequestFacts, PreparedFacts DEF AnyIds, InterceptedIds
  <2>. QED BY <1>2, <2>1, NoneIsApart DEF Responses
<1>4. KeyspaceInv(c)'
    BY ZenonT(60), <1>1, <1>3, AtRest DEF Inv, ClientInv, CanSend, KeyspaceInv, Moved, Begun
<1>5. SentInv(c)' /\ WaitInv(c)'
    BY Zenon, <1>1, <1>3 DEF SentInv, WaitInv, Connectors, Clusters
<1>6. ResponseInv(c)'
    BY Zenon, <1>1 DEF ResponseInv, Begun
<1>7. (r.op = "execute" => \A i \in r.ids : inf = Route(i)) /\ (r.op # "prepare" => WritesOf(r, currentKeyspace[c]) = {})
    BY <1>0, <1>1, BuildFacts DEF Inv
<1>8. RoutedInv(c)'
    BY Zenon, <1>1, <1>7 DEF RoutedInv, Begun
<1>9. AckedInv(c)'
    BY Zenon, <1>1, <1>7 DEF AckedInv, Begun, AskedWrites, WritesOf, Clusters
<1>. QED BY Zenon, <1>3, <1>4, <1>5, <1>6, <1>8, <1>9 DEF ClientInv

\* A request is sent with the ids of each cluster and one time uuid.
LEMMA ExecuteStep ==
    ASSUME Inv, NEW c \in Clients, CanSend(c), NEW r \in ClientRequests,
           NEW inf, inf = buildRequestInfo(r, currentKeyspace[c]), executeRequest(c, r, inf)
    PROVE  /\ ClientInv(c)' /\ answer[c]' = None
           /\ \A conn \in Connectors : sent[c][conn]' \in Messages \cup {None}
<1>. DEFINE uuid == TimeUuid(r)
<1>0. currentKeyspace[c] \in Keys
    BY Zenon DEF Inv, ShapeInv
<1>1. /\ Begun(c, r) /\ info[c]' = inf /\ answer[c]' = None /\ UNCHANGED psCache
      /\ \A i \in r.ids : Cached(i)
      /\ \A conn \in Connectors : sent[c][conn]' =
            IF conn \in ConnectorsOf(inf) THEN RequestTo(ClusterOf(conn), r, uuid) ELSE None
    BY ExecuteFacts DEF Inv
<1>2. inf.decision # "none"
    BY Zenon, ExecuteFacts DEF Inv
<1>3. /\ Decided(r, inf, currentKeyspace[c]) /\ \A i \in r.ids : i \in DOMAIN cache /\ Get(i) = cache[i]
      /\ r.op = "execute" => \A i \in r.ids : inf = Route(i)
    BY <1>0, <1>1, <1>2, BuildFacts DEF Inv
<1>4. \A i \in r.ids : /\ i \in Ids("origin") /\ Twin(i, Get(i).target) /\ Get(i).target \in DOMAIN index
                       /\ Get(i).replaced = requiresQueryReplacement(i.stmt)
    BY <1>3 DEF Inv, CacheInv
<1>5. \A cl \in Clusters : IdsSent(cl, r.ids, RequestTo(cl, r, uuid).ids)
    BY Zenon, <1>4 DEF IdsSent, RequestTo, TargetIds, Clusters
<1>6. ReplaceCqlFunctions /\ r.op # "prepare" /\ uuid = None => NoNow(r)
  <2>1. SUFFICES ASSUME ReplaceCqlFunctions, r.op # "prepare", ~NeedsTimeUuid(r) PROVE NoNow(r)
    <3>1. CASE NeedsTimeUuid(r)
      <4>1. uuid \in TimeUuids
        BY <3>1, ConstantsAssumption DEF TimeUuid, TimeUuids, Inv, ShapeInv
      <4>. QED BY Zenon, <4>1, NoneIsApart
    <3>. QED BY Zenon, <2>1, <3>1
  <2>2. \A i \in r.ids : ~i.stmt.now
    BY Zenon, <1>4, <2>1 DEF NeedsTimeUuid, requiresQueryReplacement
  <2>3. r.stmt # None => ~r.stmt.now
    BY Zenon, <2>1, RequestFacts DEF NeedsTimeUuid, requiresQueryReplacement
  <2>. QED BY Zenon, <2>2, <2>3 DEF NoNow
<1>7. ASSUME NEW cl \in Clusters
      PROVE  SentAs(r, cl, RequestTo(cl, r, uuid)) /\ RequestTo(cl, r, uuid) \in Messages
  <2>1. SentAs(r, cl, RequestTo(cl, r, uuid))
    BY Zenon, <1>5, <1>6 DEF SentAs, RequestTo
  <2>2. uuid \in TimeUuids \cup {None}
    BY ConstantsAssumption DEF TimeUuid, TimeUuids, Inv, ShapeInv
  <2>3. RequestTo(cl, r, uuid).ids \subseteq AnyIds
    BY Zenon, <1>4 DEF RequestTo, TargetIds, AnyIds, Twin
  <2>. QED BY Zenon, <2>1, <2>2, <2>3, RequestFacts DEF RequestTo, Messages
<1>8. \A conn \in Connectors : ClusterOf(conn) \in Clusters
    BY Zenon DEF Connectors, ClusterOf, Clusters, Secondary
<1>9. \A conn \in Connectors : sent[c][conn]' \in Messages \cup {None}
    BY Zenon, <1>1, <1>7, <1>8
<1>10. SentInv(c)'
  <2>1. ASSUME NEW conn \in Connectors, sent[c][conn]' # None
        PROVE  request[c]' # None /\ SentAs(request[c], ClusterOf(conn), sent[c][conn])'
    <3>1. sent[c][conn]' = RequestTo(ClusterOf(conn), r, uuid) /\ request[c]' = r
        BY Zenon, <1>1, <2>1 DEF Begun
    <3>2. SentAs(r, ClusterOf(conn), RequestTo(ClusterOf(conn), r, uuid))
        BY Zenon, <1>7, <1>8
    <3>3. index' = index /\ request[c]' # None
        BY Zenon, <1>1, <3>1, NoneIsApart DEF psCache
    <3>. HIDE DEF uuid
    <3>4. SentAs(request[c], ClusterOf(conn), sent[c][conn])' = SentAs(r, ClusterOf(conn), RequestTo(ClusterOf(conn), r, uuid))
        BY Zenon, <3>1, <3>3 DEF SentAs, IdsSent
    <3>. QED BY Zenon, <3>2, <3>3, <3>4
  <2>2. sent[c]["origin"]' # None /\ sent[c]["target"]' # None => sent[c]["origin"].uuid' = sent[c]["target"].uuid'
    BY <1>1 DEF RequestTo, Connectors, Clusters
  <2>. QED BY Zenon, <2>1, <2>2 DEF SentInv
<1>11. WaitInv(c)'
  <2>1. \A cl \in Clusters : cl \in ConnectorsOf(inf) <=> inf.decision \in {cl, "both"}
    BY Zenon, <1>3 DEF ConnectorsOf, Decided, Clusters
  <2>2. \A cl \in Clusters : sent[c][cl]' # None <=> inf.decision \in {cl, "both"}
    BY Zenon, <1>1, <1>7, <2>1, NoneIsApart DEF Connectors, ClusterOf, Clusters
  <2>. QED BY Zenon, <1>1, <1>3, <2>2, NoneIsApart DEF WaitInv, Begun
<1>12. KeyspaceInv(c)'
    BY ZenonT(60), <1>1, AtRest DEF Inv, ClientInv, CanSend, KeyspaceInv, Moved, Begun
<1>13. ResponseInv(c)' /\ RoutedInv(c)' /\ AckedInv(c)'
    BY Zenon, <1>1, <1>3 DEF ResponseInv, RoutedInv, AckedInv, Answered, Begun
<1>. QED BY Zenon, <1>1, <1>9, <1>10, <1>11, <1>12, <1>13 DEF ClientInv

\* A cluster answers what it was sent, in the keyspace of the client.
LEMMA ServeStep ==
    ASSUME UsesSucceed, Inv, NEW c \in Clients, NEW cl \in Clusters, Serve(c, cl)
    PROVE  ClientInv(c)' /\ response[c][cl]' \in Responses /\ connKeyspace[c][cl]' \in Keys
<1>. DEFINE m == sent[c][cl] k == currentKeyspace[c] x == response[c][cl]'
<1>0. /\ answer[c] = None /\ m # None /\ response[c][cl] = None /\ effect[c][cl] = {}
      /\ request[c]' = request[c] /\ info[c]' = info[c] /\ sent[c]' = sent[c]
      /\ answer[c]' = answer[c] /\ currentKeyspace[c]' = currentKeyspace[c] /\ UNCHANGED psCache
      /\ \A o \in Clusters : o # cl => response[c][o]' = response[c][o] /\ Silent(c, o)
    BY Zenon, ServeFacts DEF Inv, ClientInv, ResponseInv
<1>1. /\ cl \in Connectors /\ ClusterOf(cl) = cl /\ request[c] # None /\ SentAs(request[c], cl, m)
      /\ request[c] \in ClientRequests /\ m \in Messages /\ k \in Keys
    BY <1>0 DEF Inv, ClientInv, SentInv, ShapeInv, Connectors, ClusterOf, Clusters
<1>2. connKeyspace[c][cl] = k
    BY Zenon, <1>0 DEF Inv, ClientInv, KeyspaceInv, Moved
<1>3. /\ m.op = request[c].op /\ m.stmt = request[c].stmt /\ m.ids \subseteq AnyIds
      /\ m.op = "prepare" => m.stmt \in Preparable /\ m.ids = {}
      /\ Kind(m) = "use" => m.stmt \in Statements /\ m.ids = {} /\ m.op = "query"
      /\ m.op \in {"options", "register"} => WritesOf(m, k) = {} /\ m.ids = {}
      /\ m.stmt # None => m.stmt \in Statements
  <2>1. request[c].ids = {} => m.ids = {}
    BY Zenon, <1>1 DEF SentAs, IdsSent, Clusters
  <2>2. m.op = request[c].op /\ m.stmt = request[c].stmt /\ m.ids \subseteq AnyIds
    BY Zenon, <1>1 DEF SentAs, Messages
  <2>3. m.op \in {"options", "register"} => WritesOf(m, k) = {}
    BY Zenon, <1>1, <2>1, <2>2, RequestFacts DEF WritesOf, Work
  <2>. QED BY Zenon, <1>1, <2>1, <2>2, <2>3, RequestFacts DEF Kind
<1>4. AnswerTo(cl, m, k, x, effect[c][cl]') /\ x \in Responses /\ connKeyspace[c][cl]' \in Keys
      /\ connKeyspace[c][cl]' = IF x.kind = "keyspace" THEN m.stmt.keyspace ELSE k
  <2>1. CASE Failed(c, cl)
    <3>1. /\ x = [kind |-> "error", arg |-> None] /\ Kind(m) # "use"
          /\ effect[c][cl]' = {} /\ connKeyspace[c][cl]' = k
        BY Zenon, <1>0, <1>2, <2>1 DEF UsesSucceed, Failed, Silent
    <3>2. x \in Responses /\ x.kind = "error"
        BY <3>1 DEF Responses
    <3>. QED BY Zenon, <1>1, <3>1, <3>2 DEF AnswerTo
  <2>2. CASE Prepared(c, cl)
    <3>1. /\ x = [kind |-> "prepared", arg |-> PreparedId(cl, m.stmt, k)] /\ m.op = "prepare" /\ Kind(m) = "prepare"
          /\ effect[c][cl]' = {} /\ connKeyspace[c][cl]' = k
        BY ZenonT(60), <1>0, <1>2, <2>2 DEF Prepared, Kind, Silent
    <3>2. PreparedId(cl, m.stmt, k) \in AnyIds
        BY Zenon, <1>1, <1>3, <3>1, PreparedFacts DEF AnyIds, Clusters
    <3>3. x \in Responses /\ x.kind = "prepared" /\ x.arg = PreparedId(cl, m.stmt, k)
        BY <3>1, <3>2 DEF Responses
    <3>. QED BY Zenon, <1>1, <3>1, <3>3 DEF AnswerTo
  <2>3. CASE Unknown(c, cl)
    <3>1. PICK i \in m.ids : x = [kind |-> "unprepared", arg |-> i]
        BY Zenon, <2>3 DEF Unknown
    <3>2. m.op \notin {"prepare", "options"} /\ Kind(m) # "use" /\ i \in AnyIds
        BY Zenon, <1>3, <3>1
    <3>3. effect[c][cl]' = {} /\ connKeyspace[c][cl]' = k
        BY Zenon, <1>0, <1>2, <2>3 DEF Unknown, Silent
    <3>4. x \in Responses /\ x.kind = "unprepared" /\ x.arg = i
        BY <3>1, <3>2 DEF Responses
    <3>. QED BY Zenon, <1>1, <3>1, <3>2, <3>3, <3>4 DEF AnswerTo
  <2>4. CASE Used(c, cl)
    <3>1. /\ x = [kind |-> "keyspace", arg |-> m.stmt.keyspace] /\ Kind(m) = "use" /\ m.op = "query"
          /\ effect[c][cl]' = {} /\ connKeyspace[c][cl]' = m.stmt.keyspace
        BY Zenon, <1>0, <1>3, <2>4 DEF Used
    <3>2. m.stmt.keyspace \in Keys
        BY Zenon, <1>3, <3>1, ConstantsAssumption DEF Keys
    <3>3. x \in Responses /\ x.kind = "keyspace" /\ x.arg = m.stmt.keyspace
        BY <3>1, <3>2 DEF Responses, Keys
    <3>. QED BY Zenon, <3>1, <3>2, <3>3 DEF AnswerTo
  <2>5. CASE Ran(c, cl)
    <3>1. /\ x = [kind |-> "result", arg |-> None] /\ Kind(m) # "use" /\ m.op \notin {"prepare", "options"}
          /\ effect[c][cl]' = Written(cl, m, k) /\ connKeyspace[c][cl]' = k
        BY Zenon, <1>2, <2>5 DEF Ran
    <3>2. x \in Responses /\ x.kind = "result"
        BY <3>1 DEF Responses
    <3>. QED BY Zenon, <1>1, <3>1, <3>2 DEF AnswerTo
  <2>6. CASE Noted(c, cl)
    <3>1. /\ Written(cl, m, k) = {} /\ Kind(m) = m.op /\ effect[c][cl]' = {} /\ connKeyspace[c][cl]' = k
        BY Zenon, <1>0, <1>2, <1>3, <2>6 DEF Written, Noted, Kind, Silent
    <3>2. /\ x \in Responses /\ m.op # "prepare" /\ Kind(m) # "use"
          /\ \/ m.op = "options" /\ x.kind = "supported"
             \/ m.op = "register" /\ x.kind = "result"
        BY <2>6, <3>1 DEF Responses, Noted
    <3>. QED BY Zenon, <1>1, <3>1, <3>2 DEF AnswerTo
  <2>. QED BY ZenonT(60), <2>1, <2>2, <2>3, <2>4, <2>5, <2>6, ServeFacts DEF Inv
<1>5. x # None
    BY Zenon, <1>4, NoneIsApart
<1>6. KeyspaceInv(c)'
  <2>1. ASSUME NEW o \in Clusters
        PROVE  connKeyspace[c][o]' = IF Moved(c, o)' THEN request[c].stmt.keyspace ELSE k
    <3>1. CASE o = cl
        BY ZenonT(60), <1>0, <1>3, <1>4, <1>5, <3>1 DEF Moved
    <3>2. CASE o # cl
      <4>1. connKeyspace[c][o] = IF Moved(c, o) THEN request[c].stmt.keyspace ELSE k
        BY Zenon DEF Inv, ClientInv, KeyspaceInv
      <4>2. connKeyspace[c][o]' = connKeyspace[c][o] /\ (Moved(c, o)' <=> Moved(c, o))
        BY Zenon, <1>0, <3>2 DEF Silent, Moved
      <4>. QED BY Zenon, <4>1, <4>2
    <3>. QED BY Zenon, <3>1, <3>2
  <2>. QED BY Zenon, <1>0, <2>1 DEF KeyspaceInv
<1>7. SentInv(c)' /\ WaitInv(c)' /\ RoutedInv(c)' /\ AckedInv(c)'
  <2>1. SentInv(c)'
    BY <1>0 DEF Inv, ClientInv, SentInv, SentAs, IdsSent, psCache
  <2>2. WaitInv(c)' /\ RoutedInv(c)'
    BY Zenon, <1>0 DEF Inv, ClientInv, WaitInv, RoutedInv
  <2>3. AckedInv(c)'
    BY Zenon, <1>0 DEF AckedInv, Answered
  <2>. QED BY Zenon, <2>1, <2>2, <2>3
<1>8. ResponseInv(c)'
  <2>1. ASSUME NEW o \in Clusters
        PROVE  IF response[c][o]' = None THEN effect[c][o]' = {}
               ELSE sent[c][o] # None /\ AnswerTo(o, sent[c][o], k, response[c][o]', effect[c][o]')
    <3>1. CASE o = cl
        BY Zenon, <1>0, <1>4, <1>5, <3>1
    <3>2. CASE o # cl
        BY Zenon, <1>0, <3>2 DEF Inv, ClientInv, ResponseInv, Silent
    <3>. QED BY Zenon, <3>1, <3>2
  <2>. QED BY Zenon, <1>0, <2>1 DEF ResponseInv
<1>. QED BY Zenon, <1>4, <1>6, <1>7, <1>8 DEF ClientInv

\* A cluster is asked to do what the client asked.
LEMMA SameWork ==
    ASSUME NEW cl \in Clusters, NEW r, NEW m, SentAs(r, cl, m), NEW k
    PROVE  WritesOf(m, k) = WritesOf(r, k)
<1>1. m.stmt = r.stmt /\ IdsSent(cl, r.ids, m.ids)
    BY Zenon DEF SentAs
<1>2. {IdMeaning(i) : i \in m.ids} = {IdMeaning(i) : i \in r.ids}
  <2>1. CASE cl = "origin"
    BY Zenon, <1>1, <2>1 DEF IdsSent
  <2>2. CASE cl = "target"
    BY <1>1, <2>2 DEF IdsSent, Twin
  <2>. QED BY Zenon, <2>1, <2>2 DEF Clusters
<1>3. Work(m, k) = Work(r, k)
    BY Zenon, <1>1, <1>2 DEF Work, IdMeaning
<1>. QED BY Zenon, <1>3 DEF WritesOf

\* The answer that becomes the client's; a success stands for all that was asked.
LEMMA ChosenFacts ==
    ASSUME Inv, NEW c \in Clients, finishRequest(c), NEW cl, cl = computeClientResponse(c)
    PROVE  /\ answer[c] = None /\ cl \in Clusters /\ sent[c][cl] # None /\ response[c][cl] # None
           /\ info[c].decision # "both" => info[c].decision = cl
           /\ info[c].decision = "both" =>
                 \A o \in Clusters : /\ sent[c][o] # None /\ response[c][o] # None
                                     /\ isResponseSuccessful(response[c][cl]) => isResponseSuccessful(response[c][o])
<1>1. /\ answer[c] = None /\ \A o \in Clusters : sent[c][o] # None => response[c][o] # None
    BY Zenon, FinishFacts DEF Inv
<1>2. /\ info[c].decision \in {"both", "origin", "target"}
      /\ \A o \in Clusters : sent[c][o] # None <=> info[c].decision \in {o, "both"}
    BY Zenon, <1>1 DEF Inv, ClientInv, WaitInv, Decided
<1>3. CASE info[c].decision = "both"
  <2>1. cl = aggregateAndTrackResponses(request[c].op, response[c]["origin"], response[c]["target"])
    BY Zenon, <1>3 DEF computeClientResponse
  <2>2. /\ cl \in Clusters
        /\ isResponseSuccessful(response[c][cl]) =>
              isResponseSuccessful(response[c]["origin"]) /\ isResponseSuccessful(response[c]["target"])
    BY Zenon, <2>1, ConstantsAssumption DEF aggregateAndTrackResponses, Clusters
  <2>. QED BY Zenon, <1>1, <1>2, <1>3, <2>2 DEF Clusters
<1>4. CASE info[c].decision # "both"
    BY Zenon, <1>1, <1>2, <1>4 DEF computeClientResponse, Clusters
<1>. QED BY Zenon, <1>1, <1>3, <1>4

\* What each cluster that was asked has answered, and to what.
LEMMA AnsweredFacts ==
    ASSUME Inv, NEW c \in Clients, answer[c] = None, NEW o \in Clusters, response[c][o] # None
    PROVE  /\ request[c] \in ClientRequests /\ sent[c][o] \in Messages /\ response[c][o] \in Responses
           /\ SentAs(request[c], o, sent[c][o]) /\ Kind(sent[c][o]) = Kind(request[c])
           /\ AnswerTo(o, sent[c][o], currentKeyspace[c], response[c][o], effect[c][o])
<1>1. /\ sent[c][o] # None
      /\ AnswerTo(o, sent[c][o], currentKeyspace[c], response[c][o], effect[c][o])
    BY Zenon DEF Inv, ClientInv, ResponseInv
<1>2. o \in Connectors /\ ClusterOf(o) = o
    BY Zenon DEF Connectors, ClusterOf, Clusters
<1>3. request[c] # None /\ SentAs(request[c], o, sent[c][o])
    BY Zenon, <1>1, <1>2 DEF Inv, ClientInv, SentInv
<1>4. request[c] \in ClientRequests /\ sent[c][o] \in Messages /\ response[c][o] \in Responses
    BY <1>1, <1>2, <1>3 DEF Inv, ShapeInv
<1>. QED BY Zenon, <1>1, <1>3, <1>4 DEF SentAs, Kind

\* Both clusters prepared the statement in the keyspace of the client.
LEMMA PreparedOnBoth ==
    ASSUME Inv, NEW c \in Clients, finishRequest(c), NEW cl, cl = computeClientResponse(c),
           response[c][cl].kind = "prepared"
    PROVE  /\ request[c] \in ClientRequests /\ request[c].op = "prepare" /\ request[c].stmt \in Preparable
           /\ \A o \in Clusters : /\ response[c][o] # None /\ response[c][o].kind = "prepared"
                                  /\ response[c][o].arg = PreparedId(o, request[c].stmt, currentKeyspace[c])
           /\ info[c].base = getRequestInfoFromQueryInfo(request[c].stmt, currentKeyspace[c])
           /\ info[c].base.decision # "none"
<1>1. answer[c] = None /\ cl \in Clusters /\ response[c][cl] # None
    BY Zenon, ChosenFacts
<1>2. request[c] \in ClientRequests /\ request[c].op = "prepare" /\ request[c].stmt \in Preparable
  <2>1. /\ request[c] \in ClientRequests /\ SentAs(request[c], cl, sent[c][cl])
        /\ AnswerTo(cl, sent[c][cl], currentKeyspace[c], response[c][cl], effect[c][cl])
    BY Zenon, <1>1, AnsweredFacts
  <2>2. request[c].op = "prepare"
    BY Zenon, <2>1 DEF AnswerTo, SentAs
  <2>. QED BY Zenon, <2>1, <2>2, RequestFacts
<1>3. /\ info[c].decision = "both" /\ info[c].base.decision # "none"
      /\ info[c].base = getRequestInfoFromQueryInfo(request[c].stmt, currentKeyspace[c])
    BY Zenon, <1>1, <1>2 DEF Inv, ClientInv, WaitInv, Decided
<1>4. ASSUME NEW o \in Clusters
      PROVE  /\ response[c][o] # None /\ response[c][o].kind = "prepared"
             /\ response[c][o].arg = PreparedId(o, request[c].stmt, currentKeyspace[c])
  <2>1. response[c][o] # None /\ isResponseSuccessful(response[c][o])
    BY Zenon, <1>3, ChosenFacts DEF isResponseSuccessful
  <2>2. /\ AnswerTo(o, sent[c][o], currentKeyspace[c], response[c][o], effect[c][o])
        /\ sent[c][o].op = "prepare" /\ sent[c][o].stmt = request[c].stmt
    BY Zenon, <1>1, <1>2, <2>1, AnsweredFacts DEF SentAs
  <2>. QED BY Zenon, <2>1, <2>2 DEF AnswerTo, isResponseSuccessful
<1>. QED BY Zenon, <1>2, <1>3, <1>4

\* A result stands for the writes of both clusters, with one value of now().
LEMMA ResultAcked ==
    ASSUME Inv, NEW c \in Clients, finishRequest(c), NEW cl, cl = computeClientResponse(c),
           response[c][cl].kind = "result"
    PROVE  /\ \A o \in Clusters : {e.write : e \in effect[c][o]} = AskedWrites(c)
           /\ ReplaceCqlFunctions => effect[c]["origin"] = effect[c]["target"]
<1>. DEFINE r == request[c] k == currentKeyspace[c]
<1>1. answer[c] = None /\ cl \in Clusters /\ response[c][cl] # None
    BY Zenon, ChosenFacts
<1>2. AskedWrites(c) = WritesOf(r, k)
    BY Zenon DEF AskedWrites, WritesOf
<1>3. r \in ClientRequests /\ r.op # "prepare" /\ Kind(r) # "use" /\ Decided(r, info[c], k)
  <2>1. /\ r \in ClientRequests /\ SentAs(r, cl, sent[c][cl]) /\ Kind(sent[c][cl]) = Kind(r)
        /\ AnswerTo(cl, sent[c][cl], k, response[c][cl], effect[c][cl])
    BY Zenon, <1>1, AnsweredFacts
  <2>2. Decided(r, info[c], k)
    BY Zenon, <1>1 DEF Inv, ClientInv, WaitInv
  <2>3. r.op # "prepare" /\ Kind(r) # "use"
    BY <2>1 DEF AnswerTo, SentAs
  <2>. QED BY Zenon, <2>1, <2>2, <2>3
<1>4. ASSUME NEW o \in Clusters, response[c][o] # None, response[c][o].kind = "result"
      PROVE  /\ effect[c][o] = {[write |-> w, now |-> NowValue(o, w.stmt, sent[c][o].uuid)] : w \in WritesOf(r, k)}
             /\ {e.write : e \in effect[c][o]} = WritesOf(r, k)
  <2>1. effect[c][o] = {[write |-> w, now |-> NowValue(o, w.stmt, sent[c][o].uuid)] : w \in WritesOf(r, k)}
    <3>1. SentAs(r, o, sent[c][o]) /\ AnswerTo(o, sent[c][o], k, response[c][o], effect[c][o])
        BY Zenon, <1>1, <1>4, AnsweredFacts
    <3>2. effect[c][o] = Written(o, sent[c][o], k)
        BY ZenonT(60), <1>4, <3>1 DEF AnswerTo
    <3>3. WritesOf(sent[c][o], k) = WritesOf(r, k)
        BY <3>1, SameWork
    <3>. QED BY Zenon, <3>2, <3>3 DEF Written
  <2>. DEFINE W == WritesOf(r, k) N(w) == NowValue(o, w.stmt, sent[c][o].uuid)
  <2>2. effect[c][o] = {[write |-> w, now |-> N(w)] : w \in W}
    BY Zenon, <2>1
  <2>. HIDE DEF W, N
  <2>3. {e.write : e \in effect[c][o]} = W
    <3>1. ASSUME NEW w \in W PROVE \E e \in effect[c][o] : e.write = w
      <4>1. [write |-> w, now |-> N(w)] \in effect[c][o]
        BY ZenonT(60), <2>2
      <4>. QED BY Zenon, <4>1
    <3>2. \A e \in effect[c][o] : e.write \in W
        BY <2>2
    <3>. QED BY Zenon, <3>1, <3>2
  <2>. QED BY Zenon, <2>1, <2>3 DEF W
<1>5. CASE info[c].decision = "both"
  <2>1. ASSUME NEW o \in Clusters PROVE response[c][o] # None /\ response[c][o].kind = "result"
    <3>1. response[c][o] # None /\ isResponseSuccessful(response[c][o])
        BY Zenon, <1>5, ChosenFacts DEF isResponseSuccessful
    <3>2. /\ AnswerTo(o, sent[c][o], k, response[c][o], effect[c][o]) /\ Kind(sent[c][o]) # "use"
          /\ sent[c][o].op = r.op
        BY Zenon, <1>1, <1>3, <3>1, AnsweredFacts DEF SentAs
    <3>3. r.op # "options"
      <4>1. SentAs(r, cl, sent[c][cl]) /\ AnswerTo(cl, sent[c][cl], k, response[c][cl], effect[c][cl])
        BY Zenon, <1>1, AnsweredFacts
      <4>. QED BY Zenon, <4>1 DEF SentAs, AnswerTo
    <3>. QED BY Zenon, <1>3, <3>1, <3>2, <3>3 DEF AnswerTo, isResponseSuccessful
  <2>2. \A o \in Clusters : {e.write : e \in effect[c][o]} = AskedWrites(c)
    BY Zenon, <1>2, <1>4, <2>1
  <2>3. ASSUME ReplaceCqlFunctions PROVE effect[c]["origin"] = effect[c]["target"]
    <3>1. sent[c]["origin"].uuid = sent[c]["target"].uuid
        BY Zenon, <1>5, ChosenFacts DEF Inv, ClientInv, SentInv, Clusters
    <3>. DEFINE u == sent[c]["origin"].uuid
    <3>2. \A w \in WritesOf(r, k) : NowValue("origin", w.stmt, u) = NowValue("target", w.stmt, u)
      <4>1. CASE u # None
        BY Zenon, <4>1 DEF NowValue
      <4>2. CASE u = None
        <5>1. NoNow(r)
            BY Zenon, <1>1, <1>3, <2>1, <2>3, <4>2, AnsweredFacts DEF SentAs, Clusters
        <5>2. \A w \in WritesOf(r, k) : ~w.stmt.now
            BY <5>1 DEF NoNow, WritesOf, Work, Meaning
        <5>. QED BY Zenon, <5>2 DEF NowValue
      <4>. QED BY Zenon, <4>1, <4>2
    <3>3. /\ effect[c]["origin"] = {[write |-> w, now |-> NowValue("origin", w.stmt, u)] : w \in WritesOf(r, k)}
          /\ effect[c]["target"] = {[write |-> w, now |-> NowValue("target", w.stmt, u)] : w \in WritesOf(r, k)}
        BY Zenon, <1>4, <2>1, <3>1 DEF Clusters
    <3>. QED BY Zenon, <3>2, <3>3
  <2>. QED BY Zenon, <2>2, <2>3
<1>6. CASE info[c].decision # "both"
  <2>1. WritesOf(r, k) = {}
    BY <1>3, <1>6 DEF WritesOf, Work, Meaning, Decided
  <2>2. effect[c][cl] = {}
    BY Zenon, <1>1, <1>4, <2>1
  <2>3. \A o \in Clusters : o # cl => response[c][o] = None
    BY ZenonT(60), <1>1, <1>6, ChosenFacts DEF Inv, ClientInv, WaitInv, ResponseInv, Clusters
  <2>4. \A o \in Clusters : effect[c][o] = {}
    BY Zenon, <2>2, <2>3 DEF Inv, ClientInv, ResponseInv
  <2>. QED BY Zenon, <1>2, <2>1, <2>4 DEF Clusters
<1>. QED BY Zenon, <1>5, <1>6

\* The answer of the clusters becomes the client's.
LEMMA FinishStep ==
    ASSUME Inv, NEW c \in Clients, finishRequest(c)
    PROVE  /\ ClientInv(c)' /\ CacheInv' /\ DOMAIN index \subseteq DOMAIN index'
           /\ answer[c]' \in Responses /\ currentKeyspace[c]' \in Keys
           /\ fresh[c]' \subseteq Ids("origin") \cup InterceptedIds
<1>. DEFINE cl == computeClientResponse(c) x == response[c][cl] k == currentKeyspace[c]
<1>0. k \in Keys /\ fresh[c] \subseteq Ids("origin") \cup InterceptedIds
    BY Zenon DEF Inv, ShapeInv
<1>1. /\ answer[c] = None /\ cl \in Clusters /\ x # None
      /\ request[c]' = request[c] /\ info[c]' = info[c] /\ sent[c]' = sent[c]
      /\ response[c]' = response[c] /\ effect[c]' = effect[c] /\ connKeyspace[c]' = connKeyspace[c]
    BY ZenonT(60), FinishKept, ChosenFacts
<1>2. /\ request[c] \in ClientRequests /\ x \in Responses /\ SentAs(request[c], cl, sent[c][cl])
      /\ Kind(sent[c][cl]) = Kind(request[c]) /\ AnswerTo(cl, sent[c][cl], k, x, effect[c][cl])
    BY Zenon, <1>1, AnsweredFacts
<1>3. x.kind # "keyspace" => \A o \in Clusters : connKeyspace[c][o] = k
  <2>1. SUFFICES ASSUME x.kind # "keyspace", NEW o \in Clusters PROVE ~Moved(c, o)
    BY Zenon DEF Inv, ClientInv, KeyspaceInv
  <2>2. response[c][o] # None => response[c][o].kind # "keyspace"
    <3>1. SUFFICES ASSUME response[c][o] # None PROVE response[c][o].kind # "keyspace"
        BY Zenon
    <3>2. AnswerTo(o, sent[c][o], k, response[c][o], effect[c][o]) /\ Kind(sent[c][o]) = Kind(request[c])
        BY Zenon, <1>1, <3>1, AnsweredFacts
    <3>. QED BY Zenon, <1>2, <2>1, <3>2 DEF AnswerTo
  <2>. QED BY Zenon, <2>2 DEF Moved
<1>. DEFINE Settled == /\ CacheInv' /\ DOMAIN index \subseteq DOMAIN index' /\ answer[c]' \in Responses
                       /\ fresh[c]' \subseteq Ids("origin") \cup InterceptedIds
<1>4. ASSUME Settled, x.kind # "keyspace", currentKeyspace[c]' = k, AckedInv(c)' PROVE ClientInv(c)'
  <2>1. answer[c]' # None
    BY Zenon, <1>4, NoneIsApart
  <2>2. KeyspaceInv(c)'
    BY Zenon, <1>1, <1>3, <1>4, <2>1 DEF KeyspaceInv, Moved
  <2>3. SentInv(c)'
    BY ZenonT(60), <1>1, <1>4 DEF Inv, ClientInv, SentInv, SentAs, IdsSent
  <2>4. WaitInv(c)' /\ ResponseInv(c)' /\ RoutedInv(c)'
    BY Zenon, <1>1, <1>4, <2>1 DEF Inv, ClientInv, WaitInv, ResponseInv, RoutedInv
  <2>. QED BY Zenon, <1>4, <2>2, <2>3, <2>4 DEF ClientInv
<1>5. CASE /\ x.kind = "prepared" /\ currentKeyspace[c]' = k
           /\ LET originId == response[c]["origin"].arg targetId == response[c]["target"].arg
              IN  /\ Store(originId, targetId, info[c].base, requiresQueryReplacement(request[c].stmt))
                  /\ answer[c]' = [kind |-> "prepared", arg |-> originId]
                  /\ fresh[c]' = IF originId \in nodes["origin"] /\ targetId \in nodes["target"]
                                 THEN fresh[c] \cup {originId} ELSE fresh[c]
  <2>. DEFINE o == response[c]["origin"].arg t == response[c]["target"].arg s == request[c].stmt
  <2>1. /\ s \in Preparable /\ o = PreparedId("origin", s, k) /\ t = PreparedId("target", s, k)
        /\ info[c].base = getRequestInfoFromQueryInfo(s, k) /\ info[c].base.decision # "none"
    BY Zenon, <1>5, PreparedOnBoth DEF Clusters
  <2>2. CacheInv' /\ DOMAIN index \subseteq DOMAIN index'
    BY Zenon, <1>0, <1>5, <2>1, StoreKept DEF Inv
  <2>3. o \in Ids("origin") /\ answer[c]' \in Responses
    <3>1. o \in Ids("origin")
        BY <1>0, <2>1, PreparedFacts
    <3>2. o \in AnyIds
        BY Zenon, <3>1 DEF AnyIds
    <3>. QED BY <1>5, <3>1, <3>2 DEF Responses
  <2>4. AckedInv(c)'
    BY <1>5 DEF AckedInv, Answered
  <2>5. Settled
    BY Zenon, <1>0, <1>5, <2>2, <2>3
  <2>. QED BY Zenon, <1>0, <1>4, <1>5, <2>4, <2>5
<1>6. CASE x.kind = "keyspace" /\ currentKeyspace[c]' = x.arg /\ answer[c]' = x /\ UNCHANGED <<psCache, fresh>>
  <2>1. /\ Kind(request[c]) = "use" /\ sent[c][cl].stmt = request[c].stmt /\ x.arg = request[c].stmt.keyspace
        /\ request[c].stmt \in Statements /\ request[c].stmt.type = "use"
    BY Zenon, <1>2, <1>6, RequestFacts DEF AnswerTo, SentAs, Kind
  <2>2. info[c].decision = "both"
    BY Zenon, <1>1, <2>1, NoneIsApart DEF Inv, ClientInv, WaitInv, Decided
  <2>3. ASSUME NEW o \in Clusters
        PROVE  /\ response[c][o] # None /\ response[c][o].kind = "keyspace" /\ sent[c][o] # None
               /\ AnswerTo(o, sent[c][o], k, response[c][o], effect[c][o])
    <3>1. response[c][o] # None /\ sent[c][o] # None
        BY Zenon, <2>2, ChosenFacts
    <3>2. AnswerTo(o, sent[c][o], k, response[c][o], effect[c][o]) /\ Kind(sent[c][o]) = Kind(request[c])
        BY Zenon, <1>1, <3>1, AnsweredFacts
    <3>. QED BY Zenon, <2>1, <3>1, <3>2 DEF AnswerTo
  <2>4. \A o \in Clusters : connKeyspace[c][o] = x.arg
    BY Zenon, <1>1, <2>1, <2>3 DEF Inv, ClientInv, KeyspaceInv, Moved
  <2>5. x.arg \in Keys /\ answer[c]' # None
    BY Zenon, <1>1, <1>6, <2>1, ConstantsAssumption DEF Keys
  <2>6. KeyspaceInv(c)'
    BY ZenonT(60), <1>1, <1>6, <2>4, <2>5 DEF KeyspaceInv, Moved
  <2>7. SentInv(c)' /\ WaitInv(c)' /\ RoutedInv(c)' /\ AckedInv(c)'
    <3>1. SentInv(c)'
        BY ZenonT(60), <1>1, <1>6 DEF Inv, ClientInv, SentInv, SentAs, IdsSent, psCache
    <3>2. WaitInv(c)' /\ RoutedInv(c)'
        BY Zenon, <1>1, <2>5 DEF Inv, ClientInv, WaitInv, RoutedInv
    <3>3. AckedInv(c)'
        BY Zenon, <1>6 DEF AckedInv, Answered
    <3>. QED BY Zenon, <3>1, <3>2, <3>3
  <2>8. ResponseInv(c)'
    <3>1. \A o \in Clusters : AnswerTo(o, sent[c][o], x.arg, response[c][o], effect[c][o])
        BY ZenonT(60), <2>3 DEF AnswerTo
    <3>. QED BY Zenon, <1>1, <1>6, <2>3, <3>1 DEF ResponseInv
  <2>9. Settled
    BY Zenon, <1>0, <1>2, <1>6, CacheKept DEF Inv
  <2>. QED BY Zenon, <1>6, <2>5, <2>6, <2>7, <2>8, <2>9 DEF ClientInv
<1>7. CASE /\ x.kind = "unprepared" /\ answer[c]' = UnpreparedAnswer(cl, x)
           /\ UNCHANGED <<psCache, currentKeyspace, fresh>>
  <2>1. /\ answer[c]' \in Responses /\ answer[c]'.kind \in {"unprepared", "dropped"}
    <3>1. x.arg \in AnyIds
        BY Zenon, <1>2, <1>7 DEF Responses
    <3>2. GetByTargetPreparedId(x.arg) # None => GetByTargetPreparedId(x.arg) \in AnyIds
        BY Zenon DEF GetByTargetPreparedId, Inv, CacheInv, AnyIds
    <3>. QED BY <1>7, <3>1, <3>2 DEF UnpreparedAnswer, Responses
  <2>2. Settled /\ AckedInv(c)'
    BY Zenon, <1>0, <1>7, <2>1, CacheKept DEF Inv, AckedInv, Answered
  <2>. QED BY Zenon, <1>0, <1>4, <1>7, <2>2
<1>8. CASE /\ x.kind \notin {"prepared", "keyspace", "unprepared"} /\ answer[c]' = x
           /\ UNCHANGED <<psCache, currentKeyspace, fresh>>
  <2>1. Settled
    BY Zenon, <1>0, <1>2, <1>8, CacheKept DEF Inv
  <2>2. AckedInv(c)'
    <3>1. CASE x.kind = "result"
      <4>1. /\ \A o \in Clusters : {e.write : e \in effect[c][o]} = AskedWrites(c)
            /\ ReplaceCqlFunctions => effect[c]["origin"] = effect[c]["target"]
        BY Zenon, <3>1, ResultAcked
      <4>2. AskedWrites(c)' = AskedWrites(c)
        BY Zenon, <1>1, <1>8 DEF AskedWrites
      <4>. QED BY Zenon, <1>1, <4>1, <4>2 DEF AckedInv
    <3>2. CASE x.kind # "result"
        BY Zenon, <1>8, <3>2 DEF AckedInv, Answered
    <3>. QED BY Zenon, <3>1, <3>2
  <2>. QED BY Zenon, <1>0, <1>4, <1>8, <2>1, <2>2
<1>. QED BY Zenon, <1>5, <1>6, <1>7, <1>8, FinishFacts DEF Inv


-----------------------------------------------------------------------------
(* The invariant. *)

LEMMA InvInit == Init => Inv
<1>. SUFFICES ASSUME Init PROVE Inv
    BY Zenon
<1>1. [kind |-> "ready", arg |-> None] \in Responses /\ [kind |-> "ready", arg |-> None] # None
    BY NoneIsApart DEF Responses
<1>2. ShapeInv
    BY <1>1, ConstantsAssumption DEF Init, ShapeInv, Keys
<1>3. CacheInv
    BY DEF Init, CacheInv
<1>4. ASSUME NEW c \in Clients PROVE ClientInv(c)
  <2>1. /\ answer[c] = [kind |-> "ready", arg |-> None] /\ request[c] = None
        /\ currentKeyspace[c] = None /\ \A conn \in Connectors : sent[c][conn] = None
        /\ \A cl \in Clusters : connKeyspace[c][cl] = None /\ response[c][cl] = None /\ effect[c][cl] = {}
    BY Zenon DEF Init
  <2>2. KeyspaceInv(c) /\ WaitInv(c) /\ ResponseInv(c) /\ RoutedInv(c)
    BY Zenon, <1>1, <2>1 DEF KeyspaceInv, Moved, WaitInv, ResponseInv, RoutedInv
  <2>3. SentInv(c) /\ AckedInv(c)
    BY Zenon, <2>1 DEF SentInv, AckedInv, Answered, Connectors, Clusters
  <2>. QED BY Zenon, <2>2, <2>3 DEF ClientInv
<1>. QED BY Zenon, <1>2, <1>3, <1>4 DEF Inv

LEMMA ForwardShape ==
    ASSUME Inv, NEW c \in Clients, CanSend(c), NEW r \in ClientRequests, Forward(c, r)
    PROVE  ShapeInv'
<1>. DEFINE inf == buildRequestInfo(r, currentKeyspace[c])
<1>. HIDE DEF inf
<1>0. requests < MaxRequests /\ requests \in Nat /\ clock \in Nat /\ clock <= requests /\ currentKeyspace[c] \in Keys
    BY Zenon DEF CanSend, Inv, ShapeInv
<1>1. /\ \A conn \in Connectors : sent[c][conn]' \in Messages \cup {None}
      /\ answer[c]' \in Responses \cup {None}
  <2>1. CASE CacheMiss(c, r)
    BY Zenon, <2>1, MissFacts, MissStep DEF Inv
  <2>2. CASE handleInterceptedRequest(c, r, inf)
    BY Zenon, <2>2, InterceptFacts, InterceptStep DEF Inv, inf
  <2>3. CASE executeRequest(c, r, inf)
    BY Zenon, <2>3, ExecuteStep DEF inf
  <2>. QED BY Zenon, <2>1, <2>2, <2>3 DEF Forward, inf
<1>2. clock' \in {clock, clock + 1}
    BY Zenon, MissFacts, InterceptFacts, ExecuteFacts DEF Forward, Inv
<1>3. fresh' \in [Clients -> SUBSET (Ids("origin") \cup InterceptedIds)]
  <2>1. CASE CacheMiss(c, r) \/ executeRequest(c, r, inf)
    BY Zenon, <2>1 DEF CacheMiss, executeRequest, Inv, ShapeInv
  <2>2. CASE handleInterceptedRequest(c, r, inf)
    <3>. DEFINE id == PreparedId("proxy", r.stmt, currentKeyspace[c]) AnyOf == Ids("origin") \cup InterceptedIds
    <3>1. r.op = "prepare" => id \in AnyOf
        BY Zenon, <1>0, RequestFacts, PreparedFacts DEF InterceptedIds
    <3>2. fresh' = fresh \/ (r.op = "prepare" /\ fresh' =
                [fresh EXCEPT ![c] = @ \cup {id}])
        BY Zenon, <2>2 DEF handleInterceptedRequest
    <3>3. fresh \in [Clients -> SUBSET AnyOf]
        BY Zenon DEF Inv, ShapeInv
    <3>. HIDE DEF id, AnyOf
    <3>4. fresh' \in [Clients -> SUBSET AnyOf]
        BY Zenon, <3>1, <3>2, <3>3
    <3>. QED BY Zenon, <3>4 DEF AnyOf
  <2>. QED BY Zenon, <2>1, <2>2 DEF Forward, inf
<1>4. /\ request' = [request EXCEPT ![c] = r] /\ requests' = requests + 1
      /\ effect' = [effect EXCEPT ![c] = [cl \in Clusters |-> {}]]
      /\ response' = [response EXCEPT ![c] = [cl \in Clusters |-> None]]
      /\ UNCHANGED <<currentKeyspace, connKeyspace, nodes>>
    BY Zenon DEF Forward, CacheMiss, handleInterceptedRequest, executeRequest, Begin
<1>5. /\ sent' = [sent EXCEPT ![c] = sent'[c]] /\ sent'[c] = [conn \in Connectors |-> sent'[c][conn]]
      /\ answer' = [answer EXCEPT ![c] = answer'[c]] /\ info' = [info EXCEPT ![c] = info'[c]]
  <2>. USE DEF Inv, ShapeInv
  <2>1. CASE CacheMiss(c, r)
    BY Zenon, <2>1 DEF CacheMiss
  <2>2. CASE handleInterceptedRequest(c, r, inf)
    BY Zenon, <2>2 DEF handleInterceptedRequest
  <2>3. CASE executeRequest(c, r, inf)
    BY Zenon, <2>3 DEF executeRequest
  <2>. QED BY Zenon, <2>1, <2>2, <2>3 DEF Forward, inf
<1>6. /\ sent' \in [Clients -> [Connectors -> Messages \cup {None}]]
      /\ answer' \in [Clients -> Responses \cup {None}]
      /\ info' = [d \in Clients |-> info'[d]]
  <2>1. sent'[c] \in [Connectors -> Messages \cup {None}]
    BY Zenon, <1>1, <1>5
  <2>2. sent' \in [Clients -> [Connectors -> Messages \cup {None}]]
    BY Zenon, <1>5, <2>1 DEF Inv, ShapeInv
  <2>3. answer' \in [Clients -> Responses \cup {None}]
    BY Zenon, <1>1, <1>5 DEF Inv, ShapeInv
  <2>4. info' = [d \in Clients |-> info'[d]]
    BY Zenon, <1>5 DEF Inv, ShapeInv
  <2>. QED BY Zenon, <2>2, <2>3, <2>4
<1>7. requests' \in Nat /\ requests' <= MaxRequests /\ clock' \in Nat /\ clock' <= requests'
    BY <1>0, <1>2, <1>4, ConstantsAssumption
<1>8. /\ request' \in [Clients -> ClientRequests \cup {None}]
      /\ response' \in [Clients -> [Clusters -> Responses \cup {None}]]
      /\ effect' = [d \in Clients |-> [cl \in Clusters |-> effect'[d][cl]]]
    BY Zenon, <1>4 DEF Inv, ShapeInv
<1>. QED BY Zenon, <1>3, <1>4, <1>6, <1>7, <1>8 DEF Inv, ShapeInv

LEMMA ServeShape ==
    ASSUME UsesSucceed, Inv, NEW c \in Clients, NEW cl \in Clusters, Serve(c, cl)
    PROVE  ShapeInv'
<1>. DEFINE m == sent[c][cl] id == PreparedId(cl, m.stmt, connKeyspace[c][cl])
<1>1. response[c][cl]' \in Responses /\ connKeyspace[c][cl]' \in Keys
    BY Zenon, ServeStep
<1>2. UNCHANGED <<currentKeyspace, request, info, sent, answer, fresh, clock, requests>>
    BY Zenon DEF Serve
<1>3. /\ response' = [response EXCEPT ![c][cl] = response[c][cl]']
      /\ connKeyspace' = [connKeyspace EXCEPT ![c][cl] = connKeyspace[c][cl]']
      /\ effect' = [effect EXCEPT ![c][cl] = effect[c][cl]']
      /\ nodes' = nodes \/ (m.op = "prepare" /\ nodes' = [nodes EXCEPT ![cl] = @ \cup {id}])
  <2>0. /\ response \in [Clients -> [Clusters -> Responses \cup {None}]]
        /\ connKeyspace \in [Clients -> [Clusters -> Keys]]
        /\ effect = [d \in Clients |-> [o \in Clusters |-> effect[d][o]]]
    BY Zenon DEF Inv, ShapeInv
  <2>. USE DEF Reply
  <2>1. CASE Kind(m) \in Failing /\ Reply(c, cl, "error", None) /\ UNCHANGED <<nodes, effect, connKeyspace>>
    BY Zenon, <2>0, <2>1
  <2>2. CASE /\ m.op = "prepare"
             /\ nodes' = [nodes EXCEPT ![cl] = @ \cup {id}] /\ Reply(c, cl, "prepared", id)
             /\ UNCHANGED <<effect, connKeyspace>>
    BY Zenon, <2>0, <2>2
  <2>3. CASE /\ \E i \in m.ids \ nodes[cl] : Reply(c, cl, "unprepared", i)
             /\ UNCHANGED <<nodes, effect, connKeyspace>>
    <3>1. PICK i : Reply(c, cl, "unprepared", i)
        BY Zenon, <2>3
    <3>. DEFINE v == [kind |-> "unprepared", arg |-> i]
    <3>2. response' = [response EXCEPT ![c][cl] = v] /\ UNCHANGED <<nodes, effect, connKeyspace>>
        BY Zenon, <2>3, <3>1
    <3>. HIDE DEF v
    <3>3. response[c][cl]' = v
        BY Zenon, <2>0, <3>2
    <3>. QED BY Zenon, <2>0, <3>2, <3>3
  <2>4. CASE m.op \in {"query", "execute", "batch"} /\ Run(c, cl, m) /\ UNCHANGED nodes
    <3>1. CASE Kind(m) = "use"
      <4>1. /\ connKeyspace' = [connKeyspace EXCEPT ![c][cl] = m.stmt.keyspace] /\ UNCHANGED <<effect, nodes>>
            /\ Reply(c, cl, "keyspace", m.stmt.keyspace)
        BY Zenon, <2>4, <3>1 DEF Run
      <4>. QED BY Zenon, <2>0, <4>1
    <3>2. CASE Kind(m) # "use"
      <4>. DEFINE e == {[write |-> w, now |-> NowValue(cl, w.stmt, m.uuid)] :
                           w \in {v \in Work(m, connKeyspace[c][cl]) : v.stmt.type = "write"}}
      <4>1. effect' = [effect EXCEPT ![c][cl] = e] /\ UNCHANGED <<connKeyspace, nodes>> /\ Reply(c, cl, "result", None)
        BY Zenon, <2>4, <3>2 DEF Run
      <4>. HIDE DEF e
      <4>. QED BY Zenon, <2>0, <4>1
    <3>. QED BY Zenon, <3>1, <3>2
  <2>5. CASE /\ m.op \in {"options", "register"}
             /\ Reply(c, cl, IF m.op = "options" THEN "supported" ELSE "result", None)
             /\ UNCHANGED <<nodes, effect, connKeyspace>>
    BY Zenon, <2>0, <2>5
  <2>. QED BY Zenon, <2>1, <2>2, <2>3, <2>4, <2>5 DEF Serve
<1>4. m.op = "prepare" => id \in Ids(cl)
  <2>1. m # None
    BY Zenon, ServeFacts DEF Inv
  <2>2. m.op = "prepare" => m.stmt \in Preparable
    <3>1. request[c] # None /\ SentAs(request[c], ClusterOf(cl), m)
        BY Zenon, <2>1 DEF Inv, ClientInv, SentInv, Connectors
    <3>2. request[c] \in ClientRequests
        BY Zenon, <3>1 DEF Inv, ShapeInv
    <3>. QED BY Zenon, <3>1, <3>2, RequestFacts DEF SentAs
  <2>. QED BY <2>2, PreparedFacts DEF Inv, ShapeInv
<1>5. response' \in [Clients -> [Clusters -> Responses \cup {None}]]
  <2>. DEFINE v == response[c][cl]' R == Responses \cup {None}
  <2>1. v \in R /\ response \in [Clients -> [Clusters -> R]] /\ response' = [response EXCEPT ![c][cl] = v]
    BY Zenon, <1>1, <1>3 DEF Inv, ShapeInv
  <2>. HIDE DEF v, R
  <2>2. response' \in [Clients -> [Clusters -> R]]
    BY Zenon, <2>1
  <2>. QED BY Zenon, <2>2 DEF R
<1>6. connKeyspace' \in [Clients -> [Clusters -> Keys]]
  <2>. DEFINE v == connKeyspace[c][cl]'
  <2>1. v \in Keys /\ connKeyspace \in [Clients -> [Clusters -> Keys]] /\ connKeyspace' = [connKeyspace EXCEPT ![c][cl] = v]
    BY Zenon, <1>1, <1>3 DEF Inv, ShapeInv
  <2>. HIDE DEF v
  <2>. QED BY Zenon, <2>1
<1>7. effect' = [d \in Clients |-> [o \in Clusters |-> effect'[d][o]]]
  <2>. DEFINE v == effect[c][cl]'
  <2>1. effect' = [effect EXCEPT ![c][cl] = v]
    BY Zenon, <1>3
  <2>. HIDE DEF v
  <2>. QED BY Zenon, <2>1 DEF Inv, ShapeInv
<1>8. nodes' = [o \in Clusters |-> nodes'[o]] /\ \A o \in Clusters : nodes'[o] \subseteq Ids(o)
  <2>1. nodes = [o \in Clusters |-> nodes[o]] /\ \A o \in Clusters : nodes[o] \subseteq Ids(o)
    BY Zenon DEF Inv, ShapeInv
  <2>2. CASE nodes' = nodes
    BY Zenon, <2>1, <2>2
  <2>3. CASE m.op = "prepare" /\ nodes' = [nodes EXCEPT ![cl] = @ \cup {id}]
    <3>. HIDE DEF m, id
    <3>1. nodes' = [o \in Clusters |-> IF o = cl THEN nodes[o] \cup {id} ELSE nodes[o]]
        BY Zenon, <2>1, <2>3
    <3>. QED BY <1>4, <2>1, <2>3, <3>1
  <2>. QED BY Zenon, <1>3, <2>2, <2>3
<1>. QED BY Zenon, <1>2, <1>5, <1>6, <1>7, <1>8 DEF Inv, ShapeInv

LEMMA FinishShape ==
    ASSUME Inv, NEW c \in Clients, finishRequest(c)
    PROVE  ShapeInv'
<1>. DEFINE AnyOf == Ids("origin") \cup InterceptedIds
<1>1. answer[c]' \in Responses /\ currentKeyspace[c]' \in Keys /\ fresh[c]' \subseteq AnyOf
    BY Zenon, FinishStep
<1>2. UNCHANGED <<connKeyspace, nodes, request, info, sent, response, effect, clock, requests>>
    BY Zenon DEF finishRequest
<1>3. /\ answer' = [answer EXCEPT ![c] = answer[c]'] /\ fresh' = [fresh EXCEPT ![c] = fresh[c]']
      /\ currentKeyspace' = [currentKeyspace EXCEPT ![c] = currentKeyspace[c]']
  <2>. DEFINE cl == computeClientResponse(c) x == response[c][cl]
  <2>. USE DEF Inv, ShapeInv
  <2>1. CASE processPreparedResponse(c)
    BY Zenon, <2>1 DEF processPreparedResponse
  <2>2. CASE /\ currentKeyspace' = [currentKeyspace EXCEPT ![c] = x.arg]
             /\ answer' = [answer EXCEPT ![c] = x] /\ UNCHANGED <<psCache, fresh>>
    BY Zenon, <2>2
  <2>3. CASE /\ answer' = [answer EXCEPT ![c] = UnpreparedAnswer(cl, x)]
             /\ UNCHANGED <<psCache, currentKeyspace, fresh>>
    BY Zenon, <2>3
  <2>4. CASE answer' = [answer EXCEPT ![c] = x] /\ UNCHANGED <<psCache, currentKeyspace, fresh>>
    BY Zenon, <2>4
  <2>. QED BY Zenon, <2>1, <2>2, <2>3, <2>4 DEF finishRequest, processClientResponse
<1>4. answer' \in [Clients -> Responses \cup {None}]
    BY Zenon, <1>1, <1>3 DEF Inv, ShapeInv
<1>5. currentKeyspace' \in [Clients -> Keys]
    BY Zenon, <1>1, <1>3 DEF Inv, ShapeInv
<1>6. fresh' \in [Clients -> SUBSET AnyOf]
  <2>1. fresh \in [Clients -> SUBSET AnyOf]
    BY Zenon DEF Inv, ShapeInv
  <2>. HIDE DEF AnyOf
  <2>. QED BY Zenon, <1>1, <1>3, <2>1
<1>. QED BY Zenon, <1>2, <1>4, <1>5, <1>6 DEF Inv, ShapeInv

LEMMA RestartFacts ==
    ASSUME Inv, NEW cl \in Clusters, Restart(cl)
    PROVE  /\ ShapeInv' /\ UNCHANGED psCache /\ \A d \in Clients : Quiet(d)
           /\ \A d \in Clients : fresh[d]' = {i \in fresh[d] : i.cluster = "proxy"}
<1>1. ShapeInv'
  <2>1. fresh' \in [Clients -> SUBSET (Ids("origin") \cup InterceptedIds)]
    BY Zenon DEF Restart, Inv, ShapeInv
  <2>2. nodes' = [o \in Clusters |-> nodes'[o]] /\ \A o \in Clusters : nodes'[o] \subseteq Ids(o)
    BY Zenon DEF Restart, Inv, ShapeInv
  <2>. QED BY ZenonT(60), <2>1, <2>2 DEF Restart, perRequest, Inv, ShapeInv
<1>. QED BY Zenon, <1>1 DEF Restart, perRequest, Quiet

LEMMA InvStep ==
    ASSUME UsesSucceed PROVE Inv /\ [Next]_vars => Inv'
<1>. SUFFICES ASSUME Inv, [Next]_vars PROVE Inv'
    BY Zenon
<1>1. ASSUME NEW c \in Clients, CanSend(c), NEW r \in ClientRequests, Forward(c, r) PROVE Inv'
  <2>. DEFINE inf == buildRequestInfo(r, currentKeyspace[c])
  <2>. HIDE DEF inf
  <2>1. ClientInv(c)' /\ Others(c)
    <3>1. CASE CacheMiss(c, r)
        BY Zenon, <1>1, <3>1, MissStep, MissFacts DEF Inv
    <3>2. CASE handleInterceptedRequest(c, r, inf)
        BY Zenon, <1>1, <3>2, InterceptStep, InterceptFacts DEF Inv, inf
    <3>3. CASE executeRequest(c, r, inf)
        BY Zenon, <1>1, <3>3, ExecuteStep, ExecuteFacts DEF Inv, inf
    <3>. QED BY Zenon, <1>1, <3>1, <3>2, <3>3 DEF Forward, inf
  <2>2. CacheInv' /\ DOMAIN index \subseteq DOMAIN index'
    <3>1. CASE UNCHANGED psCache
        BY Zenon, <3>1, CacheKept DEF Inv
    <3>2. CASE /\ handleInterceptedRequest(c, r, inf) /\ r.op = "prepare"
               /\ StoreIntercepted(PreparedId("proxy", r.stmt, currentKeyspace[c]), inf.base)
      <4>1. currentKeyspace[c] \in Keys /\ r.stmt \in Preparable
        BY Zenon, <3>2, RequestFacts DEF Inv, ShapeInv
      <4>2. inf.decision = "none" /\ \A i \in r.ids : Cached(i)
        BY Zenon, <3>2, InterceptFacts DEF Inv
      <4>3. inf.base = getRequestInfoFromQueryInfo(r.stmt, currentKeyspace[c]) /\ inf.base.decision = "none"
        BY Zenon, <3>2, <4>1, <4>2, BuildFacts DEF Inv, inf
      <4>. QED BY Zenon, <3>2, <4>1, <4>3, InterceptKept DEF Inv
    <3>. QED BY Zenon, <1>1, <3>1, <3>2, InterceptFacts DEF Forward, CacheMiss, executeRequest, Inv, inf
  <2>3. \A d \in Clients : ClientInv(d)'
    BY Zenon, <2>1, <2>2, QuietKept DEF Others, Inv
  <2>. QED BY Zenon, <1>1, <2>2, <2>3, ForwardShape DEF Inv
<1>2. ASSUME NEW c \in Clients, NEW cl \in Clusters, Serve(c, cl) PROVE Inv'
  <2>1. CacheInv' /\ DOMAIN index \subseteq DOMAIN index' /\ Others(c)
    BY Zenon, <1>2, ServeFacts, CacheKept DEF Inv
  <2>2. \A d \in Clients : ClientInv(d)'
    BY Zenon, <1>2, <2>1, ServeStep, QuietKept DEF Others, Inv
  <2>. QED BY Zenon, <1>2, <2>1, <2>2, ServeShape DEF Inv
<1>3. ASSUME NEW c \in Clients, finishRequest(c) PROVE Inv'
  <2>1. CacheInv' /\ DOMAIN index \subseteq DOMAIN index' /\ Others(c)
    BY Zenon, <1>3, FinishFacts, FinishStep DEF Inv
  <2>2. \A d \in Clients : ClientInv(d)'
    BY Zenon, <1>3, <2>1, FinishStep, QuietKept DEF Others, Inv
  <2>. QED BY Zenon, <1>3, <2>1, <2>2, FinishShape DEF Inv
<1>4. ASSUME NEW cl \in Clusters, Restart(cl) PROVE Inv'
  <2>1. CacheInv' /\ DOMAIN index \subseteq DOMAIN index'
    BY Zenon, <1>4, RestartFacts, CacheKept DEF Inv
  <2>. QED BY Zenon, <1>4, <2>1, RestartFacts, QuietKept DEF Inv
<1>5. CASE UNCHANGED vars
  <2>1. CacheInv' /\ DOMAIN index \subseteq DOMAIN index'
    BY Zenon, <1>5, CacheKept DEF Inv, vars
  <2>2. ShapeInv' /\ \A d \in Clients : Quiet(d)
    BY Zenon, <1>5 DEF vars, perRequest, Quiet, Inv, ShapeInv
  <2>. QED BY Zenon, <2>1, <2>2, QuietKept DEF Inv
<1>. QED BY Zenon, <1>1, <1>2, <1>3, <1>4, <1>5 DEF Next, Idle

LEMMA InvAlways ==
    ASSUME UsesSucceed PROVE Spec => []Inv
BY InvInit, InvStep, PTL DEF Spec

LEMMA InvTyped == Inv => TypeOK
<1>. SUFFICES ASSUME Inv PROVE TypeOK
    BY ZenonT(60)
<1>1. \A i \in DOMAIN cache : cache[i] \in Entries /\ i \in OriginIds
  <2>. SUFFICES ASSUME NEW i \in DOMAIN cache PROVE cache[i] \in Entries /\ i \in OriginIds
    BY Zenon
  <2>1. /\ cache[i].target \in OwnTargetIds /\ i \in OriginIds
        /\ cache[i] = [target |-> cache[i].target, base |-> Route(i), replaced |-> requiresQueryReplacement(i.stmt)]
    BY Zenon DEF Inv, CacheInv, Twin, OriginIds, OwnTargetIds
  <2>2. Route(i) \in [decision : Clusters \cup {"both", "none"}, async : BOOLEAN]
    BY DecisionFacts DEF Route, Clusters
  <2>3. requiresQueryReplacement(i.stmt) \in BOOLEAN
    BY Zenon DEF requiresQueryReplacement
  <2>. QED BY <2>1, <2>2, <2>3 DEF Entries
<1>2. \A i \in DOMAIN interceptedCache : interceptedCache[i] \in Entries /\ i \in InterceptedIds
  <2>. SUFFICES ASSUME NEW i \in DOMAIN interceptedCache PROVE interceptedCache[i] \in Entries /\ i \in InterceptedIds
    BY Zenon
  <2>1. i \in InterceptedIds /\ interceptedCache[i] = [target |-> i, base |-> Route(i), replaced |-> FALSE]
    BY Zenon DEF Inv, CacheInv
  <2>2. Route(i) \in [decision : Clusters \cup {"both", "none"}, async : BOOLEAN]
    BY DecisionFacts DEF Route, Clusters
  <2>. QED BY <2>1, <2>2 DEF Entries
<1>3. \A t \in DOMAIN index : t \in OwnTargetIds /\ index[t] \in OriginIds
    BY Zenon DEF Inv, CacheInv, OriginIds, OwnTargetIds
<1>4. /\ currentKeyspace \in [Clients -> Keyspaces \cup {None}]
      /\ connKeyspace \in [Clients -> [Clusters -> Keyspaces \cup {None}]]
      /\ nodes["origin"] \subseteq OriginIds /\ nodes["target"] \subseteq OwnTargetIds
    BY Zenon DEF Inv, ShapeInv, Keys, Clusters, OriginIds, OwnTargetIds
<1>5. clock \in 0..MaxRequests
    BY ConstantsAssumption DEF Inv, ShapeInv
<1>. QED BY Zenon, <1>1, <1>2, <1>3, <1>4, <1>5 DEF TypeOK

\* As long as neither cluster fails a USE, every cluster gets its own ids for the
\* statements the client named, through all three connectors
\* (handleExecuteRequest, handleBatchRequest).
THEOREM IdsAreTheClusters ==
    ASSUME UsesSucceed PROVE Spec => []OwnIds
<1>1. Inv => OwnIds
  <2>. SUFFICES ASSUME Inv, NEW c \in Clients, NEW conn \in Connectors, sent[c][conn] # None
                PROVE  /\ \A i \in sent[c][conn].ids : i.cluster = ClusterOf(conn)
                       /\ {IdMeaning(i) : i \in sent[c][conn].ids} = {IdMeaning(i) : i \in request[c].ids}
    BY Zenon, InvTyped DEF OwnIds
  <2>. DEFINE cl == ClusterOf(conn) m == sent[c][conn]
  <2>1. cl \in {"origin", "target"}
    BY Zenon DEF Connectors, ClusterOf, Clusters, Secondary
  <2>2. IdsSent(cl, request[c].ids, m.ids)
    BY Zenon DEF Inv, ClientInv, SentInv, SentAs
  <2>. HIDE DEF cl, m
  <2>3. CASE cl = "origin"
    BY Zenon, <2>2, <2>3, IdFacts DEF IdsSent, cl, m
  <2>4. CASE cl = "target"
    <3>1. \A t \in m.ids : t.cluster = "target"
        BY Zenon, <2>2, <2>4, IdFacts DEF IdsSent, Twin
    <3>2. {IdMeaning(i) : i \in m.ids} = {IdMeaning(i) : i \in request[c].ids}
        BY <2>2, <2>4 DEF IdsSent, Twin
    <3>. QED BY Zenon, <2>4, <3>1, <3>2 DEF cl, m
  <2>. QED BY Zenon, <2>1, <2>3, <2>4
<1>. QED BY <1>1, InvAlways, PTL

\* As long as neither cluster fails a USE, EXECUTE is routed as its statement
\* would be: what PREPARE left in the cache (PreparedData, buildRequestInfo) is
\* never stale.
THEOREM ExecuteRoutedAsPrepared ==
    ASSUME UsesSucceed PROVE Spec => []RoutedAsPrepared
<1>1. Inv => RoutedAsPrepared
    BY Zenon DEF Inv, ClientInv, RoutedInv, RoutedAsPrepared, Route
<1>. QED BY <1>1, InvAlways, PTL

\* As long as neither cluster fails a USE, a write acknowledged to the client is
\* on both clusters, with one value of now() when it is replaced
\* (aggregateAndTrackResponses, executeRequest).
THEOREM AcknowledgedOnBoth ==
    ASSUME UsesSucceed PROVE Spec => []AckedWritesOnBoth
<1>1. Inv => AckedWritesOnBoth
    BY Zenon DEF Inv, ClientInv, AckedInv, AckedWritesOnBoth
<1>. QED BY <1>1, InvAlways, PTL

-----------------------------------------------------------------------------
(* Which statement UNPREPARED names. *)

NamesAll == Inv /\ IndexInv /\ \A c \in Clients : NamesInv(c)

LEMMA OriginOfTarget ==
    ASSUME OneOrigin, NEW s, NEW k
    PROVE  OriginOf(PreparedId("target", s, k)) = PreparedId("origin", s, k)
BY Zenon DEF OneOrigin, OriginOf, PreparedId, ApplicableKeyspace

\* The answer computed from the answers of the clusters.
LEMMA FinishNames ==
    ASSUME OneOrigin, NamesAll, NEW c \in Clients, finishRequest(c)
    PROVE  IndexInv' /\ NamesInv(c)'
<1>. DEFINE cl == computeClientResponse(c) x == response[c][cl] k == currentKeyspace[c]
<1>1. /\ answer[c] = None /\ cl \in Clusters /\ x # None
      /\ request[c]' = request[c] /\ sent[c]' = sent[c]
    BY ZenonT(60), FinishKept, ChosenFacts DEF NamesAll
<1>2. /\ SentAs(request[c], cl, sent[c][cl]) /\ AnswerTo(cl, sent[c][cl], k, x, effect[c][cl])
      /\ sent[c][cl] # None
    BY Zenon, <1>1, AnsweredFacts, ChosenFacts DEF NamesAll
<1>3. sent[c]["target"]' # None => \A t \in sent[c]["target"].ids' : OriginOf(t) \in request[c]'.ids
    BY Zenon, <1>1 DEF NamesAll, NamesInv
<1>4. CASE /\ x.kind = "prepared"
           /\ LET originId == response[c]["origin"].arg targetId == response[c]["target"].arg
              IN  /\ Store(originId, targetId, info[c].base, requiresQueryReplacement(request[c].stmt))
                  /\ answer[c]' = [kind |-> "prepared", arg |-> originId]
  <2>. DEFINE o == response[c]["origin"].arg t == response[c]["target"].arg b == info[c].base
              q == requiresQueryReplacement(request[c].stmt)
  <2>1. o = OriginOf(t)
    BY <1>4, PreparedOnBoth, OriginOfTarget DEF Clusters, NamesAll
  <2>2. Store(o, t, b, q) /\ answer[c]' = [kind |-> "prepared", arg |-> o]
    BY Zenon, <1>4
  <2>. HIDE DEF o, t, b, q
  <2>3. /\ DOMAIN cache' = DOMAIN cache \cup {o} /\ DOMAIN index' = DOMAIN index \cup {t}
        /\ cache'[o].target = t /\ index'[t] = o
        /\ \A i \in DOMAIN cache : i # o => cache'[i] = cache[i]
        /\ \A i \in DOMAIN index : i # t => index'[i] = index[i]
    BY Zenon, <2>2 DEF Store, Put
  <2>4. IndexInv'
    BY Zenon, <2>1, <2>3 DEF NamesAll, IndexInv
  <2>. QED BY <1>3, <2>2, <2>4 DEF NamesInv, Answered
<1>5. CASE x.kind = "keyspace" /\ answer[c]' = x /\ UNCHANGED <<psCache, fresh>>
    BY Zenon, <1>3, <1>5 DEF NamesInv, Answered, NamesAll, IndexInv, psCache
<1>6. CASE x.kind = "unprepared" /\ answer[c]' = UnpreparedAnswer(cl, x) /\ UNCHANGED psCache
  <2>1. x.arg \in sent[c][cl].ids
    BY ZenonT(60), <1>2, <1>6 DEF AnswerTo
  <2>2. CASE cl = "origin"
    <3>1. x.arg \in request[c].ids /\ x.arg \in AnyIds
        BY Zenon, <1>2, <2>1, <2>2 DEF SentAs, IdsSent, AnyIds
    <3>2. answer[c]' = [kind |-> "unprepared", arg |-> x.arg]
        BY ZenonT(60), <1>6, <2>2, <3>1, NoneIsApart DEF UnpreparedAnswer
    <3>3. IndexInv'
        BY Zenon, <1>6 DEF NamesAll, IndexInv, psCache
    <3>. QED BY <1>1, <1>3, <3>1, <3>2, <3>3 DEF NamesInv, Answered
  <2>3. CASE cl = "target"
    <3>1. x.arg \in DOMAIN index /\ index[x.arg] \in DOMAIN cache /\ index[x.arg] \in AnyIds
        BY Zenon, <1>2, <2>1, <2>3 DEF SentAs, IdsSent, NamesAll, Inv, CacheInv, AnyIds
    <3>2. index[x.arg] \in request[c].ids
        BY ZenonT(60), <1>2, <2>1, <2>3, <3>1 DEF NamesAll, IndexInv, NamesInv
    <3>3. answer[c]' = [kind |-> "unprepared", arg |-> index[x.arg]]
        BY Zenon, <1>6, <2>3, <3>1, NoneIsApart DEF UnpreparedAnswer, GetByTargetPreparedId
    <3>4. IndexInv'
        BY Zenon, <1>6 DEF NamesAll, IndexInv, psCache
    <3>. QED BY <1>1, <1>3, <3>2, <3>3, <3>4 DEF NamesInv, Answered
  <2>. QED BY Zenon, <1>1, <2>2, <2>3 DEF Clusters
<1>7. CASE /\ x.kind \notin {"prepared", "keyspace", "unprepared"} /\ answer[c]' = x /\ UNCHANGED psCache
  <2>1. x.kind \in {"error", "result", "supported"}
    BY Zenon, <1>2, <1>7 DEF AnswerTo
  <2>. QED BY Zenon, <1>3, <1>7, <2>1 DEF NamesInv, Answered, NamesAll, IndexInv, psCache
<1>. QED BY Zenon, <1>4, <1>5, <1>6, <1>7, FinishFacts DEF NamesAll, Inv

LEMMA ForwardNames ==
    ASSUME NamesAll, NEW c \in Clients, CanSend(c), NEW r \in ClientRequests, Forward(c, r)
    PROVE  IndexInv' /\ NamesInv(c)'
<1>. DEFINE inf == buildRequestInfo(r, currentKeyspace[c])
<1>. HIDE DEF inf
<1>1. IndexInv'
  <2>1. UNCHANGED <<cache, index>>
    BY Zenon, InterceptFacts DEF Forward, CacheMiss, executeRequest, psCache, StoreIntercepted, NamesAll, Inv
  <2>. QED BY Zenon, <2>1 DEF NamesAll, IndexInv
<1>2. CASE CacheMiss(c, r)
  <2>1. /\ request[c]' = r /\ sent[c]["target"]' = None
        /\ \E i \in r.ids : answer[c]' = [kind |-> "unprepared", arg |-> i]
    BY <1>2, MissFacts DEF Begun, NamesAll, Inv, Connectors, Clusters
  <2>. QED BY <1>1, <2>1 DEF NamesInv, Answered
<1>3. CASE handleInterceptedRequest(c, r, inf)
  <2>1. /\ sent[c]["target"]' = None
        /\ \E a : \/ answer[c]' = [kind |-> "prepared", arg |-> a] \/ answer[c]' = [kind |-> "result", arg |-> a]
                  \/ answer[c]' = [kind |-> "error", arg |-> a]
    BY ZenonT(60), <1>3, InterceptFacts DEF NamesAll, Inv, Connectors, Clusters
  <2>. QED BY <1>1, <2>1 DEF NamesInv, Answered
<1>4. CASE executeRequest(c, r, inf)
  <2>1. request[c]' = r /\ answer[c]' = None
    BY Zenon, <1>4, ExecuteFacts DEF NamesAll, Inv, Begun
  <2>2. ASSUME sent[c]["target"]' # None, NEW t \in sent[c]["target"].ids' PROVE OriginOf(t) \in r.ids
    <3>1. sent[c]["target"]' = RequestTo("target", r, TimeUuid(r))
        BY <1>4, <2>2, ExecuteFacts DEF NamesAll, Inv, Connectors, ClusterOf, Clusters
    <3>2. PICK i \in r.ids : t = Get(i).target
        BY <2>2, <3>1 DEF RequestTo, TargetIds
    <3>3. inf.decision # "none" /\ (\A j \in r.ids : Cached(j)) /\ currentKeyspace[c] \in Keys
        BY Zenon, <1>4, ExecuteFacts DEF NamesAll, Inv, ShapeInv
    <3>4. Get(i) = cache[i] /\ i \in DOMAIN cache
        BY ZenonT(60), <3>3, BuildFacts DEF NamesAll, Inv, inf
    <3>. QED BY Zenon, <3>2, <3>4 DEF NamesAll, IndexInv
  <2>3. sent[c]["target"]' # None => \A t \in sent[c]["target"].ids' : OriginOf(t) \in request[c]'.ids
    BY Zenon, <2>1, <2>2
  <2>4. ~Answered(c, {"dropped"})' /\ ~Answered(c, {"unprepared"})'
    BY Zenon, <2>1 DEF Answered
  <2>. QED BY Zenon, <1>1, <2>3, <2>4 DEF NamesInv
<1>. QED BY Zenon, <1>2, <1>3, <1>4 DEF Forward, inf

LEMMA NamesStep ==
    ASSUME UsesSucceed, OneOrigin
    PROVE  NamesAll /\ [Next]_vars => NamesAll'
<1>. SUFFICES ASSUME NamesAll, [Next]_vars PROVE NamesAll'
    BY Zenon
<1>0. Inv'
    BY Zenon, InvStep DEF NamesAll
<1>1. ASSUME NEW d \in Clients, Quiet(d) PROVE NamesInv(d)'
    BY Zenon, <1>1 DEF NamesAll, NamesInv, Answered, Quiet
<1>2. UNCHANGED psCache => IndexInv'
    BY Zenon DEF NamesAll, IndexInv, psCache
<1>3. ASSUME NEW c \in Clients, CanSend(c), NEW r \in ClientRequests, Forward(c, r) PROVE NamesAll'
  <2>1. Others(c)
    BY Zenon, <1>3, MissFacts, InterceptFacts, ExecuteFacts DEF Forward, NamesAll, Inv
  <2>. QED BY Zenon, <1>0, <1>1, <1>3, <2>1, ForwardNames DEF NamesAll, Others
<1>4. ASSUME NEW c \in Clients, NEW cl \in Clusters, Serve(c, cl) PROVE NamesAll'
  <2>1. Others(c) /\ UNCHANGED psCache /\ request[c]' = request[c] /\ sent[c]' = sent[c] /\ answer[c]' = answer[c]
    BY Zenon, <1>4, ServeFacts DEF NamesAll, Inv
  <2>2. NamesInv(c)'
    BY Zenon, <2>1 DEF NamesAll, NamesInv, Answered
  <2>. QED BY Zenon, <1>0, <1>1, <1>2, <2>1, <2>2 DEF NamesAll, Others
<1>5. ASSUME NEW c \in Clients, finishRequest(c) PROVE NamesAll'
  <2>1. Others(c)
    BY Zenon, <1>5, FinishFacts DEF NamesAll, Inv
  <2>. QED BY Zenon, <1>0, <1>1, <1>5, <2>1, FinishNames DEF NamesAll, Others
<1>6. ASSUME NEW cl \in Clusters, Restart(cl) PROVE NamesAll'
    BY Zenon, <1>0, <1>1, <1>2, <1>6, RestartFacts DEF NamesAll
<1>7. CASE UNCHANGED vars
    BY Zenon, <1>0, <1>1, <1>2, <1>7 DEF NamesAll, vars, perRequest, Quiet
<1>. QED BY Zenon, <1>3, <1>4, <1>5, <1>6, <1>7 DEF Next, Idle

LEMMA NamesInit == Init => NamesAll
<1>. SUFFICES ASSUME Init PROVE NamesAll
    BY Zenon
<1>1. IndexInv
    BY DEF Init, IndexInv
<1>2. \A c \in Clients : NamesInv(c)
    BY Zenon DEF Init, NamesInv, Answered, Connectors, Clusters
<1>. QED BY Zenon, <1>1, <1>2, InvInit DEF NamesAll

\* If the target tells apart the keyspaces that the origin tells apart, and
\* neither cluster fails a USE, UNPREPARED carries an id of the request and none
\* is dropped for want of an entry in the index (processClientResponse,
\* GetByTargetPreparedId).
THEOREM UnpreparedNamesItsStatement ==
    ASSUME UsesSucceed, OneOrigin PROVE Spec => []UnpreparedNamesExecuted
<1>1. NamesAll => UnpreparedNamesExecuted
    BY Zenon DEF NamesAll, NamesInv, UnpreparedNamesExecuted
<1>. QED BY <1>1, NamesInit, NamesStep, PTL DEF Spec

-----------------------------------------------------------------------------
(* Preparing again heals. *)

HealsAll == Inv /\ TwinsInv /\ \A c \in Clients : FreshInv(c) /\ HealsInv(c)

LEMMA TargetOfOrigin ==
    ASSUME OneTarget, NEW s, NEW k
    PROVE  TargetOf(PreparedId("origin", s, k)) = PreparedId("target", s, k)
BY Zenon DEF OneTarget, TargetOf, PreparedId, ApplicableKeyspace

\* What a client prepared stays prepared while caches and nodes only grow.
LEMMA FreshKept ==
    ASSUME NEW d \in Clients, FreshInv(d), fresh[d]' = fresh[d], DOMAIN cache \subseteq DOMAIN cache',
           DOMAIN interceptedCache \subseteq DOMAIN interceptedCache',
           \A o \in Clusters : nodes[o] \subseteq nodes[o]'
    PROVE  FreshInv(d)'
BY Zenon DEF FreshInv, Clusters

LEMMA HealsKept ==
    ASSUME NEW d \in Clients, HealsInv(d), Quiet(d), fresh[d]' \subseteq fresh[d]
    PROVE  HealsInv(d)'
BY Zenon DEF HealsInv, Answered, Quiet

LEMMA ForwardHeals ==
    ASSUME HealsAll, NEW c \in Clients, CanSend(c), NEW r \in ClientRequests, Forward(c, r)
    PROVE  TwinsInv' /\ FreshInv(c)' /\ HealsInv(c)' /\ \A d \in Clients : d # c => FreshInv(d)'
<1>. DEFINE inf == buildRequestInfo(r, currentKeyspace[c]) id == PreparedId("proxy", r.stmt, currentKeyspace[c])
<1>. HIDE DEF inf, id
<1>1. /\ UNCHANGED <<cache, nodes>> /\ Begun(c, r) /\ Others(c)
      /\ DOMAIN interceptedCache \subseteq DOMAIN interceptedCache'
      /\ fresh[c]' = fresh[c] \/ (fresh[c]' = fresh[c] \cup {id} /\ id \in DOMAIN interceptedCache')
  <2>1. CASE CacheMiss(c, r)
    BY Zenon, <2>1, MissFacts DEF psCache, HealsAll, Inv
  <2>2. CASE executeRequest(c, r, inf)
    BY Zenon, <2>2, ExecuteFacts DEF psCache, HealsAll, Inv
  <2>3. CASE handleInterceptedRequest(c, r, inf)
    <3>1. /\ Begun(c, r) /\ Others(c) /\ nodes' = nodes
          /\ \/ StoreIntercepted(id, inf.base) /\ fresh[c]' = fresh[c] \cup {id}
             \/ UNCHANGED <<psCache, fresh>>
        BY Zenon, <2>3, InterceptFacts DEF HealsAll, Inv, id
    <3>. QED BY Zenon, <3>1 DEF psCache, StoreIntercepted, Put
  <2>. QED BY Zenon, <2>1, <2>2, <2>3 DEF Forward, inf
<1>2. TwinsInv' /\ FreshInv(c)'
    BY Zenon, <1>1 DEF HealsAll, TwinsInv, FreshInv
<1>3. \A d \in Clients : d # c => FreshInv(d)'
    BY Zenon, <1>1, FreshKept DEF HealsAll, Others
<1>4. request[c]' = r /\ \A cl \in Clusters : response[c][cl]' = None
    BY Zenon, <1>1 DEF Begun
<1>5. CASE CacheMiss(c, r)
  <2>1. sent[c]["target"]' = None /\ fresh[c]' = fresh[c] /\ \E i \in r.ids : ~Cached(i)
    BY Zenon, <1>5, MissFacts DEF HealsAll, Inv, Connectors, Clusters
  <2>2. \A i \in fresh[c] : Cached(i)
    BY Zenon DEF HealsAll, FreshInv, Cached
  <2>3. r.op = "execute" => r.ids \cap fresh[c]' = {}
    BY ZenonT(60), <2>1, <2>2, RequestFacts
  <2>. QED BY Zenon, <1>2, <1>3, <1>4, <2>1, <2>3 DEF HealsInv
<1>6. CASE handleInterceptedRequest(c, r, inf)
  <2>1. /\ sent[c]["target"]' = None
        /\ \E a : \/ answer[c]' = [kind |-> "prepared", arg |-> a] \/ answer[c]' = [kind |-> "result", arg |-> a]
                  \/ answer[c]' = [kind |-> "error", arg |-> a]
    BY ZenonT(60), <1>6, InterceptFacts DEF HealsAll, Inv, Connectors, Clusters
  <2>. QED BY <1>2, <1>3, <1>4, <2>1 DEF HealsInv, Answered
<1>7. CASE executeRequest(c, r, inf)
  <2>1. answer[c]' = None
    BY Zenon, <1>7, ExecuteFacts DEF HealsAll, Inv
  <2>2. ASSUME sent[c]["target"]' # None, NEW t \in sent[c]["target"].ids' PROVE \E i \in r.ids : t = TargetOf(i)
    <3>1. sent[c]["target"]' = RequestTo("target", r, TimeUuid(r))
        BY <1>7, <2>2, ExecuteFacts DEF HealsAll, Inv, Connectors, ClusterOf, Clusters
    <3>2. PICK i \in r.ids : t = Get(i).target
        BY <2>2, <3>1 DEF RequestTo, TargetIds
    <3>3. inf.decision # "none" /\ (\A j \in r.ids : Cached(j)) /\ currentKeyspace[c] \in Keys
        BY Zenon, <1>7, ExecuteFacts DEF HealsAll, Inv, ShapeInv
    <3>4. Get(i) = cache[i] /\ i \in DOMAIN cache
        BY ZenonT(60), <3>3, BuildFacts DEF HealsAll, Inv, inf
    <3>. QED BY Zenon, <3>2, <3>4 DEF HealsAll, TwinsInv
  <2>3. sent[c]["target"]' # None => \A t \in sent[c]["target"].ids' : \E i \in request[c]'.ids : t = TargetOf(i)
    BY Zenon, <1>4, <2>2
  <2>. QED BY Zenon, <1>2, <1>3, <1>4, <2>1, <2>3 DEF HealsInv, Answered
<1>. QED BY Zenon, <1>5, <1>6, <1>7 DEF Forward, inf

\* A cluster does not know an id: the client did not prepare it since the restart.
LEMMA ServeHeals ==
    ASSUME HealsAll, NEW c \in Clients, NEW cl \in Clusters, Serve(c, cl)
    PROVE  TwinsInv' /\ HealsInv(c)' /\ \A d \in Clients : FreshInv(d)'
<1>0. /\ Others(c) /\ UNCHANGED <<psCache, fresh>> /\ answer[c] = None /\ answer[c]' = None
      /\ sent[c]' = sent[c] /\ request[c]' = request[c] /\ sent[c][cl] # None
      /\ \A o \in Clusters : o # cl => response[c][o]' = response[c][o]
    BY Zenon, ServeFacts DEF HealsAll, Inv
<1>1. \A o \in Clusters : nodes[o] \subseteq nodes[o]'
  <2>1. nodes' = nodes \/ Prepared(c, cl)
    BY Zenon, ServeFacts DEF HealsAll, Inv, Failed, Unknown, Used, Ran, Noted
  <2>2. ASSUME Prepared(c, cl) PROVE \A o \in Clusters : nodes[o] \subseteq nodes[o]'
    <3>. DEFINE id == PreparedId(cl, sent[c][cl].stmt, connKeyspace[c][cl])
    <3>1. nodes' = [nodes EXCEPT ![cl] = @ \cup {id}] /\ nodes = [o \in Clusters |-> nodes[o]]
        BY Zenon, <2>2 DEF Prepared, HealsAll, Inv, ShapeInv
    <3>. HIDE DEF id
    <3>. QED BY Zenon, <3>1
  <2>. QED BY Zenon, <2>1, <2>2
<1>2. TwinsInv' /\ \A d \in Clients : FreshInv(d)'
    BY Zenon, <1>0, <1>1, FreshKept DEF HealsAll, TwinsInv, psCache
<1>3. ASSUME response[c][cl]'.kind = "unprepared" PROVE request[c].ids \cap fresh[c] = {}
  <2>1. Unknown(c, cl)
    <3>1. \/ Failed(c, cl) \/ Prepared(c, cl) \/ Unknown(c, cl) \/ Used(c, cl) \/ Ran(c, cl) \/ Noted(c, cl)
        BY Zenon, ServeFacts DEF HealsAll, Inv
    <3>2. ~Failed(c, cl) /\ ~Prepared(c, cl) /\ ~Used(c, cl)
        BY <1>3 DEF Failed, Prepared, Used
    <3>3. ~Ran(c, cl) /\ ~Noted(c, cl)
        BY <1>3 DEF Ran, Noted
    <3>. QED BY Zenon, <3>1, <3>2, <3>3
  <2>2. PICK t \in sent[c][cl].ids : t \notin nodes[cl]
    BY Zenon, <2>1 DEF Unknown
  <2>3. request[c] \in ClientRequests /\ SentAs(request[c], cl, sent[c][cl])
    <3>1. ClusterOf(cl) = cl /\ cl \in Connectors
        BY Zenon DEF Connectors, ClusterOf, Clusters
    <3>2. request[c] # None /\ SentAs(request[c], cl, sent[c][cl])
        BY Zenon, <1>0, <3>1 DEF HealsAll, Inv, ClientInv, SentInv
    <3>. QED BY Zenon, <3>2 DEF HealsAll, Inv, ShapeInv
  <2>4. PICK i : request[c].ids = {i}
    <3>1. request[c].ids # {}
        BY Zenon, <2>2, <2>3 DEF SentAs, IdsSent, Clusters
    <3>. QED BY Zenon, <2>3, <3>1, RequestFacts
  <2>5. i \in Ids("origin") /\ i \notin DOMAIN interceptedCache
    BY Zenon, <2>3, <2>4, IdsApart DEF SentAs, IdsSent, HealsAll, Inv, CacheInv
  <2>6. t = IF cl = "origin" THEN i ELSE TargetOf(i)
    BY Zenon, <1>0, <2>2, <2>3, <2>4 DEF SentAs, IdsSent, HealsAll, HealsInv, Clusters
  <2>7. i \notin fresh[c]
    BY Zenon, <2>2, <2>5, <2>6 DEF HealsAll, FreshInv, Clusters
  <2>. QED BY Zenon, <2>4, <2>7
<1>4. HealsInv(c)'
  <2>1. ASSUME NEW o \in Clusters, response[c][o]' # None, response[c][o]'.kind = "unprepared"
        PROVE  request[c].ids \cap fresh[c] = {}
    <3>1. CASE o = cl
        BY Zenon, <1>3, <2>1, <3>1
    <3>2. CASE o # cl
        BY Zenon, <1>0, <2>1, <3>2 DEF HealsAll, HealsInv
    <3>. QED BY Zenon, <3>1, <3>2
  <2>. QED BY ZenonT(60), <1>0, <2>1 DEF HealsAll, HealsInv, Answered
<1>. QED BY Zenon, <1>2, <1>4

LEMMA FinishHeals ==
    ASSUME OneTarget, HealsAll, NEW c \in Clients, finishRequest(c)
    PROVE  TwinsInv' /\ FreshInv(c)' /\ HealsInv(c)' /\ \A d \in Clients : d # c => FreshInv(d)'
<1>. DEFINE cl == computeClientResponse(c) x == response[c][cl] k == currentKeyspace[c]
<1>1. /\ answer[c] = None /\ cl \in Clusters /\ x # None /\ Others(c) /\ nodes' = nodes
      /\ request[c]' = request[c] /\ sent[c]' = sent[c] /\ response[c]' = response[c]
    BY ZenonT(60), FinishKept, ChosenFacts DEF HealsAll
<1>2. CASE /\ x.kind = "prepared"
           /\ LET originId == response[c]["origin"].arg targetId == response[c]["target"].arg
              IN  /\ Store(originId, targetId, info[c].base, requiresQueryReplacement(request[c].stmt))
                  /\ answer[c]' = [kind |-> "prepared", arg |-> originId]
                  /\ fresh[c]' = IF originId \in nodes["origin"] /\ targetId \in nodes["target"]
                                 THEN fresh[c] \cup {originId} ELSE fresh[c]
  <2>. DEFINE o == response[c]["origin"].arg t == response[c]["target"].arg b == info[c].base
              q == requiresQueryReplacement(request[c].stmt)
  <2>1. t = TargetOf(o)
    BY <1>2, PreparedOnBoth, TargetOfOrigin DEF Clusters, HealsAll
  <2>2. /\ Store(o, t, b, q) /\ answer[c]' = [kind |-> "prepared", arg |-> o]
        /\ fresh[c]' = IF o \in nodes["origin"] /\ t \in nodes["target"] THEN fresh[c] \cup {o} ELSE fresh[c]
    BY Zenon, <1>2
  <2>3. \A p \in Clusters : response[c][p] # None => response[c][p].kind # "unprepared"
    BY Zenon, <1>2, PreparedOnBoth DEF HealsAll
  <2>. HIDE DEF o, t, b, q
  <2>4. /\ DOMAIN cache' = DOMAIN cache \cup {o} /\ interceptedCache' = interceptedCache
        /\ cache'[o].target = t /\ \A i \in DOMAIN cache : i # o => cache'[i] = cache[i]
    BY Zenon, <2>2 DEF Store, Put
  <2>5. TwinsInv' /\ FreshInv(c)'
    BY <1>1, <2>1, <2>2, <2>4 DEF HealsAll, TwinsInv, FreshInv
  <2>6. \A d \in Clients : d # c => FreshInv(d)'
    BY ZenonT(60), <1>1, <2>4, FreshKept DEF HealsAll, Others
  <2>7. HealsInv(c)'
    BY <1>1, <2>2, <2>3 DEF HealsAll, HealsInv, Answered
  <2>. QED BY Zenon, <2>5, <2>6, <2>7
<1>3. ASSUME UNCHANGED <<psCache, fresh>>, answer[c]'.kind = "unprepared" => x.kind = "unprepared"
      PROVE  TwinsInv' /\ FreshInv(c)' /\ HealsInv(c)' /\ \A d \in Clients : d # c => FreshInv(d)'
  <2>1. TwinsInv' /\ \A d \in Clients : FreshInv(d)'
    BY Zenon, <1>1, <1>3, FreshKept DEF HealsAll, TwinsInv, psCache
  <2>2. x.kind = "unprepared" => request[c].ids \cap fresh[c] = {}
    BY Zenon, <1>1 DEF HealsAll, HealsInv
  <2>3. HealsInv(c)'
    BY Zenon, <1>1, <1>3, <2>2 DEF HealsAll, HealsInv, Answered
  <2>. QED BY Zenon, <2>1, <2>3
<1>4. CASE x.kind = "keyspace" /\ answer[c]' = x /\ UNCHANGED <<psCache, fresh>>
    BY Zenon, <1>3, <1>4
<1>5. CASE x.kind = "unprepared" /\ UNCHANGED <<psCache, currentKeyspace, fresh>>
    BY Zenon, <1>3, <1>5
<1>6. CASE /\ x.kind \notin {"prepared", "keyspace", "unprepared"} /\ answer[c]' = x
           /\ UNCHANGED <<psCache, currentKeyspace, fresh>>
    BY Zenon, <1>3, <1>6
<1>. QED BY Zenon, <1>2, <1>4, <1>5, <1>6, FinishFacts DEF HealsAll, Inv

LEMMA HealsStep ==
    ASSUME UsesSucceed, OneTarget
    PROVE  HealsAll /\ [Next]_vars => HealsAll'
<1>. SUFFICES ASSUME HealsAll, [Next]_vars PROVE HealsAll'
    BY Zenon
<1>0. Inv'
    BY Zenon, InvStep DEF HealsAll
<1>1. ASSUME NEW c \in Clients, CanSend(c), NEW r \in ClientRequests, Forward(c, r) PROVE HealsAll'
  <2>1. Others(c)
    BY Zenon, <1>1, MissFacts, InterceptFacts, ExecuteFacts DEF Forward, HealsAll, Inv
  <2>2. \A d \in Clients : d # c => HealsInv(d)'
    BY Zenon, <2>1, HealsKept DEF HealsAll, Others
  <2>. QED BY Zenon, <1>0, <1>1, <2>2, ForwardHeals DEF HealsAll
<1>2. ASSUME NEW c \in Clients, NEW cl \in Clusters, Serve(c, cl) PROVE HealsAll'
  <2>1. \A d \in Clients : d # c => HealsInv(d)'
    BY Zenon, <1>2, ServeFacts, HealsKept DEF HealsAll, Inv, Others
  <2>. QED BY Zenon, <1>0, <1>2, <2>1, ServeHeals DEF HealsAll
<1>3. ASSUME NEW c \in Clients, finishRequest(c) PROVE HealsAll'
  <2>1. \A d \in Clients : d # c => HealsInv(d)'
    BY ZenonT(60), <1>3, FinishFacts, HealsKept DEF HealsAll, Inv, Others
  <2>. QED BY Zenon, <1>0, <1>3, <2>1, FinishHeals DEF HealsAll
<1>4. ASSUME NEW cl \in Clusters, Restart(cl) PROVE HealsAll'
  <2>1. UNCHANGED psCache /\ \A d \in Clients : Quiet(d) /\ fresh[d]' = {i \in fresh[d] : i.cluster = "proxy"}
    BY Zenon, <1>4, RestartFacts DEF HealsAll
  <2>2. \A i \in DOMAIN cache : i.cluster # "proxy"
    BY Zenon, IdFacts DEF HealsAll, Inv, CacheInv
  <2>3. \A d \in Clients : FreshInv(d)'
    BY Zenon, <2>1, <2>2 DEF HealsAll, FreshInv, psCache
  <2>4. \A d \in Clients : HealsInv(d)'
    BY Zenon, <2>1, HealsKept DEF HealsAll
  <2>5. TwinsInv'
    BY Zenon, <2>1 DEF HealsAll, TwinsInv, psCache
  <2>. QED BY Zenon, <1>0, <2>3, <2>4, <2>5 DEF HealsAll
<1>5. CASE UNCHANGED vars
    BY Zenon, <1>0, <1>5 DEF HealsAll, TwinsInv, FreshInv, HealsInv, Answered, vars, psCache, perRequest
<1>. QED BY Zenon, <1>1, <1>2, <1>3, <1>4, <1>5 DEF Next, Idle

LEMMA HealsInit == Init => HealsAll
<1>. SUFFICES ASSUME Init PROVE HealsAll
    BY Zenon
<1>1. TwinsInv
    BY DEF Init, TwinsInv
<1>2. \A c \in Clients : FreshInv(c) /\ HealsInv(c)
    BY Zenon DEF Init, FreshInv, HealsInv, Answered, Connectors, Clusters
<1>. QED BY Zenon, <1>1, <1>2, InvInit DEF HealsAll

\* If the origin tells apart the keyspaces that the target tells apart, and
\* neither cluster fails a USE, a client that prepared a statement since the last
\* restart never gets UNPREPARED for it (processPreparedResponse, Store).
THEOREM PreparingAgainHeals ==
    ASSUME UsesSucceed, OneTarget PROVE Spec => []PreparingHeals
<1>1. HealsAll => PreparingHeals
    BY Zenon DEF HealsAll, HealsInv, PreparingHeals
<1>. QED BY <1>1, HealsInit, HealsStep, PTL DEF Spec
=============================================================================
