----------------------------- MODULE Statements -----------------------------
(***************************************************************************)
(* What becomes of a request that carries the text of statements: it is    *)
(* inspected, its calls of now() are replaced, and it is forwarded, or     *)
(* answered by the proxy while the control connection refreshes what it    *)
(* knows of the cluster.                                                   *)
(***************************************************************************)
EXTENDS NowReplacement, SystemTables

CONSTANTS
    Cases,         \* pairs of a request, with its opcode, the statements in it,
                   \* << >> for a prepared one of a batch, and the keyspace, and of a
                   \* configuration: the number of proxy instances, the index of
                   \* this one, and the datacenter configured, or ""
    LocalRows,     \* results of the control connection's query on system.local
    PeersRows,     \* and on system.peers
    Primary,       \* the primary cluster
    SystemQueries, \* the cluster that gets queries on system keyspaces
    MaxRefreshes   \* bound on the topology refreshes during a request

VARIABLES
    request, config,
    data,          \* statementsQueryData
    sent,          \* the statements of the request that is forwarded
    replaced,      \* the terms replaced in the first of them
    decision,      \* where the request goes, and whether also to the async connector
    columns,       \* VariablesMetadata.Columns of the cluster's answer
    shown,         \* the columns in the answer sent to the client
    values,        \* the values the cluster binds to the columns
    byName,        \* the client sends its values by name
    cc,            \* what the control connection knows
    hosts, names,  \* the virtual hosts and the peers' columns read from it
    answer,        \* the proxy's own answer
    refreshes,
    phase

clientVars == <<request, config>>
textVars == <<data, sent, replaced, decision>>
boundVars == <<columns, shown, values, byName>>
topologyVars == <<cc, refreshes>>
answerVars == <<hosts, names, answer>>
vars == <<clientVars, textVars, boundVars, topologyVars, answerVars, phase>>

-----------------------------------------------------------------------------
(* The text.                                                               *)

inspectStatements ==
    /\ phase = "received"
    /\ LET texts == SelectSeq([i \in DOMAIN request.queries |-> i],
                              LAMBDA i : request.opcode # "BATCH" \/ request.queries[i] # << >>)
       IN  data' = << >> \o [k \in DOMAIN texts |->
                                [index |-> texts[k],
                                 info |-> inspectCqlQuery(request.queries[texts[k]],
                                                          request.keyspace)]]
    /\ phase' = "inspected"
    /\ UNCHANGED <<clientVars, sent, replaced, decision, boundVars, topologyVars, answerVars>>

\* What a call of now() becomes.
ReplacementKind(opcode, info) ==
    CASE opcode # "PREPARE" -> "literal"
      [] opcode = "PREPARE" /\ info.namedMarkers -> "named"
      [] opcode = "PREPARE" /\ ~info.namedMarkers -> "positional"

\* The statements of the new frame.
NewQueries(queries, newData) ==
    << >> \o [i \in DOMAIN queries |->
                 IF \E k \in DOMAIN newData : newData[k].index = i
                 THEN newData[CHOOSE k \in DOMAIN newData : newData[k].index = i].info.query
                 ELSE queries[i]]

replaceQueryString ==
    /\ phase = "inspected"
    /\ \E results \in {<< >> \o [k \in DOMAIN data |->
                          replaceFunctionCalls(data[k].info,
                                               ReplacementKind(request.opcode, data[k].info))]} :
           /\ data' = << >> \o [k \in DOMAIN data |->
                                   [data[k] EXCEPT !.info = results[k].info]]
           /\ replaced' = IF data = << >> THEN << >> ELSE results[1].replacedTerms
    /\ sent' = NewQueries(request.queries, data')
    /\ phase' = "replaced"
    /\ UNCHANGED <<clientVars, decision, boundVars, topologyVars, answerVars>>

-----------------------------------------------------------------------------
(* Where it goes.                                                          *)

SystemKeyspaces == {"system", "system_schema", "dse_security"}

\* The table of an intercepted query.
Intercepted(info) ==
    /\ info.statementType = "select"
    /\ getApplicableKeyspace(info) = "system"
    /\ info.tableName \in {"local", "peers", "peers_v2"}

\* The forward decision, and sendAlsoToAsync.
getRequestInfoFromQueryInfo(info) ==
    LET system == getApplicableKeyspace(info) \in SystemKeyspaces
    IN  CASE Intercepted(info) -> [forward |-> "none", async |-> FALSE]
          [] ~Intercepted(info) /\ info.statementType = "select" ->
                 [forward |-> IF system THEN SystemQueries ELSE Primary, async |-> ~system]
          [] info.statementType # "select" ->
                 [forward |-> "both", async |-> info.statementType = "use"]

\* A PREPARE that is not intercepted goes to both clusters.
buildRequestInfo ==
    /\ phase = "replaced"
    /\ decision' = IF request.opcode = "BATCH" THEN [forward |-> "both", async |-> FALSE]
                   ELSE getRequestInfoFromQueryInfo(data[1].info)
    /\ phase' = CASE decision'.forward = "none" -> "intercepted"
                  [] decision'.forward # "none" /\ request.opcode = "PREPARE" -> "preparing"
                  [] decision'.forward # "none" /\ request.opcode # "PREPARE" -> "done"
    /\ UNCHANGED <<clientVars, data, sent, replaced, boundVars, topologyVars, answerVars>>

-----------------------------------------------------------------------------
(* A prepared statement.                                                   *)

\* A cluster prepares the new text.
Prepare ==
    /\ phase = "preparing"
    /\ columns' = ColumnsOf(sent[1])
    /\ phase' = "prepared"
    /\ UNCHANGED <<clientVars, textVars, shown, values, byName, topologyVars, answerVars>>

processPreparedResponse ==
    /\ phase = "prepared"
    /\ shown' = RemoveGenerated(columns, replaced, data[1].info.positionalMarkers)
    /\ phase' = "bound"
    /\ UNCHANGED <<clientVars, textVars, columns, values, byName, topologyVars, answerVars>>

\* The client's own values.
Own == [n \in 1..Len(SelectSeq(columns, LAMBDA c : c.own > 0)) |-> n]

\* EXECUTE, or a prepared statement of a BATCH: the client sends values for its
\* own markers, in their order or, if there are any, by the names of their columns.
AddValuesToExecuteFrame ==
    /\ phase = "bound"
    /\ \/ /\ byName' = FALSE
          /\ values' = addPositionalValuesForReplacedTerms(<< >> \o Own, columns, replaced,
                                                           data[1].info.positionalMarkers)
       \/ /\ DOMAIN Own # {} /\ byName' = TRUE
          /\ values' = addNamedValuesForReplacedNamedMarkers(columns, replaced)
    /\ phase' = "done"
    /\ UNCHANGED <<clientVars, textVars, columns, shown, topologyVars, answerVars>>

-----------------------------------------------------------------------------
(* An answer of the proxy: handleInterceptedRequest takes the lock of the  *)
(* topology once for each thing it reads.  The control connection has      *)
(* refreshed before a client can connect; as nothing before this depends   *)
(* on it, its first refresh is put off until here.                         *)

Clause == data[1].info.selectClause

Answer(a) == answer' = a /\ phase' = "answered"

GetVirtualHosts ==
    /\ phase = "intercepted" /\ cc.virtualHosts # << >>
    /\ hosts' = cc.virtualHosts
    /\ CASE data[1].info.tableName = "peers_v2" -> Answer(Invalid)
         [] data[1].info.tableName # "peers_v2" /\ Clause = NoClause -> Answer(NoAnswer)
         [] OTHER -> phase' = data[1].info.tableName /\ UNCHANGED answer
    /\ UNCHANGED <<clientVars, textVars, boundVars, topologyVars, names>>

GetSystemPeersColumnNames ==
    /\ phase = "peers"
    /\ names' = cc.systemPeersColumnNames
    /\ phase' = "named"
    /\ UNCHANGED <<clientVars, textVars, boundVars, topologyVars, hosts, answer>>

AnswerPeers ==
    /\ phase = "named"
    /\ Answer(NewSystemPeersResult(request.opcode = "PREPARE", Clause, names,
                                   cc.systemLocalColumnData, hosts, config.index))
    /\ UNCHANGED <<clientVars, textVars, boundVars, topologyVars, hosts, names>>

AnswerLocal ==
    /\ phase = "local"
    /\ Answer(NewSystemLocalResult(request.opcode = "PREPARE", Clause,
                                   cc.systemLocalColumnData, hosts[config.index + 1]))
    /\ UNCHANGED <<clientVars, textVars, boundVars, topologyVars, hosts, names>>

\* The client executes what it has prepared.
Execute ==
    /\ phase = "answered" /\ answer.kind = "prepared"
    /\ request' = [request EXCEPT !.opcode = "EXECUTE"]
    /\ phase' = "intercepted"
    /\ UNCHANGED <<config, textVars, boundVars, topologyVars, answerVars>>

\* The control connection refreshes, while the proxy answers a request: only then
\* does anything here depend on it.  The proxy does not start unless the first
\* refresh succeeds.
Refresh ==
    /\ phase \in {"intercepted", "peers", "named", "local"}
    /\ refreshes < MaxRefreshes
    /\ refreshes' = refreshes + 1
    /\ \E localRows \in LocalRows, peersRows \in PeersRows :
           cc' = RefreshHosts(cc, config.count, config.localDc, localRows, peersRows)
    /\ cc'.virtualHosts # << >>
    /\ UNCHANGED <<clientVars, textVars, boundVars, answerVars, phase>>

Done == phase \in {"done", "answered"} /\ UNCHANGED vars

Init ==
    /\ \E c \in Cases : request = c.request /\ config = c.config
    /\ data = << >> /\ sent = << >> /\ replaced = << >> /\ decision = [forward |-> "unknown", async |-> FALSE]
    /\ columns = << >> /\ shown = << >> /\ values = << >> /\ byName = FALSE
    /\ cc = [datacenter |-> "", virtualHosts |-> << >>, systemPeersColumnNames |-> NoColumns,
             systemLocalColumnData |-> [exists |-> {}, nulls |-> {}]]
    /\ hosts = << >> /\ names = NoColumns /\ answer = NoAnswer /\ refreshes = 0
    /\ phase = "received"

Next ==
    \/ inspectStatements \/ replaceQueryString \/ buildRequestInfo
    \/ Prepare \/ processPreparedResponse \/ AddValuesToExecuteFrame
    \/ GetVirtualHosts \/ GetSystemPeersColumnNames \/ AnswerPeers \/ AnswerLocal
    \/ Execute \/ Refresh \/ Done

Spec == Init /\ [][Next]_vars

-----------------------------------------------------------------------------
(* Properties.                                                             *)

\* What a term is to a reader of the statement, wherever it is in the text.  Its
\* positional index and the one before it count the markers generated for calls
\* as well, which replaceFunctionCalls gives an index among themselves only, and
\* the other terms none at all: they are left out when markers are generated.
TermShape(t, kind) ==
    [call |-> [keyspace |-> t.call.keyspace, name |-> t.call.name, arity |-> t.call.arity],
     positional |-> isPositionalBindMarker(t), name |-> t.name, literal |-> t.literal,
     indexes |-> IF kind = "positional" THEN << >> ELSE <<t.previous, t.position>>]

\* The term that stands for t, a call of now().
Stands(t, kind) ==
    TermShape(CASE kind = "literal" -> NewLiteralTerm(Replacement(kind), t.previous)
                [] kind = "named" -> NewNamedBindMarkerTerm(zdmNowNamedMarker, t.previous)
                [] kind = "positional" -> NewPositionalBindMarkerTerm(0),
              kind)

\* A statement as it is read, calls of now() given as what stands for them.
Shape(l, kind) ==
    [type |-> l.statementType, keyspace |-> getApplicableKeyspace(l), table |-> l.tableName,
     clause |-> l.selectClause,
     statements |-> << >> \o [s \in DOMAIN l.parsedStatements |->
         LET p == l.parsedStatements[s]
         IN  [index |-> p.index, type |-> p.type,
              terms |-> << >> \o [i \in DOMAIN p.terms |->
                  IF isFunctionCall(p.terms[i]) /\ isNow(p.terms[i].call)
                  THEN Stands(p.terms[i], kind) ELSE TermShape(p.terms[i], kind)]]]]

\* Text outside of ASCII comes before a call of now() in the statement.
WideBefore(l) ==
    \E s \in DOMAIN l.parsedStatements :
        \E t \in ToSet(l.parsedStatements[s].terms) :
            /\ isFunctionCall(t) /\ isNow(t.call)
            /\ \E n \in 1..t.call.start : Width(l.query[n]) > 1

\* A statement with calls of now() replaced in its text is the same statement:
\* inspected again, it has a generated value or marker where each call was, the
\* other terms, the table and the type it had, and no call of now() is left.
\* What replaceFunctionCalls says of the new text without inspecting it agrees,
\* but for the positional indexes where positional markers are generated.
\* Each statement of a batch gets its own text back (replaceQueryString).  With
\* text outside of ASCII before a call this does not hold of the code, which
\* cuts the text at the wrong places.
RewrittenAsRead ==
    phase = "replaced" =>
        \A k \in DOMAIN data :
            \E old \in {inspectCqlQuery(request.queries[data[k].index], request.keyspace)},
               new \in {inspectCqlQuery(sent[data[k].index], request.keyspace)} :
                LET kind == ReplacementKind(request.opcode, old)
                IN  ~WideBefore(old) =>
                        /\ Shape(new, kind) = Shape(old, kind)
                        /\ Shape(data[k].info, kind) = Shape(new, kind)
                        /\ ~new.nowCalls

\* A marker inside a literal or the arguments of a call, which inspection passes
\* over.
HiddenMarkers(query) ==
    \E tree \in {ParseTree(query)} :
        MarkersBelow(tree, {"literal", "functionCall"}) # MarkersBelow(tree, {})

\* Every column of the statement the cluster prepared gets its value: a
\* generated one for a call that was replaced, the client's own one for a marker
\* of the client, and no EXECUTE fails for want of a value
\* (AddValuesToExecuteFrame undoes what PREPARE did to the statement).  With a
\* marker inside a literal or a call this does not hold of the code, nor with text
\* outside of ASCII before a call, nor for a client that sends values by name for
\* positional markers when a call was replaced.
ValuesLineUp ==
    (/\ phase = "done" /\ request.opcode = "PREPARE" /\ ~HiddenMarkers(sent[1])
     /\ ~WideBefore(inspectCqlQuery(request.queries[1], request.keyspace))
     /\ ~(byName /\ replaced # << >> /\ data[1].info.positionalMarkers)) =>
        /\ Len(values) = Len(columns)
        /\ \A i \in DOMAIN columns :
               IF columns[i].own = 0 THEN values[i] < 0
               ELSE \/ values[i] = columns[i].own
                    \/ /\ byName
                       /\ \E j \in DOMAIN columns :
                              columns[j].own = values[i] /\ columns[j].name = columns[i].name

\* These two do not hold of processPreparedResponse.  The PREPARED result shown to
\* the client has none of the generated markers (a positional one that comes last
\* stays), and all of the client's own ones (named ones that sort before
\* zdm__now are taken out with it).
GeneratedRemoved == phase = "bound" => \A i \in DOMAIN shown : shown[i].own # 0

OwnMarkersShown ==
    phase = "bound" =>
        ToSet(SelectSeq(columns, LAMBDA c : c.own # 0)) \subseteq ToSet(shown)

Rows == phase = "answered" /\ answer.kind = "rows"

\* Every row the proxy answers with has a value or a null for each column, and no
\* value of another column: the columns are those that were selected, under
\* their names, whatever columns the hosts behind the instances have and even if
\* the topology changes between the reads (addColumnHelper compares the rows).
RowsMatchColumns ==
    Rows =>
        LET table == IF data[1].info.tableName = "local" THEN systemLocalColumns
                                                         ELSE systemPeersColumns
            source == IF Clause.kind = "star" THEN answer.columns
                      ELSE [i \in DOMAIN Clause.selectors |-> Clause.selectors[i].name]
        IN  /\ IF Clause.kind = "star"
               THEN answer.columns = SelectSeq(table, LAMBDA c : c \in ToSet(answer.columns))
               ELSE answer.columns = filterSystemColumns(Clause, table)
            /\ \A n \in DOMAIN answer.rows :
                   /\ Len(answer.rows[n]) = Len(answer.columns)
                   /\ \A i \in DOMAIN answer.columns :
                          answer.rows[n][i].name \in {source[i], "null"}

\* A driver that asks for its peers is told of every other proxy instance once,
\* in the order all instances agree on, and never of the one it asks; counts are
\* the number of the others; system.local is the instance asked
\* (NewSystemPeersResult, NewSystemLocalResult).
PeersAreTheOthers ==
    Rows =>
        LET counts == \E i \in DOMAIN Clause.selectors : IsCount(Clause.selectors[i])
            others == SelectSeq([i \in 1..config.count |-> i], LAMBDA i : i # config.index + 1)
            is(row, instance) == \A i \in DOMAIN row : row[i] = Null \/ row[i].of = instance
        IN  CASE data[1].info.tableName = "local" /\ ~counts ->
                     Len(answer.rows) = 1 /\ is(answer.rows[1], config.index + 1)
              [] data[1].info.tableName = "peers" /\ ~counts ->
                     /\ Len(answer.rows) = Len(others)
                     /\ \A n \in DOMAIN others : is(answer.rows[n], others[n])
              [] counts ->
                     /\ Len(answer.rows) = 1
                     /\ \A i \in DOMAIN Clause.selectors : IsCount(Clause.selectors[i]) =>
                            answer.rows[1][i].of =
                                IF data[1].info.tableName = "local" THEN 1 ELSE config.count - 1

=============================================================================
