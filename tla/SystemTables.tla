---------------------------- MODULE SystemTables ----------------------------
(***************************************************************************)
(* The answers of the proxy to queries on system.local and system.peers,   *)
(* which tell a driver that the proxy instances are the nodes of the       *)
(* cluster, and the part of a topology refresh they are made from.         *)
(*                                                                         *)
(* A row of a result of the cluster has the set of its columns, the set of *)
(* those that are null, and the values the proxy looks at.                 *)
(***************************************************************************)
EXTENDS QueryInspector

-----------------------------------------------------------------------------
(* The hosts of a cluster, as RefreshHosts reads them from it.             *)

\* Columns only some servers have: those of both tables, and those of
\* system.local alone.
OptionalColumns ==
    {"release_version", "dse_version", "graph", "jmx_port", "server_id", "storage_port",
     "storage_port_ssl", "workload", "workloads", "native_transport_address",
     "native_transport_port", "native_transport_port_ssl", "preferred_ip"}

OptionalLocalColumns ==
    {"key", "bootstrapped", "cql_version", "gossip_generation",
     "last_nodesync_checkpoint_time", "native_protocol_version", "partitioner",
     "thrift_version", "cluster_name"}

\* GetByColumn returns a value that is not nil.
Has(row, column) == column \in row.columns \ row.nulls

Optional(row, names) == [exists |-> names \cap row.columns, nulls |-> names \cap row.nulls]

\* The columns a host cannot do without.
Parsable(row) == Has(row, "data_center") /\ Has(row, "rack") /\ Has(row, "host_id")

parseHost(row) ==
    [id |-> row.id, dc |-> row.dc, rack |-> row.rack, schema |-> Has(row, "schema_version"),
     columnData |-> Optional(row, OptionalColumns)]

\* Whether ParseRpcAddress fails: without rpc_address there is no address, and
\* no error either.
BadAddress(row) ==
    /\ Has(row, "rpc_address") /\ row.unspecified
    /\ \A c \in {"peer", "broadcast_address", "listen_address"} : ~Has(row, c)

\* By host id; the last row of an id wins.
ParseSystemPeersResult(rows) ==
    LET good == {i \in DOMAIN rows : ~BadAddress(rows[i]) /\ Parsable(rows[i])}
    IN  {parseHost(rows[i]) : i \in {j \in good :
                                        \A k \in good : rows[k].id = rows[j].id => k <= j}}

filterHosts(hosts, currentDc, configuredDc, localHost) ==
    LET in(dc) == {h \in hosts : h.dc = dc}
    IN  IF currentDc # "" THEN [hosts |-> in(currentDc), dc |-> currentDc]
        ELSE IF configuredDc # "" /\ in(configuredDc) # {}
        THEN [hosts |-> in(configuredDc), dc |-> configuredDc]
        ELSE [hosts |-> in(localHost.dc), dc |-> localHost.dc]

\* orderedHostsInLocalDc
Ordered(hosts) ==
    SetToSortSeq(hosts, LAMBDA g, h : g.rack < h.rack \/ (g.rack = h.rack /\ g.id < h.id))

computeAssignedHostsForVirtualization(count, ordered) ==
    << >> \o [i \in 1..count |-> ordered[((i - 1) % Len(ordered)) + 1]]

\* A virtual host is one of the count proxy instances, dressed up as a host.
computeVirtualHosts(count, ordered) ==
    CHOOSE virtualHosts \in
        {<< >> \o [i \in 1..count |-> [instance |-> i, host |-> assigned[i]]] :
            assigned \in {computeAssignedHostsForVirtualization(count, o) : o \in {ordered}}} :
        TRUE

NoColumns == [known |-> FALSE, names |-> {}]

\* The columns the peers have, read from any of them, since the rows of a result
\* all have the same; nil without peers.
PeersColumns(peers) ==
    IF peers = {} THEN NoColumns
    ELSE [known |-> TRUE, names |-> (CHOOSE h \in peers : TRUE).columnData.exists]

\* What RefreshHosts makes of the two tables.  An error leaves everything as it was.
RefreshHosts(cc, count, configuredDc, localRows, peersRows) ==
    LET row == localRows[1]
        localHost == parseHost(row)
        peers == ParseSystemPeersResult(peersRows)
        all == {h \in peers : h.id # localHost.id} \cup {localHost}
        local == filterHosts(all, cc.datacenter, configuredDc, localHost)
    IN  IF \/ localRows = << >> \/ ~Parsable(row)
           \/ Has(row, "partitioner") /\ row.partitioner \notin {"Murmur3", "Random"}
           \/ local.hosts = {}
        THEN cc
        ELSE [datacenter |-> local.dc,
              virtualHosts |-> computeVirtualHosts(count, Ordered(local.hosts)),
              systemPeersColumnNames |-> PeersColumns(peers),
              systemLocalColumnData |-> Optional(row, OptionalLocalColumns)]

-----------------------------------------------------------------------------
(* The columns of the tables.                                              *)

systemLocalColumns ==
    <<"key", "bootstrapped", "broadcast_address", "cluster_name", "cql_version",
      "data_center", "dse_version", "gossip_generation", "graph", "host_id", "jmx_port",
      "last_nodesync_checkpoint_time", "listen_address", "native_protocol_version",
      "native_transport_port", "native_transport_port_ssl", "partitioner",
      "native_transport_address", "rack", "release_version", "rpc_address",
      "schema_version", "server_id", "storage_port", "storage_port_ssl",
      "thrift_version", "tokens", "truncated_at", "workload", "workloads">>

systemPeersColumns ==
    <<"peer", "data_center", "dse_version", "graph", "host_id", "jmx_port",
      "native_transport_address", "native_transport_port", "native_transport_port_ssl",
      "preferred_ip", "rack", "release_version", "rpc_address", "schema_version",
      "server_id", "storage_port", "storage_port_ssl", "tokens", "workload", "workloads">>

IsCount(selector_) == selector_.kind = "count"

\* A column of a result by the name it has there.
columnFromSelector(selector_) ==
    IF selector_.alias # "" THEN selector_.alias ELSE selector_.name

\* ColumnNotFoundErr
Undefined(clause, tableColumns) ==
    \E i \in DOMAIN clause.selectors :
        ~IsCount(clause.selectors[i]) /\ clause.selectors[i].name \notin ToSet(tableColumns)

filterSystemColumns(clause, tableColumns) ==
    IF clause.kind = "star" THEN tableColumns
    ELSE << >> \o [i \in DOMAIN clause.selectors |-> columnFromSelector(clause.selectors[i])]

-----------------------------------------------------------------------------
(* A row.                                                                  *)

Null == [name |-> "null", of |-> 0]

\* acc: the columns of the result, the row so far, and whether there was an
\* error.  Mutation: the rows after the first are not compared with the columns.
AddColumnUnchecked(star, first, acc, column, exists, value) ==
    IF exists THEN [acc EXCEPT !.columns = IF first THEN Append(@, column) ELSE @,
                               !.row = Append(@, value)]
    ELSE IF star THEN acc ELSE [acc EXCEPT !.err = TRUE]

\* The first row decides on the columns, and the others have to have them.
addColumnHelper(star, first, acc, column, exists, value) ==
    LET place == Len(acc.row) + 1
    IN  IF ~first /\ (place > Len(acc.columns) \/ acc.columns[place] # column)
        THEN [acc EXCEPT !.err = TRUE]
        ELSE IF exists THEN [acc EXCEPT !.columns = IF first THEN Append(@, column) ELSE @,
                                        !.row = Append(@, value)]
        ELSE IF star THEN acc ELSE [acc EXCEPT !.err = TRUE]

\* Columns an instance always has a value for.
InstanceColumns ==
    {"peer", "broadcast_address", "listen_address", "rpc_address", "preferred_ip",
     "data_center", "host_id", "rack", "tokens", "partitioner"}

\* Columns whose value the instance gives when the host has the column.
OverriddenColumns ==
    {"native_transport_address", "native_transport_port", "native_transport_port_ssl"}

\* A value names the column it is for, and the instance or the count it gives.
addSystemColumnValue(star, first, acc, column, name, peersColumns, localData, vh, rowCount) ==
    LET add(exists, value) == addColumnHelper(star, first, acc, column, exists, value)
        own == [name |-> name, of |-> vh.instance]
        stored(data) ==
            add(name \in data.exists,
                IF name \in data.nulls \ OverriddenColumns THEN Null ELSE own)
    IN  CASE acc.err -> acc
          [] ~acc.err /\ name \in InstanceColumns -> add(TRUE, own)
          [] ~acc.err /\ name = "truncated_at" -> add(TRUE, Null)
          [] ~acc.err /\ name = "schema_version" ->
                 add(TRUE, IF vh.host.schema THEN own ELSE Null)
          [] ~acc.err /\ ToLower(name) = "count" -> add(TRUE, [name |-> name, of |-> rowCount])
          [] ~acc.err /\ name \in OptionalColumns \ InstanceColumns ->
                 IF peersColumns.known /\ name \notin peersColumns.names
                 THEN [acc EXCEPT !.err = ~star]
                 ELSE stored(vh.host.columnData)
          [] ~acc.err /\ name \in OptionalLocalColumns \ InstanceColumns ->
                 IF peersColumns.known THEN [acc EXCEPT !.err = TRUE] ELSE stored(localData)

\* acc with the row of a virtual host; resultColumns are the names to go through.
getFilteredSystemValues(clause, first, acc, resultColumns, peersColumns, localData, vh, rowCount) ==
    LET star == clause.kind = "star"
        value(a, i) ==
            addSystemColumnValue(star, first, a, resultColumns[i],
                                 IF star THEN resultColumns[i] ELSE clause.selectors[i].name,
                                 peersColumns, localData, vh, rowCount)
    IN  Visit(value, [acc EXCEPT !.row = << >>], [i \in DOMAIN resultColumns |-> i])

-----------------------------------------------------------------------------
(* The answers.                                                            *)

Invalid == [kind |-> "invalid", columns |-> << >>, rows |-> << >>]
NoAnswer == [kind |-> "none", columns |-> << >>, rows |-> << >>]

\* An error that is not about an unknown column is only logged.
EncodePreparedResult(acc) ==
    IF acc.err \/ acc.columns = << >> THEN NoAnswer
    ELSE [kind |-> "prepared", columns |-> acc.columns, rows |-> << >>]

\* A row that is too short is filled up with nulls.
EncodeRowsResult(acc) ==
    LET full(row) == << >> \o [i \in DOMAIN acc.columns |->
                                  IF i \in DOMAIN row THEN row[i] ELSE Null]
    IN  IF acc.err THEN NoAnswer
        ELSE [kind |-> "rows", columns |-> acc.columns,
              rows |-> << >> \o [i \in DOMAIN acc.rows |-> full(acc.rows[i])]]

Empty == [columns |-> << >>, row |-> << >>, rows |-> << >>, err |-> FALSE]

NewSystemLocalResult(prepare, clause, localData, vh) ==
    LET result(acc, cols) ==
            getFilteredSystemValues(clause, TRUE, acc, cols, NoColumns, localData, vh, 1)
        answer(acc) == IF prepare THEN EncodePreparedResult(acc)
                       ELSE EncodeRowsResult([acc EXCEPT !.rows = <<acc.row>>])
    IN  IF Undefined(clause, systemLocalColumns) THEN Invalid
        ELSE CHOOSE a \in {answer(acc) : acc \in {Visit(result, Empty,
                                 <<filterSystemColumns(clause, systemLocalColumns)>>)}} : TRUE

\* Mutation: the instance is among its own peers.
AllInstances(hosts, index) == [i \in DOMAIN hosts |-> i]

\* The instances that get a row; a lone one is gone through for the columns.
PeerInstances(hosts, index) ==
    SelectSeq([i \in DOMAIN hosts |-> i], LAMBDA i : i - 1 # index \/ Len(hosts) = 1)

\* The rows of a lone instance: none, or the counts without its own values.
WithoutItself(acc, clause, count) ==
    IF ~count THEN [acc EXCEPT !.rows = << >>]
    ELSE [acc EXCEPT !.rows[1] =
              << >> \o [i \in DOMAIN @ |-> IF IsCount(clause.selectors[i]) THEN @[i] ELSE Null]]

NewSystemPeersResult(prepare, clause, peersColumns, localData, hosts, index) ==
    LET count == \E i \in DOMAIN clause.selectors : IsCount(clause.selectors[i])
        instances == PeerInstances(hosts, index)
        visited == IF prepare \/ count THEN SubSeq(instances, 1, 1) ELSE instances
        row(acc, i) ==
            LET first == i = visited[1]
                next == getFilteredSystemValues(
                            clause, first, acc,
                            IF first THEN filterSystemColumns(clause, systemPeersColumns)
                                     ELSE acc.columns,
                            peersColumns, localData, hosts[i], Len(hosts) - 1)
            IN  IF acc.err THEN acc
                ELSE CHOOSE r \in {[n EXCEPT !.rows = Append(@, n.row)] : n \in {next}} : TRUE
        answer(acc) ==
            CASE acc.err -> NoAnswer
              [] ~acc.err /\ prepare -> EncodePreparedResult(acc)
              [] ~acc.err /\ ~prepare ->
                     EncodeRowsResult(IF Len(hosts) = 1 THEN WithoutItself(acc, clause, count)
                                                        ELSE acc)
    IN  IF Undefined(clause, systemPeersColumns) THEN Invalid
        ELSE CHOOSE a \in {answer(acc) : acc \in {Visit(row, Empty, visited)}} : TRUE

=============================================================================
