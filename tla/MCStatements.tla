---------------------------- MODULE MCStatements ----------------------------
(***************************************************************************)
(* Statements that go through every alternative of the grammar, results of *)
(* the control connection's queries, and configurations, for TLC.          *)
(***************************************************************************)
EXTENDS Statements

-----------------------------------------------------------------------------
(* Words, and the tokens the lexer makes of them.                          *)

Keywords ==
    {"INSERT", "INTO", "VALUES", "IF", "NOT", "EXISTS", "USING", "TIMESTAMP", "TTL", "AND",
     "OR", "UPDATE", "SET", "WHERE", "DELETE", "FROM", "BEGIN", "UNLOGGED", "COUNTER",
     "BATCH", "APPLY", "SELECT", "JSON", "DISTINCT", "AS", "COUNT", "CAST", "USE", "ORDER",
     "GROUP", "BY", "ASC", "DESC", "PER", "PARTITION", "LIMIT", "ALLOW", "FILTERING", "IN",
     "TOKEN", "LIKE", "IS", "NULL", "CONTAINS", "KEY", "NAN", "INFINITY", "FROZEN", "INT",
     "TIMEUUID", "LIST", "MAP", "TUPLE", "TYPE"}

Special ==
    "?" :> "QMARK" @@ ";" :> "EOS" @@ "1" :> "INTEGER" @@ "1.5" :> "FLOAT"
        @@ "'x'" :> "STRING_LITERAL" @@ "'wide'" :> "STRING_LITERAL" @@ "true" :> "BOOLEAN" @@ "1h" :> "DURATION"
        @@ "0xff" :> "HEXNUMBER"

Punctuation ==
    {"(", ")", "[", "]", "{", "}", ",", ".", ":", "=", "+", "-", "+=", "-=", "<", "<=", ">",
     ">=", "!=", "*"}

\* Quoted names, without their quotes.
Quoted == "\"now\"" :> "now" @@ "\"NOW\"" :> "NOW" @@ "\"KEY\"" :> "KEY"

Lex(word) ==
    CASE word \in Keywords -> [type |-> "K_" \o word, text |-> word]
      [] word \in DOMAIN Special -> [type |-> Special[word], text |-> word]
      [] word \in Punctuation -> [type |-> word, text |-> word]
      [] word \in DOMAIN Quoted -> [type |-> "QUOTED_IDENTIFIER", text |-> Quoted[word]]
      [] OTHER -> [type |-> "UNQUOTED_IDENTIFIER", text |-> word]

LexAll(words) == << >> \o [i \in DOMAIN words |-> Lex(words[i])]

-----------------------------------------------------------------------------
(* Templates: # is a place for a term, #m for a marker, #i for a marker or *)
(* an integer, #x for any form of a term.                                  *)

Now == <<"now", "(", ")">>

\* A name of the client sorts before or after zdm__now.
MarkersOf(style) == IF style = "positional" THEN {<<"?">>} ELSE {<<":", "a">>, <<":", "zz">>}

Forms(style) ==
    LET m == CHOOSE marker \in MarkersOf(style) : TRUE
    IN  {<<"system", ".", "now", "(", ")">>, <<"ks", ".", "now", "(", ")">>,
         <<"NOW", "(", ")">>, <<"\"now\"", "(", ")">>, <<"\"NOW\"", "(", ")">>,
         <<"now", "(", "1", ")">>, <<"f", "(", "x", ",">> \o m \o <<")">>,
         <<"f", "(">> \o Now \o <<")">>, <<"TTL", "(", ")">>,
         <<"[">> \o m \o <<"]">>, <<"[", "]">>, <<"{", "}">>, <<"{">> \o Now \o <<"}">>,
         <<"{", "1", ":">> \o m \o <<"}">>, <<"{", "x", ":", "'x'", "}">>,
         <<"(">> \o m \o <<",">> \o Now \o <<")">>,
         <<"(", "INT", ")">> \o m, <<"(", "TIMEUUID", ")">> \o Now,
         <<"(", "FROZEN", "<", "LIST", "<", "INT", ">", ">", ")", "[", "1", "]">>,
         <<"(", "MAP", "<", "INT", ",", "ks", ".", "u", ">", ")">> \o m,
         <<"(", "TUPLE", "<", "INT", ",", "INT", ">", ")", "(", "1", ",", "1", ")">>,
         <<"-", "NAN">>, <<"INFINITY">>, <<"1.5">>, <<"true">>, <<"1h">>, <<"0xff">>,
         <<"NULL">>}

WordsFor(style, word) ==
    CASE word = "#" -> MarkersOf(style) \cup {Now} \cup (IF style = "positional"
                                                         THEN {<<"1">>} ELSE {})
      [] word = "#m" -> MarkersOf(style)
      [] word = "#i" -> MarkersOf(style) \cup {<<"1">>}
      [] word = "#x" -> Forms(style)
      [] OTHER -> {<<word>>}

RECURSIVE Filled(_, _)
Filled(style, words) ==
    IF words = << >> THEN {<< >>}
    ELSE {c \o rest : c \in WordsFor(style, Head(words)), rest \in Filled(style, Tail(words))}

FilledAny(templates) ==
    UNION {Filled(style, t) : style \in {"positional", "named"}, t \in templates}

-----------------------------------------------------------------------------
(* Statements that write.                                                  *)

Usings ==
    {<<"USING", "TIMESTAMP", "#i">>, <<"USING", "TTL", "#i">>,
     <<"USING", "TIMESTAMP", "#m", "AND", "TTL", "1">>,
     <<"USING", "TTL", "#m", "AND", "TIMESTAMP", "#m">>}

Insert(values_, rest) ==
    <<"INSERT", "INTO", "t", "(", "a", ",", "KEY", ")", "VALUES", "(">> \o values_
        \o <<")">> \o rest

Inserts ==
    {Insert(<<"#", ",", "#", ",", "#">>, << >>), Insert(<<"#", ",", "#">>, <<";">>),
     Insert(<<"#", ",", "#x", ",", "#">>, << >>),
     Insert(<<"#", ",", "#", ",", "'wide'">>, << >>), Insert(<<"'wide'", ",", "#">>, << >>),
     Insert(<<"'wide'", ",", "'wide'", ",", "#", ",", "#">>, << >>)}
        \cup {Insert(<<"#">>, <<"IF", "NOT", "EXISTS">> \o u) : u \in Usings}

Operations ==
    {<<"a", "=", "#", ",", "b", "=", "#">>, <<"a", "=", "#", "+", "a">>,
     <<"a", "=", "a", "-", "#">>, <<"a", "+=", "#">>, <<"a", "[", "#", "]", "=", "#">>,
     <<"a", ".", "b", "=", "#">>}

Relations ==
    {<<"TOKEN", "(", "x", ",", "y", ")", ">", "#">>, <<"x", "LIKE", "#">>,
     <<"x", "IS", "NOT", "NULL">>, <<"x", "CONTAINS", "KEY", "#">>,
     <<"x", "[", "#", "]", "=", "#">>, <<"x", "IN", "(", "#", ",", "#", ")">>,
     <<"x", "IN", "(", ")">>, <<"x", "IN", "#m", "AND", "y", ":", "#">>,
     <<"(", "x", ")", "IN", "(", ")", "OR", "y", "=", "#">>, <<"(", "x", ")", "IN", "#m">>,
     <<"(", "x", ")", "IN", "(", "(", "#", ",", "#", ")", ",", "(", "#", ")", ")">>,
     <<"(", "x", ")", "IN", "(", "#m", ",", "#m", ")">>,
     <<"(", "x", ",", "y", ")", ">=", "(", "#", ",", "#", ")">>,
     <<"(", "x", ",", "y", ")", "<", "(", "#m", ",", "#m", ")">>,
     <<"(", "x", ")", "=", "#m">>, <<"(", "x", "=", "#", ")", "AND", "y", "=", "#">>}

Conditions ==
    {<<"EXISTS">>, <<"a", "=", "#", "AND", "b", "!=", "#">>, <<"a", "IN", "(", "#", ")">>,
     <<"a", "IN", "#m">>, <<"a", "[", "#", "]", "=", "#">>,
     <<"a", "[", "#", "]", "IN", "(", ")">>, <<"a", ".", "b", "=", "#">>,
     <<"a", ".", "b", "IN", "(", "#", ",", "#", ")">>}

Update(using, set, where) == <<"UPDATE", "ks", ".", "t">> \o using \o <<"SET">> \o set
                                 \o <<"WHERE">> \o where

Updates ==
    {Update(<< >>, o, <<"x", "=", "#">>) : o \in Operations}
        \cup {Update(<< >>, <<"a", "=", "#">>, r) : r \in Relations}
        \cup {Update(u, <<"a", "=", "#">>, <<"x", "=", "#", ";">>) : u \in Usings}
        \cup {Update(<< >>, <<"a", "=", "1">>, <<"x", "=", "#", "IF">> \o c) : c \in Conditions}

Delete(what, rest) == <<"DELETE">> \o what \o <<"FROM", "t">> \o rest

Deletes ==
    {Delete(what, <<"WHERE", "x", "=", "#">>) :
        what \in {<< >>, <<"a", ",", "b", ".", "c">>, <<"a", "[", "#", "]", ",", "b">>}}
        \cup {Delete(<<"a">>, <<"USING", "TIMESTAMP", "#i", "WHERE", "x", "=", "#", "IF">> \o c) :
                  c \in {<<"EXISTS">>, <<"a", "=", "#">>}}

Batch(kind, using, children) ==
    <<"BEGIN">> \o kind \o <<"BATCH">> \o using \o children \o <<"APPLY", "BATCH">>

Batches ==
    {Batch(<< >>, u, Insert(<<"#">>, <<";">>) \o Delete(<< >>, <<"WHERE", "x", "=", "#">>)) :
        u \in {<< >>, <<"USING", "TIMESTAMP", "#i">>}}
        \cup {Batch(<<"UNLOGGED">>, << >>,
                    Update(<<"USING", "TTL", "#m">>, <<"a", "=", "#">>, <<"x", "=", "#">>)),
              Batch(<<"COUNTER">>, << >>, << >>)}

\* Statements with calls of now() that the grammar does not know, and others.
Others ==
    {Insert(<<"#", ",">>, << >>), Insert(Now, <<"IF", "EXISTS">>),
     Update(<< >>, <<"a", "=", "#", "+", "1">>, <<"x", "=", "#">>),
     <<"CREATE", "TABLE", "t", "(", "a", "INT", ")">>, <<"USE", "ks">>, <<"USE", "\"KEY\"", ";">>,
     << >>}

-----------------------------------------------------------------------------
(* Statements that read.                                                   *)

Select(what, rest) == <<"SELECT">> \o what \o <<"FROM">> \o rest

Reads ==
    {Select(<<"JSON", "DISTINCT", "a">>, <<"t", "WHERE", "x", "=", "#", "GROUP", "BY", "a", ",",
            "b", "ORDER", "BY", "a", "ASC", ",", "b", "PER", "PARTITION", "LIMIT", "#i",
            "LIMIT", "#i", "ALLOW", "FILTERING">>),
     Select(<<"#", "AS", "n">>, <<"t", "LIMIT", "1", ";">>),
     Select(<<"*">>, <<"system_schema", ".", "tables">>),
     Select(<<"JSON">>, <<"t">>), Select(<<"*">>, <<"peers">>)}

Selected ==
    {<<"*">>, <<"KEY", "AS", "k", ",", "cluster_name">>, <<"peer", ",", "tokens", ",", "peer">>,
     <<"COUNT", "(", "*", ")">>, <<"rack", ",", "COUNT", "(", "*", ")", "AS", "n">>,
     <<"host_id", "AS", "release_version", ",", "schema_version">>,
     <<"dse_version", ",", "data_center">>, <<"truncated_at">>, <<"no_such_column">>,
     <<"\"KEY\"">>, <<"CAST", "(", "rack", "AS", "INT", ")">>, <<"f", "(", ")">>}

SystemReads ==
    {Select(what, <<"system", ".", table>> \o rest) : what \in Selected,
        table \in {"local", "peers"}, rest \in {<< >>, <<"WHERE", "KEY", "=", "'x'">>}}
        \cup {Select(<<"*">>, <<"system", ".", "peers_v2">>)}

-----------------------------------------------------------------------------
(* Requests.                                                               *)

Request(opcode, queries, keyspace) ==
    [opcode |-> opcode, keyspace |-> keyspace,
     queries |-> << >> \o [i \in DOMAIN queries |-> LexAll(queries[i])]]

Texts == FilledAny(Inserts \cup Updates \cup Deletes \cup Batches \cup Others \cup Reads)

\* The children of a batch, one of them prepared.
Children ==
    {<< >>, Insert(Now \o <<",", "1">>, << >>), Delete(<< >>, <<"WHERE", "x", "=", "?">>),
     Update(<< >>, <<"a", "=">> \o Now, <<"x", "=">> \o Now)}

TextRequests ==
    {Request("PREPARE", <<q>>, "ks") : q \in Texts}
        \cup {Request("QUERY", <<q>>, "") : q \in Filled("positional", Insert(<<"#", ",", "#x">>, << >>))}
        \cup {Request("QUERY", <<q>>, "system") : q \in UNION {Filled("named", t) : t \in Batches \cup Others}}
        \cup {Request("BATCH", qs, "ks") : qs \in Children \X Children \X Children}
        \cup {Request("BATCH", << >>, "ks")}

SystemRequests ==
    {Request(opcode, <<q>>, "ks") : opcode \in {"QUERY", "PREPARE"}, q \in SystemReads}
        \cup {Request("QUERY", <<Select(<<"*">>, <<"peers">>)>>, "system")}

Configs ==
    {[count |-> 1, index |-> 0, localDc |-> "dc2"], [count |-> 3, index |-> 0, localDc |-> ""],
     [count |-> 3, index |-> 2, localDc |-> "dc3"]}

MCCases ==
    [request : TextRequests, config : {[count |-> 1, index |-> 0, localDc |-> ""]}]
        \cup [request : SystemRequests, config : Configs]

-----------------------------------------------------------------------------
(* Results of queries on system.local and system.peers.                    *)

Cassandra == {"release_version", "preferred_ip"}

RowOf(columns_, id, dc) ==
    [columns |-> columns_ \cup {"data_center", "host_id", "rack", "rpc_address",
                                "schema_version", "tokens"},
     nulls |-> {}, id |-> id, dc |-> dc, rack |-> 4 - id, unspecified |-> FALSE,
     partitioner |-> "Murmur3"]

LocalRow(columns_, id, dc) ==
    RowOf(columns_ \cup {"broadcast_address", "listen_address"}
              \cup (OptionalLocalColumns \ {"last_nodesync_checkpoint_time"}), id, dc)

PeerRow(columns_, id, dc) == RowOf(columns_ \cup {"peer"}, id, dc)

MCLocalRows ==
    {<< >>, <<LocalRow(Cassandra, 1, "dc1")>>,
     <<[LocalRow(OptionalColumns \ {"server_id"}, 1, "dc1") EXCEPT
           !.nulls = {"schema_version", "graph", "cluster_name"}, !.partitioner = "Random"]>>,
     <<[LocalRow(Cassandra, 1, "dc1") EXCEPT !.partitioner = "ByteOrdered"]>>,
     <<[LocalRow(Cassandra, 1, "dc1") EXCEPT !.nulls = {"rack"}]>>}

MCPeersRows ==
    {<< >>, <<PeerRow(Cassandra, 2, "dc1")>>,
     <<PeerRow(OptionalColumns, 2, "dc1"), PeerRow(OptionalColumns, 3, "dc2")>>,
     <<PeerRow(OptionalColumns \ {"workloads"}, 2, "dc2"),
       [PeerRow(OptionalColumns \ {"workloads"}, 3, "dc1") EXCEPT !.nulls = {"host_id"}]>>,
     <<[PeerRow(Cassandra, 2, "dc1") EXCEPT !.unspecified = TRUE],
       [PeerRow(Cassandra, 3, "dc1") EXCEPT !.unspecified = TRUE, !.nulls = {"peer"}],
       [PeerRow(Cassandra, 2, "dc1") EXCEPT !.nulls = {"schema_version", "rpc_address"}],
       PeerRow(Cassandra, 1, "dc1")>>}

=============================================================================
