------------------------ MODULE MCPreparedStatements ------------------------
EXTENDS PreparedStatements, TLC

S(type, keyspace, table, now) ==
    [type |-> type, keyspace |-> keyspace, table |-> table, now |-> now]

\* Statements that name their keyspace and statements that leave it to the
\* connection: a read and a write of a table, a query on a table that the proxy
\* answers for, and USE.
Mixed ==
    {S("select", "ks1", "t", FALSE), S("write", "ks1", "t", TRUE),
     S("select", None, "local", FALSE), S("use", "system", None, FALSE)}

\* Any request may fail on one cluster, except USE: it would leave the two
\* connections of the client in different keyspaces.
NotUse == {"query", "prepare", "execute", "batch"}
Permuted == Permutations(Clients)

\* The clusters whose prepared ids depend on the keyspace of the connection even
\* for a statement that names its keyspace.
JustOrigin == {"origin"}
NoCluster == {}
=============================================================================
