----------------------------- MODULE CqlGrammar -----------------------------
(***************************************************************************)
(* The parser of CQL statements.  Every rule function of the generated     *)
(* parser is a definition of its name: the alternatives it predicts among, *)
(* in their order, and what each of them matches.  Parse is the runtime    *)
(* the functions call into.                                                *)
(*                                                                         *)
(* A statement is the sequence of tokens the lexer makes of its text.      *)
(***************************************************************************)
EXTENDS Integers, Sequences, SequencesExt

\* What a rule function matches.
T(type) == [op |-> "token", types |-> {type}]
OneOf(types) == [op |-> "token", types |-> types]
AnyToken == [op |-> "any"]
R(name) == [op |-> "rule", name |-> name]
Cat(parts) == [op |-> "cat", parts |-> parts]
Alt(parts) == [op |-> "alt", parts |-> parts]
Opt(part) == [op |-> "opt", part |-> part]
Many(part) == [op |-> "many", part |-> part]

\* part ( ',' part )*
CommaList(part) == Cat(<<part, Many(Cat(<<T(","), part>>))>>)
Parens(part) == Cat(<<T("("), part, T(")")>>)

-----------------------------------------------------------------------------
(* Statements.                                                             *)

cqlStatement ==
    Alt(<<Cat(<<R("insertStatement"), Opt(T("EOS"))>>),
          Cat(<<R("updateStatement"), Opt(T("EOS"))>>),
          Cat(<<R("deleteStatement"), Opt(T("EOS"))>>),
          Cat(<<R("batchStatement"), Opt(T("EOS"))>>),
          Cat(<<R("selectStatement"), Opt(T("EOS"))>>),
          Cat(<<R("useStatement"), Opt(T("EOS"))>>),
          Cat(<<R("unrecognizedStatement"), Opt(T("EOS"))>>)>>)

insertStatement ==
    Cat(<<T("K_INSERT"), T("K_INTO"), R("tableName"),
          Parens(R("identifiers")), T("K_VALUES"), T("("), R("terms"), T(")"),
          Opt(Cat(<<T("K_IF"), T("K_NOT"), T("K_EXISTS")>>)),
          Opt(R("usingClause"))>>)

updateStatement ==
    Cat(<<T("K_UPDATE"), R("tableName"), Opt(R("usingClause")),
          T("K_SET"), R("updateOperations"), R("whereClause"),
          Opt(Cat(<<T("K_IF"), Alt(<<T("K_EXISTS"), R("conditions")>>)>>))>>)

updateOperations == CommaList(R("updateOperation"))

updateOperation ==
    Alt(<<Cat(<<R("identifier"), T("="), R("term"),
                Opt(Cat(<<T("+"), R("identifier")>>))>>),
          Cat(<<R("identifier"), T("="), R("identifier"), OneOf({"+", "-"}), R("term")>>),
          Cat(<<R("identifier"), OneOf({"+=", "-="}), R("term")>>),
          Cat(<<R("identifier"), T("["), R("term"), T("]"), T("="), R("term")>>),
          Cat(<<R("identifier"), T("."), R("identifier"), T("="), R("term")>>)>>)

deleteStatement ==
    Cat(<<T("K_DELETE"), Opt(R("deleteOperations")), T("K_FROM"), R("tableName"),
          Opt(Cat(<<T("K_USING"), R("timestamp")>>)), R("whereClause"),
          Opt(Cat(<<T("K_IF"), Alt(<<T("K_EXISTS"), R("conditions")>>)>>))>>)

deleteOperations == CommaList(R("deleteOperation"))

deleteOperation ==
    Alt(<<R("identifier"),
          Cat(<<R("identifier"), T("["), R("term"), T("]")>>),
          Cat(<<R("identifier"), T("."), R("identifier")>>)>>)

batchStatement ==
    Cat(<<T("K_BEGIN"), Opt(OneOf({"K_UNLOGGED", "K_COUNTER"})), T("K_BATCH"),
          Opt(R("usingClause")),
          Many(Cat(<<R("batchChildStatement"), Opt(T("EOS"))>>)),
          T("K_APPLY"), T("K_BATCH")>>)

batchChildStatement ==
    Alt(<<R("insertStatement"), R("updateStatement"), R("deleteStatement")>>)

selectStatement ==
    Cat(<<T("K_SELECT"), Opt(T("K_JSON")), Opt(T("K_DISTINCT")),
          R("selectClause"), T("K_FROM"), R("tableName"),
          Opt(R("whereClause")), Opt(R("groupByClause")), Opt(R("orderByClause")),
          Opt(R("perPartitionLimitClause")), Opt(R("limitClause")),
          Opt(Cat(<<T("K_ALLOW"), T("K_FILTERING")>>))>>)

selectClause == Alt(<<T("*"), R("selectors")>>)

selectors == CommaList(R("selector"))

selector == Cat(<<R("unaliasedSelector"), Opt(Cat(<<T("K_AS"), R("identifier")>>))>>)

unaliasedSelector ==
    Alt(<<R("identifier"),
          R("term"),
          Cat(<<T("K_COUNT"), T("("), T("*"), T(")")>>),
          Cat(<<T("K_CAST"), T("("), R("unaliasedSelector"), T("K_AS"),
                R("primitiveType"), T(")")>>)>>)

useStatement == Cat(<<T("K_USE"), R("keyspaceName")>>)

\* Everything the grammar does not know, e.g. the statements on the schema.
unrecognizedStatement == Many(R("unrecognizedToken"))

unrecognizedToken == AnyToken

-----------------------------------------------------------------------------
(* Clauses.                                                                *)

orderByClause == Cat(<<T("K_ORDER"), T("K_BY"), R("orderings")>>)

orderings == CommaList(R("ordering"))

ordering == Cat(<<R("identifier"), Opt(OneOf({"K_ASC", "K_DESC"}))>>)

groupByClause == Cat(<<T("K_GROUP"), T("K_BY"), R("identifiers")>>)

IntegerOrMarker == Alt(<<T("INTEGER"), R("bindMarker")>>)

perPartitionLimitClause ==
    Cat(<<T("K_PER"), T("K_PARTITION"), T("K_LIMIT"), IntegerOrMarker>>)

limitClause == Cat(<<T("K_LIMIT"), IntegerOrMarker>>)

usingClause ==
    Alt(<<Cat(<<T("K_USING"), R("timestamp")>>),
          Cat(<<T("K_USING"), R("ttl")>>),
          Cat(<<T("K_USING"), R("timestamp"), T("K_AND"), R("ttl")>>),
          Cat(<<T("K_USING"), R("ttl"), T("K_AND"), R("timestamp")>>)>>)

timestamp == Cat(<<T("K_TIMESTAMP"), IntegerOrMarker>>)

ttl == Cat(<<T("K_TTL"), IntegerOrMarker>>)

\* What follows IN in a condition or a relation.
InTerms == Alt(<<Cat(<<T("("), Opt(R("terms")), T(")")>>), R("bindMarker")>>)

Element == Cat(<<R("identifier"), T("["), R("term"), T("]")>>)
Field == Cat(<<R("identifier"), T("."), R("identifier")>>)

conditions == Cat(<<R("condition"), Many(Cat(<<T("K_AND"), R("condition")>>))>>)

condition ==
    Alt(<<Cat(<<R("identifier"), R("operator"), R("term")>>),
          Cat(<<R("identifier"), T("K_IN"), InTerms>>),
          Cat(<<Element, R("operator"), R("term")>>),
          Cat(<<Element, T("K_IN"), InTerms>>),
          Cat(<<Field, R("operator"), R("term")>>),
          Cat(<<Field, T("K_IN"), InTerms>>)>>)

whereClause ==
    Cat(<<T("K_WHERE"), R("relation"), Many(Cat(<<R("logicalOperator"), R("relation")>>))>>)

logicalOperator == OneOf({"K_AND", "K_OR"})

relation ==
    LET columns == Parens(R("identifiers"))
    IN  Alt(<<Cat(<<R("identifier"), R("operator"), R("term")>>),
              Cat(<<T("K_TOKEN"), columns, R("operator"), R("term")>>),
              Cat(<<R("identifier"), T("K_LIKE"), R("term")>>),
              Cat(<<R("identifier"), T("K_IS"), T("K_NOT"), T("K_NULL")>>),
              Cat(<<R("identifier"), T("K_CONTAINS"), Opt(T("K_KEY")), R("term")>>),
              Cat(<<Element, R("operator"), R("term")>>),
              Cat(<<R("identifier"), T("K_IN"), InTerms>>),
              Cat(<<columns, T("K_IN"), T("("), T(")")>>),
              Cat(<<columns, T("K_IN"), R("bindMarker")>>),
              Cat(<<columns, T("K_IN"), Parens(R("tupleLiterals"))>>),
              Cat(<<columns, T("K_IN"), Parens(R("bindMarkers"))>>),
              Cat(<<columns, R("operator"), R("tupleLiteral")>>),
              Cat(<<columns, R("operator"), Parens(R("bindMarkers"))>>),
              Cat(<<columns, R("operator"), R("bindMarker")>>),
              Parens(R("relation"))>>)

operator == OneOf({"=", "<", "<=", ">", ">=", "!=", ":"})

-----------------------------------------------------------------------------
(* Literals.                                                               *)

literal ==
    Alt(<<R("primitiveLiteral"), R("collectionLiteral"), R("tupleLiteral"),
          R("udtLiteral"), T("K_NULL")>>)

primitiveLiteral ==
    Alt(<<OneOf({"STRING_LITERAL", "INTEGER", "FLOAT", "BOOLEAN", "DURATION",
                 "UUID", "HEXNUMBER"}),
          Cat(<<Opt(T("-")), T("K_NAN")>>),
          Cat(<<Opt(T("-")), T("K_INFINITY")>>)>>)

collectionLiteral == Alt(<<R("listLiteral"), R("setLiteral"), R("mapLiteral")>>)

listLiteral == Cat(<<T("["), Opt(R("terms")), T("]")>>)

setLiteral == Cat(<<T("{"), Opt(R("terms")), T("}")>>)

mapLiteral == Cat(<<T("{"), Opt(R("mapEntries")), T("}")>>)

mapEntries == CommaList(R("mapEntry"))

mapEntry == Cat(<<R("term"), T(":"), R("term")>>)

tupleLiterals == CommaList(R("tupleLiteral"))

tupleLiteral == Parens(R("terms"))

udtLiteral == Cat(<<T("{"), R("fieldLiterals"), T("}")>>)

fieldLiterals == CommaList(R("fieldLiteral"))

fieldLiteral == Cat(<<R("identifier"), T(":"), R("term")>>)

-----------------------------------------------------------------------------
(* Calls, bind markers and terms.                                          *)

functionCall == Cat(<<R("functionName"), T("("), Opt(R("functionArgs")), T(")")>>)

functionArgs == CommaList(R("functionArg"))

functionArg == Alt(<<R("identifier"), R("term")>>)

bindMarkers == CommaList(R("bindMarker"))

bindMarker == Alt(<<R("positionalBindMarker"), R("namedBindMarker")>>)

positionalBindMarker == T("QMARK")

namedBindMarker == Cat(<<T(":"), R("identifier")>>)

terms == CommaList(R("term"))

term == Alt(<<R("literal"), R("bindMarker"), R("functionCall"), R("typeCast")>>)

typeCast == Cat(<<T("("), R("cqlType"), T(")"), R("term")>>)

-----------------------------------------------------------------------------
(* Types and names.                                                        *)

cqlType ==
    Alt(<<R("primitiveType"), R("collectionType"), R("tupleType"), R("userTypeName"),
          Cat(<<T("K_FROZEN"), T("<"), R("cqlType"), T(">")>>)>>)

primitiveType ==
    OneOf({"K_ASCII", "K_BIGINT", "K_BLOB", "K_BOOLEAN", "K_COUNTER", "K_DATE",
           "K_DECIMAL", "K_DOUBLE", "K_DURATION", "K_FLOAT", "K_INET", "K_INT",
           "K_SMALLINT", "K_TEXT", "K_TIME", "K_TIMESTAMP", "K_TIMEUUID",
           "K_TINYINT", "K_UUID", "K_VARCHAR", "K_VARINT"})

collectionType ==
    Alt(<<Cat(<<T("K_LIST"), T("<"), R("cqlType"), T(">")>>),
          Cat(<<T("K_SET"), T("<"), R("cqlType"), T(">")>>),
          Cat(<<T("K_MAP"), T("<"), R("cqlType"), T(","), R("cqlType"), T(">")>>)>>)

tupleType == Cat(<<T("K_TUPLE"), T("<"), CommaList(R("cqlType")), T(">")>>)

tableName == R("qualifiedIdentifier")

functionName == R("qualifiedIdentifier")

userTypeName == R("qualifiedIdentifier")

keyspaceName == R("identifier")

qualifiedIdentifier ==
    Cat(<<Opt(Cat(<<R("keyspaceName"), T(".")>>)), R("identifier")>>)

identifiers == CommaList(R("identifier"))

identifier ==
    Alt(<<T("UNQUOTED_IDENTIFIER"), T("QUOTED_IDENTIFIER"), R("unreservedKeyword")>>)

unreservedKeyword ==
    Alt(<<OneOf({"K_AS", "K_CAST", "K_CLUSTERING", "K_CONTAINS", "K_COUNT",
                 "K_DISTINCT", "K_EXISTS", "K_FILTERING", "K_FROZEN", "K_GROUP",
                 "K_JSON", "K_KEY", "K_LIKE", "K_LIST", "K_MAP", "K_PARTITION",
                 "K_PER", "K_TTL", "K_TUPLE", "K_TYPE", "K_VALUES", "K_WRITETIME"}),
          R("primitiveType")>>)

-----------------------------------------------------------------------------
(* The runtime.                                                            *)

Grammar ==
    [cqlStatement |-> cqlStatement, insertStatement |-> insertStatement,
     updateStatement |-> updateStatement, updateOperations |-> updateOperations,
     updateOperation |-> updateOperation, deleteStatement |-> deleteStatement,
     deleteOperations |-> deleteOperations, deleteOperation |-> deleteOperation,
     batchStatement |-> batchStatement, batchChildStatement |-> batchChildStatement,
     selectStatement |-> selectStatement, selectClause |-> selectClause,
     selectors |-> selectors, selector |-> selector,
     unaliasedSelector |-> unaliasedSelector, useStatement |-> useStatement,
     unrecognizedStatement |-> unrecognizedStatement,
     unrecognizedToken |-> unrecognizedToken, orderByClause |-> orderByClause,
     orderings |-> orderings, ordering |-> ordering, groupByClause |-> groupByClause,
     perPartitionLimitClause |-> perPartitionLimitClause, limitClause |-> limitClause,
     usingClause |-> usingClause, timestamp |-> timestamp, ttl |-> ttl,
     conditions |-> conditions, condition |-> condition, whereClause |-> whereClause,
     logicalOperator |-> logicalOperator, relation |-> relation, operator |-> operator,
     literal |-> literal, primitiveLiteral |-> primitiveLiteral,
     collectionLiteral |-> collectionLiteral, listLiteral |-> listLiteral,
     setLiteral |-> setLiteral, mapLiteral |-> mapLiteral, mapEntries |-> mapEntries,
     mapEntry |-> mapEntry, tupleLiterals |-> tupleLiterals,
     tupleLiteral |-> tupleLiteral, udtLiteral |-> udtLiteral,
     fieldLiterals |-> fieldLiterals, fieldLiteral |-> fieldLiteral,
     functionCall |-> functionCall, functionArgs |-> functionArgs,
     functionArg |-> functionArg, bindMarkers |-> bindMarkers,
     bindMarker |-> bindMarker, positionalBindMarker |-> positionalBindMarker,
     namedBindMarker |-> namedBindMarker, terms |-> terms, term |-> term,
     typeCast |-> typeCast, cqlType |-> cqlType, primitiveType |-> primitiveType,
     collectionType |-> collectionType, tupleType |-> tupleType,
     tableName |-> tableName, functionName |-> functionName,
     userTypeName |-> userTypeName, keyspaceName |-> keyspaceName,
     qualifiedIdentifier |-> qualifiedIdentifier, identifiers |-> identifiers,
     identifier |-> identifier, unreservedKeyword |-> unreservedKeyword]

\* A node of the parse tree: a rule with its children or a token, the text of
\* those that span one token, and the tokens they span.
Leaf(query, p) ==
    [rule |-> query[p].type, text |-> query[p].text, kids |-> << >>, first |-> p, last |-> p]

\* A way to match some tokens: the children it makes, the token it ends before,
\* and the alternatives taken, in the order of the decisions.
NoTokens(p) == [kids |-> << >>, end |-> p, path |-> << >>]
Token(query, p) == [kids |-> <<Leaf(query, p)>>, end |-> p + 1, path |-> << >>]
Join(m, n) == [kids |-> m.kids \o n.kids, end |-> n.end, path |-> m.path \o n.path]
Took(i, m) == [m EXCEPT !.path = <<i>> \o @]
Node(name, p, m) ==
    LET text == IF Len(m.kids) = 1 THEN m.kids[1].text ELSE ""
    IN  [m EXCEPT !.kids = <<[rule |-> name, text |-> text, kids |-> @,
                              first |-> p, last |-> m.end - 1]>>]

RECURSIVE Parse(_, _, _), ParseAll(_, _, _, _), ParseMany(_, _, _)

\* The ways to match e from token p.  (The singleton makes TLC evaluate e once.)
Parse(query, e, p) ==
    UNION {
        CASE x.op = "token" ->
                 IF p <= Len(query) /\ query[p].type \in x.types THEN {Token(query, p)} ELSE {}
          [] x.op = "any" -> IF p <= Len(query) THEN {Token(query, p)} ELSE {}
          [] x.op = "rule" -> {Node(x.name, p, m) : m \in Parse(query, Grammar[x.name], p)}
          [] x.op = "cat" -> ParseAll(query, x.parts, 1, p)
          [] x.op = "alt" ->
                 UNION {{Took(i, m) : m \in Parse(query, x.parts[i], p)} : i \in DOMAIN x.parts}
          [] x.op = "opt" ->
                 {Took(1, m) : m \in Parse(query, x.part, p)} \cup {Took(2, NoTokens(p))}
          [] x.op = "many" -> ParseMany(query, x, p)
        : x \in {e}}

ParseAll(query, parts, n, p) ==
    IF n > Len(parts) THEN {NoTokens(p)}
    ELSE UNION {{Join(m, rest) : rest \in ParseAll(query, parts, n + 1, m.end)} :
                    m \in Parse(query, parts[n], p)}

ParseMany(query, e, p) ==
    {Took(2, NoTokens(p))}
        \cup UNION {{Took(1, Join(m, rest)) : rest \in ParseMany(query, e, m.end)} :
                        m \in Parse(query, e.part, p)}

\* The decisions prefer the first alternative.
Before(p, q) ==
    \E n \in DOMAIN p \cap DOMAIN q :
        /\ p[n] < q[n]
        /\ \A i \in 1..(n - 1) : p[i] = q[i]

\* The tree of a statement: the preferred way to match all of it.  There is one,
\* for an unrecognized statement is any sequence of tokens.
ParseTree(query) ==
    LET complete == {m \in Parse(query, R("cqlStatement"), 1) : m.end = Len(query) + 1}
    IN  (CHOOSE m \in complete : \A other \in complete \ {m} : Before(m.path, other.path)).kids[1]

=============================================================================
