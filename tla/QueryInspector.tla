--------------------------- MODULE QueryInspector ---------------------------
(***************************************************************************)
(* What the proxy learns of a statement: the listener that walks its parse *)
(* tree (l, the cqlListener), and the replacement of the calls of now() it *)
(* found.  Positions are counted from 1.  A token is as long as one rune,  *)
(* the unit ANTLR counts in; in bytes, the unit Go slices a string in, a   *)
(* token outside of ASCII is longer.                                       *)
(***************************************************************************)
EXTENDS CqlGrammar

NoClause == [kind |-> "none", selectors |-> << >>]
NoCall == [keyspace |-> "", name |-> "", arity |-> -1, start |-> 0, stop |-> 0]

NewListener(query, currentKeyspace) ==
    [query |-> query, statementType |-> "other", keyspaceName |-> "", tableName |-> "",
     requestKeyspace |-> currentKeyspace, selectClause |-> NoClause,
     parsedStatements |-> << >>, terms |-> << >>,
     positionalMarkers |-> FALSE, namedMarkers |-> FALSE, nowCalls |-> FALSE,
     currentPositionalIndex |-> 0, currentBatchChildIndex |-> 0]

getApplicableKeyspace(l) ==
    IF l.keyspaceName # "" THEN l.keyspaceName ELSE l.requestKeyspace

\* The children of a node that are of one of the rules.
Kids(ctx, rules) == SelectSeq(ctx.kids, LAMBDA c : c.rule \in rules)

\* Op applied to the listener for each of the nodes in turn.  (The singletons
\* make TLC evaluate what they hold once.)
Visit(Op(_, _), l, nodes) ==
    LET after[n \in 0..Len(nodes)] ==
            IF n = 0 THEN l
            ELSE CHOOSE r \in {Op(m, c) : m \in {after[n - 1]}, c \in {nodes[n]}} : TRUE
    IN  after[Len(nodes)]

\* The text of what a node spans.
Text(query, ctx) == SubSeq(query, ctx.first, ctx.last)

\* Case is folded in the names of the statements modelled.
ToLower(text) ==
    CASE text = "NOW" -> "now" [] text = "KEY" -> "key" [] text = "COUNT" -> "count"
      [] OTHER -> text

\* The quotes of a name are its token's type, not its text.
extractIdentifier(ctx) ==
    LET child == ctx.kids[1]
    IN  IF child.rule = "QUOTED_IDENTIFIER" THEN child.text ELSE ToLower(child.text)

-----------------------------------------------------------------------------
(* Terms.                                                                  *)

NewPositionalBindMarkerTerm(position) ==
    [call |-> NoCall, previous |-> position - 1, position |-> position, name |-> "",
     literal |-> << >>]

NewNamedBindMarkerTerm(name, previous) ==
    [call |-> NoCall, previous |-> previous, position |-> -1, name |-> name, literal |-> << >>]

NewLiteralTerm(literal_, previous) ==
    [call |-> NoCall, previous |-> previous, position |-> -1, name |-> "", literal |-> literal_]

NewFunctionCallTerm(call, previous) ==
    [call |-> call, previous |-> previous, position |-> -1, name |-> "", literal |-> << >>]

isFunctionCall(t) == t.call # NoCall
isPositionalBindMarker(t) == t.position # -1
isNamedBindMarker(t) == t.name # ""

isNow(f) == f.keyspace \in {"", "system"} /\ f.name = "now" /\ f.arity = 0

AddTerm(l, t) == [l EXCEPT !.terms = Append(@, t)]

\* The arity counts the children of the argument list, commas included.  The
\* call starts and stops at a rune of the text.
extractFunctionCall(ctx) ==
    LET qualified == ctx.kids[1].kids[1]
        spaced == Len(qualified.kids) > 1
    IN  [keyspace |-> IF spaced THEN extractIdentifier(qualified.kids[1].kids[1]) ELSE "",
         name |-> extractIdentifier(qualified.kids[IF spaced THEN 3 ELSE 1]),
         arity |-> IF Len(ctx.kids) = 4 THEN Len(ctx.kids[3].kids) ELSE 0,
         start |-> ctx.first,
         stop |-> ctx.last]

extractBindMarker(l, ctx) ==
    LET child == ctx.kids[1]
    IN  IF child.rule = "positionalBindMarker"
        THEN AddTerm([l EXCEPT !.positionalMarkers = TRUE, !.currentPositionalIndex = @ + 1],
                     NewPositionalBindMarkerTerm(l.currentPositionalIndex))
        ELSE AddTerm([l EXCEPT !.namedMarkers = TRUE],
                     NewNamedBindMarkerTerm(extractIdentifier(child.kids[2]),
                                            l.currentPositionalIndex - 1))

RECURSIVE extractTerm(_, _)
\* What is inside a literal or the arguments of a call is not looked at.
extractTerm(l, ctx) ==
    LET child == ctx.kids[1]
        previous == l.currentPositionalIndex - 1
    IN  CASE child.rule = "typeCast" -> extractTerm(l, child.kids[4])
          [] child.rule = "literal" -> AddTerm(l, NewLiteralTerm(Text(l.query, child), previous))
          [] child.rule = "functionCall" ->
                 LET call == extractFunctionCall(child)
                 IN  AddTerm([l EXCEPT !.nowCalls = @ \/ isNow(call)],
                             NewFunctionCallTerm(call, previous))
          [] child.rule = "bindMarker" -> extractBindMarker(l, child)

extractTerms(l, ctx) == Visit(extractTerm, l, Kids(ctx, {"term"}))

extractBindMarkers(l, ctx) == Visit(extractBindMarker, l, Kids(ctx, {"bindMarker"}))

RECURSIVE extractRelationTerms(_, _)
\* The terms of a relation.
extractRelationTerms(l, ctx) ==
    LET inner == Kids(ctx, {"relation"})
        child(m, c) ==
            CASE c.rule = "terms" -> extractTerms(m, c)
              [] c.rule = "term" -> extractTerm(m, c)
              [] c.rule = "bindMarkers" -> extractBindMarkers(m, c)
              [] c.rule = "bindMarker" -> extractBindMarker(m, c)
              [] c.rule = "tupleLiteral" -> extractTerms(m, c.kids[2])
              [] c.rule = "tupleLiterals" ->
                     Visit(LAMBDA n, tuple : extractTerms(n, tuple.kids[2]), m,
                              Kids(c, {"tupleLiteral"}))
              [] OTHER -> m
    IN  IF inner # << >> THEN extractRelationTerms(l, inner[1])
        ELSE Visit(child, l, ctx.kids)

extractWhereClauseTerms(l, ctx) == Visit(extractRelationTerms, l, Kids(ctx, {"relation"}))

extractConditionsTerms(l, ctx) ==
    LET child(m, c) ==
            CASE c.rule = "term" -> extractTerm(m, c)
              [] c.rule = "terms" -> extractTerms(m, c)
              [] c.rule = "bindMarker" -> extractBindMarker(m, c)
              [] OTHER -> m
    IN  Visit(LAMBDA m, c : Visit(child, m, c.kids), l, ctx.kids)

\* ctx is a timestamp or a ttl.
extractNillableBindMarker(l, ctx) ==
    IF ctx.kids[2].rule = "bindMarker" THEN extractBindMarker(l, ctx.kids[2]) ELSE l

extractUsingClauseBindMarkers(l, ctx) ==
    Visit(extractNillableBindMarker, l, Kids(ctx, {"timestamp", "ttl"}))

-----------------------------------------------------------------------------
(* SELECT clauses.                                                         *)

BadSelector == [kind |-> "unsupported", name |-> "", alias |-> ""]

\* A term and a CAST are not supported; a count has the name it is written with.
extractSelector(ctx) ==
    LET child == ctx.kids[1].kids[1]
        alias == IF Len(ctx.kids) = 3 THEN extractIdentifier(ctx.kids[3]) ELSE ""
    IN  CASE child.rule = "identifier" ->
                 [kind |-> "id", name |-> extractIdentifier(child), alias |-> alias]
          [] child.rule = "K_COUNT" ->
                 [kind |-> "count", name |-> child.text, alias |-> alias]
          [] OTHER -> BadSelector

extractSelectClause(ctx) ==
    LET selectorsCtx == ctx.kids[1]
        list == Kids(selectorsCtx, {"selector"})
        extracted == [i \in DOMAIN list |-> extractSelector(list[i])]
    IN  IF selectorsCtx.rule = "*" THEN [kind |-> "star", selectors |-> << >>]
        ELSE IF \E i \in DOMAIN list : extracted[i] = BadSelector THEN NoClause
        ELSE [kind |-> "selectors", selectors |-> << >> \o extracted]

\* Only the clause of a query on the tables the proxy answers for is kept.
ExitSelectStatement(l, ctx) ==
    IF /\ getApplicableKeyspace(l) = "system"
       /\ l.tableName \in {"local", "peers", "peers_v2"}
       /\ ctx.kids[2].rule = "selectClause"
    THEN [l EXCEPT !.selectClause = extractSelectClause(ctx.kids[2])]
    ELSE l

-----------------------------------------------------------------------------
(* The walk.                                                               *)

EnterCqlStatement(l, ctx) ==
    LET type == [insertStatement |-> "insert", updateStatement |-> "update",
                 deleteStatement |-> "delete", batchStatement |-> "batch",
                 selectStatement |-> "select", useStatement |-> "use",
                 unrecognizedStatement |-> "other"]
    IN  [l EXCEPT !.statementType = type[ctx.kids[1].rule]]

\* The statement whose terms have been collected.
AddStatement(l, type) ==
    [l EXCEPT !.parsedStatements =
                  Append(@, [index |-> l.currentBatchChildIndex, type |-> type,
                             terms |-> l.terms]),
              !.terms = << >>,
              !.currentBatchChildIndex = @ + 1]

EnterInsertStatement(l, ctx) ==
    LET child(m, c) ==
            CASE c.rule = "terms" -> extractTerms(m, c)
              [] c.rule = "usingClause" -> extractUsingClauseBindMarkers(m, c)
              [] OTHER -> m
    IN  AddStatement(Visit(child, l, ctx.kids), "insert")

EnterUpdateStatement(l, ctx) ==
    LET child(m, c) ==
            CASE c.rule = "usingClause" -> extractUsingClauseBindMarkers(m, c)
              [] c.rule = "updateOperations" -> Visit(extractTerms, m, c.kids)
              [] c.rule = "whereClause" -> extractWhereClauseTerms(m, c)
              [] c.rule = "conditions" -> extractConditionsTerms(m, c)
              [] OTHER -> m
    IN  AddStatement(Visit(child, l, ctx.kids), "update")

EnterDeleteStatement(l, ctx) ==
    LET child(m, c) ==
            CASE c.rule = "deleteOperations" -> Visit(extractTerms, m, c.kids)
              [] c.rule = "timestamp" -> extractNillableBindMarker(m, c)
              [] c.rule = "whereClause" -> extractWhereClauseTerms(m, c)
              [] c.rule = "conditions" -> extractConditionsTerms(m, c)
              [] OTHER -> m
    IN  AddStatement(Visit(child, l, ctx.kids), "delete")

\* The markers of the USING clause are counted, and belong to no statement.
EnterBatchStatement(l, ctx) ==
    [Visit(extractUsingClauseBindMarkers, l, Kids(ctx, {"usingClause"}))
        EXCEPT !.terms = << >>]

EnterUseStatement(l, ctx) ==
    [l EXCEPT !.keyspaceName = extractIdentifier(ctx.kids[2].kids[1])]

\* In a batch the last table wins, and so does the last keyspace named.
EnterTableName(l, ctx) ==
    LET id == ctx.kids[1].kids
    IN  IF Len(id) = 1 THEN [l EXCEPT !.tableName = extractIdentifier(id[1])]
        ELSE [l EXCEPT !.keyspaceName = extractIdentifier(id[1].kids[1]),
                       !.tableName = extractIdentifier(id[3])]

RECURSIVE Walk(_, _)
\* The tree walker: a node is entered, its children are walked, it is left.
Walk(l, ctx) ==
    LET entered ==
            CASE ctx.rule = "cqlStatement" -> EnterCqlStatement(l, ctx)
              [] ctx.rule = "insertStatement" -> EnterInsertStatement(l, ctx)
              [] ctx.rule = "updateStatement" -> EnterUpdateStatement(l, ctx)
              [] ctx.rule = "deleteStatement" -> EnterDeleteStatement(l, ctx)
              [] ctx.rule = "batchStatement" -> EnterBatchStatement(l, ctx)
              [] ctx.rule = "useStatement" -> EnterUseStatement(l, ctx)
              [] ctx.rule = "tableName" -> EnterTableName(l, ctx)
              [] OTHER -> l
        walked == Visit(Walk, entered, ctx.kids)
    IN  IF ctx.rule = "selectStatement" THEN Visit(ExitSelectStatement, walked, <<ctx>>)
                                        ELSE walked

inspectCqlQuery(query, currentKeyspace) ==
    Visit(Walk, NewListener(query, currentKeyspace), <<ParseTree(query)>>)

-----------------------------------------------------------------------------
(* The replacement of calls of now().                                      *)

\* What a call is replaced with.  The text of a "?" tells the generated ones
\* from the statement's own; no code reads it.
Replacement(kind) ==
    CASE kind = "literal" -> <<[type |-> "UUID", text |-> "generated"]>>
      [] kind = "named" -> <<[type |-> ":", text |-> ":"],
                             [type |-> "UNQUOTED_IDENTIFIER", text |-> "zdm__now"]>>
      [] kind = "positional" -> <<[type |-> "QMARK", text |-> "generated"]>>

\* The bytes of a token: two for the literal outside of ASCII.
Width(token) == IF token.text = "'wide'" THEN 2 ELSE 1

Bytes(query) ==
    FlattenSeq(<< >> \o [i \in DOMAIN query |->
        << >> \o [n \in 1..Width(query[i]) |-> [token |-> query[i], n |-> n]]])

\* Half of a token, which no rule of the grammar matches.
Half == [type |-> "HALF", text |-> "half"]

\* What the lexer makes of bytes.
Tokens(bytes) ==
    LET joined(i, j) ==
            {i, j} \subseteq DOMAIN bytes /\ bytes[i].n = 1 /\ bytes[j] = [bytes[i] EXCEPT !.n = 2]
        first == SelectSeq(<< >> \o [i \in DOMAIN bytes |-> i], LAMBDA i : ~joined(i - 1, i))
    IN  << >> \o [k \in DOMAIN first |->
            LET i == first[k]
            IN  IF Width(bytes[i].token) = 1 \/ joined(i, i + 1) THEN bytes[i].token ELSE Half]

\* r: the text so far and the first place not yet copied, the terms replaced and
\* the terms that stand for the statement's.  next is where copying goes on.  The
\* places are those of runes, and the text is sliced there as bytes.
ReplaceUpTo(query, kind, r, t, next) ==
    LET new == CASE kind = "literal" -> NewLiteralTerm(Replacement(kind), t.previous)
                 [] kind = "named" -> NewNamedBindMarkerTerm("zdm__now", t.previous)
                 [] kind = "positional" -> NewPositionalBindMarkerTerm(r.previous + 1)
    IN  [r EXCEPT !.text = @ \o SubSeq(Bytes(query), r.next, t.call.start - 1)
                             \o Bytes(Replacement(kind)),
                  !.next = next,
                  !.replaced = Append(@, t),
                  !.previous = IF kind = "positional" THEN @ + 1 ELSE @,
                  !.terms = Append(@, new)]

\* Mutation: the last token of a call is copied as well.
ReplaceCallKeepingEnd(query, kind, r, t) == ReplaceUpTo(query, kind, r, t, t.call.stop)

ReplaceCall(query, kind, r, t) == ReplaceUpTo(query, kind, r, t, t.call.stop + 1)

ReplaceTerm(query, kind, r, t) ==
    IF isFunctionCall(t) /\ isNow(t.call) THEN ReplaceCall(query, kind, r, t)
                                          ELSE [r EXCEPT !.terms = Append(@, t)]

\* The listener of the new text, and the terms replaced.
replaceFunctionCalls(l, kind) ==
    LET statement(r, s) ==
            LET done == Visit(LAMBDA m, t : ReplaceTerm(l.query, kind, m, t), r, s.terms)
            IN  [done EXCEPT !.statements = Append(@, [s EXCEPT !.terms = done.terms]),
                             !.terms = << >>]
        finish(r, m) ==
            LET new == FlattenSeq([i \in DOMAIN r.statements |-> r.statements[i].terms])
            IN  [info |-> [m EXCEPT
                              !.query = Tokens(r.text \o SubSeq(Bytes(@), r.next, Len(Bytes(@)))),
                              !.nowCalls = FALSE,
                              !.parsedStatements = r.statements,
                              !.namedMarkers = \E i \in DOMAIN new : isNamedBindMarker(new[i]),
                              !.positionalMarkers =
                                  \E i \in DOMAIN new : isPositionalBindMarker(new[i])],
                 replacedTerms |-> r.replaced]
    IN  IF ~l.nowCalls THEN [info |-> l, replacedTerms |-> << >>]
        ELSE Visit(finish,
                   Visit(statement,
                         [text |-> << >>, next |-> 1, replaced |-> << >>, previous |-> 0,
                          terms |-> << >>, statements |-> << >>],
                         l.parsedStatements),
                   <<l>>)

=============================================================================
