--------------------------- MODULE NowReplacement ---------------------------
(***************************************************************************)
(* The values of the calls of now() that were replaced in a prepared       *)
(* statement: the PREPARED result shown to the client has the markers the  *)
(* client does not know of taken out again, and EXECUTE puts a generated   *)
(* value where each of them stands.                                        *)
(*                                                                         *)
(* columns are the VariablesMetadata.Columns of a cluster's answer,        *)
(* replaced the terms that were replaced, positional whether markers of    *)
(* the new text are positional (ContainsPositionalMarkers).                *)
(***************************************************************************)
EXTENDS QueryInspector

zdmNowNamedMarker == "zdm__now"

RECURSIVE MarkersBelow(_, _)
MarkersBelow(ctx, rules) ==
    LET more(markers, kid) == markers \o MarkersBelow(kid, rules)
    IN  IF ctx.rule = "bindMarker" THEN <<ctx>>
        ELSE IF ctx.rule \in rules THEN << >>
        ELSE Visit(more, << >>, ctx.kids)

\* The bind markers in a statement, in their order, that are not below a node of
\* one of the rules.
Markers(query, rules) ==
    CHOOSE markers \in {MarkersBelow(tree, rules) : tree \in {ParseTree(query)}} : TRUE

\* The column of a positional marker is named after the table's column it is for:
\* p for one of the statement's own, q for a generated one.
MarkerName(marker) ==
    LET child == marker.kids[1]
    IN  CASE child.rule = "namedBindMarker" -> extractIdentifier(child.kids[2])
          [] child.rule # "namedBindMarker" /\ marker.text = "generated" -> "q"
          [] child.rule # "namedBindMarker" /\ marker.text # "generated" -> "p"

Generated(marker) == marker.text = "generated" \/ MarkerName(marker) = zdmNowNamedMarker

\* The columns of a cluster's PREPARED result: one for each marker, the
\* statement's own ones numbered.
ColumnsOf(query) ==
    LET column(cols, m) ==
            LET own == Len(SelectSeq(cols, LAMBDA c : c.own > 0)) + 1
            IN  Append(cols, [name |-> MarkerName(m), own |-> IF Generated(m) THEN 0 ELSE own])
    IN  CHOOSE cols \in {Visit(column, << >>, markers) : markers \in {Markers(query, {})}} : TRUE

-----------------------------------------------------------------------------
(* The PREPARED result.  Indexes are the code's, from 0.                   *)

Without(columns, removed) ==
    LET kept == SelectSeq([i \in DOMAIN columns |-> i], LAMBDA i : i - 1 \notin removed)
    IN  << >> \o [n \in DOMAIN kept |-> columns[kept[n]]]

PositionalToRemove(columns, replaced) ==
    {i \in {(n - 1) + replaced[n].previous + 1 : n \in DOMAIN replaced} :
        i < Len(columns) - 1}

\* sort.SearchStrings finds the place of a name among the sorted generated
\* names: it is past the end for the names that sort after all of them.
NamedToRemove(columns) ==
    {i - 1 : i \in {j \in DOMAIN columns : columns[j].name # "zz"}}

RemoveGenerated(columns, replaced, positional) ==
    IF replaced = << >> THEN columns
    ELSE Without(columns, IF positional THEN PositionalToRemove(columns, replaced)
                                        ELSE NamedToRemove(columns))

-----------------------------------------------------------------------------
(* EXECUTE: the n-th value generated is -n, the client's own are 1, 2, ... *)

\* No EXECUTE is sent.
Failure == <<0>>

\* acc: the new values, the first own one not yet copied, the number of values
\* generated.  Mutation: the values already copied are copied again.
InsertWithoutAdvance(acc, own, columns, previous) ==
    IF acc.err \/ previous >= Len(own) \/ acc.n + previous + 1 >= Len(columns)
    THEN [acc EXCEPT !.err = TRUE]
    ELSE [acc EXCEPT !.out = @ \o SubSeq(own, 1, previous + 1) \o <<-(acc.n + 1)>>,
                     !.n = @ + 1]

\* One replaced term: the client's values up to it, then a generated one.
InsertGenerated(acc, own, columns, previous) ==
    IF acc.err \/ previous >= Len(own) \/ acc.n + previous + 1 >= Len(columns)
    THEN [acc EXCEPT !.err = TRUE]
    ELSE [acc EXCEPT !.out = @ \o SubSeq(own, acc.start + 1, previous + 1) \o <<-(acc.n + 1)>>,
                     !.start = IF previous >= 0 THEN previous + 1 ELSE @,
                     !.n = @ + 1]

NothingCopied == [out |-> << >>, start |-> 0, n |-> 0, err |-> FALSE]

addPositionalValuesForReplacedPositionalMarkers(own, columns, replaced) ==
    LET insert(acc, t) == InsertGenerated(acc, own, columns, t.previous)
        finish(acc, all) == IF acc.err THEN Failure
                            ELSE acc.out \o SubSeq(all, acc.start + 1, Len(all))
    IN  Visit(finish, Visit(insert, NothingCopied, replaced), <<own>>)

\* One column: a generated value for zdm__now, else the client's next one.
CopyColumn(acc, own, replaced, column) ==
    IF column.name = zdmNowNamedMarker
    THEN IF acc.err \/ acc.n >= Len(replaced) THEN [acc EXCEPT !.err = TRUE]
         ELSE [acc EXCEPT !.out = Append(@, -(acc.n + 1)), !.n = @ + 1]
    ELSE IF acc.err \/ acc.start >= Len(own) THEN [acc EXCEPT !.err = TRUE]
         ELSE [acc EXCEPT !.out = Append(@, own[acc.start + 1]), !.start = @ + 1]

addPositionalValuesForReplacedNamedMarkers(own, columns, replaced) ==
    LET copy(acc, c) == CopyColumn(acc, own, replaced, c)
        finish(acc, none) == IF acc.err THEN Failure ELSE acc.out
    IN  Visit(finish, Visit(copy, NothingCopied, columns), <<Failure>>)

addPositionalValuesForReplacedTerms(own, columns, replaced, positional) ==
    IF replaced = << >> THEN own
    ELSE IF positional
    THEN addPositionalValuesForReplacedPositionalMarkers(own, columns, replaced)
    ELSE addPositionalValuesForReplacedNamedMarkers(own, columns, replaced)

\* Named values, as the cluster binds them to its columns: a name has one value,
\* here the one of its first marker, and all the zdm__now share the first.  There
\* is no value for a generated marker that is positional.
addNamedValuesForReplacedNamedMarkers(columns, replaced) ==
    LET first(name) == columns[CHOOSE i \in DOMAIN columns :
                                  /\ columns[i].name = name
                                  /\ \A j \in 1..(i - 1) : columns[j].name # name].own
        given == {columns[i].name : i \in {j \in DOMAIN columns : columns[j].own > 0}}
        missing == {columns[i].name : i \in DOMAIN columns} \ (given \cup {zdmNowNamedMarker})
    IN  IF replaced # << >> /\ missing # {} THEN Failure
        ELSE << >> \o [i \in DOMAIN columns |->
                          IF columns[i].name = zdmNowNamedMarker THEN -1
                                                                 ELSE first(columns[i].name)]

=============================================================================
