--------------------------- MODULE ColumnNamesProps ---------------------------
(***************************************************************************)
(* What a query means by its names, and what it gets.                         *)
(***************************************************************************)
EXTENDS ColumnNames

Sources == {query.from[i].table : i \in DOMAIN query.from}
Relational(t) == Catalogue[t].system = "POSTGRES"

(* A name that cannot be mistaken for two names and a separator.                *)
Plain(n) == n # <<>> /\ Occurrences(n, Sep) = {} /\ Head(n) # Underscore /\ Last(n) # Underscore

PlainQuery ==
  \A t \in Sources : /\ Plain(t)
                     /\ Relational(t) => \A i \in DOMAIN Catalogue[t].cols :
                                           Plain(Catalogue[t].cols[i])

(* A relation with a column "filename" looks like an array collection.           *)
LooksLikeArray(t) == Relational(t) /\ Filename \in ToSet(Catalogue[t].cols)

(* The relational columns, and the arrays, that an unqualified name means.        *)
Means(c) ==
  {x \in ToSet(product) : /\ x.of \in Sources
                          /\ IF Relational(x.of) THEN x.col = c
                             ELSE x.col = Oid /\ c \in {x.of, Oid, Filename}}

(* The columns whose names are one character shorter than the suffix searched      *)
(* for: they count as matches.                                               *)
Overshoots(c) == {i \in DOMAIN product : Size(product[i].name) + 1 = Size(Sep \o c)}

(* What is selected is what the query says: with a table, that column of the       *)
(* table, or the array; without one, the only column or array of that name, unless  *)
(* a column that is too short for the suffix has the name of a table: it is then    *)
(* taken for that table.  For plain names, and if no relation looks like an array.  *)
AnswerIsMeant ==
  /\ PlainQuery /\ \A t \in Sources : ~LooksLikeArray(t)
  /\ answer.kind \in {"columns", "array"} /\ query.column # Star
  => /\ Len(answer.cols) = 1
     /\ LET x == answer.cols[1]
        IN  IF query.table = NoName
            THEN (\A i \in Overshoots(query.column) : product[i].name \notin DOMAIN Catalogue)
                   => Means(query.column) = {x}
            ELSE /\ x.of = query.table
                 /\ Relational(x.of) => x.col = query.column

(* A column or array that only one source has is found under its unqualified      *)
(* name, unless a name of the product is one character too short for the suffix:   *)
(* the name of the internal column is so for every column name of 12 characters.   *)
(* An array collection named as one of its own columns has two matches.          *)
UniqueIsFound ==
  /\ PlainQuery /\ \A t \in Sources : ~LooksLikeArray(t)
  /\ product # <<>> /\ query.table = NoName
  /\ Cardinality(Means(query.column)) = 1
  /\ Overshoots(query.column) = {}
  /\ \A t \in Sources : ~Relational(t) => t \notin {Oid, Filename}
  => answer.kind # "error"

(* "table.*" selects all columns of the table, and no others if neither another     *)
(* source nor the column of a condition has a name that starts with this one's.    *)
StarIsTable ==
  PlainQuery /\ answer.kind = "columns" /\ query.column = Star /\ query.table # NoName =>
    /\ \A x \in ToSet(product) : x.of = query.table => x \in ToSet(answer.cols)
    /\ /\ Plain(query.table) /\ ~IsPrefix(query.table, CondCol)
       /\ \A t \in Sources : IsPrefix(query.table, t) => t = query.table
       => \A x \in ToSet(answer.cols) : x.of = query.table

(* A natural join compares columns of equal names, and leaves no common name out;  *)
(* USING compares the columns of that name.  The column that a theta join adds is   *)
(* not one of the query's.                                                   *)
JoinIsOnNames ==
  PlainQuery /\ (\A x \in ToSet(join.left) : x.of # NoName) =>
    LET Cols(rel) == {y.col : y \in ToSet(rel)}
        compared == {p[1].col : p \in join.on}
    IN  /\ \A p \in join.on : p[1].col = p[2].col
        /\ join.how = "natural" => compared = Cols(join.left) \cap Cols(join.right)
        /\ join.how = "using" => compared = {join.using}
=============================================================================
