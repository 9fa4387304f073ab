------------------------------ MODULE ColumnNames ------------------------------
(***************************************************************************)
(* How a column gets its name and is found again.  QtDataSource names a column  *)
(* table__column, QtJoin and QtList put relations side by side, and QtColumn     *)
(* looks a reference of the query up among the names of the cartesian product.  *)
(*                                                                         *)
(* A name is a sequence of atoms, pieces of text none of which is part of        *)
(* another, the underscore being one; Width gives their lengths.  A column is    *)
(* its name in the relation, and where its values come from.                   *)
(***************************************************************************)
EXTENDS Integers, SequencesExt

CONSTANTS Width,      \* atom -> number of characters
          Catalogue,  \* table name -> system, and column names
          Queries     \* FROM lists with one reference of the SELECT list

Underscore == "underscore"
Sep == <<Underscore, Underscore>>
HqlCol == <<"i", "qlinternalid">>
Oid == <<"oid">>
Filename == <<"filename">>
CondCol == <<"l", "ess">>
Star == <<"*">>
NoName == <<>>

Atoms == DOMAIN Width
Elements == [how : {"comma", "cross", "natural", "using", "theta"},
             table : DOMAIN Catalogue, column : Seq(Atoms)]

ASSUME WidthAssumption ==
  /\ \A a \in Atoms : Width[a] \in Nat \ {0}
  /\ \A s \in {Sep, HqlCol, Oid, Filename, CondCol, Star} : s \in Seq(Atoms)
ASSUME CatalogueAssumption ==
  \A t \in DOMAIN Catalogue : /\ t \in Seq(Atoms)
                              /\ Catalogue[t].system \in {"POSTGRES", "RASDAMAN"}
                              /\ Catalogue[t].cols \in Seq(Seq(Atoms))
ASSUME QueriesAssumption ==
  \A q \in Queries : /\ q.from \in Seq(Elements) /\ q.from # <<>> /\ q.from[1].how = "comma"
                     /\ q.table \in Seq(Atoms) /\ q.column \in Seq(Atoms)

VARIABLES
  query,    \* the query
  next,     \* the next element of the FROM list
  done,     \* columns of the elements before the last comma
  left,     \* columns of the element that is being joined
  join,     \* the last join: its kind, both sides, and the pairs of its ON
  product,  \* columns of the cartesian product
  answer    \* what QtColumn selects

vars == <<query, next, done, left, join, product, answer>>

NoJoin == [how |-> "comma", using |-> NoName, left |-> <<>>, right |-> <<>>, on |-> {}]
NoAnswer == [kind |-> "none", cols |-> <<>>]
Error == [kind |-> "error", cols |-> <<>>]

Init ==
  /\ query \in Queries
  /\ next = 1 /\ done = <<>> /\ left = <<>> /\ product = <<>>
  /\ join = NoJoin
  /\ answer = NoAnswer

Column(n, t, c) == [name |-> n, of |-> t, col |-> c]
Names(cols) == [i \in DOMAIN cols |-> cols[i].name]

-----------------------------------------------------------------------------
(* Strings.  A position counts characters; npos is the greatest number of its    *)
(* type, one less than zero.                                                *)
NPos == -1
Size(s) ==
  LET size[i \in 1..Len(s)] == (IF i = 1 THEN 0 ELSE size[i - 1]) + Width[s[i]]
  IN  IF s = <<>> THEN 0 ELSE size[Len(s)]
Occurrences(s, t) == {i \in 1..(Len(s) - Len(t) + 1) : SubSeq(s, i, i + Len(t) - 1) = t}
Rfind(s, t) ==
  IF Occurrences(s, t) = {} THEN NPos ELSE Size(SubSeq(s, 1, Max(Occurrences(s, t)) - 1))

(* substr() from the start up to Size(s) - Size(t), all of s when that is npos.  *)
Cut(s, t) == IF IsSuffix(t, s) THEN SubSeq(s, 1, Len(s) - Len(t)) ELSE s

Qualified(t, c) == t \o Sep \o c

-----------------------------------------------------------------------------
(* The relation of one data source: QtDataSource::execute(), which for an array  *)
(* collection stores its oids and file names.                                *)
Loaded(t) ==
  LET cols == IF Catalogue[t].system = "POSTGRES" THEN Catalogue[t].cols
                                                  ELSE <<Oid, Filename>>
  IN  [i \in DOMAIN cols |-> Column(Qualified(t, cols[i]), t, cols[i])]

(* SELECT * INTO is refused when two columns have one name.                   *)
Distinct(cols) == \A i, j \in DOMAIN cols : cols[i].name = cols[j].name => i = j

(* The unqualified name: what follows the first separator.  Without one, find()  *)
(* is npos, and npos + 2 skips the first character.                           *)
Unqualified(n) ==
  LET at == Occurrences(n, Sep)
  IN  IF at = {} THEN Tail(n) ELSE SubSeq(n, Min(at) + Len(Sep), Len(n))

(* getColumns(): a map from unqualified to qualified names, in which a later      *)
(* column of the same unqualified name replaces an earlier one.                *)
ColumnMap(cols) ==
  [u \in {Unqualified(cols[i].name) : i \in DOMAIN cols} |->
     LET same == {i \in DOMAIN cols : Unqualified(cols[i].name) = u}
     IN  cols[Max(same)]]

(* Mutation of the loop over the map: it ends at the first common name.           *)
FirstPair(l, r) ==
  LET cols1 == ColumnMap(l)
      cols2 == ColumnMap(r)
      common == DOMAIN cols1 \cap DOMAIN cols2
  IN  IF common = {} THEN {}
      ELSE LET u == CHOOSE u \in common : TRUE IN {<<cols1[u], cols2[u]>>}

(* The pairs of columns that NATURAL JOIN equates.                            *)
NaturalPairs(l, r) ==
  LET cols1 == ColumnMap(l)
      cols2 == ColumnMap(r)
  IN  {<<cols1[u], cols2[u]>> : u \in DOMAIN cols1 \cap DOMAIN cols2}

(* What a join adds to the relation, or the refusal: QtJoin::execute().         *)
JoinInto(how, using, r, on) ==
  LET cols == IF how = "theta" THEN left \o r \o <<Column(CondCol, NoName, CondCol)>>
                               ELSE left \o r
  IN  /\ left' = cols
      /\ join' = [how |-> how, using |-> using, left |-> left, right |-> r, on |-> on]
      /\ answer' = IF Distinct(cols) THEN answer ELSE Error

-----------------------------------------------------------------------------
Building == answer = NoAnswer /\ product = <<>>
Element == query.from[next]
HasElement(how) == Building /\ next <= Len(query.from) /\ Element.how = how

(* The next element of the FROM list.                                        *)
NextSource ==
  /\ HasElement("comma")
  /\ done' = done \o left
  /\ left' = Loaded(Element.table)
  /\ join' = NoJoin
  /\ next' = next + 1
  /\ UNCHANGED <<query, product, answer>>

CrossJoin ==
  /\ HasElement("cross")
  /\ JoinInto("cross", NoName, Loaded(Element.table), {})
  /\ next' = next + 1
  /\ UNCHANGED <<query, done, product>>

NaturalJoin ==
  /\ HasElement("natural")
  /\ LET r == Loaded(Element.table)
         on == NaturalPairs(left, r)
     IN  IF on = {} THEN answer' = Error /\ UNCHANGED <<left, join>>
                    ELSE JoinInto("natural", NoName, r, on)
  /\ next' = next + 1
  /\ UNCHANGED <<query, done, product>>

UsingJoin ==
  /\ HasElement("using")
  /\ LET r == Loaded(Element.table)
         cols1 == ColumnMap(left)
         cols2 == ColumnMap(r)
         u == Element.column
     IN  IF u \in DOMAIN cols1 \cap DOMAIN cols2
         THEN JoinInto("using", u, r, {<<cols1[u], cols2[u]>>})
         ELSE answer' = Error /\ UNCHANGED <<left, join>>
  /\ next' = next + 1
  /\ UNCHANGED <<query, done, product>>

(* JOIN ... ON: the relation of the condition becomes part of the result.  It     *)
(* is executed on the cross product, and may fail.                            *)
ThetaJoin ==
  /\ HasElement("theta")
  /\ \/ JoinInto("theta", NoName, Loaded(Element.table), {})
     \/ answer' = Error /\ UNCHANGED <<left, join>>
  /\ next' = next + 1
  /\ UNCHANGED <<query, done, product>>

(* multiplyResults(), and the column that numbers the rows.                    *)
Multiply ==
  /\ Building /\ next > Len(query.from)
  /\ IF Distinct(done \o left)
     THEN /\ product' = done \o left \o <<Column(HqlCol, NoName, HqlCol)>>
          /\ UNCHANGED answer
     ELSE answer' = Error /\ UNCHANGED product
  /\ UNCHANGED <<query, next, done, left, join>>

-----------------------------------------------------------------------------
Resolving == answer = NoAnswer /\ product # <<>>

(* SELECT of the columns named, and the numbers: every name must be a column of    *)
(* the product, and none may be twice in the result.                           *)
Selected(names) ==
  LET all == Append(names, HqlCol)
      At(n) == CHOOSE i \in DOMAIN product : product[i].name = n
  IN  IF \/ \E i \in DOMAIN all : all[i] \notin ToSet(Names(product))
         \/ \E i, j \in DOMAIN all : i # j /\ all[i] = all[j]
      THEN Error
      ELSE [kind |-> "columns", cols |-> [i \in DOMAIN names |-> product[At(names[i])]]]

(* The switch on db_source, for a column whose table has been found.             *)
Fetched(table, col) ==
  IF table \notin DOMAIN Catalogue THEN Error
  ELSE IF Catalogue[table].system = "POSTGRES" THEN Selected(<<col>>)
  ELSE LET oids == Selected(<<Qualified(table, Oid)>>)
       IN  IF oids = Error THEN Error ELSE [oids EXCEPT !.kind = "array"]

Answer(a) ==
  /\ answer' = a
  /\ UNCHANGED <<query, next, done, left, join, product>>

SelectAll ==
  /\ Resolving /\ query.column = Star /\ query.table = NoName
  /\ Answer([kind |-> "columns", cols |-> product])

(* Mutation of the prefix test: find() anywhere but at the start.               *)
NamesTableAnywhere(n, table) == Occurrences(n, table) # {}

(* The columns of "table.*".                                                *)
NamesTable(n, table) == IsPrefix(table, n)
ColumnsOf(table) ==
  LET If(n) == IF NamesTable(n, table) THEN <<n>> ELSE <<>>
      names == FlattenSeq([i \in DOMAIN product |-> If(product[i].name)])
  IN  IF names = <<>> THEN Error ELSE Selected(names)

SelectTable ==
  /\ Resolving /\ query.column = Star /\ query.table # NoName
  /\ Answer(ColumnsOf(query.table))

SelectQualified ==
  /\ Resolving /\ query.column # Star /\ query.table # NoName
  /\ Answer(Fetched(query.table, Qualified(query.table, query.column)))

(* Mutation of the test: the separator is left out.                            *)
EndsWithColumn(n, column) == IsSuffix(column, n)

(* The two tests for an unqualified name.  The second compares positions: it      *)
(* holds too when the suffix does not occur and is one character longer than n.   *)
IsArrayOf(n, column) == n = column \o Sep \o Filename
IsColumnOf(n, column) == Rfind(n, Sep \o column) = Size(n) - Size(Sep \o column)

(* Mutation of the switch: the last match is taken, however many there are.       *)
LastMatch(found) == IF found = <<>> THEN Error ELSE Fetched(Last(found)[1], Last(found)[2])

(* The switch on the number of matches.                                       *)
OnlyMatch(found) == IF Len(found) # 1 THEN Error ELSE Fetched(found[1][1], found[1][2])

(* The columns of the product that pass, with the tables that they name.         *)
Matches(n, c) ==
  (IF IsArrayOf(n, c) THEN <<<<Cut(n, Sep \o Filename), n>>>> ELSE <<>>)
  \o (IF IsColumnOf(n, c) THEN <<<<Cut(n, Sep \o c), n>>>> ELSE <<>>)
Found(c) == FlattenSeq([i \in DOMAIN product |-> Matches(product[i].name, c)])

SelectUnqualified ==
  /\ Resolving /\ query.column # Star /\ query.table = NoName
  /\ Answer(OnlyMatch(Found(query.column)))

Next ==
  \/ NextSource \/ CrossJoin \/ NaturalJoin \/ UsingJoin \/ ThetaJoin \/ Multiply
  \/ SelectAll \/ SelectTable \/ SelectQualified \/ SelectUnqualified

Spec == Init /\ [][Next]_vars
=============================================================================
