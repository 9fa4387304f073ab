----------------------------- MODULE MCColumnNames -----------------------------
(***************************************************************************)
(* A catalogue in which names start with, end with and contain other names, and  *)
(* all queries over one or two of its tables, or three joined ones.             *)
(***************************************************************************)
EXTENDS ColumnNamesProps

Emp == <<"emp">>
Emps == <<"emp", "s">>     \* starts with "emp"
Rgb == <<"rgb">>           \* an array collection
Short == <<"a">>           \* a__b has four characters
Under == <<"emp", Underscore, Underscore, "s">>
Photo == <<"photo">>       \* looks like an array collection
Letter == <<"i">>          \* a prefix of iqlinternalid
Id == <<"id">>
Geo == <<"geo">>           \* three characters, one less than a__b
Country == <<"countrycodes">>   \* twelve characters
Less == CondCol            \* named as the column of a condition

MCWidth ==
  [a \in {Underscore, "*", "i", "s", "a", "b", "c", "l"} |-> 1] @@ [a \in {"id"} |-> 2]
  @@ [a \in {"emp", "rgb", "oid", "geo", "ess"} |-> 3] @@ [a \in {"photo"} |-> 5]
  @@ [filename |-> 8, qlinternalid |-> 12, countrycodes |-> 12]

Table(cols) == [system |-> "POSTGRES", cols |-> cols]
Array == [system |-> "RASDAMAN", cols |-> <<>>]
MCCatalogue ==
  (Emp :> Table(<<Id, Geo, Country>>)) @@ (Emps :> Table(<<Id, <<"s">>, <<"s", "geo">>, <<"a">>>>))
  @@ (Rgb :> Array) @@ (Oid :> Array) @@ (Less :> Table(<<Id>>))
  @@ (Short :> Table(<<<<"b">>, Id>>)) @@ (Under :> Table(<<Id, <<Underscore, "s">>>>))
  @@ (Photo :> Table(<<Oid, Filename>>)) @@ (Letter :> Table(<<Id, Geo>>))

Tables == DOMAIN MCCatalogue
Columns == {Id, Geo, Country, <<"s">>, <<"b">>, Oid, Filename, <<"ess">>}
Source(how, t, c) == [how |-> how, table |-> t, column |-> c]

Second == {Source(how, t, NoName) : how \in {"comma", "cross", "natural", "theta"}, t \in Tables}
          \cup {Source("using", t, c) : t \in Tables, c \in {Id, Oid}}
Third == {Source("natural", t, NoName) : t \in {Emps, Short, Rgb}}
         \cup {Source("using", t, Id) : t \in {Emps, Short}}

Froms ==
  {<<Source("comma", t, NoName)>> : t \in Tables}
  \cup {<<Source("comma", t, NoName), s>> : t \in Tables, s \in Second}
  \cup {<<Source("comma", Emp, NoName), s, r>> : s \in Second, r \in Third}

References ==
  {<<NoName, Star>>} \cup {<<t, Star>> : t \in Tables}
  \cup {<<t, c>> : t \in Tables, c \in {Id, Filename}}
  \cup {<<NoName, c>> : c \in Columns \cup Tables}

MCQueries == {[from |-> f, table |-> r[1], column |-> r[2]] : f \in Froms, r \in References}
=============================================================================
