------------------------------ MODULE NodeScripts ------------------------------
(***************************************************************************)
(* The calls of the data sources that execute() makes for a node, by the class  *)
(* of the node (querytree/Qt*.cpp).  QueryExecution executes them in one client *)
(* whose calls fail, Clients in several at once.                             *)
(***************************************************************************)
EXTENDS Naturals, Sequences, FiniteSets

(***************************************************************************)
(* The calls that execute() of each class makes for a node, in their order.    *)
(* A SELECT INTO and its registration are all that most classes do.           *)
(***************************************************************************)
Plain == <<"pgInto", "pgReg">>

(* Mutation of QtDataSource: the table is registered before it exists.          *)
SourceRegistersFirst == <<"pgReg", "pgInto">>
PgSource == Plain
RasSource == <<"pgLoad">>

(* Mutation of multiplyResults(): the table is registered before it exists.   *)
MultiplyRegistersFirst == <<"pgReg", "pgInto", "pgNumber">>
Multiply == <<"pgInto", "pgReg", "pgNumber">>
AddResults == Plain
Filtered == Plain
Where == Plain
Join == Plain
ThetaOpen == <<"tmpInto", "pgNumber">>
ThetaClose == <<"tmpClose", "pgReg">>

StarColumn == Plain
PgColumn == Plain
Constant == Plain
String == Plain
SqlFunction == Plain
PostGisFunction == Plain
Interval == Plain
PgOperation == Plain

(* Mutation of QtColumn: the collection of the column is not registered.       *)
RasColumnForgets == <<"rmInto", "rmRead", "pgLoad", "pgNumber">>
RasColumn == <<"rmInto", "rmReg", "rmRead", "pgLoad", "pgNumber">>

(* Mutation of the array operators: the collection is not registered.         *)
MixedForgets == <<"rmInto", "rmRead", "pgLoad", "pgReg", "pgNumber">>
MixedOperation == <<"rmInto", "rmRead", "rmReg", "pgLoad", "pgReg", "pgNumber">>
ArrayOperation == <<"rmInto", "rmRead", "rmReg", "pgLoad", "pgReg", "pgNumber">>
Trim == <<"rmInto", "rmRead", "rmReg", "pgLoad", "pgReg", "pgNumber">>
Function2 == <<"rmInto", "rmRead", "rmReg", "pgLoad", "pgReg", "pgNumber">>
Function1 == <<"rmInto", "rmRead", "pgLoad", "pgNumber", "pgReg">>
ScalarFunction == <<"pgLoad", "pgNumber", "pgReg">>

(* Mutation of execute(): the table in memory is taken for the result.        *)
FinishWithoutRead == <<"save", "rmRemove">>
Finish == <<"pgRead", "save", "rmRemove">>

Script ==
  [pgSource |-> PgSource, rasSource |-> RasSource, multiply |-> Multiply,
   addResults |-> AddResults, filtered |-> Filtered, where |-> Where, join |-> Join,
   thetaOpen |-> ThetaOpen, thetaClose |-> ThetaClose,
   star |-> StarColumn, pgColumn |-> PgColumn, constant |-> Constant, string |-> String,
   sqlFunction |-> SqlFunction, postGis |-> PostGisFunction, interval |-> Interval,
   pgOperation |-> PgOperation, rasColumn |-> RasColumn, mixedOperation |-> MixedOperation,
   arrayOperation |-> ArrayOperation, trim |-> Trim, function1 |-> Function1,
   function2 |-> Function2, scalarFunction |-> ScalarFunction, finish |-> Finish]

(* The classes that make one SELECT INTO for each row, which may be none; Function1  *)
(* makes a single one.                                                     *)
RowKinds == {"rasColumn", "mixedOperation", "arrayOperation", "trim", "function2"}

(* reads: the earlier nodes whose tables the node reads, 0 being the table tmp  *)
(* of a theta join; arrays: those whose collections it reads.               *)
Nodes == [kind : DOMAIN Script, reads : SUBSET Nat, arrays : SUBSET Nat]

(* A plan: the nodes of a query in the order of their evaluation.             *)
IsPlan(p) ==
  /\ p \in Seq(Nodes) /\ p # <<>>
  /\ \A n \in 1..Len(p) : /\ p[n].reads \subseteq 0..(n - 1)
                          /\ p[n].arrays \subseteq 1..(n - 1)
                          /\ p[n].kind = "finish" <=> n = Len(p)

(* Between the two halves of a theta join there is a table tmp.                *)
InTheta(p, n) ==
  \E m \in 1..(n - 1) : /\ p[m].kind = "thetaOpen"
                        /\ \A k \in (m + 1)..(n - 1) : p[k].kind # "thetaClose"

(* The nodes form a tree: what a node reads an earlier node makes, tmp being       *)
(* there for the condition of a theta join only, and what a node makes a later    *)
(* one reads.                                                               *)
FormsTree(p) ==
  /\ \A n \in 1..Len(p) :
       /\ p[n].kind = "thetaClose" \/ 0 \in p[n].reads => InTheta(p, n)
       /\ \A m \in p[n].reads \ {0} : p[m].kind # "thetaOpen"
       /\ \A m \in p[n].arrays : \E i \in 1..Len(Script[p[m].kind]) : Script[p[m].kind][i] = "rmInto"
       /\ n < Len(p) /\ p[n].kind # "thetaOpen" => \E m \in 1..Len(p) : n \in p[m].reads
  /\ ~InTheta(p, Len(p))

(* The registries are maps, in the order of their keys as texts: id1 comes before *)
(* id10, and id10 before id2.  It suffices to compare ids below 100.             *)
Key(id) == IF id < 10 THEN 100 * id - 1 ELSE 10 * id
IsLast(id, registry) == \A other \in registry : Key(other) <= Key(id)
UpTo(id, registry) == {other \in registry : Key(other) <= Key(id)}
=============================================================================
