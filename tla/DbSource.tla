------------------------------- MODULE DbSource -------------------------------
(***************************************************************************)
(* Which system evaluates a node of an expression: setupDbSource() and the     *)
(* dispatch on db_source in execute() (querytree/Qt*.cpp).                     *)
(*                                                                         *)
(* A node's system is computed from its children's just before it is executed,  *)
(* while an unqualified column learns its table, and with it its system, only   *)
(* when it is executed itself; and some classes return a system that they do    *)
(* not store.  An operator that has chosen the mixed evaluation looks at the    *)
(* stored systems of its operands after it has executed them.                 *)
(*                                                                         *)
(* An expression is a sequence of nodes, children first, the root last.  What   *)
(* a node really yields, an array or a scalar, does not depend on db_source.    *)
(***************************************************************************)
EXTENDS Naturals, Sequences

CONSTANT Exprs    \* the expressions to evaluate

Leaves == {"pgColumn", "qualifiedPgColumn", "rasColumn", "constant"}
Kinds == Leaves \cup {"operation", "trim", "encode", "scalarFunction", "rasFunction",
                      "sqlFunction", "postGisFunction"}
Systems == {"NOT_INITIALIZED", "POSTGRES", "RASDAMAN", "MIXED", "UNKNOWN"}

(* A leaf has no operand, an operation two, everything else one: the list of a       *)
(* function's arguments counts as one.                                        *)
Arity(k) == IF k \in Leaves THEN 0 ELSE IF k = "operation" THEN 2 ELSE 1

IsExpr(e) ==
  /\ e \in Seq([kind : Kinds, kids : Seq(Nat)]) /\ e # <<>>
  /\ \A n \in 1..Len(e) : /\ Len(e[n].kids) = Arity(e[n].kind)
                         /\ \A i \in 1..Len(e[n].kids) : e[n].kids[i] \in 1..(n - 1)

ASSUME ExprsAssumption == \A e \in Exprs : IsExpr(e)

VARIABLES
  expr,      \* the expression
  db_source, \* the member db_source of every node
  resolved,  \* the columns that have found their table
  state,     \* how far execute() has come for every node
  choice     \* the system for which execute() of an operator has branched

vars == <<expr, db_source, resolved, state, choice>>

Nodes == 1..Len(expr)
Kind(n) == expr[n].kind
Kid(n, i) == expr[n].kids[i]
Kids(n) == {expr[n].kids[i] : i \in 1..Len(expr[n].kids)}

TypeOK ==
  /\ expr \in Exprs
  /\ db_source \in [Nodes -> Systems]
  /\ resolved \subseteq {n \in Nodes : Kind(n) = "pgColumn"}
  /\ state \in [Nodes -> {"waiting", "running", "done", "failed"}]
  /\ choice \in [Nodes -> Systems]

Init ==
  /\ expr \in Exprs
  /\ db_source = [n \in Nodes |-> "NOT_INITIALIZED"]
  /\ resolved = {}
  /\ state = [n \in Nodes |-> "waiting"]
  /\ choice = [n \in Nodes |-> "NOT_INITIALIZED"]

-----------------------------------------------------------------------------
(* setupDbSource() of the classes, from what it returns for the children.      *)

ColumnSource(n) ==
  IF Kind(n) = "pgColumn" /\ n \notin resolved THEN "UNKNOWN"
  ELSE IF Kind(n) = "rasColumn" THEN "RASDAMAN" ELSE "POSTGRES"

(* Mutation of QtBinaryOperation: the system of the first operand.            *)
FirstOperandSource(a, b) == a
OperationSource(a, b) == IF a = b THEN a ELSE "MIXED"

SqlFunctionSource(a) == IF a = "RASDAMAN" THEN "MIXED" ELSE a

(* The cases RASDAMAN and MIXED fall through to the one of UNKNOWN.            *)
PostGisSource(a) == IF a = "POSTGRES" THEN "POSTGRES" ELSE "UNKNOWN"

(* What setupDbSource() returns for every node.                              *)
Returned[n \in Nodes] ==
  IF Kind(n) \in Leaves THEN ColumnSource(n)
  ELSE IF Kind(n) = "operation" THEN OperationSource(Returned[Kid(n, 1)], Returned[Kid(n, 2)])
  ELSE IF Kind(n) = "sqlFunction" THEN SqlFunctionSource(Returned[Kid(n, 1)])
  ELSE IF Kind(n) = "postGisFunction" THEN PostGisSource(Returned[Kid(n, 1)])
  ELSE IF Kind(n) = "scalarFunction" THEN "POSTGRES" ELSE "RASDAMAN"

(* The classes whose setupDbSource() does not go on to their children.         *)
StopsAt(n) == Kind(n) \in {"trim", "encode", "scalarFunction", "rasFunction"}

Visited[n \in Nodes] ==
  IF StopsAt(n) THEN {n} ELSE {n} \cup UNION {Visited[k] : k \in Kids(n)}

(* Mutation of setupDbSource(): the children's systems are asked, not stored.   *)
SetupNotBelow(n) == [db_source EXCEPT ![n] = Returned[n]]

(* A call of setupDbSource() for n: every node it comes to stores its system,   *)
(* but for the trim, which returns RASDAMAN and stores nothing.               *)
Setup(n) ==
  [m \in Nodes |-> IF m \in Visited[n] /\ Kind(m) # "trim" THEN Returned[m] ELSE db_source[m]]

-----------------------------------------------------------------------------
(* execute().                                                              *)

(* The children are executed one after the other.                            *)
MayStart(n) ==
  /\ state[n] = "waiting"
  /\ n # Len(expr) =>
       \E p \in Nodes : /\ state[p] = "running" /\ n \in Kids(p)
                        /\ \A k \in Kids(p) : k < n => state[k] = "done"

(* QtSelectStatement::execute() calls setupDbSource() for the whole list first. *)
Prepare(n) == IF n = Len(expr) \/ Kind(n) = "operation" THEN Setup(n) ELSE db_source

Start(n) ==
  /\ MayStart(n)
  /\ Kind(n) \notin Leaves
  /\ state' = [state EXCEPT ![n] = "running"]
  /\ db_source' = Prepare(n)
  /\ choice' = [choice EXCEPT ![n] = db_source'[n]]
  /\ UNCHANGED <<expr, resolved>>

(* A column finds its table among the columns of the product and asks for its   *)
(* system again; a constant does not ask.                                   *)
ExecuteLeaf(n) ==
  /\ MayStart(n) /\ Kind(n) \in Leaves
  /\ resolved' = IF Kind(n) = "pgColumn" THEN resolved \cup {n} ELSE resolved
  /\ db_source' =
       IF Kind(n) = "constant" THEN db_source
       ELSE [db_source EXCEPT ![n] = IF Kind(n) = "rasColumn" THEN "RASDAMAN" ELSE "POSTGRES"]
  /\ state' = [state EXCEPT ![n] = "done"]
  /\ UNCHANGED <<expr, choice>>

(* What a node's table really holds.                                        *)
IsArray[n \in Nodes] ==
  \/ Kind(n) \in {"rasColumn", "trim", "encode", "rasFunction"}
  \/ Kind(n) = "operation" /\ (IsArray[Kid(n, 1)] \/ IsArray[Kid(n, 2)])

(* The operator's evaluation in the chosen system.  The mixed one finds the     *)
(* column of array ids through the operand that is stored as RASDAMAN; without  *)
(* one its index stays -1, with two ids it throws, and so does the one of       *)
(* RASDAMAN without two ids.                                                *)
OperationWorks(n) ==
  LET a == Kid(n, 1)
      b == Kid(n, 2)
  IN \/ choice[n] = "POSTGRES"
     \/ choice[n] = "RASDAMAN" /\ IsArray[a] /\ IsArray[b]
     \/ /\ choice[n] = "MIXED"
        /\ \E k \in {a, b} : db_source[k] = "RASDAMAN"
        /\ IsArray[a] # IsArray[b]

(* The functions of each system want the values they are defined for.          *)
NodeWorks(n) ==
  CASE Kind(n) = "operation" -> OperationWorks(n)
    [] Kind(n) \in {"trim", "encode", "scalarFunction", "rasFunction"} -> IsArray[Kid(n, 1)]
    [] Kind(n) \in {"sqlFunction", "postGisFunction"} -> ~IsArray[Kid(n, 1)]

Finish(n) ==
  /\ state[n] = "running"
  /\ \A k \in Kids(n) : state[k] = "done"
  /\ state' = [state EXCEPT ![n] = IF NodeWorks(n) THEN "done" ELSE "failed"]
  /\ UNCHANGED <<expr, db_source, resolved, choice>>

Next == \E n \in Nodes : Start(n) \/ ExecuteLeaf(n) \/ Finish(n)

(* The evaluation is one sequential computation.                            *)
Spec == Init /\ [][Next]_vars /\ WF_vars(Next)
=============================================================================
