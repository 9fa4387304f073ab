------------------------------- MODULE RowNumbers -------------------------------
(***************************************************************************)
(* How the rows of one SELECT stay together.  The cartesian product of the     *)
(* FROM list gets a column iqlinternalid, numbered by a sequence; every node     *)
(* makes a table of its own, and tables are put side by side again by joining    *)
(* them on that number.  Relational nodes pass the number on.  Array nodes       *)
(* make a rasdaman collection, array by array, read its oids back into a new      *)
(* table and number that one anew, in the order of the collection.             *)
(*                                                                         *)
(* A row is its number, its place in the order in which the server delivers its   *)
(* table, and the rows of the product that its cells were computed from.         *)
(***************************************************************************)
EXTENDS Naturals, FiniteSets, Sequences

CONSTANTS Queries,   \* the queries: nodes in the order of evaluation
          MaxRows    \* bound on the rows of the product

(* Classes by what execute() does with the numbers.  A leaf reads the product;    *)
(* pgColumn stands for constants and * as well, sqlFunction for PostGIS           *)
(* functions and LIKE, list for the SELECT list and lists of arguments.           *)
RelationalLeaves == {"pgColumn"}
ArrayLeaves == {"rasColumn"}
Relational == {"sqlFunction", "pgOperation", "interval", "list"}
ByRow == {"mixedOperation", "arrayOperation", "trim", "function2"}
ByCollection == {"function1", "scalarFunction"}
Arrays == ArrayLeaves \cup ByRow \cup {"function1"}
Classes == RelationalLeaves \cup ArrayLeaves \cup Relational \cup ByRow \cup ByCollection

(* left and right are operands, 0 for none; cond is the node of the condition of   *)
(* WHERE, 0 for none.  The nodes after it are those of the SELECT list, its root   *)
(* the last one.                                                            *)
Nodes == [class : Classes, left : Nat, right : Nat]

WellFormed(q) ==
  /\ q.nodes \in Seq(Nodes) /\ q.nodes # <<>>
  /\ q.cond \in 0..(Len(q.nodes) - 1)
  /\ \A k \in 1..Len(q.nodes) :
       LET nd == q.nodes[k]
           first == IF k > q.cond THEN q.cond + 1 ELSE 1
       IN IF nd.class \in RelationalLeaves \cup ArrayLeaves
          THEN nd.left = 0 /\ nd.right = 0
          ELSE /\ nd.left \in first..(k - 1)
               /\ nd.right \in (first..(k - 1)) \cup {0}
               /\ nd.class \in ByRow => nd.right # 0
               /\ nd.class \in ByCollection => nd.right = 0

(* Every node but the roots is an operand: the nodes make two trees.               *)
Connected(q) ==
  \A k \in 1..(Len(q.nodes) - 1) :
    k = q.cond \/ \E j \in (k + 1)..Len(q.nodes) : k \in {q.nodes[j].left, q.nodes[j].right}

(* What an array node asks rasdaman for is an array of one of its operands: with any   *)
(* other, trimming and the functions find no collection.                             *)
Typed(q) ==
  \A k \in 1..Len(q.nodes) :
    LET nd == q.nodes[k]
    IN /\ nd.class \in ByRow => \E m \in {nd.left, nd.right} : q.nodes[m].class \in Arrays
       /\ nd.class \in ByCollection => q.nodes[nd.left].class \in Arrays

ASSUME QueriesAssumption == \A q \in Queries : WellFormed(q) /\ Connected(q) /\ Typed(q)
ASSUME MaxRowsAssumption == MaxRows \in Nat

VARIABLES
  query,     \* the query
  n,         \* rows of the FROM list's product
  truth,     \* the rows for which the condition is true
  product,   \* QtSelectStatement::product
  node,      \* the next node
  rels,      \* the tables of the nodes
  status,    \* what execute() is doing, or how it ended
  shuffled,  \* whether the server has delivered a join out of order
  gone       \* rows whose array has been deleted by others since the product

vars == <<query, n, truth, product, node, rels, status, shuffled, gone>>

Row == [num : Nat, pos : Nat, of : SUBSET (1..MaxRows)]

TypeOK ==
  /\ query \in Queries
  /\ n \in 0..MaxRows /\ truth \in SUBSET (1..n)
  /\ product \in SUBSET Row
  /\ node \in 1..(Len(query.nodes) + 1)
  /\ rels \in [1..Len(query.nodes) -> SUBSET Row]
  /\ status \in {"from", "where", "select", "answered", "failed"}
  /\ shuffled \in {"no", "yes"}
  /\ gone \in SUBSET (1..n)

Init ==
  /\ query \in Queries
  /\ n \in 0..MaxRows /\ truth \in SUBSET (1..n)
  /\ product = {}
  /\ node = 1
  /\ rels = [k \in 1..Len(query.nodes) |-> {}]
  /\ status = "from"
  /\ shuffled = "no" /\ gone = {}

-----------------------------------------------------------------------------
Current == query.nodes[node]
LeftRows == rels[Current.left]
RightRows == rels[Current.right]

(* JOIN ... USING (iqlinternalid), in the order of the left table.              *)
Joined(a, b) ==
  {[num |-> p[1].num, pos |-> p[1].pos, of |-> p[1].of \cup p[2].of] :
     p \in {r \in a \X b : r[1].num = r[2].num}}

(* Mutation of insertHqlIdToTable(): the sequence goes on where it was, the way     *)
(* it does when it is not dropped.                                           *)
NextValOn(rows, r) == MaxRows * node + Cardinality({s \in rows : s.pos <= r.pos})

(* insertHqlIdToTable(): 1, 2, ... in the order of the table.                   *)
NextVal(rows, r) == Cardinality({s \in rows : s.pos <= r.pos})
Numbered(rows) == {[num |-> NextVal(rows, r), pos |-> r.pos, of |-> r.of] : r \in rows}

(* SQL promises no order of a result without ORDER BY.                         *)
Places(rows) == {r.pos : r \in rows}
Orders(rows) ==
  {{[r EXCEPT !.pos = f[r.pos]] : r \in rows} :
     f \in {g \in [Places(rows) -> Places(rows)] : {g[p] : p \in Places(rows)} = Places(rows)}}

Store(rows) ==
  /\ rels' = [rels EXCEPT ![node] = rows]
  /\ node' = node + 1

Fail ==
  /\ status' = "failed"
  /\ UNCHANGED <<product, node, rels>>

(* The node is next: in the condition, or in the SELECT list of a product that     *)
(* has rows.                                                                *)
Evaluating(classes) ==
  /\ \/ status = "where" /\ node <= query.cond
     \/ status = "select" /\ node <= Len(query.nodes) /\ product # {}
  /\ Current.class \in classes

-----------------------------------------------------------------------------
(* The product is made and numbered.                                         *)
Multiply ==
  /\ status = "from"
  /\ product' = Numbered({[num |-> 0, pos |-> i, of |-> {i}] : i \in 1..n})
  /\ status' = IF query.cond = 0 THEN "select" ELSE "where"
  /\ UNCHANGED <<query, n, truth, node, rels, shuffled, gone>>

ReadsProduct ==
  /\ Evaluating(RelationalLeaves)
  /\ Store(product)
  /\ UNCHANGED <<query, n, truth, product, status, shuffled, gone>>

(* One SELECT INTO for every oid of the product: where there is no array any        *)
(* more, it adds nothing, and a collection that nothing was added to cannot be      *)
(* read.                                                                    *)
ReadsArrays ==
  /\ Evaluating(ArrayLeaves)
  /\ LET found == {r \in product : r.of \cap gone = {}}
     IN IF found = {} THEN Fail
                      ELSE Store(Numbered(found)) /\ UNCHANGED <<product, status>>
  /\ UNCHANGED <<query, n, truth, shuffled, gone>>

(* Mutation of the relational operators: the operands are not joined on the          *)
(* number, but multiplied.                                                   *)
MultipliesOperands ==
  /\ Evaluating(Relational)
  /\ IF Current.right = 0 THEN Store(LeftRows)
     ELSE Store({[num |-> p[1].num, pos |-> p[1].pos, of |-> p[1].of \cup p[2].of] :
                   p \in LeftRows \X RightRows})
  /\ UNCHANGED <<query, n, truth, product, status, shuffled, gone>>

(* SELECT ... t1.iqlinternalid INTO ... FROM t1 JOIN t2, or from one table.          *)
KeepsNumbers ==
  /\ Evaluating(Relational)
  /\ IF Current.right = 0 THEN Store(LeftRows) /\ shuffled' = shuffled
     ELSE LET join == Joined(LeftRows, RightRows)
          IN \E rows \in Orders(join) :
               /\ Store(rows)
               /\ shuffled' = IF rows = join THEN shuffled ELSE "yes"
  /\ UNCHANGED <<query, n, truth, product, status, gone>>

(* The operands are joined, one SELECT INTO adds the result of every row to the      *)
(* collection, and the collection becomes the table.                           *)
RowByRow ==
  /\ Evaluating(ByRow)
  /\ LET join == Joined(LeftRows, RightRows)
     IN \E rows \in Orders(join) :
          /\ IF rows = {} THEN Fail
                          ELSE Store(Numbered(rows)) /\ UNCHANGED <<product, status>>
          /\ shuffled' = IF rows = join THEN shuffled ELSE "yes"
  /\ UNCHANGED <<query, n, truth, gone>>

(* One query on the operand's collection.                                    *)
WholeCollection ==
  /\ Evaluating(ByCollection)
  /\ Store(Numbered(LeftRows))
  /\ UNCHANGED <<query, n, truth, product, status, shuffled, gone>>

(* QtWhere keeps the rows whose condition is true, and the product is joined with      *)
(* them.  The condition of a row computed from different rows may be either.          *)
Filter ==
  /\ status = "where" /\ node = query.cond + 1
  /\ \E junk \in SUBSET {r \in rels[query.cond] : Cardinality(r.of) # 1} :
       LET kept == {r \in rels[query.cond] : Cardinality(r.of) = 1 /\ r.of \subseteq truth} \cup junk
           join == {r \in product : \E k \in kept : k.num = r.num}
       IN \E rows \in Orders(join) :
            /\ product' = rows
            /\ shuffled' = IF rows = join THEN shuffled ELSE "yes"
  /\ status' = "select"
  /\ UNCHANGED <<query, n, truth, node, rels, gone>>

(* The list's table, or the product itself when it has no row.                    *)
Answers ==
  /\ status = "select"
  /\ product = {} \/ node = Len(query.nodes) + 1
  /\ status' = "answered"
  /\ UNCHANGED <<query, n, truth, product, node, rels, shuffled, gone>>

(* The arrays of the user's collections are not locked between two calls.           *)
ArrayDeleted ==
  /\ status \in {"where", "select"}
  /\ \E i \in (1..n) \ gone : gone' = gone \cup {i}
  /\ UNCHANGED <<query, n, truth, product, node, rels, status, shuffled>>

Step ==
  \/ Multiply \/ ReadsProduct \/ ReadsArrays \/ KeepsNumbers \/ RowByRow
  \/ WholeCollection \/ Filter \/ Answers

Next == Step \/ ArrayDeleted

Spec == Init /\ [][Next]_vars
=============================================================================
