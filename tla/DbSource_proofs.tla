---------------------------- MODULE DbSource_proofs ----------------------------
(***************************************************************************)
(* Proofs about the choice of the evaluating system, for every expression.       *)
(***************************************************************************)
EXTENDS DbSourceProps, FiniteSetTheorems, SequenceTheorems, WellFoundedInduction, TLAPS

-----------------------------------------------------------------------------
(* What the models define by recursion over the operands: a function that is         *)
(* described by its values below an argument exists.  This stands in for an           *)
(* induction over the nodes.                                                   *)

(* A set of numbers that is not empty has a least element.                         *)
LEMMA Least ==
  ASSUME NEW T \in SUBSET Nat, T # {}
  PROVE  \E m \in T : \A k \in T : m <= k
<1> DEFINE R == OpToRel(<, Nat)
<1>1. IsWellFoundedOn(R, Nat)
  BY NatLessThanWellFounded
<1>2. PICK m \in T : \A k \in T : ~(<<k, m>> \in R)
  <2> HIDE DEF R
  <2> QED BY <1>1, WFMin
<1>3. \A k \in T : ~(k < m)
  BY <1>2 DEF OpToRel
<1>4. \A k \in T : k \in Nat /\ m \in Nat
  OBVIOUS
<1> QED BY <1>3, <1>4

(* What holds for a node whenever it holds for those before it holds for all.           *)
LEMMA ForAll ==
  ASSUME NEW N \in Nat, NEW P \in SUBSET (1..N),
         \A k \in 1..N : (1..(k - 1)) \subseteq P => k \in P
  PROVE  P = 1..N
<1> SUFFICES ASSUME P # 1..N PROVE FALSE
  OBVIOUS
<1> DEFINE T == (1..N) \ P
<1>1. T # {} /\ T \in SUBSET Nat
  <2>1. \E k \in 1..N : k \notin P
    <3>1. P \subseteq 1..N
      OBVIOUS
    <3> QED BY <3>1, Zenon
  <2>2. \A k \in 1..N : k \in Nat
    OBVIOUS
  <2> QED BY <2>1, <2>2
<1>2. PICK m \in T : \A k \in T : m <= k
  <2> HIDE DEF T
  <2> QED BY <1>1, Least
<1>3. \A j \in 1..(m - 1) : j \in 1..N /\ ~(m <= j)
  OBVIOUS
<1>4. (1..(m - 1)) \subseteq P
  BY <1>2, <1>3
<1> QED BY <1>4

(* Two functions agree below k.                                                *)
Agree(f, g, k) == \A j \in 1..(k - 1) : f[j] = g[j]

IsBody(B, N, V) ==
  /\ B \in [[1..N -> V] \X (1..N) -> V]
  /\ \A f, g \in [1..N -> V] : \A k \in 1..N : Agree(f, g, k) => B[<<f, k>>] = B[<<g, k>>]

Describes(B, N, V) == \E f \in [1..N -> V] : f = [k \in 1..N |-> B[<<f, k>>]]

LEMMA Recursion ==
  ASSUME NEW N \in Nat, NEW V, V # {}, NEW B, IsBody(B, N, V)
  PROVE  Describes(B, N, V)
<1>0. B \in [[1..N -> V] \X (1..N) -> V]
  BY DEF IsBody
<1> DEFINE Good(f, m) == \A k \in 1..m : f[k] = B[<<f, k>>]
           P == {m \in 1..N : \E f \in [1..N -> V] : Good(f, m)}
<1>1. ASSUME NEW k \in 1..N, (1..(k - 1)) \subseteq P PROVE k \in P
  <2>1. PICK f \in [1..N -> V] : Good(f, k - 1)
    <3>1. CASE k = 1
      <4>1. PICK v \in V : TRUE
        OBVIOUS
      <4>2. [j \in 1..N |-> v] \in [1..N -> V] /\ 1..(k - 1) = {}
        BY <3>1
      <4> QED BY <4>2
    <3>2. CASE k # 1
      <4>1. k - 1 \in 1..(k - 1)
        BY <3>2
      <4> QED BY <1>1, <4>1
    <3> QED BY <3>1, <3>2
  <2> DEFINE g == [f EXCEPT ![k] = B[<<f, k>>]]
  <2>2. B[<<f, k>>] \in V
    BY <1>0
  <2>3. g \in [1..N -> V] /\ g[k] = B[<<f, k>>] /\ \A j \in 1..N : j # k => g[j] = f[j]
    BY <2>2
  <2> HIDE DEF g
  <2>4. ASSUME NEW j \in 1..k PROVE g[j] = B[<<g, j>>]
    <3>1. j \in 1..N /\ \A i \in 1..(j - 1) : i \in 1..N /\ i # k
      OBVIOUS
    <3>2. Agree(f, g, j)
      BY <2>3, <3>1 DEF Agree
    <3>3. B[<<f, j>>] = B[<<g, j>>]
      BY <2>3, <3>1, <3>2 DEF IsBody
    <3>4. j = k \/ j \in 1..(k - 1)
      OBVIOUS
    <3> QED BY <2>1, <2>3, <3>1, <3>3, <3>4
  <2> QED BY <2>3, <2>4
<1>2. P = 1..N
  <2>1. P \in SUBSET (1..N)
    OBVIOUS
  <2> HIDE DEF P
  <2> QED BY <1>1, <2>1, ForAll
<1>3. PICK f \in [1..N -> V] : Good(f, N)
  <2>1. CASE N = 0
    <3>1. PICK v \in V : TRUE
      OBVIOUS
    <3>2. [j \in 1..N |-> v] \in [1..N -> V] /\ 1..N = {}
      BY <2>1
    <3> QED BY <3>2
  <2>2. CASE N # 0
    <3>1. N \in 1..N
      BY <2>2
    <3>2. N \in P
      <4> HIDE DEF P
      <4> QED BY <1>2, <3>1
    <3> QED BY <3>2
  <2> QED BY <2>1, <2>2
<1>4. f = [k \in 1..N |-> f[k]]
  OBVIOUS
<1>5. [k \in 1..N |-> f[k]] = [k \in 1..N |-> B[<<f, k>>]]
  BY <1>3
<1> QED BY <1>4, <1>5 DEF Describes

-----------------------------------------------------------------------------
Unaries == Kinds \ (Leaves \cup {"operation"})

(* The nodes and their operands.                                               *)
LEMMA Expression ==
  ASSUME expr \in Exprs
  PROVE  /\ Len(expr) \in Nat \ {0}
         /\ \A n \in Nodes :
              /\ Kind(n) \in Kinds
              /\ Kids(n) \subseteq 1..(n - 1)
              /\ Kind(n) \in Leaves => Kids(n) = {}
              /\ Kind(n) = "operation" =>
                   /\ Kid(n, 1) \in 1..(n - 1) /\ Kid(n, 2) \in 1..(n - 1)
                   /\ Kids(n) = {Kid(n, 1), Kid(n, 2)}
              /\ Kind(n) \in Unaries => Kid(n, 1) \in 1..(n - 1) /\ Kids(n) = {Kid(n, 1)}
<1>1. IsExpr(expr)
  BY ExprsAssumption
<1>2. expr \in Seq([kind : Kinds, kids : Seq(Nat)]) /\ expr # <<>>
  BY <1>1 DEF IsExpr
<1>3. Len(expr) \in Nat \ {0}
  BY <1>2
<1>4. ASSUME NEW n \in Nodes
      PROVE  /\ Kind(n) \in Kinds
             /\ Kids(n) \subseteq 1..(n - 1)
             /\ Kind(n) \in Leaves => Kids(n) = {}
             /\ Kind(n) = "operation" =>
                  /\ Kid(n, 1) \in 1..(n - 1) /\ Kid(n, 2) \in 1..(n - 1)
                  /\ Kids(n) = {Kid(n, 1), Kid(n, 2)}
             /\ Kind(n) \in Unaries => Kid(n, 1) \in 1..(n - 1) /\ Kids(n) = {Kid(n, 1)}
  <2>1. n \in 1..Len(expr) /\ Kind(n) = expr[n].kind
    BY DEF Nodes, Kind
  <2>2. Len(expr[n].kids) = Arity(Kind(n))
        /\ \A i \in 1..Len(expr[n].kids) : Kid(n, i) \in 1..(n - 1)
    BY <1>1, <2>1 DEF IsExpr, Kind, Kid
  <2>3. Kids(n) = {Kid(n, i) : i \in 1..Arity(Kind(n))}
    BY <2>2 DEF Kids, Kid
  <2>4. Kind(n) \in Kinds
    <3>1. expr[n] \in [kind : Kinds, kids : Seq(Nat)]
      BY <1>2, <2>1, ElementOfSeq
    <3> QED BY <2>1, <3>1
  <2>5. CASE Kind(n) \in Leaves
    <3>1. 1..Arity(Kind(n)) = {}
      BY <2>5 DEF Arity
    <3>2. Kind(n) # "operation" /\ Kind(n) \notin Unaries
      BY <2>5 DEF Leaves, Unaries
    <3> QED BY <2>3, <2>4, <2>5, <3>1, <3>2
  <2>6. CASE Kind(n) = "operation"
    <3>1. 1..Arity(Kind(n)) = {1, 2}
      BY <2>6 DEF Arity, Leaves
    <3>2. Kind(n) \notin Leaves /\ Kind(n) \notin Unaries
      BY <2>6 DEF Leaves, Unaries
    <3>3. Kid(n, 1) \in 1..(n - 1) /\ Kid(n, 2) \in 1..(n - 1)
      BY <2>2, <3>1
    <3> QED BY <2>3, <2>4, <3>1, <3>2, <3>3
  <2>7. CASE Kind(n) \in Unaries
    <3>1. 1..Arity(Kind(n)) = {1}
      BY <2>7 DEF Arity, Leaves, Unaries
    <3>2. Kind(n) \notin Leaves /\ Kind(n) # "operation"
      BY <2>7 DEF Leaves, Unaries
    <3>3. Kid(n, 1) \in 1..(n - 1)
      BY <2>2, <3>1
    <3> QED BY <2>3, <2>4, <3>1, <3>2, <3>3
  <2> QED BY <2>4, <2>5, <2>6, <2>7 DEF Unaries
<1> QED BY <1>3, <1>4

(* The equations of the three recursive definitions.                               *)
ArrayBody(a, n) ==
  \/ Kind(n) \in {"rasColumn", "trim", "encode", "rasFunction"}
  \/ Kind(n) = "operation" /\ (a[Kid(n, 1)] \/ a[Kid(n, 2)])

LEMMA ArrayEquation ==
  ASSUME expr \in Exprs
  PROVE  IsArray \in [Nodes -> BOOLEAN] /\ \A n \in Nodes : IsArray[n] = ArrayBody(IsArray, n)
<1> DEFINE N == Len(expr)
           V == BOOLEAN
           B == [p \in [1..N -> V] \X (1..N) |-> ArrayBody(p[1], p[2])]
<1>1. N \in Nat /\ Nodes = 1..N
  BY Expression DEF Nodes
<1>2. V # {} /\ \A a, n : ArrayBody(a, n) \in V
  BY DEF ArrayBody
<1> HIDE DEF N, V
<1>3. B \in [[1..N -> V] \X (1..N) -> V]
  BY <1>2
<1>4. \A f \in [1..N -> V] : \A k \in 1..N : B[<<f, k>>] = ArrayBody(f, k)
  OBVIOUS
<1> HIDE DEF B
<1>5. IsBody(B, N, V)
  <2> SUFFICES ASSUME NEW f \in [1..N -> V], NEW g \in [1..N -> V], NEW k \in 1..N, Agree(f, g, k)
               PROVE  B[<<f, k>>] = B[<<g, k>>]
    BY <1>3 DEF IsBody
  <2>1. Kind(k) = "operation" => f[Kid(k, 1)] = g[Kid(k, 1)] /\ f[Kid(k, 2)] = g[Kid(k, 2)]
    BY <1>1, Expression DEF Agree
  <2>2. ArrayBody(f, k) = ArrayBody(g, k)
    BY <2>1 DEF ArrayBody
  <2> QED BY <1>4, <2>2
<1>6. PICK f \in [1..N -> V] : f = [k \in 1..N |-> B[<<f, k>>]]
  <2>1. Describes(B, N, V)
    BY <1>1, <1>2, <1>5, Recursion
  <2> QED BY <2>1 DEF Describes
<1>7. f = [n \in Nodes |-> ArrayBody(f, n)]
  BY <1>1, <1>4, <1>6
<1>8. IsArray = CHOOSE a : a = [n \in Nodes |-> ArrayBody(a, n)]
  BY DEF IsArray, ArrayBody
<1>9. IsArray = [n \in Nodes |-> ArrayBody(IsArray, n)]
  BY <1>7, <1>8
<1>10. IsArray \in [Nodes -> V]
  BY <1>2, <1>9
<1> QED BY <1>9, <1>10 DEF V

ReturnedBody(r, n) ==
  IF Kind(n) \in Leaves THEN ColumnSource(n)
  ELSE IF Kind(n) = "operation" THEN OperationSource(r[Kid(n, 1)], r[Kid(n, 2)])
  ELSE IF Kind(n) = "sqlFunction" THEN SqlFunctionSource(r[Kid(n, 1)])
  ELSE IF Kind(n) = "postGisFunction" THEN PostGisSource(r[Kid(n, 1)])
  ELSE IF Kind(n) = "scalarFunction" THEN "POSTGRES" ELSE "RASDAMAN"

LEMMA ReturnedTyping ==
  ASSUME expr \in Exprs, NEW r, NEW n \in Nodes, \A j \in 1..(n - 1) : r[j] \in Systems
  PROVE  ReturnedBody(r, n) \in Systems
<1>1. /\ Kind(n) \in Kinds
      /\ Kind(n) = "operation" => r[Kid(n, 1)] \in Systems /\ r[Kid(n, 2)] \in Systems
      /\ Kind(n) \in Unaries => r[Kid(n, 1)] \in Systems
  BY Expression
<1>2. Kind(n) \in {"sqlFunction", "postGisFunction"} => r[Kid(n, 1)] \in Systems
  BY <1>1 DEF Unaries, Kinds, Leaves
<1>3. ColumnSource(n) \in Systems
  BY DEF ColumnSource, Systems
<1>4. /\ \A x, y \in Systems : OperationSource(x, y) \in Systems
      /\ \A x \in Systems : SqlFunctionSource(x) \in Systems /\ PostGisSource(x) \in Systems
  BY DEF OperationSource, SqlFunctionSource, PostGisSource, Systems
<1>5. "POSTGRES" \in Systems /\ "RASDAMAN" \in Systems
  BY DEF Systems
<1> QED BY <1>1, <1>2, <1>3, <1>4, <1>5 DEF ReturnedBody

LEMMA ReturnedEquation ==
  ASSUME expr \in Exprs
  PROVE  /\ Returned \in [Nodes -> Systems]
         /\ \A n \in Nodes : Returned[n] = ReturnedBody(Returned, n)
<1> DEFINE N == Len(expr)
           V == Systems
           B == [p \in [1..N -> V] \X (1..N) |-> ReturnedBody(p[1], p[2])]
<1>1. N \in Nat /\ Nodes = 1..N
  BY Expression DEF Nodes
<1>2. V # {}
  BY DEF Systems
<1> HIDE DEF N
<1>3. \A f \in [1..N -> V] : \A k \in 1..N : ReturnedBody(f, k) \in V
  <2> SUFFICES ASSUME NEW f \in [1..N -> V], NEW k \in 1..N PROVE ReturnedBody(f, k) \in V
    OBVIOUS
  <2>1. \A j \in 1..(k - 1) : j \in 1..N
    BY <1>1
  <2> QED BY <1>1, <2>1, ReturnedTyping
<1> HIDE DEF V
<1>4. B \in [[1..N -> V] \X (1..N) -> V]
  BY <1>3
<1>5. \A f \in [1..N -> V] : \A k \in 1..N : B[<<f, k>>] = ReturnedBody(f, k)
  OBVIOUS
<1> HIDE DEF B
<1>6. IsBody(B, N, V)
  <2> SUFFICES ASSUME NEW f \in [1..N -> V], NEW g \in [1..N -> V], NEW k \in 1..N, Agree(f, g, k)
               PROVE  B[<<f, k>>] = B[<<g, k>>]
    BY <1>4 DEF IsBody
  <2>1. /\ Kind(k) = "operation" => f[Kid(k, 1)] = g[Kid(k, 1)] /\ f[Kid(k, 2)] = g[Kid(k, 2)]
        /\ Kind(k) \in Unaries => f[Kid(k, 1)] = g[Kid(k, 1)]
    BY <1>1, Expression DEF Agree
  <2>2. Kind(k) \in {"sqlFunction", "postGisFunction"} => Kind(k) \in Unaries
    BY DEF Unaries, Kinds, Leaves
  <2>3. ReturnedBody(f, k) = ReturnedBody(g, k)
    BY <2>1, <2>2 DEF ReturnedBody
  <2> QED BY <1>5, <2>3
<1>7. PICK f \in [1..N -> V] : f = [k \in 1..N |-> B[<<f, k>>]]
  <2>1. Describes(B, N, V)
    BY <1>1, <1>2, <1>6, Recursion DEF V
  <2> QED BY <2>1 DEF Describes
<1>8. f = [n \in Nodes |-> ReturnedBody(f, n)]
  BY <1>1, <1>5, <1>7
<1>9. Returned = CHOOSE r : r = [n \in Nodes |-> ReturnedBody(r, n)]
  BY DEF Returned, ReturnedBody
<1>10. Returned = [n \in Nodes |-> ReturnedBody(Returned, n)]
  BY <1>8, <1>9
<1>11. \A n \in Nodes : Returned[n] = ReturnedBody(Returned, n)
  BY <1>10
<1>12. \A n \in Nodes : Returned[n] \in Systems
  <2> DEFINE P == {n \in 1..N : Returned[n] \in Systems}
  <2>1. ASSUME NEW k \in 1..N, (1..(k - 1)) \subseteq P PROVE k \in P
    <3>1. \A j \in 1..(k - 1) : Returned[j] \in Systems
      BY <2>1
    <3> QED BY <1>1, <1>11, <3>1, ReturnedTyping
  <2>2. P \in SUBSET (1..N)
    OBVIOUS
  <2>3. P = 1..N
    <3> HIDE DEF P
    <3> QED BY <1>1, <2>1, <2>2, ForAll
  <2> QED BY <1>1, <2>3
<1> QED BY <1>10, <1>11, <1>12

VisitedBody(v, n) == IF StopsAt(n) THEN {n} ELSE {n} \cup UNION {v[k] : k \in Kids(n)}

LEMMA VisitedEquation ==
  ASSUME expr \in Exprs
  PROVE  \A n \in Nodes : Visited[n] = VisitedBody(Visited, n)
<1> DEFINE N == Len(expr)
           V == SUBSET (1..N)
           B == [p \in [1..N -> V] \X (1..N) |-> VisitedBody(p[1], p[2])]
<1>1. N \in Nat /\ Nodes = 1..N
  BY Expression DEF Nodes
<1>2. V # {}
  OBVIOUS
<1> HIDE DEF N
<1>3. \A f \in [1..N -> V] : \A k \in 1..N : VisitedBody(f, k) \in V
  <2> SUFFICES ASSUME NEW f \in [1..N -> V], NEW k \in 1..N PROVE VisitedBody(f, k) \in V
    OBVIOUS
  <2>1. \A j \in Kids(k) : j \in 1..N
    BY <1>1, Expression
  <2>2. \A j \in Kids(k) : f[j] \subseteq 1..N
    BY <2>1
  <2> QED BY <2>2 DEF VisitedBody
<1> HIDE DEF V
<1>4. B \in [[1..N -> V] \X (1..N) -> V]
  BY <1>3
<1>5. \A f \in [1..N -> V] : \A k \in 1..N : B[<<f, k>>] = VisitedBody(f, k)
  OBVIOUS
<1> HIDE DEF B
<1>6. IsBody(B, N, V)
  <2> SUFFICES ASSUME NEW f \in [1..N -> V], NEW g \in [1..N -> V], NEW k \in 1..N, Agree(f, g, k)
               PROVE  B[<<f, k>>] = B[<<g, k>>]
    BY <1>4 DEF IsBody
  <2>1. \A j \in Kids(k) : f[j] = g[j]
    BY <1>1, Expression DEF Agree
  <2>2. {f[j] : j \in Kids(k)} = {g[j] : j \in Kids(k)}
    BY <2>1
  <2>3. VisitedBody(f, k) = VisitedBody(g, k)
    BY <2>2 DEF VisitedBody
  <2> QED BY <1>5, <2>3
<1>7. PICK f \in [1..N -> V] : f = [k \in 1..N |-> B[<<f, k>>]]
  <2>1. Describes(B, N, V)
    BY <1>1, <1>2, <1>6, Recursion
  <2> QED BY <2>1 DEF Describes
<1>8. f = [n \in Nodes |-> VisitedBody(f, n)]
  BY <1>1, <1>5, <1>7
<1>9. Visited = CHOOSE v : v = [n \in Nodes |-> VisitedBody(v, n)]
  BY DEF Visited, VisitedBody
<1>10. Visited = [n \in Nodes |-> VisitedBody(Visited, n)]
  BY <1>8, <1>9
<1> QED BY <1>10

(* A call of setupDbSource() comes to its node, and to the operands of an operator.     *)
LEMMA Visiting ==
  ASSUME expr \in Exprs, NEW n \in Nodes
  PROVE  /\ n \in Visited[n]
         /\ Kind(n) = "operation" => \A k \in Kids(n) : k \in Visited[n]
<1>1. Visited[n] = VisitedBody(Visited, n) /\ \A k \in Kids(n) : k \in Nodes
  BY VisitedEquation, Expression DEF Nodes
<1>2. \A k \in Kids(n) : k \in Visited[k]
  <2>1. \A k \in Nodes : k \in VisitedBody(Visited, k)
    BY DEF VisitedBody
  <2> QED BY <1>1, <2>1, VisitedEquation
<1>3. n \in Visited[n]
  BY <1>1 DEF VisitedBody
<1>4. Kind(n) = "operation" => ~StopsAt(n)
  BY DEF StopsAt
<1> QED BY <1>1, <1>2, <1>3, <1>4 DEF VisitedBody

-----------------------------------------------------------------------------
(* What is said to be PostgreSQL's is a scalar: nothing that is an array is ever sent    *)
(* to SQL, whatever the columns that have not found their table yet.                 *)
LEMMA ScalarSources ==
  ASSUME expr \in Exprs
  PROVE  \A n \in Nodes : Returned[n] = "POSTGRES" => ~IsArray[n]
<1> DEFINE N == Len(expr)
           P == {n \in 1..N : Returned[n] = "POSTGRES" => ~IsArray[n]}
<1>1. N \in Nat /\ Nodes = 1..N
  BY Expression DEF Nodes
<1>2. ASSUME NEW n \in 1..N, (1..(n - 1)) \subseteq P PROVE n \in P
  <2> SUFFICES ASSUME Returned[n] = "POSTGRES" PROVE ~IsArray[n]
    OBVIOUS
  <2>1. ReturnedBody(Returned, n) = "POSTGRES" /\ IsArray[n] = ArrayBody(IsArray, n)
    BY <1>1, ReturnedEquation, ArrayEquation
  <2>2. Kind(n) \notin {"rasColumn", "trim", "encode", "rasFunction"}
    BY <2>1 DEF ReturnedBody, ColumnSource, Leaves
  <2>3. CASE Kind(n) = "operation"
    <3>1. Kid(n, 1) \in 1..(n - 1) /\ Kid(n, 2) \in 1..(n - 1)
      BY <1>1, <2>3, Expression
    <3>2. Returned[Kid(n, 1)] = "POSTGRES" /\ Returned[Kid(n, 2)] = "POSTGRES"
      BY <2>1, <2>3 DEF ReturnedBody, OperationSource, Leaves
    <3>3. ~IsArray[Kid(n, 1)] /\ ~IsArray[Kid(n, 2)]
      BY <1>2, <3>1, <3>2
    <3> QED BY <2>1, <2>2, <3>3 DEF ArrayBody
  <2>4. CASE Kind(n) # "operation"
    BY <2>1, <2>2, <2>4 DEF ArrayBody
  <2> QED BY <2>3, <2>4
<1>3. P = 1..N
  <2>1. P \in SUBSET (1..N)
    OBVIOUS
  <2> HIDE DEF P
  <2> QED BY <1>1, <1>2, <2>1, ForAll
<1> QED BY <1>1, <1>3

(* The definitions that only depend on the expression do not change with it.           *)
LEMMA SameNodes ==
  ASSUME expr' = expr
  PROVE  /\ Nodes' = Nodes /\ IsArray' = IsArray
         /\ \A n : Kind(n)' = Kind(n) /\ Kids(n)' = Kids(n) /\ \A i : Kid(n, i)' = Kid(n, i)
BY DEF Nodes, IsArray, Kind, Kids, Kid

(* The kinds of steps.                                                        *)
Starts(n) ==
  /\ state[n] = "waiting" /\ Kind(n) \notin Leaves
  /\ state' = [state EXCEPT ![n] = "running"]
  /\ db_source' \in {db_source, Setup(n)}
  /\ Kind(n) = "operation" => db_source' = Setup(n)
  /\ choice' = [choice EXCEPT ![n] = db_source'[n]]
  /\ UNCHANGED <<expr, resolved>>

LEMMA Starting ==
  ASSUME NEW n \in Nodes, Start(n)
  PROVE  Starts(n)
BY DEF Start, Starts, MayStart, Prepare

(* Type correctness: setupDbSource() returns a system for every expression, however         *)
(* deep it is and whichever columns are resolved.                               *)
THEOREM TypeCorrect == Spec => []TypeOK
<1>1. Init => TypeOK
  <2>1. "NOT_INITIALIZED" \in Systems
    BY DEF Systems
  <2> QED BY <2>1 DEF Init, TypeOK
<1>2. TypeOK /\ [Next]_vars => TypeOK'
  <2> SUFFICES ASSUME TypeOK, [Next]_vars PROVE TypeOK'
    OBVIOUS
  <2>1. ASSUME NEW n \in Nodes, Start(n) PROVE TypeOK'
    <3>1. Starts(n) /\ expr' = expr
      BY <2>1, Starting DEF Starts
    <3>2. Setup(n) \in [Nodes -> Systems]
      BY ReturnedEquation DEF TypeOK, Setup
    <3>3. db_source' \in [Nodes -> Systems]
      BY <3>1, <3>2 DEF Starts, TypeOK
    <3> QED BY <3>1, <3>3, SameNodes DEF Starts, TypeOK
  <2>2. ASSUME NEW n \in Nodes, ExecuteLeaf(n) PROVE TypeOK'
    <3>1. "RASDAMAN" \in Systems /\ "POSTGRES" \in Systems
      BY DEF Systems
    <3>2. expr' = expr
      BY <2>2 DEF ExecuteLeaf
    <3> QED BY <2>2, <3>1, <3>2, SameNodes DEF ExecuteLeaf, TypeOK
  <2>3. ASSUME NEW n \in Nodes, Finish(n) PROVE TypeOK'
    <3>1. expr' = expr
      BY <2>3 DEF Finish
    <3> QED BY <2>3, <3>1, SameNodes DEF Finish, TypeOK
  <2>4. CASE UNCHANGED vars
    <3>1. expr' = expr
      BY <2>4 DEF vars
    <3> QED BY <2>4, <3>1, SameNodes DEF vars, TypeOK
  <2> QED BY <2>1, <2>2, <2>3, <2>4 DEF Next
<1> QED
  BY <1>1, <1>2, PTL DEF Spec

-----------------------------------------------------------------------------
(* An operator that has branched to PostgreSQL has two scalars.                        *)
ScalarsInv ==
  \A n \in Nodes : Kind(n) = "operation" /\ state[n] # "waiting" /\ choice[n] = "POSTGRES" =>
    ~IsArray[Kid(n, 1)] /\ ~IsArray[Kid(n, 2)]

ChoiceInv == ScalarsInv /\ NoWrongSystem

LEMMA StartChoice ==
  ASSUME TypeOK, ChoiceInv, NEW n \in Nodes, Start(n)
  PROVE  ChoiceInv'
<1>1. Starts(n) /\ expr' = expr /\ expr \in Exprs
  BY Starting DEF Starts, TypeOK
<1>2. \A m \in Nodes : m # n => state'[m] = state[m] /\ choice'[m] = choice[m]
  BY <1>1 DEF Starts, TypeOK
<1>3. state'[n] = "running" /\ choice'[n] = db_source'[n]
  BY <1>1 DEF Starts, TypeOK
<1>4. Kind(n) = "operation" /\ choice'[n] = "POSTGRES" => ~IsArray[Kid(n, 1)] /\ ~IsArray[Kid(n, 2)]
  <2> SUFFICES ASSUME Kind(n) = "operation", choice'[n] = "POSTGRES"
               PROVE  ~IsArray[Kid(n, 1)] /\ ~IsArray[Kid(n, 2)]
    OBVIOUS
  <2>1. Setup(n)[n] = Returned[n]
    BY <1>1, Visiting DEF Setup
  <2>2. Returned[n] = "POSTGRES"
    BY <1>1, <1>3, <2>1 DEF Starts
  <2>3. ~IsArray[n]
    BY <1>1, <2>2, ScalarSources
  <2>4. ~ArrayBody(IsArray, n)
    BY <1>1, <2>3, ArrayEquation
  <2> QED BY <2>4 DEF ArrayBody
<1>5. ScalarsInv'
  BY <1>1, <1>2, <1>4, SameNodes DEF ChoiceInv, ScalarsInv
<1>6. NoWrongSystem'
  BY <1>1, <1>2, <1>3, SameNodes DEF ChoiceInv, NoWrongSystem, Done
<1> QED BY <1>5, <1>6 DEF ChoiceInv

(* An operator ends well only in a system that is right for its operands.                *)
LEMMA FinishChoice ==
  ASSUME TypeOK, ChoiceInv, NEW n \in Nodes, Finish(n)
  PROVE  ChoiceInv'
<1>1. /\ expr' = expr /\ choice' = choice /\ state[n] = "running"
      /\ state'[n] = "done" => NodeWorks(n)
      /\ \A m \in Nodes : m # n => state'[m] = state[m]
  BY DEF Finish, TypeOK
<1>2. ScalarsInv'
  BY <1>1, SameNodes DEF ChoiceInv, ScalarsInv
<1>3. ASSUME state'[n] = "done", Kind(n) = "operation"
      PROVE  \/ choice[n] = "POSTGRES" /\ ~IsArray[Kid(n, 1)] /\ ~IsArray[Kid(n, 2)]
             \/ choice[n] = "RASDAMAN" /\ IsArray[Kid(n, 1)] /\ IsArray[Kid(n, 2)]
             \/ choice[n] = "MIXED" /\ IsArray[Kid(n, 1)] # IsArray[Kid(n, 2)]
  <2>1. OperationWorks(n)
    BY <1>1, <1>3 DEF NodeWorks
  <2>2. choice[n] = "POSTGRES" => ~IsArray[Kid(n, 1)] /\ ~IsArray[Kid(n, 2)]
    BY <1>1, <1>3 DEF ChoiceInv, ScalarsInv
  <2> QED BY <2>1, <2>2 DEF OperationWorks
<1>4. NoWrongSystem'
  BY <1>1, <1>3, SameNodes DEF ChoiceInv, NoWrongSystem, Done
<1> QED BY <1>2, <1>4 DEF ChoiceInv

(* However an expression is built and in whatever order its columns find their tables, an     *)
(* operator never ends well in a system that is wrong for its operands.                *)
THEOREM NeverWrong == Spec => []NoWrongSystem
<1>1. Init => ChoiceInv
  BY DEF Init, ChoiceInv, ScalarsInv, NoWrongSystem, Done
<1>2. TypeOK /\ ChoiceInv /\ [Next]_vars => ChoiceInv'
  <2> SUFFICES ASSUME TypeOK, ChoiceInv, [Next]_vars PROVE ChoiceInv'
    OBVIOUS
  <2>1. ASSUME NEW n \in Nodes, ExecuteLeaf(n) PROVE ChoiceInv'
    <3>1. /\ expr' = expr /\ choice' = choice /\ Kind(n) # "operation"
          /\ \A m \in Nodes : m # n => state'[m] = state[m]
      BY <2>1 DEF ExecuteLeaf, Leaves, TypeOK
    <3> QED BY <3>1, SameNodes DEF ChoiceInv, ScalarsInv, NoWrongSystem, Done
  <2>2. CASE UNCHANGED vars
    <3>1. expr' = expr /\ choice' = choice /\ state' = state
      BY <2>2 DEF vars
    <3> QED BY <3>1, SameNodes DEF ChoiceInv, ScalarsInv, NoWrongSystem, Done
  <2> QED BY <2>1, <2>2, StartChoice, FinishChoice DEF Next
<1>3. ChoiceInv => NoWrongSystem
  BY DEF ChoiceInv
<1> QED
  BY <1>1, <1>2, <1>3, TypeCorrect, PTL DEF Spec

-----------------------------------------------------------------------------
AllPlain == \A n \in Nodes : Plain(n)
Side(n) == IF IsArray[n] THEN "RASDAMAN" ELSE "POSTGRES"
Uniform(n) == Kind(n) = "operation" => IsArray[Kid(n, 1)] = IsArray[Kid(n, 2)]

LEMMA SingleValue ==
  ASSUME NEW a, NEW b, Cardinality({a, b}) = 1
  PROVE  a = b
<1>1. IsFiniteSet({a, b})
  <2>1. IsFiniteSet({a})
    BY FS_Singleton
  <2>2. {a, b} = {a} \cup {b}
    OBVIOUS
  <2> QED BY <2>1, <2>2, FS_AddElement
<1>2. PICK x : {a, b} = {x}
  BY <1>1, FS_Singleton
<1> QED BY <1>2

(* In a plain expression an operand is neither a trim nor a mixed operation.            *)
LEMMA PlainOperands ==
  ASSUME expr \in Exprs, AllPlain, NEW n \in Nodes, Kind(n) = "operation", NEW k \in Kids(n)
  PROVE  k \in Nodes /\ k \in 1..(n - 1) /\ Kind(k) # "trim" /\ Uniform(k)
<1>1. k \in Nodes /\ k \in 1..(n - 1)
  BY Expression DEF Nodes
<1>2. Kind(k) # "trim" /\ (Kind(k) = "operation" => Cardinality({IsArray[j] : j \in Kids(k)}) = 1)
  BY DEF AllPlain, Plain
<1>3. ASSUME Kind(k) = "operation" PROVE IsArray[Kid(k, 1)] = IsArray[Kid(k, 2)]
  <2>1. Kids(k) = {Kid(k, 1), Kid(k, 2)}
    BY <1>1, <1>3, Expression
  <2>2. {IsArray[j] : j \in Kids(k)} = {IsArray[Kid(k, 1)], IsArray[Kid(k, 2)]}
    BY <2>1
  <2>3. Cardinality({IsArray[Kid(k, 1)], IsArray[Kid(k, 2)]}) = 1
    BY <1>2, <1>3, <2>2
  <2> QED BY <2>3, SingleValue
<1> QED BY <1>1, <1>2, <1>3 DEF Uniform

(* There every node but a mixed operation belongs to the system of its values.           *)
LEMMA PlainSources ==
  ASSUME expr \in Exprs, AllPlain
  PROVE  \A n \in Nodes : Uniform(n) => Returned[n] = Side(n)
<1> DEFINE N == Len(expr)
           P == {n \in 1..N : Uniform(n) => Returned[n] = Side(n)}
<1>1. N \in Nat /\ Nodes = 1..N
  BY Expression DEF Nodes
<1>2. ASSUME NEW n \in 1..N, (1..(n - 1)) \subseteq P PROVE n \in P
  <2> SUFFICES ASSUME Uniform(n) PROVE Returned[n] = Side(n)
    OBVIOUS
  <2>1. Returned[n] = ReturnedBody(Returned, n) /\ IsArray[n] = ArrayBody(IsArray, n)
    BY <1>1, ReturnedEquation, ArrayEquation
  <2>2. Kind(n) \in Kinds /\ Plain(n)
    BY <1>1, Expression DEF AllPlain
  <2>3. CASE Kind(n) \in Leaves
    <3>1. Kind(n) # "pgColumn"
      BY <2>2 DEF Plain
    <3> QED BY <2>1, <2>3, <3>1 DEF ReturnedBody, ArrayBody, ColumnSource, Side, Leaves
  <2>4. CASE Kind(n) = "operation"
    <3>1. /\ Kid(n, 1) \in Kids(n) /\ Kid(n, 2) \in Kids(n)
      BY <1>1, <2>4, Expression
    <3>2. /\ Kid(n, 1) \in P /\ Uniform(Kid(n, 1))
          /\ Kid(n, 2) \in P /\ Uniform(Kid(n, 2))
      BY <1>1, <1>2, <2>4, <3>1, PlainOperands
    <3>3. Returned[Kid(n, 1)] = Side(Kid(n, 1)) /\ Returned[Kid(n, 2)] = Side(Kid(n, 2))
      BY <3>2
    <3>4. IsArray[Kid(n, 1)] = IsArray[Kid(n, 2)]
      BY <2>4 DEF Uniform
    <3>5. ReturnedBody(Returned, n) = Side(Kid(n, 1))
      BY <2>4, <3>3, <3>4 DEF ReturnedBody, OperationSource, Side, Leaves
    <3>6. IsArray[n] <=> IsArray[Kid(n, 1)]
      BY <2>1, <2>4, <3>4 DEF ArrayBody
    <3> QED BY <2>1, <3>5, <3>6 DEF Side
  <2>5. CASE Kind(n) \in {"sqlFunction", "postGisFunction"}
    <3>1. Kid(n, 1) \in 1..(n - 1)
      BY <1>1, <2>5, Expression DEF Unaries, Kinds, Leaves
    <3>2. ~IsArray[Kid(n, 1)]
      BY <2>2, <2>5 DEF Plain, NodeWorks, Kinds, Leaves
    <3>3. Uniform(Kid(n, 1))
      <4>1. Kid(n, 1) \in Nodes
        BY <1>1, <3>1
      <4>2. ~ArrayBody(IsArray, Kid(n, 1))
        BY <3>2, <4>1, ArrayEquation
      <4>3. IsArray \in [Nodes -> BOOLEAN]
        BY ArrayEquation
      <4>4. Kind(Kid(n, 1)) = "operation" =>
              Kid(Kid(n, 1), 1) \in Nodes /\ Kid(Kid(n, 1), 2) \in Nodes
        BY <1>1, <4>1, Expression
      <4> QED BY <4>2, <4>3, <4>4 DEF ArrayBody, Uniform
    <3>4. Returned[Kid(n, 1)] = "POSTGRES"
      BY <1>2, <3>1, <3>2, <3>3 DEF Side
    <3> QED BY <2>1, <2>5, <3>4 DEF ReturnedBody, ArrayBody, SqlFunctionSource, PostGisSource, Side, Leaves
  <2>6. CASE Kind(n) \in {"scalarFunction", "trim", "encode", "rasFunction"}
    BY <2>1, <2>6 DEF ReturnedBody, ArrayBody, Side, Leaves
  <2> QED BY <2>2, <2>3, <2>4, <2>5, <2>6 DEF Kinds
<1>3. P = 1..N
  <2>1. P \in SUBSET (1..N)
    OBVIOUS
  <2> HIDE DEF P
  <2> QED BY <1>1, <1>2, <2>1, ForAll
<1> QED BY <1>1, <1>3

(* An operator that is being evaluated finds the systems of its operands stored; a column *)
(* or a constant is done at once.                                              *)
StoredInv ==
  \A n \in Nodes : state[n] = "running" =>
    /\ Kind(n) \notin Leaves
    /\ Kind(n) = "operation" =>
         choice[n] = Returned[n] /\ \A k \in Kids(n) : db_source[k] = Returned[k]

PlainInv == AllPlain => StoredInv /\ \A n \in Nodes : state[n] # "failed"

LEMMA SameSources ==
  ASSUME expr' = expr, resolved' = resolved
  PROVE  Returned' = Returned
BY DEF Returned, Nodes, Kind, Kid, ColumnSource

(* Whether an expression is plain depends on nothing but the expression.               *)
LEMMA SamePlain ==
  ASSUME expr' = expr, AllPlain'
  PROVE  AllPlain
<1> SUFFICES ASSUME NEW n \in Nodes PROVE Plain(n)
  BY DEF AllPlain
<1>1. /\ Nodes' = Nodes /\ IsArray' = IsArray
      /\ \A m : Kind(m)' = Kind(m) /\ Kids(m)' = Kids(m) /\ \A i : Kid(m, i)' = Kid(m, i)
  BY SameNodes
<1>2. Plain(n)'
  BY <1>1 DEF AllPlain
<1>3. Kind(n) # "pgColumn"
  BY <1>1, <1>2 DEF Plain
<1>4. ASSUME Kind(n) = "operation", NEW k \in Kids(n)
      PROVE  /\ Kind(k) # "trim"
             /\ Kind(k) = "operation" => Cardinality({IsArray[j] : j \in Kids(k)}) = 1
  <2>1. /\ Kind(k)' # "trim"
        /\ Kind(k)' = "operation" => Cardinality({IsArray'[j] : j \in Kids(k)'}) = 1
    BY <1>1, <1>2, <1>4 DEF Plain
  <2>2. Kids(k)' = Kids(k)
    BY <1>1
  <2> QED BY <1>1, <2>1, <2>2
<1>5. ASSUME Kind(n) \in Kinds \ (Leaves \cup {"operation"})
      PROVE  NodeWorks(n)
  <2>1. NodeWorks(n)'
    BY <1>1, <1>2, <1>5 DEF Plain
  <2>2. CASE Kind(n) \in {"trim", "encode", "scalarFunction", "rasFunction"}
    BY <1>1, <2>1, <2>2 DEF NodeWorks
  <2>3. CASE Kind(n) \in {"sqlFunction", "postGisFunction"}
    BY <1>1, <2>1, <2>3 DEF NodeWorks
  <2> QED BY <1>5, <2>2, <2>3 DEF Kinds
<1> QED BY <1>3, <1>4, <1>5 DEF Plain

(* Then the evaluation of an operator works in the system that was chosen.             *)
LEMMA PlainOperationWorks ==
  ASSUME expr \in Exprs, AllPlain, StoredInv,
         NEW n \in Nodes, Kind(n) = "operation", state[n] = "running"
  PROVE  OperationWorks(n)
<1> DEFINE a == Kid(n, 1)
           b == Kid(n, 2)
<1>1. Kids(n) = {a, b} /\ a \in Nodes /\ b \in Nodes
  BY Expression DEF Nodes
<1>2. Returned[a] = Side(a) /\ Returned[b] = Side(b)
  BY <1>1, PlainOperands, PlainSources
<1>3. choice[n] = Returned[n] /\ db_source[a] = Returned[a] /\ db_source[b] = Returned[b]
  BY <1>1 DEF StoredInv
<1>4. Returned[n] = OperationSource(Returned[a], Returned[b])
  BY ReturnedEquation DEF ReturnedBody, Leaves
<1>5. CASE IsArray[a] /\ IsArray[b]
  BY <1>2, <1>3, <1>4, <1>5 DEF OperationWorks, OperationSource, Side
<1>6. CASE ~IsArray[a] /\ ~IsArray[b]
  BY <1>2, <1>3, <1>4, <1>6 DEF OperationWorks, OperationSource, Side
<1>7. CASE IsArray[a] /\ ~IsArray[b]
  BY <1>2, <1>3, <1>4, <1>7 DEF OperationWorks, OperationSource, Side
<1>8. CASE ~IsArray[a] /\ IsArray[b]
  BY <1>2, <1>3, <1>4, <1>8 DEF OperationWorks, OperationSource, Side
<1> QED BY <1>5, <1>6, <1>7, <1>8

(* The start of an operator stores the systems of its operands; that of another node     *)
(* stores the same ones again.                                                *)
LEMMA StartPlain ==
  ASSUME TypeOK, AllPlain, StoredInv, NEW n \in Nodes, Start(n)
  PROVE  StoredInv' /\ \A m \in Nodes : state'[m] = "failed" => state[m] = "failed"
<1>1. Starts(n) /\ expr' = expr /\ resolved' = resolved /\ expr \in Exprs
  BY Starting DEF Starts, TypeOK
<1>2. Returned' = Returned /\ Nodes' = Nodes
      /\ \A m : Kind(m)' = Kind(m) /\ Kids(m)' = Kids(m)
  BY <1>1, SameNodes, SameSources
<1>3. /\ \A m \in Nodes : m # n => state'[m] = state[m] /\ choice'[m] = choice[m]
      /\ state'[n] = "running" /\ choice'[n] = db_source'[n]
  BY <1>1 DEF Starts, TypeOK
<1>4. \A k \in Nodes : db_source'[k] = db_source[k] \/ db_source'[k] = Returned[k]
  BY <1>1 DEF Starts, Setup
<1>5. \A m \in Nodes : state'[m] = "running" => Kind(m) \notin Leaves
  BY <1>1, <1>3 DEF StoredInv, Starts
<1>6. ASSUME NEW m \in Nodes, Kind(m) = "operation", state'[m] = "running", m # n
      PROVE  choice'[m] = Returned[m] /\ \A k \in Kids(m) : db_source'[k] = Returned[k]
  <2>1. choice[m] = Returned[m] /\ \A k \in Kids(m) : db_source[k] = Returned[k]
    BY <1>3, <1>6 DEF StoredInv
  <2>2. \A k \in Kids(m) : k \in Nodes
    BY <1>1, <1>6, PlainOperands
  <2> QED BY <1>3, <1>4, <1>6, <2>1, <2>2
<1>7. ASSUME Kind(n) = "operation"
      PROVE  choice'[n] = Returned[n] /\ \A k \in Kids(n) : db_source'[k] = Returned[k]
  <2>1. db_source' = Setup(n) /\ n \in Visited[n] /\ \A k \in Kids(n) : k \in Visited[n]
    BY <1>1, <1>7, Visiting DEF Starts
  <2>2. \A k \in Kids(n) : k \in Nodes /\ Kind(k) # "trim"
    BY <1>1, <1>7, PlainOperands
  <2> QED BY <1>3, <1>7, <2>1, <2>2 DEF Setup
<1>8. StoredInv'
  BY <1>2, <1>6, <1>7, <1>5 DEF StoredInv
<1> QED BY <1>3, <1>8

(* A column that is executed finds the system that was returned for it.                *)
LEMMA LeafPlain ==
  ASSUME TypeOK, AllPlain, StoredInv, NEW n \in Nodes, ExecuteLeaf(n)
  PROVE  StoredInv' /\ \A m \in Nodes : state'[m] = "failed" => state[m] = "failed"
<1>1. /\ expr' = expr /\ expr \in Exprs /\ choice' = choice /\ Kind(n) \in Leaves
      /\ Kind(n) # "pgColumn" /\ Kind(n) # "operation"
  BY DEF ExecuteLeaf, TypeOK, AllPlain, Plain, Leaves
<1>2. resolved' = resolved
  BY <1>1 DEF ExecuteLeaf
<1>3. Returned' = Returned /\ Nodes' = Nodes
      /\ \A m : Kind(m)' = Kind(m) /\ Kids(m)' = Kids(m)
  BY <1>1, <1>2, SameNodes, SameSources
<1>4. \A m \in Nodes : (m # n => state'[m] = state[m]) /\ state'[n] = "done"
  BY DEF ExecuteLeaf, TypeOK
<1>5. Returned[n] = ColumnSource(n)
  BY <1>1, ReturnedEquation DEF ReturnedBody
<1>6. \A k \in Nodes : db_source'[k] = db_source[k] \/ db_source'[k] = Returned[k]
  BY <1>1, <1>5 DEF ExecuteLeaf, ColumnSource, TypeOK
<1>7. ASSUME NEW m \in Nodes, Kind(m) = "operation", state'[m] = "running"
      PROVE  choice'[m] = Returned[m] /\ \A k \in Kids(m) : db_source'[k] = Returned[k]
  <2>1. choice[m] = Returned[m] /\ \A k \in Kids(m) : db_source[k] = Returned[k]
    BY <1>4, <1>7 DEF StoredInv
  <2>2. \A k \in Kids(m) : k \in Nodes
    BY <1>1, <1>7, PlainOperands
  <2> QED BY <1>1, <1>6, <2>1, <2>2
<1>8. StoredInv'
  <2>1. \A m \in Nodes : state'[m] = "running" => Kind(m) \notin Leaves
    BY <1>4 DEF StoredInv
  <2> QED BY <1>3, <1>7, <2>1 DEF StoredInv
<1> QED BY <1>4, <1>8

LEMMA FinishPlain ==
  ASSUME TypeOK, AllPlain, StoredInv, NEW n \in Nodes, Finish(n)
  PROVE  StoredInv' /\ \A m \in Nodes : state'[m] = "failed" => state[m] = "failed"
<1>1. /\ expr' = expr /\ expr \in Exprs /\ resolved' = resolved
      /\ choice' = choice /\ db_source' = db_source
      /\ state[n] = "running" /\ state'[n] = IF NodeWorks(n) THEN "done" ELSE "failed"
      /\ \A m \in Nodes : m # n => state'[m] = state[m]
  BY DEF Finish, TypeOK
<1>2. Returned' = Returned /\ Nodes' = Nodes
      /\ \A m : Kind(m)' = Kind(m) /\ Kids(m)' = Kids(m)
  BY <1>1, SameNodes, SameSources
<1>3. StoredInv'
  BY <1>1, <1>2 DEF StoredInv
<1>4. NodeWorks(n)
  <2>1. CASE Kind(n) = "operation"
    BY <1>1, <2>1, PlainOperationWorks DEF NodeWorks
  <2>2. CASE Kind(n) \in Unaries
    BY <2>2 DEF AllPlain, Plain, Unaries
  <2>3. Kind(n) \in Kinds /\ Kind(n) \notin Leaves
    BY <1>1, Expression DEF StoredInv
  <2> QED BY <2>1, <2>2, <2>3 DEF Unaries
<1> QED BY <1>1, <1>3, <1>4

(* A plain expression, however deep, is evaluated without an error: every operator chooses  *)
(* a system for which its operands are right.                                   *)
THEOREM PlainNeverFails == Spec => []PlainWorks
<1>1. Init => PlainInv
  BY DEF Init, PlainInv, StoredInv
<1>2. TypeOK /\ PlainInv /\ [Next]_vars => PlainInv'
  <2> SUFFICES ASSUME TypeOK, PlainInv, [Next]_vars, AllPlain'
               PROVE  StoredInv' /\ \A n \in Nodes' : state'[n] # "failed"
    BY DEF PlainInv
  <2>1. expr' = expr
    BY DEF Next, Start, ExecuteLeaf, Finish, vars
  <2>2. Nodes' = Nodes /\ AllPlain
    BY <2>1, SameNodes, SamePlain
  <2>3. StoredInv /\ \A n \in Nodes : state[n] # "failed"
    BY <2>2 DEF PlainInv
  <2>4. CASE Next
    <3>1. StoredInv' /\ \A m \in Nodes : state'[m] = "failed" => state[m] = "failed"
      BY <2>2, <2>3, <2>4, StartPlain, LeafPlain, FinishPlain DEF Next
    <3> QED BY <2>2, <2>3, <3>1
  <2>5. CASE UNCHANGED vars
    <3>1. expr' = expr /\ resolved' = resolved /\ state' = state
          /\ choice' = choice /\ db_source' = db_source
      BY <2>5 DEF vars
    <3>2. Returned' = Returned /\ \A m : Kind(m)' = Kind(m) /\ Kids(m)' = Kids(m)
      BY <3>1, SameNodes, SameSources
    <3>3. StoredInv'
      BY <2>2, <2>3, <3>1, <3>2 DEF StoredInv
    <3> QED BY <2>2, <2>3, <3>1, <3>3
  <2> QED BY <2>4, <2>5
<1>3. PlainInv => PlainWorks
  BY DEF PlainInv, AllPlain, PlainWorks
<1> QED
  BY <1>1, <1>2, <1>3, TypeCorrect, PTL DEF Spec
=============================================================================
