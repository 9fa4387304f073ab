---------------------------- MODULE RowNumbers_proofs ----------------------------
(***************************************************************************)
(* The rows of an answer are the rows that were asked for, for every query and       *)
(* every number of rows.                                                     *)
(***************************************************************************)
EXTENDS RowNumbersProps, FiniteSetTheorems, WellFoundedInduction, TLAPS

(* The table whose rows are the rows S of the product, numbered by f.              *)
Tab(S, f) == {[num |-> f[i], pos |-> i, of |-> {i}] : i \in S}
Same(S) == [i \in S |-> i]
Rank(S) == [i \in S |-> Cardinality({j \in S : j <= i})]

-----------------------------------------------------------------------------
(* There are finitely many rows before a row.                                   *)
LEMMA RowsBefore ==
  ASSUME NEW S \in SUBSET Nat, NEW i \in Nat
  PROVE  /\ IsFiniteSet({j \in S : j <= i})
         /\ Cardinality({j \in S : j <= i}) \in Nat
<1>1. IsFiniteSet({j \in S : j <= i})
  <2>1. {j \in S : j <= i} \in SUBSET Nat /\ \A s \in {j \in S : j <= i} : s <= i
    OBVIOUS
  <2> QED BY <2>1, FS_BoundedSetOfNaturals
<1> QED BY <1>1, FS_CardinalityType

(* Numbering a table anew gives every row its rank, whatever its number was.          *)
LEMMA NumberedTab ==
  ASSUME NEW S \in SUBSET Nat, NEW f
  PROVE  Numbered(Tab(S, f)) = Tab(S, Rank(S))
<1> DEFINE T == Tab(S, f)
           R == [i \in S |-> [num |-> f[i], pos |-> i, of |-> {i}]]
<1>1. \A i \in S : R[i] \in T /\ R[i].pos = i /\ R[i].of = {i}
  BY DEF Tab
<1>2. \A r \in T : \E i \in S : r = R[i]
  BY DEF Tab
<1>3. ASSUME NEW i \in S
      PROVE  Cardinality({s \in T : s.pos <= i}) = Rank(S)[i]
  <2> DEFINE B == {j \in S : j <= i}
             C == {s \in T : s.pos <= i}
             g == [j \in B |-> R[j]]
  <2>1. IsFiniteSet(B)
    BY RowsBefore
  <2>2. \A j \in B : R[j] \in C
    BY <1>1
  <2>3. \A c \in C : \E j \in B : c = R[j]
    <3> HIDE DEF T, R
    <3> QED BY <1>1, <1>2
  <2>4. \A j, k \in B : R[j] = R[k] => j = k
    <3> HIDE DEF T, R
    <3> QED BY <1>1
  <2>5. g \in Bijection(B, C)
    <3> HIDE DEF R, B, C
    <3> QED BY <2>2, <2>3, <2>4 DEF Bijection, Injection, Surjection, IsInjective
  <2>6. ExistsBijection(B, C)
    BY <2>5 DEF ExistsBijection
  <2>7. Cardinality(C) = Cardinality(B)
    <3> HIDE DEF B, C
    <3> QED BY <2>1, <2>6, FS_Bijection
  <2> QED BY <2>7 DEF Rank
<1>4. \A i \in S : NextVal(T, R[i]) = Rank(S)[i]
  <2> HIDE DEF T, R
  <2> QED BY <1>1, <1>3 DEF NextVal
<1>5. Numbered(T) = {[num |-> NextVal(T, r), pos |-> r.pos, of |-> r.of] : r \in T}
  BY DEF Numbered
<1>6. Tab(S, Rank(S)) = {[num |-> Rank(S)[i], pos |-> i, of |-> {i}] : i \in S}
  BY DEF Tab
<1>7. Numbered(T) = Tab(S, Rank(S))
  <2> HIDE DEF T, R
  <2>1. \A x \in Numbered(T) : x \in Tab(S, Rank(S))
    BY <1>1, <1>2, <1>4, <1>5, <1>6
  <2>2. ASSUME NEW x \in Tab(S, Rank(S)) PROVE x \in Numbered(T)
    <3>1. PICK i \in S : x = [num |-> Rank(S)[i], pos |-> i, of |-> {i}]
      BY <1>6
    <3>2. x = [num |-> NextVal(T, R[i]), pos |-> R[i].pos, of |-> R[i].of]
      BY <1>1, <1>4, <3>1
    <3> QED BY <1>1, <1>5, <3>2
  <2> QED BY <2>1, <2>2
<1> QED BY <1>7

(* A table joined with one of the same rows and numbers is the table.                *)
LEMMA JoinedTab ==
  ASSUME NEW S, NEW f, \A i, j \in S : f[i] = f[j] => i = j
  PROVE  Joined(Tab(S, f), Tab(S, f)) = Tab(S, f)
<1> DEFINE R == [i \in S |-> [num |-> f[i], pos |-> i, of |-> {i}]]
           T == Tab(S, f)
<1>1. \A i \in S : /\ R[i] \in T /\ R[i].num = f[i]
                   /\ R[i] = [num |-> R[i].num, pos |-> R[i].pos, of |-> R[i].of \cup R[i].of]
  BY DEF Tab
<1>2. \A r \in T : \E i \in S : r = R[i]
  BY DEF Tab
<1> HIDE DEF R, T
<1>3. ASSUME NEW x \in Joined(T, T) PROVE x \in T
  <2>1. PICK a \in T, b \in T : /\ a.num = b.num
                                /\ x = [num |-> a.num, pos |-> a.pos, of |-> a.of \cup b.of]
    BY DEF Joined
  <2>2. PICK i \in S : a = R[i]
    BY <1>2
  <2>3. PICK j \in S : b = R[j]
    BY <1>2
  <2>4. f[i] = f[j]
    BY <1>1, <2>1, <2>2, <2>3
  <2>5. i = j
    BY <2>4
  <2> QED BY <1>1, <2>1, <2>2, <2>3, <2>5
<1>4. ASSUME NEW x \in T PROVE x \in Joined(T, T)
  <2>1. PICK i \in S : x = R[i]
    BY <1>2
  <2>2. <<x, x>> \in {r \in T \X T : r[1].num = r[2].num}
    OBVIOUS
  <2>3. x = [num |-> <<x, x>>[1].num, pos |-> <<x, x>>[1].pos, of |-> <<x, x>>[1].of \cup <<x, x>>[2].of]
    BY <1>1, <2>1
  <2> QED BY <2>2, <2>3 DEF Joined
<1>5. Joined(T, T) = T
  BY <1>3, <1>4
<1> QED BY <1>5 DEF T

(* Different rows have different ranks.                                         *)
LEMMA RankInjective ==
  ASSUME NEW S \in SUBSET Nat
  PROVE  \A i, j \in S : Rank(S)[i] = Rank(S)[j] => i = j
<1>1. ASSUME NEW i \in S, NEW j \in S, i < j
      PROVE  Rank(S)[i] # Rank(S)[j]
  <2> DEFINE Bi == {l \in S : l <= i}
             Bj == {l \in S : l <= j}
  <2>1. IsFiniteSet(Bj)
    BY RowsBefore
  <2>2. i \in Nat /\ j \in Nat /\ \A l \in S : l \in Nat
    OBVIOUS
  <2>3. j \in Bj /\ j \notin Bi
    BY <1>1, <2>2
  <2>4. Bi \in SUBSET Bj
    <3>1. \A l \in S : l <= i => l <= j
      BY <1>1, <2>2
    <3> QED BY <3>1
  <2>5. Cardinality(Bj) # Cardinality(Bi)
    <3> HIDE DEF Bi, Bj
    <3> QED BY <2>1, <2>3, <2>4, FS_Subset
  <2> QED BY <2>5 DEF Rank
<1>2. \A i, j \in S : i \in Nat /\ j \in Nat /\ (i < j \/ j < i \/ i = j)
  OBVIOUS
<1> QED BY <1>1, <1>2

(* The ranks of 1, 2, ... are the numbers themselves.                             *)
LEMMA RankOfInterval ==
  ASSUME NEW m \in Nat
  PROVE  Rank(1..m) = Same(1..m)
<1>1. ASSUME NEW i \in 1..m
      PROVE  Cardinality({j \in 1..m : j <= i}) = i
  <2>1. {j \in 1..m : j <= i} = 1..i
    OBVIOUS
  <2>2. Cardinality(1..i) = i
    BY FS_Interval
  <2> QED BY <2>1, <2>2
<1> QED BY <1>1 DEF Rank, Same

-----------------------------------------------------------------------------
(* The numbers of the tables of the SELECT list, when they all agree.               *)
Renumbers == \E k \in ListNodes : query.nodes[k].class \in ArrayLeaves \cup ByRow \cup ByCollection
Numbering == IF Renumbers THEN Rank(Meant) ELSE Same(Meant)
Sheltered == NoGap \/ ~Mixes

(* The whole product, what is left of it after WHERE, and the tables of the list.      *)
Whole == Tab(1..n, Same(1..n))
Chosen == Tab(Meant, Same(Meant))
Listed == Tab(Meant, Numbering)

Calm == shuffled = "no" /\ gone = {}

(* Where the evaluation is.                                                   *)
PlaceInv ==
  /\ query \in Queries /\ n \in Nat /\ truth \in SUBSET (1..n)
  /\ node \in 1..(Len(query.nodes) + 1)
  /\ rels = [k \in 1..Len(query.nodes) |-> rels[k]]
  /\ status = "from" => node = 1
  /\ status = "where" => query.cond # 0 /\ node <= query.cond + 1
  /\ status \in {"select", "answered"} => node > query.cond
  /\ status = "answered" => product = {} \/ node = Len(query.nodes) + 1

(* Until the product is filtered, every table has its rows and numbers.              *)
WhereInv ==
  Calm /\ status = "where" =>
    /\ product = Whole
    /\ \A k \in 1..(node - 1) : rels[k] = Whole

(* Afterwards, those of the SELECT list have its rows, and the same numbers.          *)
SelectInv ==
  Calm /\ status \in {"select", "answered"} =>
    /\ product = Chosen
    /\ Sheltered => \A k \in (query.cond + 1)..(node - 1) : rels[k] = Listed

IInv == PlaceInv /\ WhereInv /\ SelectInv

(* What the numbers of a table can be.                                          *)
LEMMA NumberingFacts ==
  ASSUME PlaceInv
  PROVE  /\ Meant \in SUBSET Nat /\ IsFiniteSet(Meant) /\ Cardinality(Meant) \in Nat
         /\ NoGap => Rank(Meant) = Same(Meant)
         /\ \A i, j \in Meant : Numbering[i] = Numbering[j] => i = j
<1>1. Meant \in SUBSET (1..n) /\ n \in Nat /\ 1..n \in SUBSET Nat
  BY DEF PlaceInv, Meant
<1>2. IsFiniteSet(1..n)
  BY <1>1, FS_Interval
<1>3. IsFiniteSet(Meant) /\ Cardinality(Meant) \in Nat
  BY <1>1, <1>2, FS_Subset, FS_CardinalityType
<1>4. NoGap => Rank(Meant) = Same(Meant)
  BY <1>3, RankOfInterval DEF NoGap
<1>5. \A i, j \in Meant : Numbering[i] = Numbering[j] => i = j
  <2>1. \A i, j \in Meant : Rank(Meant)[i] = Rank(Meant)[j] => i = j
    BY <1>1, RankInjective
  <2>2. \A i, j \in Meant : Same(Meant)[i] = Same(Meant)[j] => i = j
    BY DEF Same
  <2> QED BY <2>1, <2>2 DEF Numbering
<1> QED BY <1>1, <1>3, <1>4, <1>5

(* The operands of a node have been evaluated, in the same part of the query.          *)
LEMMA OperandsReady ==
  ASSUME PlaceInv, node <= Len(query.nodes)
  PROVE  LET first == IF node > query.cond THEN query.cond + 1 ELSE 1
         IN /\ Current.class \notin RelationalLeaves \cup ArrayLeaves =>
                 /\ Current.left \in first..(node - 1)
                 /\ Current.right \in (first..(node - 1)) \cup {0}
            /\ Current.class \in ByRow => Current.right # 0
            /\ query.cond \in Nat /\ node \in 1..Len(query.nodes)
            /\ Len(query.nodes) \in Nat
<1>1. WellFormed(query)
  BY QueriesAssumption DEF PlaceInv
<1>2. node \in 1..Len(query.nodes) /\ Len(query.nodes) \in Nat /\ query.cond \in Nat
  BY <1>1 DEF PlaceInv, WellFormed
<1> QED BY <1>1, <1>2 DEF WellFormed, Current, RelationalLeaves, ArrayLeaves, ByRow

(* What only depends on the query and its rows does not change.                      *)
LEMMA SameQuery ==
  ASSUME UNCHANGED <<query, n, truth>>
  PROVE  /\ (Sheltered' <=> Sheltered) /\ Whole' = Whole /\ Chosen' = Chosen /\ Listed' = Listed
         /\ Meant' = Meant
<1>1. Meant' = Meant /\ ListNodes' = ListNodes
  BY DEF Meant, ListNodes
<1>2. Numbering' = Numbering /\ (NoGap' <=> NoGap) /\ (Mixes' <=> Mixes)
  BY <1>1 DEF Numbering, Renumbers, NoGap, Mixes
<1> QED BY <1>1, <1>2 DEF Sheltered, Whole, Chosen, Listed

(* A query is well formed.                                                     *)
LEMMA QueryIs ==
  ASSUME PlaceInv
  PROVE  WellFormed(query) /\ Len(query.nodes) \in Nat /\ query.cond \in 0..(Len(query.nodes) - 1)
<1>1. WellFormed(query)
  BY QueriesAssumption DEF PlaceInv
<1> QED BY <1>1 DEF WellFormed

(* A node that stores the right table keeps the invariant.                          *)
LEMMA StoreKeeps ==
  ASSUME IInv, NEW rows, NEW classes, Evaluating(classes), Store(rows),
         UNCHANGED <<query, n, truth, product, status>>, Calm' => Calm,
         Calm /\ status = "where" => rows = Whole,
         Calm /\ status = "select" /\ Sheltered => rows = Listed
  PROVE  IInv'
<1>1. WellFormed(query) /\ Len(query.nodes) \in Nat /\ query.cond \in 0..(Len(query.nodes) - 1)
  BY QueryIs DEF IInv
<1>2. /\ node \in 1..Len(query.nodes) /\ status \in {"where", "select"}
      /\ status = "where" => node <= query.cond
  BY <1>1 DEF Evaluating, IInv, PlaceInv
<1>3. /\ rels' = [k \in 1..Len(query.nodes) |-> IF k = node THEN rows ELSE rels[k]]
      /\ node' = node + 1
  BY DEF Store, IInv, PlaceInv
<1>4. /\ (Sheltered' <=> Sheltered) /\ Whole' = Whole /\ Chosen' = Chosen /\ Listed' = Listed
      /\ query' = query /\ n' = n /\ product' = product /\ status' = status /\ truth' = truth
  BY SameQuery
<1>5. PlaceInv'
  BY <1>1, <1>2, <1>3, <1>4 DEF IInv, PlaceInv
<1>6. WhereInv'
  <2> SUFFICES ASSUME Calm', status' = "where"
               PROVE  product' = Whole' /\ \A k \in 1..(node' - 1) : rels'[k] = Whole'
    BY DEF WhereInv
  <2>1. product = Whole /\ rows = Whole /\ \A k \in 1..(node - 1) : rels[k] = Whole
    BY <1>4 DEF IInv, WhereInv
  <2> QED BY <1>1, <1>2, <1>3, <1>4, <2>1
<1>7. SelectInv'
  <2> SUFFICES ASSUME Calm', status' \in {"select", "answered"}
               PROVE  /\ product' = Chosen'
                      /\ Sheltered' => \A k \in (query'.cond + 1)..(node' - 1) : rels'[k] = Listed'
    BY DEF SelectInv
  <2>1. /\ product = Chosen
        /\ Sheltered => rows = Listed /\ \A k \in (query.cond + 1)..(node - 1) : rels[k] = Listed
    BY <1>2, <1>4 DEF IInv, SelectInv
  <2> QED BY <1>1, <1>2, <1>3, <1>4, <2>1
<1> QED BY <1>5, <1>6, <1>7 DEF IInv

(* Without calm, only the place matters.                                       *)
LEMMA StoreLater ==
  ASSUME IInv, ~Calm', NEW rows, NEW classes, Evaluating(classes), Store(rows),
         UNCHANGED <<query, n, truth, product, status>>
  PROVE  IInv'
<1>1. WellFormed(query) /\ Len(query.nodes) \in Nat /\ query.cond \in 0..(Len(query.nodes) - 1)
  BY QueryIs DEF IInv
<1>2. /\ node \in 1..Len(query.nodes) /\ status \in {"where", "select"}
      /\ status = "where" => node <= query.cond
  BY <1>1 DEF Evaluating, IInv, PlaceInv
<1>3. /\ rels' = [k \in 1..Len(query.nodes) |-> IF k = node THEN rows ELSE rels[k]]
      /\ node' = node + 1
  BY DEF Store, IInv, PlaceInv
<1>4. PlaceInv'
  BY <1>1, <1>2, <1>3 DEF IInv, PlaceInv
<1> QED BY <1>4 DEF IInv, WhereInv, SelectInv

(* What the operations make of the right tables.                                *)
LEMMA TablesAgree ==
  ASSUME PlaceInv
  PROVE  /\ Numbered(Whole) = Whole /\ Joined(Whole, Whole) = Whole
         /\ Joined(Listed, Listed) = Listed
         /\ Renumbers => Numbered(Listed) = Listed /\ Numbered(Chosen) = Listed
         /\ NoGap \/ ~Renumbers => Chosen = Listed
<1>1. /\ Meant \in SUBSET Nat
      /\ NoGap => Rank(Meant) = Same(Meant)
      /\ \A i, j \in Meant : Numbering[i] = Numbering[j] => i = j
  BY NumberingFacts
<1>2. n \in Nat /\ 1..n \in SUBSET Nat /\ Rank(1..n) = Same(1..n)
  BY RankOfInterval DEF PlaceInv
<1>3. Numbered(Whole) = Whole
  BY <1>2, NumberedTab DEF Whole
<1>4. Joined(Whole, Whole) = Whole
  <2>1. \A i, j \in 1..n : Same(1..n)[i] = Same(1..n)[j] => i = j
    BY DEF Same
  <2> QED BY <2>1, JoinedTab DEF Whole
<1>5. Joined(Listed, Listed) = Listed
  BY <1>1, JoinedTab DEF Listed
<1>6. /\ Numbered(Listed) = Tab(Meant, Rank(Meant))
      /\ Numbered(Chosen) = Tab(Meant, Rank(Meant))
  BY <1>1, NumberedTab DEF Listed, Chosen
<1>7. /\ Renumbers => Numbering = Rank(Meant)
      /\ NoGap \/ ~Renumbers => Numbering = Same(Meant)
  BY <1>1 DEF Numbering
<1> QED BY <1>3, <1>4, <1>5, <1>6, <1>7 DEF Listed, Chosen

(* The operands of a node have the right tables.                                 *)
LEMMA OperandsRight ==
  ASSUME IInv, Calm, NEW classes, Evaluating(classes),
         classes \cap (RelationalLeaves \cup ArrayLeaves) = {}
  PROVE  /\ status = "where" =>
              LeftRows = Whole /\ (Current.right # 0 => RightRows = Whole)
         /\ status = "select" /\ Sheltered =>
              LeftRows = Listed /\ (Current.right # 0 => RightRows = Listed)
<1>1. node <= Len(query.nodes) /\ Current.class \notin RelationalLeaves \cup ArrayLeaves
  <2>1. WellFormed(query)
    BY QueriesAssumption DEF IInv, PlaceInv
  <2>2. Len(query.nodes) \in Nat /\ query.cond \in 0..(Len(query.nodes) - 1) /\ node \in Nat
    BY <2>1 DEF WellFormed, IInv, PlaceInv
  <2> QED BY <2>2 DEF Evaluating
<1>2. /\ Current.left \in (IF node > query.cond THEN query.cond + 1 ELSE 1)..(node - 1)
      /\ Current.right # 0 =>
           Current.right \in (IF node > query.cond THEN query.cond + 1 ELSE 1)..(node - 1)
      /\ query.cond \in Nat /\ node \in Nat
  BY <1>1, OperandsReady DEF IInv
<1>3. CASE status = "where"
  <2>1. /\ Current.left \in 1..(node - 1)
        /\ Current.right # 0 => Current.right \in 1..(node - 1)
    BY <1>2
  <2>2. \A k \in 1..(node - 1) : rels[k] = Whole
    BY <1>3 DEF IInv, WhereInv
  <2> QED BY <1>3, <2>1, <2>2 DEF LeftRows, RightRows
<1>4. CASE status = "select" /\ Sheltered
  <2>1. /\ Current.left \in (query.cond + 1)..(node - 1)
        /\ Current.right # 0 => Current.right \in (query.cond + 1)..(node - 1)
    BY <1>2, <1>4 DEF IInv, PlaceInv
  <2>2. \A k \in (query.cond + 1)..(node - 1) : rels[k] = Listed
    BY <1>4 DEF IInv, SelectInv
  <2> QED BY <1>4, <2>1, <2>2 DEF LeftRows, RightRows
<1> QED BY <1>3, <1>4

(* The class of a node of the SELECT list is one of the list's classes.               *)
LEMMA ListNode ==
  ASSUME IInv, NEW classes, Evaluating(classes), status = "select"
  PROVE  /\ node \in ListNodes /\ query.nodes[node].class \in classes
         /\ classes \subseteq ArrayLeaves \cup ByRow \cup ByCollection => Renumbers
         /\ classes \subseteq RelationalLeaves /\ Renumbers => Mixes
<1>1. WellFormed(query)
  BY QueriesAssumption DEF IInv, PlaceInv
<1>2. Len(query.nodes) \in Nat /\ query.cond \in Nat /\ node \in Nat
  BY <1>1 DEF WellFormed, IInv, PlaceInv
<1>3. node \in ListNodes /\ query.nodes[node].class \in classes
  BY <1>2 DEF Evaluating, Current, ListNodes, IInv, PlaceInv
<1> QED BY <1>3 DEF Renumbers, Mixes

(* A failed query has no table to answer for.                                    *)
LEMMA FailKeeps ==
  ASSUME IInv, Fail, UNCHANGED <<query, n, truth>>
  PROVE  IInv'
<1>1. /\ PlaceInv' /\ status' = "failed"
  BY DEF IInv, PlaceInv, Fail
<1> QED BY <1>1 DEF IInv, WhereInv, SelectInv

-----------------------------------------------------------------------------
LEMMA InitInv == Init => IInv
<1> SUFFICES ASSUME Init PROVE IInv
  OBVIOUS
<1>1. WellFormed(query)
  BY QueriesAssumption DEF Init
<1>2. Len(query.nodes) \in Nat
  BY <1>1 DEF WellFormed
<1>3. n \in Nat
  BY MaxRowsAssumption DEF Init
<1>4. rels = [k \in 1..Len(query.nodes) |-> rels[k]]
  BY DEF Init
<1>5. PlaceInv
  BY <1>2, <1>3, <1>4 DEF Init, PlaceInv
<1> QED BY <1>5 DEF Init, IInv, WhereInv, SelectInv

(* Multiply: the product is the whole product.                                  *)
LEMMA MultiplyKeeps == IInv /\ Multiply => IInv'
<1> SUFFICES ASSUME IInv, Multiply PROVE IInv'
  OBVIOUS
<1>1. WellFormed(query) /\ Len(query.nodes) \in Nat /\ query.cond \in 0..(Len(query.nodes) - 1)
  BY QueryIs DEF IInv
<1>2. n \in Nat /\ node = 1
  BY DEF IInv, PlaceInv, Multiply
<1>3. product' = Whole
  <2> DEFINE Z == [i \in 1..n |-> 0]
  <2>1. {[num |-> 0, pos |-> i, of |-> {i}] : i \in 1..n} = Tab(1..n, Z)
    BY DEF Tab
  <2>2. Numbered(Tab(1..n, Z)) = Tab(1..n, Rank(1..n))
    <3>1. 1..n \in SUBSET Nat
      BY <1>2
    <3> HIDE DEF Z
    <3> QED BY <3>1, NumberedTab
  <2> QED BY <1>2, <2>1, <2>2, RankOfInterval DEF Multiply, Whole
<1>4. /\ (Sheltered' <=> Sheltered) /\ Whole' = Whole /\ Chosen' = Chosen /\ Listed' = Listed
      /\ query' = query /\ n' = n /\ truth' = truth /\ node' = node /\ rels' = rels
  BY SameQuery DEF Multiply
<1>5. PlaceInv'
  BY <1>1, <1>2, <1>4 DEF IInv, PlaceInv, Multiply
<1>6. WhereInv'
  BY <1>2, <1>3, <1>4 DEF WhereInv
<1>7. SelectInv'
  <2> SUFFICES ASSUME status' \in {"select", "answered"}
               PROVE  /\ product' = Chosen'
                      /\ \A k \in (query'.cond + 1)..(node' - 1) : rels'[k] = Listed'
    BY DEF SelectInv
  <2>1. query.cond = 0
    BY DEF Multiply
  <2>2. Whole = Chosen
    BY <2>1 DEF Whole, Chosen, Meant
  <2> QED BY <1>2, <1>3, <1>4, <2>1, <2>2
<1> QED BY <1>5, <1>6, <1>7 DEF IInv

LEMMA ReadsProductKeeps == IInv /\ ReadsProduct => IInv'
<1> SUFFICES ASSUME IInv, ReadsProduct PROVE IInv'
  OBVIOUS
<1>1. Calm' => Calm
  BY DEF ReadsProduct, Calm
<1>2. Calm /\ status = "where" => product = Whole
  BY DEF IInv, WhereInv
<1>3. ASSUME Calm, status = "select", Sheltered
      PROVE  product = Listed
  <2>1. Renumbers => Mixes
    BY <1>3, ListNode DEF ReadsProduct
  <2>2. product = Chosen
    BY <1>3 DEF IInv, SelectInv
  <2> QED BY <1>3, <2>1, <2>2, TablesAgree DEF IInv, Sheltered
<1> QED BY <1>1, <1>2, <1>3, StoreKeeps DEF ReadsProduct

LEMMA ReadsArraysKeeps == IInv /\ ReadsArrays => IInv'
<1> SUFFICES ASSUME IInv, ReadsArrays PROVE IInv'
  OBVIOUS
<1> DEFINE found == {r \in product : r.of \cap gone = {}}
<1>1. CASE found = {}
  BY <1>1, FailKeeps DEF ReadsArrays
<1>2. CASE found # {}
  <2>1. Calm' => Calm
    BY DEF ReadsArrays, Calm
  <2>2. Calm => found = product
    BY DEF Calm
  <2>3. Calm /\ status = "where" => Numbered(found) = Whole
    BY <2>2, TablesAgree DEF IInv, WhereInv
  <2>4. ASSUME Calm, status = "select"
        PROVE  Numbered(found) = Listed
    <3>1. Renumbers
      BY <2>4, ListNode DEF ReadsArrays
    <3> QED BY <2>2, <2>4, <3>1, TablesAgree DEF IInv, SelectInv
  <2>5. Evaluating(ArrayLeaves) /\ Store(Numbered(found))
        /\ UNCHANGED <<query, n, truth, product, status>>
    BY <1>2 DEF ReadsArrays
  <2> HIDE DEF found
  <2> QED BY <2>1, <2>3, <2>4, <2>5, StoreKeeps
<1> QED BY <1>1, <1>2

LEMMA KeepsNumbersKeeps == IInv /\ KeepsNumbers => IInv'
<1> SUFFICES ASSUME IInv, KeepsNumbers PROVE IInv'
  OBVIOUS
<1>1. Evaluating(Relational) /\ UNCHANGED <<query, n, truth, product, status, gone>>
  BY DEF KeepsNumbers
<1>2. Relational \cap (RelationalLeaves \cup ArrayLeaves) = {}
  BY DEF Relational, RelationalLeaves, ArrayLeaves
<1>3. CASE Current.right = 0
  <2>1. Store(LeftRows) /\ (Calm' => Calm)
    BY <1>3 DEF KeepsNumbers, Calm
  <2> QED BY <1>1, <1>2, <2>1, OperandsRight, StoreKeeps
<1>4. CASE Current.right # 0
  <2>1. PICK rows : /\ Store(rows)
                    /\ shuffled' = IF rows = Joined(LeftRows, RightRows) THEN shuffled ELSE "yes"
    BY <1>4 DEF KeepsNumbers
  <2>2. Calm' => Calm /\ rows = Joined(LeftRows, RightRows)
    BY <1>1, <2>1 DEF Calm
  <2>3. CASE Calm'
    <3>1. Calm /\ status = "where" => rows = Whole
      BY <1>1, <1>2, <1>4, <2>2, <2>3, OperandsRight, TablesAgree DEF IInv
    <3>2. Calm /\ status = "select" /\ Sheltered => rows = Listed
      BY <1>1, <1>2, <1>4, <2>2, <2>3, OperandsRight, TablesAgree DEF IInv
    <3> QED BY <1>1, <2>1, <2>2, <3>1, <3>2, StoreKeeps
  <2>4. CASE ~Calm'
    BY <1>1, <2>1, <2>4, StoreLater
  <2> QED BY <2>3, <2>4
<1> QED BY <1>3, <1>4

LEMMA RowByRowKeeps == IInv /\ RowByRow => IInv'
<1> SUFFICES ASSUME IInv, RowByRow PROVE IInv'
  OBVIOUS
<1>1. Evaluating(ByRow) /\ UNCHANGED <<query, n, truth, gone>>
  BY DEF RowByRow
<1>2. /\ ByRow \cap (RelationalLeaves \cup ArrayLeaves) = {}
      /\ ByRow \subseteq ArrayLeaves \cup ByRow \cup ByCollection
  BY DEF ByRow, RelationalLeaves, ArrayLeaves
<1>3. PICK rows : /\ IF rows = {} THEN Fail
                                  ELSE Store(Numbered(rows)) /\ UNCHANGED <<product, status>>
                  /\ shuffled' = IF rows = Joined(LeftRows, RightRows) THEN shuffled ELSE "yes"
  BY DEF RowByRow
<1>4. CASE rows = {}
  BY <1>1, <1>3, <1>4, FailKeeps
<1>5. CASE rows # {}
  <2>1. Store(Numbered(rows)) /\ UNCHANGED <<query, n, truth, product, status>>
    BY <1>1, <1>3, <1>5
  <2>2. Calm' => Calm /\ rows = Joined(LeftRows, RightRows)
    BY <1>1, <1>3 DEF Calm
  <2>3. Current.right # 0
    <3>1. node <= Len(query.nodes) /\ Current.class \in ByRow
      <4>1. WellFormed(query)
        BY QueriesAssumption DEF IInv, PlaceInv
      <4>2. Len(query.nodes) \in Nat /\ query.cond \in 0..(Len(query.nodes) - 1) /\ node \in Nat
        BY <4>1 DEF WellFormed, IInv, PlaceInv
      <4> QED BY <1>1, <4>2 DEF Evaluating
    <3> QED BY <3>1, OperandsReady DEF IInv
  <2>4. CASE Calm'
    <3>1. Calm /\ status = "where" => Numbered(rows) = Whole
      BY <1>1, <1>2, <2>2, <2>3, <2>4, OperandsRight, TablesAgree DEF IInv
    <3>2. status = "select" => Renumbers
      BY <1>1, <1>2, ListNode
    <3>3. Calm /\ status = "select" /\ Sheltered => Numbered(rows) = Listed
      BY <1>1, <1>2, <2>2, <2>3, <2>4, <3>2, OperandsRight, TablesAgree DEF IInv
    <3> QED BY <1>1, <2>1, <2>2, <3>1, <3>3, StoreKeeps
  <2>5. CASE ~Calm'
    BY <1>1, <2>1, <2>5, StoreLater
  <2> QED BY <2>4, <2>5
<1> QED BY <1>4, <1>5

LEMMA WholeCollectionKeeps == IInv /\ WholeCollection => IInv'
<1> SUFFICES ASSUME IInv, WholeCollection PROVE IInv'
  OBVIOUS
<1>1. /\ Evaluating(ByCollection) /\ Store(Numbered(LeftRows))
      /\ UNCHANGED <<query, n, truth, product, status>> /\ (Calm' => Calm)
  BY DEF WholeCollection, Calm
<1>2. /\ ByCollection \cap (RelationalLeaves \cup ArrayLeaves) = {}
      /\ ByCollection \subseteq ArrayLeaves \cup ByRow \cup ByCollection
  BY DEF ByCollection, RelationalLeaves, ArrayLeaves
<1>3. Calm /\ status = "where" => Numbered(LeftRows) = Whole
  BY <1>1, <1>2, OperandsRight, TablesAgree DEF IInv
<1>4. status = "select" => Renumbers
  BY <1>1, <1>2, ListNode
<1>5. Calm /\ status = "select" /\ Sheltered => Numbered(LeftRows) = Listed
  BY <1>1, <1>2, <1>4, OperandsRight, TablesAgree DEF IInv
<1> QED BY <1>1, <1>3, <1>5, StoreKeeps

(* Filter: all rows of the condition's table are whole, so those of truth are kept.     *)
LEMMA FilterKeeps == IInv /\ Filter => IInv'
<1> SUFFICES ASSUME IInv, Filter PROVE IInv'
  OBVIOUS
<1>1. WellFormed(query) /\ Len(query.nodes) \in Nat /\ query.cond \in 0..(Len(query.nodes) - 1)
  BY QueryIs DEF IInv
<1>2. /\ status = "where" /\ node = query.cond + 1 /\ status' = "select" /\ query.cond # 0
      /\ UNCHANGED <<query, n, truth, node, rels, gone>>
  BY DEF Filter, IInv, PlaceInv
<1>3. PlaceInv'
  BY <1>1, <1>2 DEF IInv, PlaceInv
<1>4. WhereInv'
  BY <1>2 DEF WhereInv
<1>5. SelectInv'
  <2> SUFFICES ASSUME Calm' PROVE product' = Chosen
    <3>1. Chosen' = Chosen
      BY <1>2, SameQuery
    <3>2. (query'.cond + 1)..(node' - 1) = {}
      BY <1>1, <1>2
    <3> QED BY <3>1, <3>2 DEF SelectInv
  <2> DEFINE C == rels[query.cond]
             Odd == {r \in C : Cardinality(r.of) # 1}
             Kept(junk) == {r \in C : Cardinality(r.of) = 1 /\ r.of \subseteq truth} \cup junk
             Left(junk) == {r \in product : \E k \in Kept(junk) : k.num = r.num}
  <2>1. PICK junk \in SUBSET Odd :
          \E rows \in Orders(Left(junk)) :
            /\ product' = rows
            /\ shuffled' = IF rows = Left(junk) THEN shuffled ELSE "yes"
    BY DEF Filter
  <2>2. product' = Left(junk) /\ Calm
    BY <1>2, <2>1 DEF Calm
  <2>3. product = Whole /\ C = Whole
    BY <1>1, <1>2, <2>2 DEF IInv, WhereInv
  <2>4. \A i \in 1..n : Cardinality({i}) = 1
    BY FS_Singleton
  <2>5. \A r \in Whole : \E i \in 1..n : r = [num |-> i, pos |-> i, of |-> {i}]
    BY DEF Whole, Tab, Same
  <2>6. \A i \in 1..n : [num |-> i, pos |-> i, of |-> {i}] \in Whole
    BY DEF Whole, Tab, Same
  <2>7. junk = {}
    BY <2>3, <2>4, <2>5
  <2>8. truth \in SUBSET (1..n)
    BY DEF IInv, PlaceInv
  <2>9. Chosen = {[num |-> i, pos |-> i, of |-> {i}] : i \in truth}
    BY <1>2 DEF Chosen, Tab, Same, Meant
  <2>10. ASSUME NEW r \in Left(junk) PROVE r \in Chosen
    <3>1. PICK i \in 1..n : r = [num |-> i, pos |-> i, of |-> {i}]
      BY <2>3, <2>5
    <3>2. PICK k \in Kept(junk) : k.num = r.num
      OBVIOUS
    <3>3. k \in Whole /\ k.of \subseteq truth
      BY <2>3, <2>7
    <3>4. PICK j \in 1..n : k = [num |-> j, pos |-> j, of |-> {j}]
      BY <2>5, <3>3
    <3>5. i = j /\ j \in truth
      BY <3>1, <3>2, <3>3, <3>4
    <3> QED BY <2>9, <3>1, <3>5
  <2>11. ASSUME NEW r \in Chosen PROVE r \in Left(junk)
    <3>1. PICK i \in truth : r = [num |-> i, pos |-> i, of |-> {i}]
      BY <2>9
    <3>2. i \in 1..n /\ r \in product
      BY <2>3, <2>6, <2>8, <3>1
    <3>3. r \in C /\ Cardinality(r.of) = 1 /\ r.of \subseteq truth
      BY <2>3, <2>4, <3>1, <3>2
    <3> QED BY <3>2, <3>3
  <2>12. Left(junk) = Chosen
    BY <2>10, <2>11
  <2> QED BY <2>2, <2>12
<1> QED BY <1>3, <1>4, <1>5 DEF IInv

(* The evaluation goes on, ends, or loses its calm.                              *)
LEMMA AnswersKeeps == IInv /\ Answers => IInv'
<1> SUFFICES ASSUME IInv, Answers PROVE IInv'
  OBVIOUS
<1>1. /\ (Sheltered' <=> Sheltered) /\ Whole' = Whole /\ Chosen' = Chosen /\ Listed' = Listed
      /\ UNCHANGED <<query, n, truth, product, node, rels, shuffled, gone>>
      /\ status = "select" /\ status' = "answered"
  BY SameQuery DEF Answers
<1>2. PlaceInv'
  BY <1>1 DEF IInv, PlaceInv, Answers
<1>3. WhereInv'
  BY <1>1 DEF WhereInv
<1>4. SelectInv'
  BY <1>1 DEF IInv, SelectInv, Calm
<1> QED BY <1>2, <1>3, <1>4 DEF IInv

LEMMA ArrayDeletedKeeps == IInv /\ ArrayDeleted => IInv'
<1> SUFFICES ASSUME IInv, ArrayDeleted PROVE IInv'
  OBVIOUS
<1>1. ~Calm' /\ UNCHANGED <<query, n, truth, product, node, rels, status, shuffled>>
  BY DEF ArrayDeleted, Calm
<1>2. PlaceInv'
  BY <1>1 DEF IInv, PlaceInv
<1> QED BY <1>1, <1>2 DEF IInv, WhereInv, SelectInv

LEMMA NextInv == IInv /\ [Next]_vars => IInv'
<1> SUFFICES ASSUME IInv, [Next]_vars PROVE IInv'
  OBVIOUS
<1>1. CASE Multiply
  BY <1>1, MultiplyKeeps
<1>2. CASE ReadsProduct
  BY <1>2, ReadsProductKeeps
<1>3. CASE ReadsArrays
  BY <1>3, ReadsArraysKeeps
<1>4. CASE KeepsNumbers
  BY <1>4, KeepsNumbersKeeps
<1>5. CASE RowByRow
  BY <1>5, RowByRowKeeps
<1>6. CASE WholeCollection
  BY <1>6, WholeCollectionKeeps
<1>7. CASE Filter
  BY <1>7, FilterKeeps
<1>8. CASE Answers
  BY <1>8, AnswersKeeps
<1>9. CASE ArrayDeleted
  BY <1>9, ArrayDeletedKeeps
<1>10. CASE UNCHANGED vars
  <2>1. /\ (Sheltered' <=> Sheltered) /\ Whole' = Whole /\ Chosen' = Chosen /\ Listed' = Listed
    BY <1>10, SameQuery DEF vars
  <2> QED BY <1>10, <2>1 DEF vars, IInv, PlaceInv, WhereInv, SelectInv, Calm
<1> QED
  BY <1>1, <1>2, <1>3, <1>4, <1>5, <1>6, <1>7, <1>8, <1>9, <1>10 DEF Next, Step

(* A table of the rows S has one row for each of them.                            *)
LEMMA TabIsAligned ==
  ASSUME NEW S, NEW f, IsFiniteSet(S)
  PROVE  /\ {r.of : r \in Tab(S, f)} = {{i} : i \in S}
         /\ Cardinality(Tab(S, f)) = Cardinality(S)
<1> DEFINE R == [i \in S |-> [num |-> f[i], pos |-> i, of |-> {i}]]
           T == Tab(S, f)
<1>1. \A i \in S : R[i] \in T /\ R[i].pos = i /\ R[i].of = {i}
  BY DEF Tab
<1>2. \A r \in T : \E i \in S : r = R[i]
  BY DEF Tab
<1>3. DOMAIN R = S /\ R = [i \in S |-> R[i]]
  OBVIOUS
<1> HIDE DEF R, T
<1>4. {r.of : r \in T} = {{i} : i \in S}
  <2>1. ASSUME NEW x \in {r.of : r \in T} PROVE x \in {{i} : i \in S}
    <3>1. PICK r \in T : x = r.of
      OBVIOUS
    <3>2. PICK i \in S : r = R[i]
      BY <1>2
    <3> QED BY <1>1, <3>1, <3>2
  <2>2. ASSUME NEW x \in {{i} : i \in S} PROVE x \in {r.of : r \in T}
    <3>1. PICK i \in S : x = {i}
      OBVIOUS
    <3> QED BY <1>1, <3>1
  <2> QED BY <2>1, <2>2
<1>5. R \in Bijection(S, T)
  BY <1>1, <1>2, <1>3 DEF Bijection, Injection, Surjection, IsInjective
<1>6. Cardinality(T) = Cardinality(S)
  BY <1>5, FS_Bijection DEF ExistsBijection
<1> QED BY <1>4, <1>6 DEF T

LEMMA IInvAligns == IInv => AnswerIsAligned
<1> SUFFICES ASSUME IInv, status = "answered", shuffled = "no", gone = {}, NoGap \/ ~Mixes
             PROVE  /\ {r.of : r \in Answer} = {{i} : i \in Meant}
                    /\ Cardinality(Answer) = Cardinality(Meant)
  BY DEF AnswerIsAligned
<1>1. /\ product = Chosen
      /\ \A k \in (query.cond + 1)..(node - 1) : rels[k] = Listed
  BY DEF IInv, SelectInv, Calm, Sheltered
<1>2. IsFiniteSet(Meant)
  BY NumberingFacts DEF IInv
<1>3. CASE product # {}
  <2>1. WellFormed(query)
    BY QueriesAssumption DEF IInv, PlaceInv
  <2>2. Len(query.nodes) \in (query.cond + 1)..(node - 1)
    BY <1>3, <2>1 DEF WellFormed, IInv, PlaceInv
  <2>3. Answer = Tab(Meant, Numbering)
    BY <1>1, <1>3, <2>2 DEF Answer, Listed
  <2> QED BY <1>2, <2>3, TabIsAligned
<1>4. CASE product = {}
  <2>1. Meant = {}
    BY <1>1, <1>4 DEF Chosen, Tab
  <2>2. Answer = Meant
    BY <1>4, <2>1 DEF Answer
  <2> QED BY <2>1, <2>2
<1> QED BY <1>3, <1>4

(* Every answer consists of the rows that were asked for, each of them once, for all     *)
(* queries and tables.                                                      *)
THEOREM AnswersAreAligned == Spec => []AnswerIsAligned
<1>1. Init => IInv
  BY InitInv
<1>2. IInv /\ [Next]_vars => IInv'
  BY NextInv
<1>3. IInv => AnswerIsAligned
  BY IInvAligns
<1> QED BY <1>1, <1>2, <1>3, PTL DEF Spec

-----------------------------------------------------------------------------
(* Tables whose rows differ in their numbers and in their places.                   *)
Entry == [num : Nat, pos : Nat, of : SUBSET Nat]
Nums(T) == {r.num : r \in T}
Keyed(T) ==
  /\ T \in SUBSET Entry /\ IsFiniteSet(T)
  /\ \A r, s \in T : r.num = s.num => r = s
  /\ \A r, s \in T : r.pos = s.pos => r = s

(* A table made row by row from a finite set.                                    *)
LEMMA KeyedImage ==
  ASSUME NEW S, IsFiniteSet(S), NEW G \in [S -> Entry],
         \A r, s \in S : G[r].num = G[s].num => r = s,
         \A r, s \in S : G[r].pos = G[s].pos => r = s
  PROVE  /\ Keyed({G[r] : r \in S})
         /\ Nums({G[r] : r \in S}) = {G[r].num : r \in S}
<1> DEFINE T == {G[r] : r \in S}
<1>1. G \in Bijection(S, T)
  BY DEF Bijection, Injection, Surjection, IsInjective
<1>2. IsFiniteSet(T)
  BY <1>1, FS_Bijection DEF ExistsBijection
<1>3. T \in SUBSET Entry
  OBVIOUS
<1>4. /\ \A r, s \in T : r.num = s.num => r = s
      /\ \A r, s \in T : r.pos = s.pos => r = s
  OBVIOUS
<1>5. Nums(T) = {G[r].num : r \in S}
  BY DEF Nums
<1> QED BY <1>2, <1>3, <1>4, <1>5 DEF Keyed

(* A table has as many rows as numbers.                                          *)
LEMMA RowsAsNumbers ==
  ASSUME NEW T, Keyed(T)
  PROVE  /\ IsFiniteSet(Nums(T)) /\ Cardinality(Nums(T)) = Cardinality(T)
         /\ Cardinality(T) \in Nat /\ Nums(T) \in SUBSET Nat
         /\ Nums(T) = {} <=> T = {}
<1> DEFINE f == [r \in T |-> r.num]
<1>1. \A r \in T : f[r] = r.num /\ r.num \in Nat
  BY DEF Keyed, Entry
<1>2. f \in Bijection(T, Nums(T))
  BY DEF Keyed, Nums, Bijection, Injection, Surjection, IsInjective
<1>3. IsFiniteSet(Nums(T)) /\ Cardinality(Nums(T)) = Cardinality(T)
  BY <1>2, FS_Bijection DEF ExistsBijection, Keyed
<1>4. Cardinality(T) \in Nat
  BY FS_CardinalityType DEF Keyed
<1>5. Nums(T) \in SUBSET Nat /\ (Nums(T) = {} <=> T = {})
  BY <1>1 DEF Nums
<1> QED BY <1>3, <1>4, <1>5

(* Numbering anew leaves no gap.                                                *)
LEMMA NumberedNums ==
  ASSUME NEW T, Keyed(T)
  PROVE  Keyed(Numbered(T)) /\ Nums(Numbered(T)) = 1..Cardinality(T)
<1> DEFINE c == Cardinality(T)
           B(r) == {s \in T : s.pos <= r.pos}
           f == [r \in T |-> Cardinality(B(r))]
           G == [r \in T |-> [num |-> f[r], pos |-> r.pos, of |-> r.of]]
<1>1. IsFiniteSet(T) /\ c \in Nat /\ \A r \in T : r.pos \in Nat /\ r.of \in SUBSET Nat
  BY RowsAsNumbers DEF Keyed, Entry
<1>2. \A r \in T : /\ IsFiniteSet(B(r)) /\ B(r) \in SUBSET T /\ r \in B(r)
                   /\ Cardinality(B(r)) \in Nat /\ Cardinality(B(r)) <= c
  <2> SUFFICES ASSUME NEW r \in T
               PROVE  /\ IsFiniteSet(B(r)) /\ B(r) \in SUBSET T /\ r \in B(r)
                      /\ Cardinality(B(r)) \in Nat /\ Cardinality(B(r)) <= c
    OBVIOUS
  <2>1. B(r) \in SUBSET T /\ r \in B(r)
    BY <1>1
  <2>2. IsFiniteSet(B(r)) /\ Cardinality(B(r)) <= c
    BY <1>1, <2>1, FS_Subset
  <2>3. Cardinality(B(r)) \in Nat
    BY <2>2, FS_CardinalityType
  <2> QED BY <2>1, <2>2, <2>3
<1>3. \A r \in T : f[r] \in 1..c
  <2> SUFFICES ASSUME NEW r \in T PROVE Cardinality(B(r)) \in 1..c
    OBVIOUS
  <2>1. Cardinality(B(r)) # 0
    BY <1>2, FS_EmptySet
  <2> HIDE DEF B
  <2> QED BY <1>1, <1>2, <2>1
<1>4. ASSUME NEW r \in T, NEW s \in T, r.pos < s.pos PROVE f[r] # f[s]
  <2>1. B(r) \in SUBSET B(s)
    BY <1>1, <1>4
  <2>2. s \in B(s) /\ s \notin B(r)
    BY <1>1, <1>4
  <2>3. IsFiniteSet(B(s))
    BY <1>2
  <2> HIDE DEF B
  <2>4. Cardinality(B(r)) # Cardinality(B(s))
    BY <2>1, <2>2, <2>3, FS_Subset
  <2> QED BY <2>4
<1>5. \A r, s \in T : f[r] = f[s] => r = s
  <2> SUFFICES ASSUME NEW r \in T, NEW s \in T, f[r] = f[s] PROVE r = s
    OBVIOUS
  <2>1. r.pos = s.pos
    <3> HIDE DEF f
    <3>1. r.pos \in Nat /\ s.pos \in Nat /\ ~(r.pos < s.pos) /\ ~(s.pos < r.pos)
      BY <1>1, <1>4
    <3> QED BY <3>1
  <2> QED BY <2>1 DEF Keyed
<1>6. f \in Injection(T, 1..c)
  <2>1. f \in [T -> 1..c]
    BY <1>3
  <2> HIDE DEF f, c
  <2> QED BY <1>5, <2>1 DEF Injection, IsInjective
<1>7. f \in Surjection(T, 1..c)
  <2>1. IsFiniteSet(1..c) /\ Cardinality(1..c) = c
    BY <1>1, FS_Interval
  <2> HIDE DEF f
  <2> QED BY <1>6, <2>1, FS_Injection
<1>8. G \in [T -> Entry] /\ \A r \in T : G[r].num = f[r] /\ G[r].pos = r.pos
  <2>1. \A r \in T : f[r] \in Nat
    BY <1>1, <1>3
  <2> HIDE DEF f
  <2> QED BY <1>1, <2>1 DEF Entry
<1>9. Numbered(T) = {G[r] : r \in T}
  BY DEF Numbered, NextVal
<1>10. /\ Keyed({G[r] : r \in T})
       /\ Nums({G[r] : r \in T}) = {G[r].num : r \in T}
  <2> HIDE DEF G, f
  <2>1. \A r, s \in T : G[r].num = G[s].num => r = s
    BY <1>5, <1>8
  <2>2. \A r, s \in T : G[r].pos = G[s].pos => r = s
    BY <1>8 DEF Keyed
  <2> QED BY <1>1, <1>8, <2>1, <2>2, KeyedImage
<1>11. {G[r].num : r \in T} = 1..c
  <2> HIDE DEF G, f, c
  <2> QED BY <1>7, <1>8 DEF Surjection
<1> QED BY <1>9, <1>10, <1>11

(* A join has the numbers that both tables have.                                 *)
LEMMA JoinedNums ==
  ASSUME NEW a, NEW b, Keyed(a), Keyed(b)
  PROVE  Keyed(Joined(a, b)) /\ Nums(Joined(a, b)) = Nums(a) \cap Nums(b)
<1> DEFINE S == {r \in a : r.num \in Nums(b)}
           P(r) == CHOOSE s \in b : s.num = r.num
           G == [r \in S |-> [num |-> r.num, pos |-> r.pos, of |-> r.of \cup P(r).of]]
<1>1. \A r \in S : P(r) \in b /\ P(r).num = r.num
  BY DEF Nums
<1>2. \A r \in S, s \in b : s.num = r.num => s = P(r)
  BY <1>1 DEF Keyed
<1>3. \A r \in a \cup b : r \in Entry
  BY DEF Keyed
<1> HIDE DEF P
<1>4. IsFiniteSet(S)
  BY FS_Subset DEF Keyed
<1>5. G \in [S -> Entry] /\ \A r \in S : G[r].num = r.num /\ G[r].pos = r.pos
  BY <1>1, <1>3 DEF Entry
<1>6. Joined(a, b) = {G[r] : r \in S}
  <2>1. ASSUME NEW x \in Joined(a, b) PROVE x \in {G[r] : r \in S}
    <3>1. PICK r \in a, s \in b :
            /\ r.num = s.num
            /\ x = [num |-> r.num, pos |-> r.pos, of |-> r.of \cup s.of]
      BY DEF Joined
    <3>2. r \in S /\ s = P(r)
      BY <1>2, <3>1 DEF Nums
    <3> QED BY <3>1, <3>2
  <2>2. ASSUME NEW r \in S PROVE G[r] \in Joined(a, b)
    <3>1. <<r, P(r)>> \in {t \in a \X b : t[1].num = t[2].num}
      BY <1>1
    <3>2. G[r] = [num |-> <<r, P(r)>>[1].num, pos |-> <<r, P(r)>>[1].pos,
                  of |-> <<r, P(r)>>[1].of \cup <<r, P(r)>>[2].of]
      OBVIOUS
    <3> HIDE DEF G
    <3> QED BY <3>1, <3>2 DEF Joined
  <2> QED BY <2>1, <2>2
<1>7. /\ Keyed({G[r] : r \in S})
      /\ Nums({G[r] : r \in S}) = {G[r].num : r \in S}
  <2> HIDE DEF G
  <2>1. \A r, s \in S : G[r].num = G[s].num => r = s
    BY <1>5 DEF Keyed
  <2>2. \A r, s \in S : G[r].pos = G[s].pos => r = s
    BY <1>5 DEF Keyed
  <2> HIDE DEF S
  <2> QED BY <1>4, <1>5, <2>1, <2>2, KeyedImage
<1>8. {G[r].num : r \in S} = Nums(a) \cap Nums(b)
  <2> HIDE DEF G
  <2>1. {G[r].num : r \in S} = {r.num : r \in S}
    BY <1>5
  <2> QED BY <2>1 DEF Nums
<1> QED BY <1>6, <1>7, <1>8

(* The server may deliver the rows in any order: their numbers stay.                *)
LEMMA OrdersNums ==
  ASSUME NEW T, Keyed(T), NEW rows \in Orders(T)
  PROVE  Keyed(rows) /\ Nums(rows) = Nums(T)
<1>1. PICK g \in [Places(T) -> Places(T)] :
        /\ {g[p] : p \in Places(T)} = Places(T)
        /\ rows = {[r EXCEPT !.pos = g[r.pos]] : r \in T}
  BY DEF Orders
<1> DEFINE f == [r \in T |-> r.pos]
           G == [r \in T |-> [r EXCEPT !.pos = g[r.pos]]]
<1>2. \A r \in T : r \in Entry /\ r.pos \in Places(T)
  BY DEF Keyed, Places
<1>3. Places(T) \in SUBSET Nat
  BY <1>2 DEF Entry, Places
<1>4. IsFiniteSet(Places(T))
  <2>1. f \in Bijection(T, Places(T))
    BY DEF Keyed, Places, Bijection, Injection, Surjection, IsInjective
  <2> QED BY <2>1, FS_Bijection DEF ExistsBijection, Keyed
<1>5. \A p, q \in Places(T) : g[p] = g[q] => p = q
  <2>1. g \in Surjection(Places(T), Places(T))
    BY <1>1 DEF Surjection
  <2>2. g \in Injection(Places(T), Places(T))
    BY <1>4, <2>1, FS_SurjSameCardinalityImpliesInj
  <2> QED BY <2>2 DEF Injection, IsInjective
<1>6. G \in [T -> Entry] /\ \A r \in T : G[r].num = r.num /\ G[r].pos = g[r.pos]
  <2>1. \A r \in T : g[r.pos] \in Nat
    BY <1>2, <1>3
  <2> QED BY <1>2, <2>1 DEF Entry
<1>7. rows = {G[r] : r \in T}
  BY <1>1
<1>8. /\ Keyed({G[r] : r \in T})
      /\ Nums({G[r] : r \in T}) = {G[r].num : r \in T}
  <2> HIDE DEF G
  <2>1. \A r, s \in T : G[r].num = G[s].num => r = s
    BY <1>6 DEF Keyed
  <2>2. \A r, s \in T : G[r].pos = G[s].pos => r = s
    BY <1>2, <1>5, <1>6 DEF Keyed
  <2>3. IsFiniteSet(T)
    BY DEF Keyed
  <2> QED BY <1>6, <2>1, <2>2, <2>3, KeyedImage
<1>9. {G[r].num : r \in T} = Nums(T)
  <2> HIDE DEF G
  <2> QED BY <1>6 DEF Nums
<1> QED BY <1>7, <1>8, <1>9

(* The table of the rows S, numbered by themselves.                               *)
LEMMA NumsOfTab ==
  ASSUME NEW S
  PROVE  Nums(Tab(S, Same(S))) = S
<1> DEFINE T == Tab(S, Same(S))
           R == [i \in S |-> [num |-> i, pos |-> i, of |-> {i}]]
<1>1. T = {R[i] : i \in S}
  BY DEF Tab, Same
<1>2. \A i \in S : R[i].num = i
  OBVIOUS
<1> HIDE DEF T, R
<1>3. Nums(T) = S
  BY <1>1, <1>2 DEF Nums
<1> QED BY <1>3 DEF T

LEMMA KeyedPart ==
  ASSUME NEW T, NEW U \in SUBSET T, Keyed(T)
  PROVE  Keyed(U)
BY FS_Subset DEF Keyed

-----------------------------------------------------------------------------
(* Nodes one after the other: what follows for each from those before it, or from      *)
(* those after it, holds for all.                                                *)
LEMMA Least ==
  ASSUME NEW T \in SUBSET Nat, T # {}
  PROVE  \E m \in T : \A k \in T : m <= k
<1> DEFINE R == OpToRel(<, Nat)
<1>1. IsWellFoundedOn(R, Nat)
  BY NatLessThanWellFounded
<1>2. PICK m \in T : \A k \in T : ~(<<k, m>> \in R)
  <2> HIDE DEF R
  <2> QED BY <1>1, WFMin
<1>3. \A k \in T : ~(k < m)
  BY <1>2 DEF OpToRel
<1> QED BY <1>3

LEMMA Upwards ==
  ASSUME NEW a \in Nat, NEW b \in Int, NEW P,
         \A m \in a..b : (\A j \in a..(m - 1) : j \in P) => m \in P
  PROVE  \A m \in a..b : m \in P
<1> SUFFICES ASSUME {m \in a..b : m \notin P} # {} PROVE FALSE
  OBVIOUS
<1>1. {m \in a..b : m \notin P} \in SUBSET Nat
  OBVIOUS
<1>2. PICK m \in a..b : m \notin P /\ \A k \in a..b : k \notin P => m <= k
  BY <1>1, Least
<1>3. \A j \in a..(m - 1) : j \in a..b /\ ~(m <= j)
  OBVIOUS
<1> QED BY <1>2, <1>3

LEMMA Downwards ==
  ASSUME NEW a \in Nat, NEW b \in Int, NEW P,
         \A m \in a..b : (\A j \in (m + 1)..b : j \in P) => m \in P
  PROVE  \A m \in a..b : m \in P
<1> SUFFICES ASSUME NEW z \in a..b, z \notin P PROVE FALSE
  OBVIOUS
<1> DEFINE T == {k \in Nat : b - k \in a..b /\ b - k \notin P}
<1>1. b - z \in T
  OBVIOUS
<1>2. PICK t \in T : \A k \in T : t <= k
  BY <1>1, Least
<1> DEFINE m == b - t
<1>3. m \in a..b /\ m \notin P
  BY <1>2
<1>4. ASSUME NEW j \in (m + 1)..b, j \notin P PROVE FALSE
  <2>1. b - j \in T /\ b - j < t
    BY <1>2, <1>3, <1>4
  <2> QED BY <1>2, <2>1
<1> QED BY <1>3, <1>4

-----------------------------------------------------------------------------
(* The numbers that the operands of node k have in common, in the tables t.            *)
Operands(t, k) ==
  LET nd == query.nodes[k]
  IN IF nd.right = 0 THEN Nums(t[nd.left]) ELSE Nums(t[nd.left]) \cap Nums(t[nd.right])

(* What execute() of a class makes of the numbers of its operands.                    *)
Rule(class, p, both, made) ==
  /\ class \in RelationalLeaves => made = Nums(p)
  /\ class \in ArrayLeaves => made = 1..Cardinality(p)
  /\ class \in Relational => made = both
  /\ class \in ByRow \cup ByCollection => made = 1..Cardinality(both)

FirstNode == IF status = "where" THEN 1 ELSE query.cond + 1

TablesInv ==
  /\ shuffled \in {"no", "yes"}
  /\ Keyed(product)
  /\ \A k \in 1..Len(query.nodes) : Keyed(rels[k])

(* Before WHERE, and without it, the product has the numbers 1 to n.                 *)
ProductInv ==
  /\ status = "where" => Nums(product) = 1..n
  /\ status \in {"select", "answered"} /\ query.cond = 0 => Nums(product) = 1..n

(* While no array is missing, every table has the numbers that its node makes.         *)
RulesInv ==
  gone = {} /\ status \in {"where", "select", "answered"} =>
    \A k \in FirstNode..(node - 1) :
      Rule(query.nodes[k].class, product, Operands(rels, k), Nums(rels[k]))

NumbersInv == TablesInv /\ ProductInv /\ RulesInv /\ FailsForLackOfArrays

NInv == IInv /\ NumbersInv

(* The nodes of the part that is being evaluated, and what they read.                 *)
LEMMA NodeFacts ==
  ASSUME PlaceInv, status \in {"where", "select", "answered"}, NEW k \in FirstNode..Len(query.nodes)
  PROVE  LET nd == query.nodes[k]
         IN /\ query.cond \in Nat /\ Len(query.nodes) \in Nat /\ node \in Nat /\ FirstNode \in Nat
            /\ FirstNode >= 1 /\ k \in 1..Len(query.nodes) /\ nd.class \in Classes
            /\ nd.class \in RelationalLeaves \cup ArrayLeaves => nd.left = 0 /\ nd.right = 0
            /\ (status # "where" \/ k <= query.cond) /\ nd.class \notin RelationalLeaves \cup ArrayLeaves =>
                 /\ nd.left \in FirstNode..(k - 1)
                 /\ nd.right # 0 => nd.right \in FirstNode..(k - 1)
                 /\ nd.class \in ByRow => nd.right # 0
                 /\ nd.class \in ByCollection => nd.right = 0
<1>1. WellFormed(query) /\ node \in 1..(Len(query.nodes) + 1)
  BY QueriesAssumption DEF PlaceInv
<1>2. /\ query.cond \in Nat /\ Len(query.nodes) \in Nat /\ node \in Nat
      /\ query.nodes \in Seq(Nodes)
  BY <1>1 DEF WellFormed
<1>3. FirstNode \in Nat /\ FirstNode >= 1 /\ k \in 1..Len(query.nodes)
  BY <1>2 DEF FirstNode
<1>4. query.nodes[k].class \in Classes
  <2>1. query.nodes[k] \in Nodes
    BY <1>2, <1>3
  <2> QED BY <2>1 DEF Nodes
<1>5. CASE query.nodes[k].class \in RelationalLeaves \cup ArrayLeaves
  BY <1>1, <1>2, <1>3, <1>4, <1>5 DEF WellFormed
<1>6. CASE query.nodes[k].class \notin RelationalLeaves \cup ArrayLeaves
  <2>1. status = "where" /\ k <= query.cond => ~(k > query.cond)
    BY <1>2, <1>3
  <2>2. status # "where" => k > query.cond
    BY <1>2, <1>3 DEF FirstNode
  <2>3. /\ query.nodes[k].left \in (IF k > query.cond THEN query.cond + 1 ELSE 1)..(k - 1)
        /\ query.nodes[k].right \in ((IF k > query.cond THEN query.cond + 1 ELSE 1)..(k - 1)) \cup {0}
        /\ query.nodes[k].class \in ByRow => query.nodes[k].right # 0
        /\ query.nodes[k].class \in ByCollection => query.nodes[k].right = 0
    BY <1>1, <1>3, <1>6 DEF WellFormed
  <2> QED BY <1>2, <1>3, <1>4, <1>6, <2>1, <2>2, <2>3 DEF FirstNode
<1> QED BY <1>5, <1>6

LEMMA NextNode ==
  ASSUME PlaceInv, NEW classes, Evaluating(classes)
  PROVE  /\ node \in FirstNode..Len(query.nodes) /\ query.nodes[node].class \in classes
         /\ status \in {"where", "select"} /\ (status = "where" => node <= query.cond)
         /\ status = "select" => product # {} /\ node \in ListNodes
<1>1. WellFormed(query) /\ node \in 1..(Len(query.nodes) + 1)
  BY QueriesAssumption DEF PlaceInv
<1>2. query.cond \in 0..(Len(query.nodes) - 1) /\ Len(query.nodes) \in Nat /\ node \in Nat
  BY <1>1 DEF WellFormed
<1> QED BY <1>1, <1>2 DEF Evaluating, Current, FirstNode, ListNodes, PlaceInv

(* A node that stores a table with the right numbers.                              *)
LEMMA StoreNumbers ==
  ASSUME NInv, NEW rows, NEW classes, Evaluating(classes), Store(rows),
         UNCHANGED <<query, n, truth, product, status, gone>>, shuffled' \in {"no", "yes"},
         Keyed(rows),
         gone = {} => Rule(Current.class, product, Operands(rels, node), Nums(rows))
  PROVE  NumbersInv'
<1>1. PlaceInv /\ TablesInv /\ ProductInv /\ RulesInv
  BY DEF NInv, NumbersInv, IInv
<1>2. /\ node \in FirstNode..Len(query.nodes) /\ status \in {"where", "select"}
      /\ status = "where" => node <= query.cond
  BY <1>1, NextNode
<1>3. node \in 1..Len(query.nodes) /\ node \in Nat /\ FirstNode \in Nat /\ Len(query.nodes) \in Nat
      /\ FirstNode >= 1
  BY <1>1, <1>2, NodeFacts
<1>4. /\ \A k \in 1..Len(query.nodes) : k # node => rels'[k] = rels[k]
      /\ rels'[node] = rows /\ node' = node + 1
  BY <1>1, <1>3 DEF Store, PlaceInv
<1>5. TablesInv'
  BY <1>1, <1>4 DEF TablesInv
<1>6. ProductInv' /\ FailsForLackOfArrays' /\ FirstNode' = FirstNode
  BY <1>1, <1>2 DEF ProductInv, FailsForLackOfArrays, FirstNode
<1>7. RulesInv'
  <2> SUFFICES ASSUME gone = {}, NEW k \in FirstNode..node
               PROVE  Rule(query.nodes[k].class, product, Operands(rels', k), Nums(rels'[k]))
    <3>1. FirstNode'..(node' - 1) = FirstNode..node
      BY <1>3, <1>4, <1>6
    <3>2. \A k \in FirstNode..node : Operands(rels, k)' = Operands(rels', k)
      BY DEF Operands
    <3> QED BY <3>1, <3>2 DEF RulesInv, Rule, Nums
  <2>1. Rule(query.nodes[k].class, product, Operands(rels, k), Nums(rels'[k]))
    <3>1. CASE k = node
      BY <1>4, <3>1 DEF Current
    <3>2. CASE k # node
      <4>1. k \in FirstNode..(node - 1) /\ k \in 1..Len(query.nodes)
        BY <1>3, <3>2
      <4> QED BY <1>1, <1>2, <1>4, <3>2, <4>1 DEF RulesInv
    <3> QED BY <3>1, <3>2
  <2>2. CASE query.nodes[k].class \in RelationalLeaves \cup ArrayLeaves
    BY <2>1, <2>2 DEF Rule, RelationalLeaves, ArrayLeaves, Relational, ByRow, ByCollection
  <2>3. CASE query.nodes[k].class \notin RelationalLeaves \cup ArrayLeaves
    <3>1. k \in FirstNode..Len(query.nodes) /\ (status = "where" => k <= query.cond)
      BY <1>1, <1>2, <1>3, NodeFacts
    <3>2. /\ query.nodes[k].left \in FirstNode..(k - 1)
          /\ query.nodes[k].right # 0 => query.nodes[k].right \in FirstNode..(k - 1)
      BY <1>1, <1>2, <2>3, <3>1, NodeFacts
    <3>3. \A j \in FirstNode..(k - 1) : j \in 1..Len(query.nodes) /\ j # node
      BY <1>3
    <3>4. Operands(rels', k) = Operands(rels, k)
      BY <1>4, <3>2, <3>3 DEF Operands
    <3> QED BY <2>1, <3>4
  <2> QED BY <2>2, <2>3
<1> QED BY <1>5, <1>6, <1>7 DEF NumbersInv

(* The numbers of all tables of a part that does not put different ones together.       *)
Even ==
  \/ Nums(product) = 1..Cardinality(product)
  \/ status # "where" /\ ~Mixes
Common ==
  IF Nums(product) = 1..Cardinality(product) \/ ~Renumbers
  THEN Nums(product) ELSE 1..Cardinality(product)

LEMMA Agreement ==
  ASSUME NInv, gone = {}, status \in {"where", "select"}, Even
  PROVE  /\ Cardinality(Common) = Cardinality(product)
         /\ \A k \in FirstNode..(node - 1) : Nums(rels[k]) = Common
<1>1. PlaceInv /\ TablesInv /\ ProductInv /\ RulesInv
  BY DEF NInv, NumbersInv, IInv
<1>2. WellFormed(query) /\ node \in 1..(Len(query.nodes) + 1)
  BY <1>1, QueriesAssumption DEF PlaceInv
<1>3. query.cond \in Nat /\ Len(query.nodes) \in Nat /\ node \in Nat /\ FirstNode \in Nat
  BY <1>2 DEF WellFormed, FirstNode
<1>4. /\ Cardinality(product) \in Nat
      /\ Cardinality(Nums(product)) = Cardinality(product)
      /\ Cardinality(1..Cardinality(product)) = Cardinality(product)
  BY <1>1, RowsAsNumbers, FS_Interval DEF TablesInv
<1>5. Cardinality(Common) = Cardinality(product)
  BY <1>4 DEF Common
<1> DEFINE P == {k \in FirstNode..(node - 1) : Nums(rels[k]) = Common}
<1>6. ASSUME NEW k \in FirstNode..(node - 1), \A j \in FirstNode..(k - 1) : j \in P
      PROVE  k \in P
  <2> DEFINE class == query.nodes[k].class
  <2>1. /\ k \in FirstNode..Len(query.nodes) /\ (status = "where" => k <= query.cond)
        /\ status = "select" => k \in ListNodes
    BY <1>1, <1>2, <1>3 DEF PlaceInv, FirstNode, ListNodes
  <2>2. Rule(class, product, Operands(rels, k), Nums(rels[k]))
    BY <1>1, <2>1 DEF RulesInv
  <2>3. class \in Classes
    BY <1>1, <2>1, NodeFacts
  <2>4. class \in RelationalLeaves \/ class \in ArrayLeaves \/ class \in Relational
        \/ class \in ByRow \cup ByCollection
    BY <2>3 DEF Classes
  <2>5. CASE class \in RelationalLeaves
    <3>1. status = "select" /\ Renumbers => Mixes
      BY <2>1, <2>5 DEF Mixes, Renumbers
    <3>2. Common = Nums(product)
      BY <3>1 DEF Even, Common
    <3> QED BY <2>2, <2>5, <3>2 DEF Rule
  <2>6. class \in ArrayLeaves \cup ByRow \cup ByCollection => Common = 1..Cardinality(product)
    <3>1. class \in ArrayLeaves \cup ByRow \cup ByCollection /\ status = "select" => Renumbers
      BY <2>1 DEF Renumbers
    <3> QED BY <3>1 DEF Even, Common
  <2>7. CASE class \in ArrayLeaves
    BY <2>2, <2>6, <2>7 DEF Rule
  <2>8. class \notin RelationalLeaves \cup ArrayLeaves => Operands(rels, k) = Common
    <3> SUFFICES ASSUME class \notin RelationalLeaves \cup ArrayLeaves
                 PROVE  Operands(rels, k) = Common
      OBVIOUS
    <3>1. /\ query.nodes[k].left \in FirstNode..(k - 1)
          /\ query.nodes[k].right # 0 => query.nodes[k].right \in FirstNode..(k - 1)
      BY <1>1, <2>1, NodeFacts
    <3> QED BY <1>6, <3>1 DEF Operands
  <2>9. CASE class \in Relational
    <3>1. class \notin RelationalLeaves \cup ArrayLeaves
      BY <2>9 DEF Relational, RelationalLeaves, ArrayLeaves
    <3> QED BY <2>2, <2>8, <2>9, <3>1 DEF Rule
  <2>10. CASE class \in ByRow \cup ByCollection
    <3>1. class \notin RelationalLeaves \cup ArrayLeaves
      BY <2>10 DEF ByRow, ByCollection, RelationalLeaves, ArrayLeaves
    <3> QED BY <1>5, <2>2, <2>6, <2>8, <2>10, <3>1 DEF Rule
  <2> QED BY <2>4, <2>5, <2>7, <2>9, <2>10
<1>7. \A k \in FirstNode..(node - 1) : k \in P
  <2> HIDE DEF P
  <2>1. node - 1 \in Int
    BY <1>3
  <2> QED BY <1>3, <1>6, <2>1, Upwards
<1> QED BY <1>5, <1>7

(* Classes that read operands: both have been evaluated.                            *)
LEMMA OperandTables ==
  ASSUME NInv, NEW classes, Evaluating(classes), classes \cap (RelationalLeaves \cup ArrayLeaves) = {}
  PROVE  /\ Current.class \in classes
         /\ Current.left \in FirstNode..(node - 1) /\ Keyed(LeftRows)
         /\ Current.right # 0 =>
              /\ Current.right \in FirstNode..(node - 1) /\ Keyed(RightRows)
              /\ Operands(rels, node) = Nums(LeftRows) \cap Nums(RightRows)
         /\ Current.right = 0 => Operands(rels, node) = Nums(LeftRows)
         /\ Current.class \in ByRow => Current.right # 0
         /\ Current.class \in ByCollection => Current.right = 0
<1>1. PlaceInv /\ TablesInv
  BY DEF NInv, NumbersInv, IInv
<1>2. /\ node \in FirstNode..Len(query.nodes) /\ query.nodes[node].class \in classes
      /\ status \in {"where", "select"} /\ (status = "where" => node <= query.cond)
  BY <1>1, NextNode
<1>3. /\ Current.left \in FirstNode..(node - 1)
      /\ Current.right # 0 => Current.right \in FirstNode..(node - 1)
      /\ Current.class \in ByRow => Current.right # 0
      /\ Current.class \in ByCollection => Current.right = 0
      /\ FirstNode \in Nat /\ FirstNode >= 1 /\ Len(query.nodes) \in Nat /\ node \in Nat
  BY <1>1, <1>2, NodeFacts DEF Current
<1>4. \A j \in FirstNode..(node - 1) : j \in 1..Len(query.nodes)
  BY <1>2, <1>3
<1>5. \A j \in FirstNode..(node - 1) : Keyed(rels[j])
  BY <1>1, <1>4 DEF TablesInv
<1> QED BY <1>2, <1>3, <1>5 DEF Operands, LeftRows, RightRows, Current

LEMMA MultiplyNumbers == NInv /\ Multiply => NumbersInv'
<1> SUFFICES ASSUME NInv, Multiply PROVE NumbersInv'
  OBVIOUS
<1>1. /\ n \in Nat /\ node = 1 /\ status' \in {"where", "select"} /\ rels' = rels /\ node' = node
      /\ query' = query /\ n' = n /\ shuffled' = shuffled /\ TablesInv
      /\ status' = "select" => query.cond = 0
  BY DEF NInv, NumbersInv, IInv, PlaceInv, Multiply
<1> DEFINE T == {[num |-> 0, pos |-> i, of |-> {i}] : i \in 1..n}
           S == 1..n
           W == [i \in S |-> [num |-> i, pos |-> i, of |-> {i}]]
<1>2. product' = Whole
  <2> DEFINE F == [i \in 1..n |-> 0]
  <2>1. T = Tab(1..n, F)
    BY DEF Tab
  <2>2. Numbered(Tab(1..n, F)) = Tab(1..n, Rank(1..n))
    <3>1. 1..n \in SUBSET Nat
      BY <1>1
    <3> HIDE DEF F
    <3> QED BY <3>1, NumberedTab
  <2> QED BY <1>1, <2>1, <2>2, RankOfInterval DEF Multiply, Whole
<1>3. Whole = {W[i] : i \in S}
  BY DEF Whole, Tab, Same
<1>4. W \in [S -> Entry] /\ \A i \in S : W[i].num = i /\ W[i].pos = i
  BY <1>1 DEF Entry
<1>5. Keyed(Whole) /\ Nums(Whole) = 1..n
  <2>1. IsFiniteSet(S)
    BY <1>1, FS_Interval
  <2> HIDE DEF S, W
  <2>2. {W[i].num : i \in S} = S
    BY <1>4
  <2>3. /\ \A i, j \in S : W[i].num = W[j].num => i = j
        /\ \A i, j \in S : W[i].pos = W[j].pos => i = j
    BY <1>4
  <2>4. Keyed({W[i] : i \in S}) /\ Nums({W[i] : i \in S}) = {W[i].num : i \in S}
    BY <1>4, <2>1, <2>3, KeyedImage
  <2> QED BY <1>3, <2>2, <2>4 DEF S
<1>6. TablesInv'
  BY <1>1, <1>2, <1>5 DEF TablesInv
<1>7. ProductInv'
  BY <1>1, <1>2, <1>5 DEF ProductInv, Nums
<1>8. RulesInv'
  <2>1. FirstNode' = 1 /\ node' - 1 = 0
    BY <1>1 DEF FirstNode
  <2> QED BY <2>1 DEF RulesInv
<1>9. FailsForLackOfArrays'
  BY <1>1 DEF FailsForLackOfArrays
<1> QED BY <1>6, <1>7, <1>8, <1>9 DEF NumbersInv

LEMMA ReadsProductNumbers == NInv /\ ReadsProduct => NumbersInv'
<1> SUFFICES ASSUME NInv, ReadsProduct PROVE NumbersInv'
  OBVIOUS
<1>1. /\ Evaluating(RelationalLeaves) /\ Store(product) /\ shuffled' = shuffled
      /\ UNCHANGED <<query, n, truth, product, status, gone>>
  BY DEF ReadsProduct
<1>2. Keyed(product) /\ shuffled' \in {"no", "yes"}
  BY <1>1 DEF NInv, NumbersInv, TablesInv
<1>3. Current.class \in RelationalLeaves
  BY <1>1 DEF Evaluating
<1>4. Rule(Current.class, product, Operands(rels, node), Nums(product))
  BY <1>3 DEF Rule, RelationalLeaves, ArrayLeaves, Relational, ByRow, ByCollection
<1> QED BY <1>1, <1>2, <1>4, StoreNumbers

(* A query that fails had no array to read.                                      *)
LEMMA FailNumbers ==
  ASSUME NInv, Fail, UNCHANGED <<query, n, truth, gone>>, shuffled' \in {"no", "yes"},
         FailsForLackOfArrays'
  PROVE  NumbersInv'
<1>1. TablesInv'
  BY DEF NInv, NumbersInv, TablesInv, Fail
<1>2. status' = "failed"
  BY DEF Fail
<1> QED BY <1>1, <1>2 DEF NumbersInv, ProductInv, RulesInv

LEMMA ReadsArraysNumbers == NInv /\ ReadsArrays => NumbersInv'
<1> SUFFICES ASSUME NInv, ReadsArrays PROVE NumbersInv'
  OBVIOUS
<1> DEFINE found == {r \in product : r.of \cap gone = {}}
<1>1. /\ Evaluating(ArrayLeaves) /\ UNCHANGED <<query, n, truth, shuffled, gone>>
      /\ IF found = {} THEN Fail ELSE Store(Numbered(found)) /\ UNCHANGED <<product, status>>
  BY DEF ReadsArrays
<1>2. PlaceInv /\ TablesInv /\ ProductInv /\ shuffled' \in {"no", "yes"}
  BY <1>1 DEF NInv, NumbersInv, IInv, TablesInv
<1>3. gone = {} => found = product
  OBVIOUS
<1>4. Keyed(found)
  BY <1>2, KeyedPart DEF TablesInv
<1> HIDE DEF found
<1>5. CASE found = {}
  <2>1. gone = {} => n = 0 /\ query.cond # 0
    <3> SUFFICES ASSUME gone = {} PROVE n = 0 /\ query.cond # 0
      OBVIOUS
    <3>1. product = {} /\ status = "where"
      BY <1>1, <1>2, <1>3, <1>5, NextNode
    <3>2. 1..n = {} /\ n \in Nat /\ query.cond # 0
      BY <1>2, <3>1 DEF ProductInv, PlaceInv, Nums
    <3> QED BY <3>2
  <2>2. FailsForLackOfArrays'
    BY <1>1, <2>1 DEF FailsForLackOfArrays
  <2> QED BY <1>1, <1>2, <1>5, <2>2, FailNumbers
<1>6. CASE found # {}
  <2>1. Keyed(Numbered(found)) /\ Nums(Numbered(found)) = 1..Cardinality(found)
    BY <1>4, NumberedNums
  <2>2. Current.class \in ArrayLeaves
    BY <1>1 DEF Evaluating
  <2>3. gone = {} => Rule(Current.class, product, Operands(rels, node), Nums(Numbered(found)))
    BY <1>3, <2>1, <2>2 DEF Rule, RelationalLeaves, ArrayLeaves, Relational, ByRow, ByCollection
  <2> QED BY <1>1, <1>2, <1>6, <2>1, <2>3, StoreNumbers
<1> QED BY <1>5, <1>6

LEMMA KeepsNumbersNumbers == NInv /\ KeepsNumbers => NumbersInv'
<1> SUFFICES ASSUME NInv, KeepsNumbers PROVE NumbersInv'
  OBVIOUS
<1>1. Evaluating(Relational) /\ UNCHANGED <<query, n, truth, product, status, gone>>
  BY DEF KeepsNumbers
<1>2. Relational \cap (RelationalLeaves \cup ArrayLeaves) = {}
  BY DEF Relational, RelationalLeaves, ArrayLeaves
<1>3. /\ Current.class \in Relational /\ Keyed(LeftRows)
      /\ Current.right # 0 =>
           Keyed(RightRows) /\ Operands(rels, node) = Nums(LeftRows) \cap Nums(RightRows)
      /\ Current.right = 0 => Operands(rels, node) = Nums(LeftRows)
  BY <1>1, <1>2, OperandTables
<1>4. shuffled \in {"no", "yes"}
  BY DEF NInv, NumbersInv, TablesInv
<1>5. Rule(Current.class, product, Operands(rels, node), Operands(rels, node))
  BY <1>3 DEF Rule, RelationalLeaves, ArrayLeaves, Relational, ByRow, ByCollection
<1>6. CASE Current.right = 0
  <2>1. Store(LeftRows) /\ shuffled' \in {"no", "yes"}
    BY <1>4, <1>6 DEF KeepsNumbers
  <2> QED BY <1>1, <1>3, <1>5, <1>6, <2>1, StoreNumbers
<1>7. CASE Current.right # 0
  <2>1. PICK rows \in Orders(Joined(LeftRows, RightRows)) :
          /\ Store(rows)
          /\ shuffled' = IF rows = Joined(LeftRows, RightRows) THEN shuffled ELSE "yes"
    BY <1>7 DEF KeepsNumbers
  <2>2. /\ Keyed(Joined(LeftRows, RightRows))
        /\ Nums(Joined(LeftRows, RightRows)) = Operands(rels, node)
    BY <1>3, <1>7, JoinedNums
  <2>3. Keyed(rows) /\ Nums(rows) = Operands(rels, node)
    BY <2>2, OrdersNums
  <2>4. shuffled' \in {"no", "yes"}
    BY <1>4, <2>1
  <2> QED BY <1>1, <1>5, <2>1, <2>3, <2>4, StoreNumbers
<1> QED BY <1>6, <1>7

(* A join of two tables is empty only for the reasons for which a query may fail.        *)
LEMMA EmptyJoin ==
  ASSUME NInv, NEW classes, Evaluating(classes), classes \cap (RelationalLeaves \cup ArrayLeaves) = {},
         Operands(rels, node) = {}, gone = {}
  PROVE  \/ n = 0 /\ query.cond # 0
         \/ Mixes /\ ~NoGap
         \/ Mixes /\ shuffled = "yes" /\ query.cond # 0
<1> SUFFICES ASSUME ~(Mixes /\ ~NoGap), ~(Mixes /\ shuffled = "yes" /\ query.cond # 0)
             PROVE  n = 0 /\ query.cond # 0
  OBVIOUS
<1>1. IInv /\ PlaceInv /\ TablesInv /\ ProductInv /\ RulesInv
  BY DEF NInv, NumbersInv, IInv
<1>2. /\ status \in {"where", "select"} /\ n \in Nat
      /\ status = "select" => product # {}
      /\ status = "where" => query.cond # 0
  BY <1>1, NextNode DEF PlaceInv
<1>3. /\ Current.left \in FirstNode..(node - 1)
      /\ Current.right # 0 =>
           /\ Current.right \in FirstNode..(node - 1)
           /\ Operands(rels, node) = Nums(LeftRows) \cap Nums(RightRows)
      /\ Current.right = 0 => Operands(rels, node) = Nums(LeftRows)
  BY OperandTables
<1>4. Cardinality(1..n) = n
  BY <1>2, FS_Interval
<1>5. /\ Cardinality(Nums(product)) = Cardinality(product)
      /\ Nums(product) = {} <=> product = {}
  BY <1>1, RowsAsNumbers DEF TablesInv
<1>6. Even
  <2>1. CASE status = "where" \/ query.cond = 0
    BY <1>1, <1>2, <1>4, <1>5, <2>1 DEF Even, ProductInv
  <2>2. CASE status = "select" /\ query.cond # 0 /\ Mixes
    <3>1. Calm /\ NoGap
      BY <1>1, <2>2 DEF Calm, TablesInv
    <3>2. product = Chosen
      BY <1>1, <2>2, <3>1 DEF IInv, SelectInv
    <3>3. Nums(product) = Meant
      BY <3>2, NumsOfTab DEF Chosen
    <3> QED BY <1>5, <3>1, <3>3 DEF Even, NoGap
  <2>3. CASE status = "select" /\ ~Mixes
    BY <2>3 DEF Even
  <2> QED BY <1>2, <2>1, <2>2, <2>3
<1>7. /\ Cardinality(Common) = Cardinality(product)
      /\ \A k \in FirstNode..(node - 1) : Nums(rels[k]) = Common
  BY <1>2, <1>6, Agreement
<1>8. Common = {}
  BY <1>3, <1>7 DEF LeftRows, RightRows
<1>9. product = {}
  <2>1. Cardinality(product) = 0 /\ IsFiniteSet(product)
    BY <1>1, <1>7, <1>8, FS_EmptySet DEF TablesInv, Keyed
  <2> QED BY <2>1, FS_EmptySet
<1>10. status = "where" /\ 1..n = {}
  BY <1>1, <1>2, <1>5, <1>9 DEF ProductInv
<1> QED BY <1>2, <1>10

LEMMA RowByRowNumbers == NInv /\ RowByRow => NumbersInv'
<1> SUFFICES ASSUME NInv, RowByRow PROVE NumbersInv'
  OBVIOUS
<1> DEFINE join == Joined(LeftRows, RightRows)
<1>1. Evaluating(ByRow) /\ UNCHANGED <<query, n, truth, gone>>
  BY DEF RowByRow
<1>2. ByRow \cap (RelationalLeaves \cup ArrayLeaves) = {}
  BY DEF ByRow, RelationalLeaves, ArrayLeaves
<1>3. /\ Current.class \in ByRow /\ Keyed(LeftRows) /\ Keyed(RightRows)
      /\ Operands(rels, node) = Nums(LeftRows) \cap Nums(RightRows)
  BY <1>1, <1>2, OperandTables
<1>4. PICK rows \in Orders(join) :
        /\ IF rows = {} THEN Fail ELSE Store(Numbered(rows)) /\ UNCHANGED <<product, status>>
        /\ shuffled' = IF rows = join THEN shuffled ELSE "yes"
  BY DEF RowByRow
<1>5. Keyed(join) /\ Nums(join) = Operands(rels, node)
  BY <1>3, JoinedNums
<1> HIDE DEF join
<1>6. Keyed(rows) /\ Nums(rows) = Operands(rels, node)
  BY <1>5, OrdersNums
<1>7. shuffled \in {"no", "yes"} /\ shuffled' \in {"no", "yes"} /\ (shuffled = "yes" => shuffled' = "yes")
  BY <1>4 DEF NInv, NumbersInv, TablesInv
<1>8. CASE rows = {}
  <2>1. Operands(rels, node) = {}
    BY <1>6, <1>8 DEF Nums
  <2>2. gone = {} => \/ n = 0 /\ query.cond # 0
                     \/ Mixes /\ ~NoGap
                     \/ Mixes /\ shuffled = "yes" /\ query.cond # 0
    BY <1>1, <1>2, <2>1, EmptyJoin
  <2>3. (Mixes' <=> Mixes) /\ (NoGap' <=> NoGap)
    BY <1>1 DEF Mixes, NoGap, Meant, ListNodes
  <2>4. FailsForLackOfArrays'
    BY <1>1, <1>7, <2>2, <2>3 DEF FailsForLackOfArrays
  <2> QED BY <1>1, <1>4, <1>7, <1>8, <2>4, FailNumbers
<1>9. CASE rows # {}
  <2>1. Keyed(Numbered(rows)) /\ Nums(Numbered(rows)) = 1..Cardinality(rows)
    BY <1>6, NumberedNums
  <2>2. Cardinality(rows) = Cardinality(Operands(rels, node))
    BY <1>6, RowsAsNumbers
  <2>3. Rule(Current.class, product, Operands(rels, node), Nums(Numbered(rows)))
    BY <1>3, <2>1, <2>2 DEF Rule, RelationalLeaves, ArrayLeaves, Relational, ByRow, ByCollection
  <2> QED BY <1>1, <1>4, <1>7, <1>9, <2>1, <2>3, StoreNumbers
<1> QED BY <1>8, <1>9

LEMMA WholeCollectionNumbers == NInv /\ WholeCollection => NumbersInv'
<1> SUFFICES ASSUME NInv, WholeCollection PROVE NumbersInv'
  OBVIOUS
<1>1. /\ Evaluating(ByCollection) /\ Store(Numbered(LeftRows))
      /\ UNCHANGED <<query, n, truth, product, status, shuffled, gone>>
  BY DEF WholeCollection
<1>2. ByCollection \cap (RelationalLeaves \cup ArrayLeaves) = {}
  BY DEF ByCollection, RelationalLeaves, ArrayLeaves
<1>3. /\ Current.class \in ByCollection /\ Keyed(LeftRows)
      /\ Operands(rels, node) = Nums(LeftRows)
  BY <1>1, <1>2, OperandTables
<1>4. Keyed(Numbered(LeftRows)) /\ Nums(Numbered(LeftRows)) = 1..Cardinality(LeftRows)
  BY <1>3, NumberedNums
<1>5. Cardinality(LeftRows) = Cardinality(Operands(rels, node))
  BY <1>3, RowsAsNumbers
<1>6. Rule(Current.class, product, Operands(rels, node), Nums(Numbered(LeftRows)))
  BY <1>3, <1>4, <1>5 DEF Rule, RelationalLeaves, ArrayLeaves, Relational, ByRow, ByCollection
<1>7. shuffled' \in {"no", "yes"}
  BY <1>1 DEF NInv, NumbersInv, TablesInv
<1> QED BY <1>1, <1>4, <1>6, <1>7, StoreNumbers

LEMMA FilterNumbers == NInv /\ Filter => NumbersInv'
<1> SUFFICES ASSUME NInv, Filter PROVE NumbersInv'
  OBVIOUS
<1>1. /\ status = "where" /\ node = query.cond + 1 /\ status' = "select" /\ query.cond # 0
      /\ UNCHANGED <<query, n, truth, node, rels, gone>>
      /\ TablesInv /\ WellFormed(query)
  BY QueriesAssumption DEF Filter, NInv, NumbersInv, IInv, PlaceInv
<1>2. PICK kept :
        LET join == {r \in product : \E k \in kept : k.num = r.num}
        IN \E rows \in Orders(join) :
             product' = rows /\ shuffled' = IF rows = join THEN shuffled ELSE "yes"
  BY DEF Filter
<1> DEFINE join == {r \in product : \E k \in kept : k.num = r.num}
<1>3. Keyed(join)
  BY <1>1, KeyedPart DEF TablesInv
<1>4. PICK rows \in Orders(join) :
        product' = rows /\ shuffled' = IF rows = join THEN shuffled ELSE "yes"
  BY <1>2
<1> HIDE DEF join
<1>5. Keyed(product')
  BY <1>3, <1>4, OrdersNums
<1>6. TablesInv'
  BY <1>1, <1>4, <1>5 DEF TablesInv
<1>7. ProductInv' /\ FailsForLackOfArrays'
  BY <1>1 DEF ProductInv, FailsForLackOfArrays
<1>8. RulesInv'
  <2>1. query.cond \in Nat
    BY <1>1 DEF WellFormed
  <2>2. FirstNode'..(node' - 1) = {}
    BY <1>1, <2>1 DEF FirstNode
  <2> QED BY <2>2 DEF RulesInv
<1> QED BY <1>6, <1>7, <1>8 DEF NumbersInv

LEMMA AnswersNumbers == NInv /\ Answers => NumbersInv'
<1> SUFFICES ASSUME NInv, Answers PROVE NumbersInv'
  OBVIOUS
<1>1. /\ UNCHANGED <<query, n, truth, product, node, rels, shuffled, gone>>
      /\ status = "select" /\ status' = "answered"
      /\ TablesInv /\ ProductInv /\ RulesInv
  BY DEF Answers, NInv, NumbersInv
<1>2. FirstNode' = FirstNode
  BY <1>1 DEF FirstNode
<1>3. \A k : Operands(rels, k)' = Operands(rels, k)
  BY <1>1 DEF Operands, Nums
<1>4. RulesInv'
  BY <1>1, <1>2, <1>3 DEF RulesInv, Rule, Nums
<1> QED BY <1>1, <1>4 DEF NumbersInv, TablesInv, ProductInv, FailsForLackOfArrays

LEMMA ArrayDeletedNumbers == NInv /\ ArrayDeleted => NumbersInv'
<1> SUFFICES ASSUME NInv, ArrayDeleted PROVE NumbersInv'
  OBVIOUS
<1>1. /\ UNCHANGED <<query, n, truth, product, node, rels, status, shuffled>>
      /\ gone' # {} /\ TablesInv /\ ProductInv
  BY DEF ArrayDeleted, NInv, NumbersInv
<1> QED BY <1>1 DEF NumbersInv, TablesInv, ProductInv, RulesInv, FailsForLackOfArrays

LEMMA NInvInit == Init => NInv
<1> SUFFICES ASSUME Init PROVE NInv
  OBVIOUS
<1>1. Keyed({})
  BY FS_EmptySet DEF Keyed
<1>2. TablesInv
  BY <1>1 DEF Init, TablesInv
<1> QED BY <1>2, InitInv DEF Init, NInv, NumbersInv, ProductInv, RulesInv, FailsForLackOfArrays

LEMMA NInvNext == NInv /\ [Next]_vars => NInv'
<1> SUFFICES ASSUME NInv, [Next]_vars PROVE NInv'
  OBVIOUS
<1>1. IInv'
  BY NextInv DEF NInv
<1>2. CASE Step
  <2>1. NumbersInv'
    BY <1>2, MultiplyNumbers, ReadsProductNumbers, ReadsArraysNumbers, KeepsNumbersNumbers,
       RowByRowNumbers, WholeCollectionNumbers, FilterNumbers, AnswersNumbers DEF Step
  <2> QED BY <1>1, <2>1 DEF NInv
<1>3. CASE ArrayDeleted
  BY <1>1, <1>3, ArrayDeletedNumbers DEF NInv
<1>4. CASE UNCHANGED vars
  <2>1. FirstNode' = FirstNode /\ \A k : Operands(rels, k)' = Operands(rels, k)
    BY <1>4 DEF vars, FirstNode, Operands, Nums
  <2>2. FailsForLackOfArrays /\ FailsForLackOfArrays' = FailsForLackOfArrays
    BY <1>4 DEF vars, FailsForLackOfArrays, Mixes, NoGap, Meant, ListNodes, NInv, NumbersInv
  <2>3. RulesInv'
    BY <1>4, <2>1 DEF vars, RulesInv, Rule, Nums, NInv, NumbersInv
  <2>4. TablesInv' /\ ProductInv'
    BY <1>4 DEF vars, TablesInv, ProductInv, Nums, NInv, NumbersInv
  <2> QED BY <1>1, <2>2, <2>3, <2>4 DEF NInv, NumbersInv
<1> QED BY <1>2, <1>3, <1>4 DEF Next

(* A query fails only where arrays are lacking, for all queries and tables.             *)
THEOREM FailuresExplained == Spec => []FailsForLackOfArrays
<1>1. NInv => FailsForLackOfArrays
  BY DEF NInv, NumbersInv
<1> QED BY <1>1, NInvInit, NInvNext, PTL DEF Spec

-----------------------------------------------------------------------------
(* No table of the SELECT list has more rows than there are chosen.  If the last one     *)
(* has as many, no node has lost any, and all have the numbers of the last one: but     *)
(* those of a relation have the gap, and those of an array have none.                  *)
LEMMA SmallTables ==
  ASSUME NInv, gone = {}, status = "answered"
  PROVE  \A k \in FirstNode..(node - 1) :
           /\ IsFiniteSet(Nums(rels[k])) /\ Cardinality(Nums(rels[k])) \in Nat
           /\ Cardinality(Nums(rels[k])) <= Cardinality(product)
<1>1. PlaceInv /\ TablesInv /\ RulesInv
  BY DEF NInv, NumbersInv, IInv
<1>2. WellFormed(query) /\ node \in 1..(Len(query.nodes) + 1)
  BY <1>1, QueriesAssumption DEF PlaceInv
<1>3. query.cond \in Nat /\ Len(query.nodes) \in Nat /\ node \in Nat /\ FirstNode \in Nat
  BY <1>2 DEF WellFormed, FirstNode
<1>4. /\ Cardinality(product) \in Nat
      /\ Cardinality(Nums(product)) = Cardinality(product)
  BY <1>1, RowsAsNumbers DEF TablesInv
<1>5. ASSUME NEW k \in FirstNode..(node - 1)
      PROVE  /\ k \in FirstNode..Len(query.nodes)
             /\ IsFiniteSet(Nums(rels[k])) /\ Cardinality(Nums(rels[k])) \in Nat
  <2>1. k \in FirstNode..Len(query.nodes) /\ k \in 1..Len(query.nodes)
    BY <1>2, <1>3 DEF FirstNode
  <2>2. Keyed(rels[k])
    BY <1>1, <2>1 DEF TablesInv
  <2> QED BY <2>1, <2>2, RowsAsNumbers
<1> DEFINE P == {k \in FirstNode..(node - 1) : Cardinality(Nums(rels[k])) <= Cardinality(product)}
<1>6. ASSUME NEW k \in FirstNode..(node - 1), \A j \in FirstNode..(k - 1) : j \in P
      PROVE  k \in P
  <2> DEFINE class == query.nodes[k].class
             c == Cardinality(product)
  <2>1. Rule(class, product, Operands(rels, k), Nums(rels[k]))
    BY <1>1 DEF RulesInv
  <2>2. class \in Classes
    BY <1>1, <1>5, NodeFacts
  <2>3. \A x \in Nat : Cardinality(1..x) = x
    BY FS_Interval
  <2>4. CASE class \in RelationalLeaves \cup ArrayLeaves
    BY <1>4, <2>1, <2>3, <2>4 DEF Rule
  <2>5. CASE class \notin RelationalLeaves \cup ArrayLeaves
    <3>1. /\ query.nodes[k].left \in FirstNode..(k - 1)
          /\ query.nodes[k].right # 0 => query.nodes[k].right \in FirstNode..(k - 1)
      BY <1>1, <1>5, <2>5, NodeFacts
    <3>2. query.nodes[k].left \in P /\ query.nodes[k].left \in FirstNode..(node - 1)
      BY <1>6, <3>1
    <3> DEFINE L == Nums(rels[query.nodes[k].left])
               O == Operands(rels, k)
    <3>3. IsFiniteSet(L) /\ Cardinality(L) \in Nat /\ Cardinality(L) <= c
      BY <1>5, <3>2
    <3>4. O \in SUBSET L
      BY DEF Operands
    <3> HIDE DEF L, O
    <3>5. IsFiniteSet(O) /\ Cardinality(O) <= Cardinality(L) /\ Cardinality(O) \in Nat
      BY <3>3, <3>4, FS_Subset, FS_CardinalityType
    <3>6. Cardinality(O) <= c
      BY <1>4, <3>3, <3>5
    <3>7. Nums(rels[k]) = O \/ Nums(rels[k]) = 1..Cardinality(O)
      BY <2>1, <2>2, <2>5 DEF Rule, Classes, O
    <3> QED BY <2>3, <3>5, <3>6, <3>7
  <2> QED BY <2>4, <2>5
<1>7. \A k \in FirstNode..(node - 1) : k \in P
  <2> HIDE DEF P
  <2>1. node - 1 \in Int
    BY <1>3
  <2> QED BY <1>3, <1>6, <2>1, Upwards
<1> QED BY <1>5, <1>7

(* The operands of a node of the list, and what they have in common.                *)
LEMMA ListOperands ==
  ASSUME NInv, gone = {}, status = "answered", NEW k \in FirstNode..(node - 1),
         query.nodes[k].class \notin RelationalLeaves \cup ArrayLeaves
  PROVE  LET nd == query.nodes[k]
             O == Operands(rels, k)
         IN /\ nd.left \in FirstNode..(k - 1) /\ nd.left \in FirstNode..(node - 1)
            /\ nd.right # 0 =>
                 /\ nd.right \in FirstNode..(k - 1) /\ nd.right \in FirstNode..(node - 1)
                 /\ O \in SUBSET Nums(rels[nd.right])
            /\ nd.right = 0 => O = Nums(rels[nd.left])
            /\ O \in SUBSET Nums(rels[nd.left])
            /\ IsFiniteSet(O) /\ Cardinality(O) \in Nat /\ k \in 1..Len(query.nodes)
            /\ nd.class \in ByRow => nd.right # 0
            /\ nd.class \in ByCollection => nd.right = 0
<1>1. PlaceInv /\ WellFormed(query) /\ node \in 1..(Len(query.nodes) + 1)
  BY QueriesAssumption DEF NInv, IInv, PlaceInv
<1>2. query.cond \in Nat /\ Len(query.nodes) \in Nat /\ node \in Nat /\ FirstNode \in Nat
  BY <1>1 DEF WellFormed, FirstNode
<1>3. k \in FirstNode..Len(query.nodes)
  BY <1>1, <1>2
<1>4. LET nd == query.nodes[k]
      IN /\ k \in 1..Len(query.nodes)
         /\ nd.left \in FirstNode..(k - 1)
         /\ nd.right # 0 => nd.right \in FirstNode..(k - 1)
         /\ nd.class \in ByRow => nd.right # 0
         /\ nd.class \in ByCollection => nd.right = 0
  BY <1>1, <1>3, NodeFacts
<1>5. \A j \in FirstNode..(k - 1) : j \in FirstNode..(node - 1)
  BY <1>2
<1>6. IsFiniteSet(Nums(rels[query.nodes[k].left]))
  BY <1>4, <1>5, SmallTables
<1>7. Operands(rels, k) \in SUBSET Nums(rels[query.nodes[k].left])
  BY DEF Operands
<1>8. IsFiniteSet(Operands(rels, k)) /\ Cardinality(Operands(rels, k)) \in Nat
  BY <1>6, <1>7, FS_Subset, FS_CardinalityType
<1> QED BY <1>4, <1>5, <1>7, <1>8 DEF Operands

(* The table of an array node has no gaps.                                       *)
LEMMA ArrayTables ==
  ASSUME NInv, gone = {}, status = "answered", NEW k \in FirstNode..(node - 1),
         query.nodes[k].class \in ArrayLeaves \cup ByRow \cup ByCollection
  PROVE  Nums(rels[k]) = 1..Cardinality(Nums(rels[k]))
<1>1. Rule(query.nodes[k].class, product, Operands(rels, k), Nums(rels[k]))
  BY DEF NInv, NumbersInv, RulesInv
<1>2. \A x \in Nat : Cardinality(1..x) = x
  BY FS_Interval
<1>3. CASE query.nodes[k].class \in ArrayLeaves
  <2>1. Cardinality(product) \in Nat
    BY RowsAsNumbers DEF NInv, NumbersInv, TablesInv
  <2> QED BY <1>1, <1>2, <1>3, <2>1 DEF Rule
<1>4. CASE query.nodes[k].class \in ByRow \cup ByCollection
  <2>1. query.nodes[k].class \notin RelationalLeaves \cup ArrayLeaves
    BY <1>4 DEF ByRow, ByCollection, RelationalLeaves, ArrayLeaves
  <2>2. Cardinality(Operands(rels, k)) \in Nat
    BY <2>1, ListOperands
  <2> QED BY <1>1, <1>2, <1>4, <2>2 DEF Rule
<1> QED BY <1>3, <1>4

(* A node that has lost no row has the numbers of all its operands.                  *)
LEMMA NothingLost ==
  ASSUME NInv, gone = {}, status = "answered", NEW k \in FirstNode..(node - 1),
         Cardinality(Nums(rels[k])) = Cardinality(product),
         query.nodes[k].class \notin RelationalLeaves \cup ArrayLeaves
  PROVE  /\ Nums(rels[query.nodes[k].left]) = Nums(rels[k])
         /\ query.nodes[k].right # 0 => Nums(rels[query.nodes[k].right]) = Nums(rels[k])
<1> DEFINE nd == query.nodes[k]
           c == Cardinality(product)
           O == Operands(rels, k)
           N == Nums(rels[k])
           NL == Nums(rels[nd.left])
           NR == Nums(rels[nd.right])
<1>1. Rule(nd.class, product, O, N) /\ c \in Nat /\ nd.class \in Classes
  <2>1. k \in FirstNode..Len(query.nodes)
    <3>1. PlaceInv /\ WellFormed(query) /\ node \in 1..(Len(query.nodes) + 1)
      BY QueriesAssumption DEF NInv, IInv, PlaceInv
    <3>2. query.cond \in Nat /\ Len(query.nodes) \in Nat /\ node \in Nat /\ FirstNode \in Nat
      BY <3>1 DEF WellFormed, FirstNode
    <3> QED BY <3>1, <3>2
  <2> QED BY <2>1, RowsAsNumbers, NodeFacts DEF NInv, IInv, NumbersInv, TablesInv, RulesInv
<1>2. /\ nd.left \in FirstNode..(node - 1) /\ O \in SUBSET NL
      /\ nd.right # 0 => nd.right \in FirstNode..(node - 1) /\ O \in SUBSET NR
      /\ nd.right = 0 => O = NL
      /\ IsFiniteSet(O) /\ Cardinality(O) \in Nat
      /\ nd.class \in ByRow => nd.right # 0
      /\ nd.class \in ByCollection => nd.right = 0
      /\ k \in 1..Len(query.nodes)
  BY ListOperands
<1>3. /\ IsFiniteSet(NL) /\ Cardinality(NL) \in Nat /\ Cardinality(NL) <= c
      /\ nd.right # 0 => IsFiniteSet(NR) /\ Cardinality(NR) \in Nat /\ Cardinality(NR) <= c
  BY <1>2, SmallTables
<1>4. N = O \/ (nd.class \in ByRow \cup ByCollection /\ N = 1..Cardinality(O))
  <2>1. nd.class \in Relational \/ nd.class \in ByRow \cup ByCollection
    BY <1>1 DEF Classes
  <2> HIDE DEF nd, N, O
  <2> QED BY <1>1, <2>1 DEF Rule
<1>5. Cardinality(O) = c
  <2>1. \A x \in Nat : Cardinality(1..x) = x
    BY FS_Interval
  <2> QED BY <1>2, <1>4, <2>1
<1>6. Cardinality(O) <= Cardinality(NL) /\ (Cardinality(NL) = Cardinality(O) => NL = O)
  BY <1>2, <1>3, FS_Subset
<1>7. nd.right # 0 => Cardinality(O) <= Cardinality(NR) /\ (Cardinality(NR) = Cardinality(O) => NR = O)
  BY <1>2, <1>3, FS_Subset
<1>8. NL = O /\ (nd.right # 0 => NR = O)
  <2> HIDE DEF NL, NR, O, c, nd
  <2> QED BY <1>1, <1>3, <1>5, <1>6, <1>7
<1>9. CASE N = O
  BY <1>8, <1>9
<1>10. CASE nd.class \in ByRow \cup ByCollection /\ N = 1..Cardinality(O)
  <2>1. PICK m \in FirstNode..(node - 1) : Nums(rels[m]) = O /\ query.nodes[m].class \in Arrays
    <3>1. Typed(query)
      BY QueriesAssumption DEF NInv, IInv, PlaceInv
    <3>2. CASE nd.class \in ByRow
      <4>1. PICK m \in {nd.left, nd.right} : query.nodes[m].class \in Arrays
        BY <1>2, <3>1, <3>2 DEF Typed
      <4> QED BY <1>2, <1>8, <3>2, <4>1
    <3>3. CASE nd.class \in ByCollection
      <4>1. query.nodes[nd.left].class \in Arrays
        BY <1>2, <3>1, <3>3 DEF Typed
      <4> QED BY <1>2, <1>8, <4>1
    <3> QED BY <1>10, <3>2, <3>3
  <2>2. query.nodes[m].class \in ArrayLeaves \cup ByRow \cup ByCollection
    BY <2>1 DEF Arrays, ByCollection
  <2>3. O = 1..Cardinality(O)
    BY <2>1, <2>2, ArrayTables
  <2> QED BY <1>8, <1>10, <2>3
<1> QED BY <1>4, <1>9, <1>10

(* If the root has lost no row, every node has its numbers.                          *)
LEMMA SameNumbers ==
  ASSUME NInv, gone = {}, status = "answered", node = Len(query.nodes) + 1,
         Cardinality(Nums(rels[Len(query.nodes)])) = Cardinality(product)
  PROVE  \A k \in ListNodes : Nums(rels[k]) = Nums(rels[Len(query.nodes)])
<1> DEFINE L == Len(query.nodes)
           P == {k \in FirstNode..L : Nums(rels[k]) = Nums(rels[L])}
<1>1. PlaceInv /\ WellFormed(query) /\ Connected(query)
  BY QueriesAssumption DEF NInv, IInv, PlaceInv
<1>2. /\ query.cond \in Nat /\ L \in Nat /\ FirstNode = query.cond + 1
      /\ FirstNode..(node - 1) = FirstNode..L /\ ListNodes = FirstNode..L
  BY <1>1 DEF WellFormed, FirstNode, ListNodes
<1>3. ASSUME NEW k \in FirstNode..L, \A j \in (k + 1)..L : j \in P
      PROVE  k \in P
  <2>1. CASE k = L
    BY <2>1
  <2>2. CASE k # L
    <3>1. k \in 1..(L - 1) /\ k # query.cond
      BY <1>2, <2>2
    <3>2. PICK j \in (k + 1)..L : k \in {query.nodes[j].left, query.nodes[j].right}
      BY <1>1, <3>1 DEF Connected
    <3>3. j \in P /\ j \in FirstNode..(node - 1) /\ j \in FirstNode..Len(query.nodes) /\ k # 0
      BY <1>2, <1>3, <3>1, <3>2
    <3>4. query.nodes[j].class \notin RelationalLeaves \cup ArrayLeaves
      BY <1>1, <3>2, <3>3, NodeFacts
    <3>5. Cardinality(Nums(rels[j])) = Cardinality(product)
      BY <3>3
    <3>6. /\ Nums(rels[query.nodes[j].left]) = Nums(rels[j])
          /\ query.nodes[j].right # 0 => Nums(rels[query.nodes[j].right]) = Nums(rels[j])
      BY <3>3, <3>4, <3>5, NothingLost
    <3>7. Nums(rels[k]) = Nums(rels[j])
      BY <3>2, <3>3, <3>6
    <3> QED BY <3>3, <3>7
  <2> QED BY <2>1, <2>2
<1>4. \A k \in FirstNode..L : k \in P
  <2>1. FirstNode \in Nat /\ L \in Int
    BY <1>2
  <2> HIDE DEF P, L
  <2> QED BY <1>3, <2>1, Downwards
<1> QED BY <1>2, <1>4

(* What TablesFit, which the code violates, comes to: with a gap, an answer that puts    *)
(* numbers of the product and new ones side by side has fewer rows than were asked for.   *)
GapLosesRows ==
  status = "answered" /\ shuffled = "no" /\ gone = {} /\ ~NoGap /\ Mixes =>
    Cardinality(Answer) < Cardinality(Meant)

LEMMA NInvLoses == NInv => GapLosesRows
<1> SUFFICES ASSUME NInv, status = "answered", shuffled = "no", gone = {}, ~NoGap, Mixes
             PROVE  Cardinality(Answer) < Cardinality(Meant)
  BY DEF GapLosesRows
<1> DEFINE L == Len(query.nodes)
<1>1. PlaceInv /\ TablesInv /\ SelectInv /\ RulesInv /\ WellFormed(query)
  BY QueriesAssumption DEF NInv, NumbersInv, IInv, PlaceInv
<1>2. product = Chosen /\ Nums(product) = Meant
  BY <1>1, NumsOfTab DEF SelectInv, Calm, Chosen
<1>3. Cardinality(Meant) = Cardinality(product) /\ Cardinality(product) \in Nat /\ IsFiniteSet(Meant)
  BY <1>1, <1>2, RowsAsNumbers DEF TablesInv
<1>4. Meant # {}
  <2> SUFFICES ASSUME Meant = {} PROVE FALSE
    OBVIOUS
  <2>1. Meant = 1..0 /\ Cardinality(Meant) = 0
    BY FS_EmptySet
  <2> QED BY <2>1 DEF NoGap
<1>5. product # {} /\ node = L + 1
  <2>1. product # {}
    BY <1>2, <1>4 DEF Nums
  <2> QED BY <1>1, <2>1 DEF PlaceInv
<1>6. /\ query.cond \in Nat /\ L \in Nat /\ FirstNode = query.cond + 1 /\ L \in FirstNode..L
      /\ FirstNode..(node - 1) = FirstNode..L /\ ListNodes = FirstNode..L /\ L \in 1..L
  BY <1>1, <1>5 DEF WellFormed, FirstNode, ListNodes
<1>7. /\ Cardinality(Answer) = Cardinality(Nums(rels[L]))
      /\ Cardinality(Nums(rels[L])) \in Nat
      /\ Cardinality(Nums(rels[L])) <= Cardinality(product)
  <2>1. Answer = rels[L] /\ Keyed(rels[L])
    BY <1>1, <1>5, <1>6 DEF Answer, TablesInv
  <2>2. /\ Cardinality(Nums(rels[L])) \in Nat
        /\ Cardinality(Nums(rels[L])) <= Cardinality(product)
    BY <1>6, SmallTables
  <2> QED BY <2>1, <2>2, RowsAsNumbers
<1>8. ASSUME Cardinality(Nums(rels[L])) = Cardinality(product) PROVE FALSE
  <2>1. \A k \in ListNodes : Nums(rels[k]) = Nums(rels[L])
    BY <1>5, <1>8, SameNumbers
  <2>2. PICK r \in ListNodes : query.nodes[r].class \in RelationalLeaves
    BY DEF Mixes
  <2>3. PICK a \in ListNodes : query.nodes[a].class \in ArrayLeaves \cup ByRow \cup ByCollection
    BY DEF Mixes
  <2>4. r \in FirstNode..(node - 1) /\ a \in FirstNode..(node - 1)
    BY <1>6
  <2>5. Nums(rels[r]) = Nums(product)
    BY <1>1, <2>2, <2>4 DEF RulesInv, Rule
  <2>6. Nums(rels[a]) = 1..Cardinality(Nums(rels[a]))
    BY <2>3, <2>4, ArrayTables
  <2>7. Meant = 1..Cardinality(Meant)
    BY <1>2, <1>3, <1>8, <2>1, <2>5, <2>6
  <2> QED BY <2>7 DEF NoGap
<1> QED BY <1>3, <1>7, <1>8

(* A query that puts gaps of WHERE and new numbers side by side always loses rows, where *)
(* QtList.hpp:34-35 promises an exception: for all queries and tables.                *)
THEOREM RowsAreLost == Spec => []GapLosesRows
<1> QED BY NInvInit, NInvNext, NInvLoses, PTL DEF Spec


-----------------------------------------------------------------------------
(* The cells of a table are computed from rows of the product.                        *)
Within(T) == \A r \in T : r.of \subseteq 1..MaxRows
CellsInv ==
  /\ n \in 0..MaxRows /\ gone \in SUBSET (1..n)
  /\ status \in {"from", "where", "select", "answered", "failed"}
  /\ Within(product)
  /\ \A k \in 1..Len(query.nodes) : Within(rels[k])

LEMMA WithinKept ==
  /\ \A a, b : Within(a) /\ Within(b) => Within(Joined(a, b))
  /\ \A a : Within(a) => Within(Numbered(a))
  /\ \A a : \A rows \in Orders(a) : Keyed(a) /\ Within(a) => Within(rows)
<1>1. ASSUME NEW a, NEW b, Within(a), Within(b) PROVE Within(Joined(a, b))
  BY <1>1 DEF Within, Joined
<1>2. ASSUME NEW a, Within(a) PROVE Within(Numbered(a))
  BY <1>2 DEF Within, Numbered
<1>3. ASSUME NEW a, NEW rows \in Orders(a), Keyed(a), Within(a) PROVE Within(rows)
  <2>1. PICK f : rows = {[r EXCEPT !.pos = f[r.pos]] : r \in a}
    BY <1>3 DEF Orders
  <2>2. \A r \in a : r \in Entry /\ [r EXCEPT !.pos = f[r.pos]].of = r.of
    BY <1>3 DEF Keyed, Entry
  <2> QED BY <1>3, <2>1, <2>2 DEF Within
<1> QED BY <1>1, <1>2, <1>3

LEMMA WithinStored ==
  ASSUME NInv, CellsInv, NEW rows, Within(rows), Store(rows), query' = query
  PROVE  \A k \in 1..Len(query'.nodes) : Within(rels'[k])
<1>1. rels = [k \in 1..Len(query.nodes) |-> rels[k]]
  BY DEF NInv, IInv, PlaceInv
<1> QED BY <1>1 DEF Store, CellsInv

(* What the current node reads.                                                  *)
LEMMA WithinOperands ==
  ASSUME NInv, CellsInv, NEW classes, classes \cap (RelationalLeaves \cup ArrayLeaves) = {},
         Evaluating(classes)
  PROVE  /\ Keyed(LeftRows) /\ Within(LeftRows)
         /\ Current.right # 0 => Keyed(RightRows) /\ Within(RightRows)
<1>1. /\ status \in {"where", "select", "answered"} /\ node \in FirstNode..Len(query.nodes)
      /\ status # "where" \/ node <= query.cond
  BY QueriesAssumption DEF Evaluating, NInv, IInv, PlaceInv, FirstNode, WellFormed
<1>2. /\ Current.left \in FirstNode..(node - 1) /\ node \in Nat
      /\ Current.right # 0 => Current.right \in FirstNode..(node - 1)
      /\ FirstNode \in Nat /\ FirstNode >= 1 /\ Len(query.nodes) \in Nat
  BY <1>1, NodeFacts DEF Evaluating, Current, NInv, IInv
<1>3. /\ Current.left \in 1..Len(query.nodes)
      /\ Current.right # 0 => Current.right \in 1..Len(query.nodes)
  BY <1>1, <1>2
<1> QED BY <1>3 DEF LeftRows, RightRows, NInv, NumbersInv, TablesInv, CellsInv

LEMMA CellsNext == NInv /\ CellsInv /\ [Next]_vars => CellsInv'
<1> SUFFICES ASSUME NInv, CellsInv, [Next]_vars PROVE CellsInv'
  OBVIOUS
<1>1. CASE Multiply
  <2>1. Within({[num |-> 0, pos |-> i, of |-> {i}] : i \in 1..n})
    BY MaxRowsAssumption DEF Within, CellsInv
  <2> QED BY <1>1, <2>1, WithinKept DEF Multiply, CellsInv
<1>2. CASE ReadsProduct
  BY <1>2, WithinStored DEF ReadsProduct, CellsInv
<1>3. CASE ReadsArrays
  <2> DEFINE found == {r \in product : r.of \cap gone = {}}
  <2>1. Within(Numbered(found))
    <3>1. Within(found)
      BY DEF Within, CellsInv
    <3> QED BY <3>1, WithinKept
  <2>2. CASE found = {}
    BY <1>3, <2>2 DEF ReadsArrays, Fail, CellsInv
  <2>3. CASE found # {}
    BY <1>3, <2>1, <2>3, WithinStored DEF ReadsArrays, CellsInv
  <2> QED BY <2>2, <2>3
<1>4. CASE KeepsNumbers
  <2>1. /\ Keyed(LeftRows) /\ Within(LeftRows)
        /\ Current.right # 0 => Keyed(RightRows) /\ Within(RightRows)
    BY <1>4, WithinOperands DEF KeepsNumbers, Relational, RelationalLeaves, ArrayLeaves
  <2>2. CASE Current.right = 0
    BY <1>4, <2>1, <2>2, WithinStored DEF KeepsNumbers, CellsInv
  <2>3. CASE Current.right # 0
    <3>1. Keyed(Joined(LeftRows, RightRows)) /\ Within(Joined(LeftRows, RightRows))
      BY <2>1, <2>3, JoinedNums, WithinKept
    <3>2. PICK rows \in Orders(Joined(LeftRows, RightRows)) : Store(rows)
      BY <1>4, <2>3 DEF KeepsNumbers
    <3> QED BY <1>4, <3>1, <3>2, WithinKept, WithinStored DEF KeepsNumbers, CellsInv
  <2> QED BY <2>2, <2>3
<1>5. CASE RowByRow
  <2>1. /\ Keyed(LeftRows) /\ Within(LeftRows)
        /\ Current.right # 0 => Keyed(RightRows) /\ Within(RightRows)
    BY <1>5, WithinOperands DEF RowByRow, ByRow, RelationalLeaves, ArrayLeaves
  <2>2. Current.right # 0
    <3>1. /\ status \in {"where", "select", "answered"} /\ node \in FirstNode..Len(query.nodes)
          /\ status # "where" \/ node <= query.cond
          /\ Current.class \in ByRow /\ PlaceInv
      BY <1>5, QueriesAssumption
         DEF RowByRow, Evaluating, NInv, IInv, PlaceInv, FirstNode, WellFormed
    <3> QED BY <3>1, NodeFacts DEF Current, ByRow, RelationalLeaves, ArrayLeaves
  <2>3. Keyed(Joined(LeftRows, RightRows)) /\ Within(Joined(LeftRows, RightRows))
    BY <2>1, <2>2, JoinedNums, WithinKept
  <2>4. PICK rows \in Orders(Joined(LeftRows, RightRows)) :
          IF rows = {} THEN Fail ELSE Store(Numbered(rows)) /\ UNCHANGED <<product, status>>
    BY <1>5 DEF RowByRow
  <2>5. Within(Numbered(rows))
    BY <2>3, WithinKept
  <2>6. CASE rows = {}
    BY <1>5, <2>4, <2>6 DEF RowByRow, Fail, CellsInv
  <2>7. CASE rows # {}
    BY <1>5, <2>4, <2>5, <2>7, WithinStored DEF RowByRow, CellsInv
  <2> QED BY <2>6, <2>7
<1>6. CASE WholeCollection
  <2>1. Within(Numbered(LeftRows))
    BY <1>6, WithinOperands, WithinKept
       DEF WholeCollection, ByCollection, RelationalLeaves, ArrayLeaves
  <2> QED BY <1>6, <2>1, WithinStored DEF WholeCollection, CellsInv
<1>7. CASE Filter
  <2>1. PICK kept : \E rows \in Orders({r \in product : \E k \in kept : k.num = r.num}) :
                      product' = rows
    BY <1>7 DEF Filter
  <2> DEFINE join == {r \in product : \E k \in kept : k.num = r.num}
  <2>2. Keyed(join) /\ Within(join)
    BY FS_Subset DEF Keyed, Within, CellsInv, NInv, NumbersInv, TablesInv
  <2> HIDE DEF join
  <2>3. Within(product')
    BY <2>1, <2>2, WithinKept DEF join
  <2> QED BY <1>7, <2>3 DEF Filter, CellsInv
<1>8. CASE Answers
  BY <1>8 DEF Answers, CellsInv
<1>9. CASE ArrayDeleted
  BY <1>9 DEF ArrayDeleted, CellsInv
<1>10. CASE UNCHANGED vars
  BY <1>10 DEF vars, CellsInv
<1> QED BY <1>1, <1>2, <1>3, <1>4, <1>5, <1>6, <1>7, <1>8, <1>9, <1>10 DEF Next, Step

(* Type correctness: numbers, places and cells keep their types through every join,       *)
(* filter and renumbering.                                                      *)
THEOREM TypeCorrect == Spec => []TypeOK
<1>1. Init => NInv /\ CellsInv
  BY NInvInit DEF Init, CellsInv, Within
<1>2. NInv /\ CellsInv => TypeOK
  <2> SUFFICES ASSUME NInv, CellsInv PROVE TypeOK
    OBVIOUS
  <2>1. \A T : Keyed(T) /\ Within(T) => T \in SUBSET Row
    BY DEF Keyed, Within, Entry, Row
  <2>2. product \in SUBSET Row /\ \A k \in 1..Len(query.nodes) : rels[k] \in SUBSET Row
    BY <2>1 DEF NInv, NumbersInv, TablesInv, CellsInv
  <2> QED BY <2>2 DEF TypeOK, NInv, NumbersInv, TablesInv, CellsInv, IInv, PlaceInv
<1> QED BY <1>1, <1>2, NInvNext, CellsNext, PTL DEF Spec
=============================================================================
