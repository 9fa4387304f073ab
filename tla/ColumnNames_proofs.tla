--------------------------- MODULE ColumnNames_proofs ---------------------------
(***************************************************************************)
(* Proofs about the names of columns, for every catalogue, every query, and all    *)
(* lengths of the names: a reference selects the column that it names.            *)
(***************************************************************************)
EXTENDS ColumnNamesProps, FiniteSetTheorems, SequenceTheorems, WellFoundedInduction, TLAPS

-----------------------------------------------------------------------------
(* What is defined by recursion over a sequence.                               *)

(* A set of numbers that is not empty has a least element.                         *)
LEMMA Least ==
  ASSUME NEW T \in SUBSET Nat, T # {}
  PROVE  \E m \in T : \A k \in T : m <= k
<1> DEFINE R == OpToRel(<, Nat)
<1>1. IsWellFoundedOn(R, Nat)
  BY NatLessThanWellFounded
<1>2. PICK m \in T : \A k \in T : ~(<<k, m>> \in R)
  <2> HIDE DEF R
  <2> QED BY <1>1, WFMin
<1>3. \A k \in T : ~(k < m)
  BY <1>2 DEF OpToRel
<1>4. \A k \in T : k \in Nat /\ m \in Nat
  OBVIOUS
<1> QED BY <1>3, <1>4

(* What holds for a node whenever it holds for those before it holds for all.           *)
LEMMA ForAll ==
  ASSUME NEW N \in Nat, NEW P \in SUBSET (1..N),
         \A k \in 1..N : (1..(k - 1)) \subseteq P => k \in P
  PROVE  P = 1..N
<1> SUFFICES ASSUME P # 1..N PROVE FALSE
  OBVIOUS
<1> DEFINE T == (1..N) \ P
<1>1. T # {} /\ T \in SUBSET Nat
  <2>1. \E k \in 1..N : k \notin P
    <3>1. P \subseteq 1..N
      OBVIOUS
    <3> QED BY <3>1, Zenon
  <2>2. \A k \in 1..N : k \in Nat
    OBVIOUS
  <2> QED BY <2>1, <2>2
<1>2. PICK m \in T : \A k \in T : m <= k
  <2> HIDE DEF T
  <2> QED BY <1>1, Least
<1>3. \A j \in 1..(m - 1) : j \in 1..N /\ ~(m <= j)
  OBVIOUS
<1>4. (1..(m - 1)) \subseteq P
  BY <1>2, <1>3
<1> QED BY <1>4

(* Two functions agree below k.                                                *)
Agree(f, g, k) == \A j \in 1..(k - 1) : f[j] = g[j]

IsBody(B, N, V) ==
  /\ B \in [[1..N -> V] \X (1..N) -> V]
  /\ \A f, g \in [1..N -> V] : \A k \in 1..N : Agree(f, g, k) => B[<<f, k>>] = B[<<g, k>>]

Describes(B, N, V) == \E f \in [1..N -> V] : f = [k \in 1..N |-> B[<<f, k>>]]

LEMMA Recursion ==
  ASSUME NEW N \in Nat, NEW V, V # {}, NEW B, IsBody(B, N, V)
  PROVE  Describes(B, N, V)
<1>0. B \in [[1..N -> V] \X (1..N) -> V]
  BY DEF IsBody
<1> DEFINE Good(f, m) == \A k \in 1..m : f[k] = B[<<f, k>>]
           P == {m \in 1..N : \E f \in [1..N -> V] : Good(f, m)}
<1>1. ASSUME NEW k \in 1..N, (1..(k - 1)) \subseteq P PROVE k \in P
  <2>1. PICK f \in [1..N -> V] : Good(f, k - 1)
    <3>1. CASE k = 1
      <4>1. PICK v \in V : TRUE
        OBVIOUS
      <4>2. [j \in 1..N |-> v] \in [1..N -> V] /\ 1..(k - 1) = {}
        BY <3>1
      <4> QED BY <4>2
    <3>2. CASE k # 1
      <4>1. k - 1 \in 1..(k - 1)
        BY <3>2
      <4> QED BY <1>1, <4>1
    <3> QED BY <3>1, <3>2
  <2> DEFINE g == [f EXCEPT ![k] = B[<<f, k>>]]
  <2>2. B[<<f, k>>] \in V
    BY <1>0
  <2>3. g \in [1..N -> V] /\ g[k] = B[<<f, k>>] /\ \A j \in 1..N : j # k => g[j] = f[j]
    BY <2>2
  <2> HIDE DEF g
  <2>4. ASSUME NEW j \in 1..k PROVE g[j] = B[<<g, j>>]
    <3>1. j \in 1..N /\ \A i \in 1..(j - 1) : i \in 1..N /\ i # k
      OBVIOUS
    <3>2. Agree(f, g, j)
      BY <2>3, <3>1 DEF Agree
    <3>3. B[<<f, j>>] = B[<<g, j>>]
      BY <2>3, <3>1, <3>2 DEF IsBody
    <3>4. j = k \/ j \in 1..(k - 1)
      OBVIOUS
    <3> QED BY <2>1, <2>3, <3>1, <3>3, <3>4
  <2> QED BY <2>3, <2>4
<1>2. P = 1..N
  <2>1. P \in SUBSET (1..N)
    OBVIOUS
  <2> HIDE DEF P
  <2> QED BY <1>1, <2>1, ForAll
<1>3. PICK f \in [1..N -> V] : Good(f, N)
  <2>1. CASE N = 0
    <3>1. PICK v \in V : TRUE
      OBVIOUS
    <3>2. [j \in 1..N |-> v] \in [1..N -> V] /\ 1..N = {}
      BY <2>1
    <3> QED BY <3>2
  <2>2. CASE N # 0
    <3>1. N \in 1..N
      BY <2>2
    <3>2. N \in P
      <4> HIDE DEF P
      <4> QED BY <1>2, <3>1
    <3> QED BY <3>2
  <2> QED BY <2>1, <2>2
<1>4. f = [k \in 1..N |-> f[k]]
  OBVIOUS
<1>5. [k \in 1..N |-> f[k]] = [k \in 1..N |-> B[<<f, k>>]]
  BY <1>3
<1> QED BY <1>4, <1>5 DEF Describes

-----------------------------------------------------------------------------
(* Sequences: suffixes and occurrences, position by position.                    *)

(* A set of positions that is not empty has a greatest element.                   *)
LEMMA Greatest ==
  ASSUME NEW N \in Int, NEW T \in SUBSET (1..N), T # {}
  PROVE  Max(T) \in T /\ \A k \in T : k <= Max(T)
<1> DEFINE R == {N - k : k \in T}
<1>1. R \in SUBSET Nat /\ R # {}
  <2>1. \A k \in T : N - k \in Nat
    OBVIOUS
  <2> QED BY <2>1
<1>2. PICK m \in R : \A k \in R : m <= k
  <2> HIDE DEF R
  <2> QED BY <1>1, Least
<1>3. PICK x \in T : m = N - x
  BY <1>2
<1>4. \A k \in T : k <= x
  BY <1>2, <1>3
<1>5. \E y \in T : \A k \in T : y >= k
  BY <1>4
<1>6. Max(T) \in T /\ \A k \in T : Max(T) >= k
  BY <1>5, Zenon DEF Max
<1> QED BY <1>6

LEMMA SuffixIs ==
  ASSUME NEW S, NEW s \in Seq(S), NEW t \in Seq(S)
  PROVE  IsSuffix(t, s) <=> /\ Len(t) <= Len(s)
                            /\ \A i \in 1..Len(t) : s[Len(s) - Len(t) + i] = t[i]
<1> DEFINE p == Reverse(t)
           r == Reverse(s)
<1>1. /\ p \in Seq(S) /\ Len(p) = Len(t) /\ \A i \in 1..Len(t) : p[i] = t[Len(t) - i + 1]
      /\ r \in Seq(S) /\ Len(r) = Len(s) /\ \A i \in 1..Len(s) : r[i] = s[Len(s) - i + 1]
  BY DEF Reverse
<1> HIDE DEF p, r
<1>2. Len(t) \in Nat /\ Len(s) \in Nat
  OBVIOUS
<1>3. ASSUME Len(t) <= Len(s)
      PROVE  SubSeq(p, 1, Len(t)) = SubSeq(r, 1, Len(t))
               <=> \A i \in 1..Len(t) : s[Len(s) - Len(t) + i] = t[i]
  <2>1. /\ SubSeq(p, 1, Len(t)) = [i \in 1..Len(t) |-> p[i]]
        /\ SubSeq(r, 1, Len(t)) = [i \in 1..Len(t) |-> r[i]]
    BY <1>1, <1>2, <1>3
  <2>2. SubSeq(p, 1, Len(t)) = SubSeq(r, 1, Len(t)) <=> \A i \in 1..Len(t) : p[i] = r[i]
    BY <2>1
  <2>3. \A i \in 1..Len(t) : p[i] = r[i] <=> t[Len(t) - i + 1] = s[Len(s) - i + 1]
    BY <1>1, <1>2, <1>3
  <2>4. ASSUME \A i \in 1..Len(t) : t[Len(t) - i + 1] = s[Len(s) - i + 1], NEW i \in 1..Len(t)
        PROVE  s[Len(s) - Len(t) + i] = t[i]
    <3>1. Len(t) - i + 1 \in 1..Len(t)
      BY <1>2
    <3>2. t[Len(t) - (Len(t) - i + 1) + 1] = s[Len(s) - (Len(t) - i + 1) + 1]
      BY <2>4, <3>1
    <3>3. Len(t) - (Len(t) - i + 1) + 1 = i /\ Len(s) - (Len(t) - i + 1) + 1 = Len(s) - Len(t) + i
      BY <1>2
    <3> QED BY <3>2, <3>3
  <2>5. ASSUME \A i \in 1..Len(t) : s[Len(s) - Len(t) + i] = t[i], NEW i \in 1..Len(t)
        PROVE  t[Len(t) - i + 1] = s[Len(s) - i + 1]
    <3>1. Len(t) - i + 1 \in 1..Len(t)
      BY <1>2
    <3>2. s[Len(s) - Len(t) + (Len(t) - i + 1)] = t[Len(t) - i + 1]
      BY <2>5, <3>1
    <3>3. Len(s) - Len(t) + (Len(t) - i + 1) = Len(s) - i + 1
      BY <1>2
    <3> QED BY <3>2, <3>3
  <2> QED BY <2>2, <2>3, <2>4, <2>5
<1>4. IsSuffix(t, s) <=> Len(t) <= Len(s) /\ SubSeq(p, 1, Len(t)) = SubSeq(r, 1, Len(t))
  BY <1>1 DEF IsSuffix, IsPrefix, p, r
<1> QED BY <1>3, <1>4

LEMMA PrefixIs ==
  ASSUME NEW S, NEW s \in Seq(S), NEW t \in Seq(S)
  PROVE  IsPrefix(t, s) <=> Len(t) <= Len(s) /\ \A i \in 1..Len(t) : s[i] = t[i]
<1>1. ASSUME Len(t) <= Len(s)
      PROVE  /\ SubSeq(t, 1, Len(t)) = [i \in 1..Len(t) |-> t[i]]
             /\ SubSeq(s, 1, Len(t)) = [i \in 1..Len(t) |-> s[i]]
  BY <1>1
<1> QED BY <1>1 DEF IsPrefix

LEMMA OccursIs ==
  ASSUME NEW S, NEW s \in Seq(S), NEW t \in Seq(S), NEW i \in Int
  PROVE  i \in Occurrences(s, t) <=> /\ i \in 1..(Len(s) - Len(t) + 1)
                                    /\ \A k \in 1..Len(t) : s[i + k - 1] = t[k]
<1>1. Len(t) \in Nat /\ Len(s) \in Nat
  OBVIOUS
<1>2. ASSUME i \in 1..(Len(s) - Len(t) + 1)
      PROVE  SubSeq(s, i, i + Len(t) - 1) = t <=> \A k \in 1..Len(t) : s[i + k - 1] = t[k]
  <2> DEFINE u == SubSeq(s, i, i + Len(t) - 1)
  <2>1. u \in Seq(S) /\ Len(u) = Len(t) /\ \A k \in 1..Len(t) : u[k] = s[i + k - 1]
    BY <1>1, <1>2
  <2> HIDE DEF u
  <2>2. (\A k \in 1..Len(t) : u[k] = t[k]) => u = t
    BY <2>1, SeqEqual
  <2>3. u = t <=> \A k \in 1..Len(t) : s[i + k - 1] = t[k]
    BY <2>1, <2>2
  <2> QED BY <2>3 DEF u
<1> QED BY <1>2 DEF Occurrences

-----------------------------------------------------------------------------
(* The length of a string: the sum of the lengths of its atoms.                  *)
LEMMA SizeIs ==
  ASSUME NEW s \in Seq(Atoms)
  PROVE  \E f \in [1..Len(s) -> Nat] :
           /\ Size(s) = IF s = <<>> THEN 0 ELSE f[Len(s)]
           /\ \A i \in 1..Len(s) : f[i] = (IF i = 1 THEN 0 ELSE f[i - 1]) + Width[s[i]]
<1> DEFINE N == Len(s)
           F == [1..N -> Nat]
           B == [p \in F \X (1..N) |->
                   (IF p[2] = 1 THEN 0 ELSE p[1][p[2] - 1]) + Width[s[p[2]]]]
<1>1. \A i \in 1..N : Width[s[i]] \in Nat /\ s[i] \in Atoms
  BY WidthAssumption
<1>2. ASSUME NEW f \in F, NEW k \in 1..N
      PROVE  /\ B[<<f, k>>] = (IF k = 1 THEN 0 ELSE f[k - 1]) + Width[s[k]]
             /\ B[<<f, k>>] \in Nat
  <2>1. B[<<f, k>>] = (IF k = 1 THEN 0 ELSE f[k - 1]) + Width[s[k]]
    OBVIOUS
  <2>2. k = 1 \/ k - 1 \in 1..N
    OBVIOUS
  <2>3. (IF k = 1 THEN 0 ELSE f[k - 1]) \in Nat
    BY <2>2
  <2> HIDE DEF B
  <2> QED BY <2>1, <2>3, <1>1
<1>3. IsBody(B, N, Nat)
  <2>1. B \in [F \X (1..N) -> Nat]
    <3>1. ASSUME NEW p \in F \X (1..N) PROVE B[p] \in Nat
      BY <1>2
    <3> QED BY <3>1
  <2>2. ASSUME NEW f \in F, NEW g \in F, NEW k \in 1..N, Agree(f, g, k)
        PROVE  B[<<f, k>>] = B[<<g, k>>]
    <3>1. k = 1 \/ k - 1 \in 1..(k - 1)
      OBVIOUS
    <3>2. k = 1 \/ f[k - 1] = g[k - 1]
      BY <2>2, <3>1 DEF Agree
    <3> HIDE DEF B, F
    <3> QED BY <3>2, <1>2
  <2> HIDE DEF B
  <2> QED BY <2>1, <2>2 DEF IsBody
<1>4. N \in Nat
  OBVIOUS
<1>5. Describes(B, N, Nat)
  <2> HIDE DEF B, N
  <2> QED BY <1>3, <1>4, Recursion
<1> DEFINE Good(f) == f = [i \in 1..N |-> (IF i = 1 THEN 0 ELSE f[i - 1]) + Width[s[i]]]
           size == CHOOSE f : Good(f)
<1>6. PICK f \in F : f = [k \in 1..N |-> B[<<f, k>>]]
  BY <1>5 DEF Describes
<1>7. Good(f)
  <2>1. \A k \in 1..N : B[<<f, k>>] = (IF k = 1 THEN 0 ELSE f[k - 1]) + Width[s[k]]
    BY <1>2
  <2> HIDE DEF B, N
  <2> QED BY <1>6, <2>1
<1>8. Good(size)
  <2> HIDE DEF Good
  <2> QED BY <1>7
<1>9. Size(s) = IF s = <<>> THEN 0 ELSE size[Len(s)]
  BY DEF Size
<1>10. \A i \in 1..N : size[i] = (IF i = 1 THEN 0 ELSE size[i - 1]) + Width[s[i]]
  <2> HIDE DEF size
  <2> QED BY <1>8
<1>11. size \in F
  <2> DEFINE P == {i \in 1..N : size[i] \in Nat}
  <2>1. ASSUME NEW k \in 1..N, (1..(k - 1)) \subseteq P PROVE k \in P
    <3>1. k = 1 \/ k - 1 \in 1..(k - 1)
      OBVIOUS
    <3>2. k = 1 \/ size[k - 1] \in Nat
      BY <2>1, <3>1
    <3>3. size[k] = (IF k = 1 THEN 0 ELSE size[k - 1]) + Width[s[k]]
      BY <1>10
    <3> HIDE DEF size
    <3> QED BY <3>2, <3>3, <1>1
  <2>2. P \in SUBSET (1..N)
    OBVIOUS
  <2>3. P = 1..N
    <3> HIDE DEF P, N
    <3> QED BY <2>1, <2>2, <1>4, ForAll
  <2>4. DOMAIN size = 1..N
    <3>1. size = [i \in 1..N |-> (IF i = 1 THEN 0 ELSE size[i - 1]) + Width[s[i]]]
      BY <1>8
    <3> HIDE DEF size
    <3> QED BY <3>1
  <2>5. \E X : size = [i \in 1..N |-> X[i]]
    <3>1. size = [i \in 1..N |-> (IF i = 1 THEN 0 ELSE size[i - 1]) + Width[s[i]]]
      BY <1>8
    <3> HIDE DEF size
    <3>2. size = [i \in 1..N |-> size[i]]
      BY <3>1
    <3> QED BY <3>2
  <2> HIDE DEF size
  <2> QED BY <2>3, <2>4, <2>5
<1> HIDE DEF size
<1> QED BY <1>9, <1>10, <1>11

LEMMA SizePositive ==
  ASSUME NEW s \in Seq(Atoms)
  PROVE  Size(s) \in Nat /\ (Size(s) = 0 <=> s = <<>>)
<1>1. PICK f \in [1..Len(s) -> Nat] :
        /\ Size(s) = IF s = <<>> THEN 0 ELSE f[Len(s)]
        /\ \A i \in 1..Len(s) : f[i] = (IF i = 1 THEN 0 ELSE f[i - 1]) + Width[s[i]]
  BY SizeIs
<1>2. CASE s # <<>>
  <2>1. Len(s) \in 1..Len(s) /\ (Len(s) = 1 \/ Len(s) - 1 \in 1..Len(s))
    <3>1. Len(s) \in Nat \ {0}
      BY <1>2
    <3>2. \A n \in Nat \ {0} : n \in 1..n /\ (n = 1 \/ n - 1 \in 1..n)
      OBVIOUS
    <3> QED BY <3>1, <3>2
  <2>2. f[Len(s)] = (IF Len(s) = 1 THEN 0 ELSE f[Len(s) - 1]) + Width[s[Len(s)]]
    BY <1>1, <2>1
  <2>3. Width[s[Len(s)]] \in Nat \ {0}
    BY <2>1, WidthAssumption
  <2>4. (IF Len(s) = 1 THEN 0 ELSE f[Len(s) - 1]) \in Nat
    BY <2>1
  <2>5. f[Len(s)] \in Nat /\ f[Len(s)] # 0
    BY <2>2, <2>3, <2>4
  <2> QED BY <1>1, <1>2, <2>5
<1> QED BY <1>1, <1>2

LEMMA SizeConcat ==
  ASSUME NEW s \in Seq(Atoms), NEW t \in Seq(Atoms)
  PROVE  Size(s \o t) = Size(s) + Size(t)
<1>1. PICK f \in [1..Len(s) -> Nat] :
        /\ Size(s) = IF s = <<>> THEN 0 ELSE f[Len(s)]
        /\ \A i \in 1..Len(s) : f[i] = (IF i = 1 THEN 0 ELSE f[i - 1]) + Width[s[i]]
  BY SizeIs
<1>2. PICK g \in [1..Len(t) -> Nat] :
        /\ Size(t) = IF t = <<>> THEN 0 ELSE g[Len(t)]
        /\ \A i \in 1..Len(t) : g[i] = (IF i = 1 THEN 0 ELSE g[i - 1]) + Width[t[i]]
  BY SizeIs
<1> DEFINE u == s \o t
<1>3. /\ u \in Seq(Atoms) /\ Len(u) = Len(s) + Len(t)
      /\ \A i \in 1..Len(s) : u[i] = s[i]
      /\ \A i \in 1..Len(t) : u[Len(s) + i] = t[i]
  OBVIOUS
<1> HIDE DEF u
<1>4. PICK h \in [1..Len(u) -> Nat] :
        /\ Size(u) = IF u = <<>> THEN 0 ELSE h[Len(u)]
        /\ \A i \in 1..Len(u) : h[i] = (IF i = 1 THEN 0 ELSE h[i - 1]) + Width[u[i]]
  BY <1>3, SizeIs
<1>5. Len(s) \in Nat /\ Len(t) \in Nat /\ (s = <<>> <=> Len(s) = 0) /\ (t = <<>> <=> Len(t) = 0)
      /\ (u = <<>> <=> Len(u) = 0) /\ Size(s) \in Nat
  <2>1. Len(s) \in Nat /\ Len(t) \in Nat /\ (s = <<>> <=> Len(s) = 0) /\ (t = <<>> <=> Len(t) = 0)
    OBVIOUS
  <2>2. u = <<>> <=> Len(u) = 0
    BY <1>3
  <2> QED BY <2>1, <2>2, SizePositive
<1>6. \A i \in 1..Len(s) : h[i] = f[i]
  <2> DEFINE P == {i \in 1..Len(s) : h[i] = f[i]}
  <2>1. ASSUME NEW k \in 1..Len(s), (1..(k - 1)) \subseteq P PROVE k \in P
    <3>1. k = 1 \/ k - 1 \in 1..(k - 1)
      OBVIOUS
    <3>2. k = 1 \/ h[k - 1] = f[k - 1]
      BY <2>1, <3>1
    <3>3. k \in 1..Len(u) /\ u[k] = s[k]
      BY <1>3, <1>5
    <3> QED BY <3>2, <3>3, <1>1, <1>4
  <2>2. P = 1..Len(s)
    <3> HIDE DEF P
    <3>1. P \in SUBSET (1..Len(s))
      BY DEF P
    <3> QED BY <2>1, <3>1, <1>5, ForAll
  <2> QED BY <2>2
<1>7. \A i \in 1..Len(t) : h[Len(s) + i] = Size(s) + g[i]
  <2> DEFINE P == {i \in 1..Len(t) : h[Len(s) + i] = Size(s) + g[i]}
  <2>1. ASSUME NEW k \in 1..Len(t), (1..(k - 1)) \subseteq P PROVE k \in P
    <3>1. k = 1 \/ k - 1 \in 1..(k - 1)
      OBVIOUS
    <3>2. k = 1 \/ h[Len(s) + (k - 1)] = Size(s) + g[k - 1]
      BY <2>1, <3>1
    <3>3. Len(s) + k \in 1..Len(u) /\ u[Len(s) + k] = t[k] /\ Len(s) + k - 1 = Len(s) + (k - 1)
          /\ (Len(s) + k = 1 <=> Len(s) = 0 /\ k = 1)
      BY <1>3, <1>5
    <3>4. h[Len(s) + k]
            = (IF Len(s) + k = 1 THEN 0 ELSE h[Len(s) + (k - 1)]) + Width[t[k]]
      BY <3>3, <1>4
    <3>5. g[k] = (IF k = 1 THEN 0 ELSE g[k - 1]) + Width[t[k]] /\ g[k] \in Nat
      BY <1>2
    <3>6. Width[t[k]] \in Nat
      BY WidthAssumption
    <3>7. CASE k = 1 /\ Len(s) = 0
      BY <3>7, <3>4, <3>5, <3>6, <3>3, <1>1, <1>5
    <3>8. CASE k = 1 /\ Len(s) # 0
      <4>1. Len(s) \in 1..Len(s) /\ Len(s) + (k - 1) = Len(s)
        BY <3>8, <1>5
      <4>2. h[Len(s)] = Size(s)
        BY <4>1, <1>1, <1>5, <1>6, <3>8
      <4> QED BY <3>8, <4>1, <4>2, <3>4, <3>5, <3>6, <3>3, <1>5
    <3>9. CASE k # 1
      <4>1. k - 1 \in 1..Len(t) /\ g[k - 1] \in Nat
        BY <3>9, <1>5
      <4> QED BY <3>9, <4>1, <3>2, <3>3, <3>4, <3>5, <3>6, <1>5
    <3> QED BY <3>7, <3>8, <3>9
  <2>2. P = 1..Len(t)
    <3> HIDE DEF P
    <3>1. P \in SUBSET (1..Len(t))
      BY DEF P
    <3> QED BY <2>1, <3>1, <1>5, ForAll
  <2> QED BY <2>2
<1>8. Size(u) = Size(s) + Size(t)
  <2>1. CASE Len(t) # 0
    <3>1. Len(t) \in 1..Len(t) /\ Len(u) # 0
      BY <2>1, <1>3, <1>5
    <3> QED BY <2>1, <3>1, <1>2, <1>3, <1>4, <1>5, <1>7
  <2>2. CASE Len(t) = 0 /\ Len(s) # 0
    <3>1. Len(s) \in 1..Len(s) /\ Len(u) = Len(s)
      BY <2>2, <1>3, <1>5
    <3> QED BY <2>2, <3>1, <1>1, <1>2, <1>4, <1>5, <1>6
  <2>3. CASE Len(t) = 0 /\ Len(s) = 0
    BY <2>3, <1>1, <1>2, <1>3, <1>4, <1>5
  <2> QED BY <2>1, <2>2, <2>3
<1> QED BY <1>8 DEF u

(* A suffix that is not empty, and the rest.                                     *)
LEMMA SuffixCut ==
  ASSUME NEW s \in Seq(Atoms), NEW t \in Seq(Atoms), IsSuffix(t, s)
  PROVE  Cut(s, t) \in Seq(Atoms) /\ s = Cut(s, t) \o t /\ Len(Cut(s, t)) = Len(s) - Len(t)
<1>1. Len(t) \in Nat /\ Len(s) \in Nat /\ Len(t) <= Len(s)
      /\ \A i \in 1..Len(t) : s[Len(s) - Len(t) + i] = t[i]
  BY SuffixIs
<1> DEFINE c == Cut(s, t)
<1>2. c = SubSeq(s, 1, Len(s) - Len(t))
  BY DEF Cut
<1>3. c \in Seq(Atoms) /\ Len(c) = Len(s) - Len(t) /\ \A i \in 1..Len(c) : c[i] = s[i]
  BY <1>1, <1>2
<1> HIDE DEF c
<1>4. c \o t \in Seq(Atoms) /\ Len(c \o t) = Len(s)
  BY <1>1, <1>3
<1>5. ASSUME NEW i \in 1..Len(s) PROVE (c \o t)[i] = s[i]
  <2>1. CASE i \in 1..Len(c)
    <3>1. (c \o t)[i] = c[i]
      BY <2>1, <1>3
    <3> QED BY <3>1, <2>1, <1>3
  <2>2. CASE i \notin 1..Len(c)
    <3>1. i - Len(c) \in 1..Len(t) /\ i \in Len(c) + 1..Len(c) + Len(t)
      BY <2>2, <1>1, <1>3
    <3>2. (c \o t)[i] = t[i - Len(c)]
      BY <3>1, <1>3
    <3>3. s[Len(s) - Len(t) + (i - Len(c))] = t[i - Len(c)]
      BY <3>1, <1>1
    <3>4. Len(s) - Len(t) + (i - Len(c)) = i
      BY <1>1, <1>3
    <3> QED BY <3>2, <3>3, <3>4
  <2> QED BY <2>1, <2>2
<1>6. s = c \o t
  BY <1>4, <1>5, SeqEqual
<1> QED BY <1>3, <1>6 DEF c

(* rfind() is at the distance of the suffix from the end exactly when the suffix      *)
(* is one, or when it does not occur and npos is that distance.                     *)
LEMMA RfindIs ==
  ASSUME NEW s \in Seq(Atoms), NEW t \in Seq(Atoms), t # <<>>
  PROVE  Rfind(s, t) = Size(s) - Size(t)
           <=> IsSuffix(t, s) \/ (Occurrences(s, t) = {} /\ Size(s) + 1 = Size(t))
<1> DEFINE T == Occurrences(s, t)
           N == Len(s) - Len(t) + 1
<1>1. Len(t) \in Nat \ {0} /\ Len(s) \in Nat /\ N \in Int /\ Size(s) \in Nat /\ Size(t) \in Nat
  BY SizePositive
<1>2. T \in SUBSET (1..N)
  BY DEF Occurrences
<1>3. IsSuffix(t, s) => N \in T
  BY <1>1, SuffixIs, OccursIs
<1>4. CASE T = {}
  BY <1>1, <1>3, <1>4 DEF Rfind, NPos
<1>5. CASE T # {}
  <2> DEFINE m == Max(T)
  <2>1. m \in T /\ m \in 1..N /\ \A k \in T : k <= m
    BY <1>1, <1>2, <1>5, Greatest
  <2> DEFINE a == SubSeq(s, 1, m - 1)
             b == SubSeq(s, m, Len(s))
             c == SubSeq(s, m + Len(t), Len(s))
  <2>2. Rfind(s, t) = Size(a)
    BY <1>5 DEF Rfind
  <2>3. \A k \in 1..Len(t) : s[m + k - 1] = t[k]
    BY <1>1, <2>1, OccursIs
  <2> HIDE DEF m, T
  <2>4. a \in Seq(Atoms) /\ Len(a) = m - 1 /\ \A i \in 1..(m - 1) : a[i] = s[i]
    BY <2>1, <1>1
  <2>5. c \in Seq(Atoms) /\ Len(c) = Len(s) - (m + Len(t)) + 1
        /\ \A i \in 1..Len(c) : c[i] = s[m + Len(t) + i - 1]
    BY <2>1, <1>1
  <2> HIDE DEF a, c
  <2>6. s = (a \o t) \o c
    <3> DEFINE u == (a \o t) \o c
    <3>1. (a \o t) \in Seq(Atoms) /\ Len(a \o t) = m - 1 + Len(t)
          /\ \A i \in 1..(m - 1) : (a \o t)[i] = s[i]
      <4>1. /\ (a \o t) \in Seq(Atoms) /\ Len(a \o t) = Len(a) + Len(t)
            /\ \A i \in 1..(Len(a) + Len(t)) : (a \o t)[i] = IF i <= Len(a) THEN a[i]
                                                                ELSE t[i - Len(a)]
        BY <2>4, ConcatProperties
      <4>2. \A i \in 1..(m - 1) : i \in 1..(Len(a) + Len(t)) /\ i <= Len(a)
        BY <1>1, <2>1, <2>4
      <4> QED BY <2>4, <4>1, <4>2
    <3>2. \A i \in m..(m - 1 + Len(t)) : (a \o t)[i] = s[i]
      <4> SUFFICES ASSUME NEW i \in m..(m - 1 + Len(t)) PROVE (a \o t)[i] = s[i]
        OBVIOUS
      <4>1. i - (m - 1) \in 1..Len(t) /\ m + (i - (m - 1)) - 1 = i
        BY <2>1, <1>1
      <4>2. (a \o t)[i] = t[i - (m - 1)]
        BY <2>4, <2>1, <1>1
      <4> QED BY <4>1, <4>2, <2>3
    <3>3. \A i \in 1..(m - 1 + Len(t)) : (a \o t)[i] = s[i]
      BY <3>1, <3>2, <2>1, <1>1
    <3> DEFINE d == a \o t
    <3> HIDE DEF d
    <3>4. d \in Seq(Atoms) /\ Len(d) = m - 1 + Len(t) /\ \A i \in 1..Len(d) : d[i] = s[i]
      BY <3>1, <3>3 DEF d
    <3>5. d \o c \in Seq(Atoms) /\ Len(d \o c) = Len(s)
      BY <3>4, <2>5, <2>1, <1>1
    <3>6. ASSUME NEW i \in 1..Len(s) PROVE (d \o c)[i] = s[i]
      <4>1. CASE i \in 1..Len(d)
        BY <4>1, <3>4, <2>5
      <4>2. CASE i \notin 1..Len(d)
        <5>1. i - Len(d) \in 1..Len(c) /\ m + Len(t) + (i - Len(d)) - 1 = i
              /\ i \in Len(d) + 1..Len(d) + Len(c)
          BY <4>2, <3>4, <2>5, <2>1, <1>1
        <5>2. (d \o c)[i] = c[i - Len(d)]
          BY <5>1, <3>4, <2>5
        <5> QED BY <5>1, <5>2, <2>5
      <4> QED BY <4>1, <4>2
    <3>7. s = d \o c
      BY <3>5, <3>6, SeqEqual
    <3> QED BY <3>7 DEF d
  <2>7. Size(s) = Size(a) + Size(t) + Size(c) /\ Size(a) \in Nat /\ Size(c) \in Nat
    <3>1. a \o t \in Seq(Atoms)
      BY <2>4
    <3> QED BY <2>4, <2>5, <2>6, <3>1, SizeConcat, SizePositive
  <2>8. Rfind(s, t) = Size(s) - Size(t) <=> Size(c) = 0
    BY <2>2, <2>7, <1>1
  <2>9. Size(c) = 0 <=> m = N
    <3>1. c = <<>> <=> Len(c) = 0
      BY <2>5
    <3>2. Len(c) = 0 <=> m = N
      BY <2>5, <2>1, <1>1
    <3> QED BY <2>5, <3>1, <3>2, SizePositive
  <2>10. IsSuffix(t, s) => m = N
    BY <1>3, <2>1, <1>1
  <2>11. m = N => IsSuffix(t, s)
    <3> SUFFICES ASSUME m = N PROVE IsSuffix(t, s)
      OBVIOUS
    <3>1. \A i \in 1..Len(t) : Len(s) - Len(t) + i = m + i - 1
      BY <1>1, <2>1
    <3> QED BY <2>3, <3>1, <2>1, <1>1, SuffixIs
  <2> QED BY <1>5, <2>8, <2>9, <2>10, <2>11 DEF T
<1> QED BY <1>4, <1>5

-----------------------------------------------------------------------------
(* Names.  A name table__column of plain names has one separator, so that it can be   *)
(* taken apart in one way.                                                      *)
LEMMA Symbols ==
  /\ Sep \in Seq(Atoms) /\ Len(Sep) = 2 /\ Sep[1] = Underscore /\ Sep[2] = Underscore
  /\ Oid \in Seq(Atoms) /\ Filename \in Seq(Atoms) /\ Oid # Filename
  /\ HqlCol \in Seq(Atoms) /\ CondCol \in Seq(Atoms) /\ HqlCol # CondCol
  /\ NoName \in Seq(Atoms)
  /\ Occurrences(HqlCol, Sep) = {} /\ Occurrences(CondCol, Sep) = {}
  /\ Plain(Oid) /\ Plain(Filename)
<1>1. /\ Sep \in Seq(Atoms) /\ Len(Sep) = 2 /\ Sep[1] = Underscore /\ Sep[2] = Underscore
      /\ Oid \in Seq(Atoms) /\ Filename \in Seq(Atoms)
      /\ HqlCol \in Seq(Atoms) /\ CondCol \in Seq(Atoms)
      /\ NoName \in Seq(Atoms)
  BY WidthAssumption DEF Sep, NoName
<1>2. /\ Oid # Filename /\ HqlCol # CondCol
      /\ Len(Oid) = 1 /\ Oid[1] = "oid" /\ Len(Filename) = 1 /\ Filename[1] = "filename"
      /\ Len(HqlCol) = 2 /\ HqlCol[1] = "i" /\ Len(CondCol) = 2 /\ CondCol[1] = "l"
      /\ \A a \in {"oid", "filename", "i", "l"} : a # Underscore
  BY DEF Oid, Filename, HqlCol, CondCol, Underscore
<1>3. ASSUME NEW s \in Seq(Atoms), NEW p \in Seq(Atoms), Len(p) = 2, Len(s) <= 2,
             p[1] = Underscore, s[1] # Underscore
      PROVE  Occurrences(s, p) = {}
  <2> SUFFICES ASSUME NEW i \in Occurrences(s, p) PROVE FALSE
    OBVIOUS
  <2>1. i \in 1..(Len(s) - Len(p) + 1)
    BY DEF Occurrences
  <2>2. i = 1 /\ 1 \in 1..Len(p)
    BY <1>3, <2>1
  <2>3. \A k \in 1..Len(p) : s[i + k - 1] = p[k]
    BY <2>2, OccursIs
  <2>4. s[1 + 1 - 1] = p[1]
    BY <2>2, <2>3
  <2> QED BY <1>3, <2>4
<1>4. \A s \in Seq(Atoms) : Len(s) <= 2 /\ s[1] # Underscore => Occurrences(s, Sep) = {}
  BY <1>1, <1>3, Zenon
<1>5. Occurrences(HqlCol, Sep) = {} /\ Occurrences(CondCol, Sep) = {}
      /\ Occurrences(Oid, Sep) = {} /\ Occurrences(Filename, Sep) = {}
  <2>1. Len(HqlCol) <= 2 /\ Len(CondCol) <= 2 /\ Len(Oid) <= 2 /\ Len(Filename) <= 2
    BY <1>2
  <2>2. HqlCol[1] # Underscore /\ CondCol[1] # Underscore /\ Oid[1] # Underscore
        /\ Filename[1] # Underscore
    BY <1>2
  <2> QED BY <1>1, <1>4, <2>1, <2>2, Zenon
<1>6. Plain(Oid) /\ Plain(Filename)
  <2>1. Oid # <<>> /\ Head(Oid) # Underscore /\ Last(Oid) # Underscore
    BY DEF Oid, Last, Underscore
  <2>2. Filename # <<>> /\ Head(Filename) # Underscore /\ Last(Filename) # Underscore
    BY DEF Filename, Last, Underscore
  <2> QED BY <1>5, <2>1, <2>2 DEF Plain
<1> QED BY <1>1, <1>2, <1>5, <1>6

(* The two atoms of the separator stand side by side.                              *)
AtSep(s, i) == i \in 1..(Len(s) - 1) /\ s[i] = Underscore /\ s[i + 1] = Underscore

LEMMA AtSepIs ==
  ASSUME NEW s \in Seq(Atoms), NEW i \in Int
  PROVE  i \in Occurrences(s, Sep) <=> AtSep(s, i)
<1>1. i \in Occurrences(s, Sep)
        <=> i \in 1..(Len(s) - Len(Sep) + 1) /\ \A k \in 1..Len(Sep) : s[i + k - 1] = Sep[k]
  <2>1. Sep \in Seq(Atoms)
    BY Symbols
  <2> QED BY <2>1, OccursIs
<1>2. Len(s) \in Nat /\ Len(s) - Len(Sep) + 1 = Len(s) - 1
  BY Symbols
<1>3. (\A k \in 1..Len(Sep) : s[i + k - 1] = Sep[k]) <=> s[i] = Underscore /\ s[i + 1] = Underscore
  <2>1. i + 1 - 1 = i /\ i + 2 - 1 = i + 1 /\ 1..Len(Sep) = {1, 2}
    BY Symbols
  <2> QED BY <2>1, Symbols
<1> QED BY <1>1, <1>2, <1>3 DEF AtSep

LEMMA QualifiedIs ==
  ASSUME NEW t \in Seq(Atoms), NEW c \in Seq(Atoms)
  PROVE  /\ Qualified(t, c) \in Seq(Atoms) /\ Sep \o c \in Seq(Atoms) /\ Sep \o c # <<>>
         /\ Qualified(t, c) = t \o (Sep \o c)
         /\ Len(Sep \o c) = 2 + Len(c)
         /\ Len(Qualified(t, c)) = Len(t) + 2 + Len(c)
         /\ \A i \in 1..Len(t) : Qualified(t, c)[i] = t[i]
         /\ Qualified(t, c)[Len(t) + 1] = Underscore /\ Qualified(t, c)[Len(t) + 2] = Underscore
         /\ \A i \in 1..Len(c) : Qualified(t, c)[Len(t) + 2 + i] = c[i]
<1>1. ASSUME NEW p \in Seq(Atoms), Len(p) = 2
      PROVE  /\ (t \o p) \o c \in Seq(Atoms) /\ p \o c \in Seq(Atoms) /\ p \o c # <<>>
             /\ (t \o p) \o c = t \o (p \o c)
             /\ Len(p \o c) = 2 + Len(c)
             /\ Len((t \o p) \o c) = Len(t) + 2 + Len(c)
             /\ \A i \in 1..Len(t) : ((t \o p) \o c)[i] = t[i]
             /\ ((t \o p) \o c)[Len(t) + 1] = p[1] /\ ((t \o p) \o c)[Len(t) + 2] = p[2]
             /\ \A i \in 1..Len(c) : ((t \o p) \o c)[Len(t) + 2 + i] = c[i]
  <2> DEFINE u == t \o p
  <2>1. u \in Seq(Atoms) /\ Len(u) = Len(t) + 2 /\ \A i \in 1..Len(t) : u[i] = t[i]
    <3>1. u \in Seq(Atoms) /\ Len(u) = Len(t) + Len(p) /\ \A i \in 1..Len(t) : u[i] = t[i]
      OBVIOUS
    <3> HIDE DEF u
    <3> QED BY <3>1, <1>1
  <2>2. u[Len(t) + 1] = p[1] /\ u[Len(t) + 2] = p[2]
    <3>1. \A i \in 1..Len(p) : u[Len(t) + i] = p[i]
      OBVIOUS
    <3> HIDE DEF u
    <3> QED BY <3>1, <1>1
  <2>3. (t \o p) \o c = t \o (p \o c)
    BY ConcatAssociative
  <2>4. p \o c \in Seq(Atoms) /\ Len(p \o c) = 2 + Len(c)
    <3>1. p \o c \in Seq(Atoms) /\ Len(p \o c) = Len(p) + Len(c)
      OBVIOUS
    <3> QED BY <3>1, <1>1
  <2>5. p \o c # <<>>
    <3>1. Len(p \o c) # 0
      BY <2>4
    <3> QED BY <3>1
  <2> HIDE DEF u
  <2>6. /\ u \o c \in Seq(Atoms) /\ Len(u \o c) = Len(t) + 2 + Len(c)
        /\ \A i \in 1..(Len(t) + 2) : (u \o c)[i] = u[i]
        /\ \A i \in 1..Len(c) : (u \o c)[Len(t) + 2 + i] = c[i]
    <3>1. /\ u \o c \in Seq(Atoms) /\ Len(u \o c) = Len(u) + Len(c)
          /\ \A i \in 1..Len(u) : (u \o c)[i] = u[i]
          /\ \A i \in 1..Len(c) : (u \o c)[Len(u) + i] = c[i]
      <4>1. PICK w \in Seq(Atoms) : w = u
        BY <2>1
      <4>2. /\ w \o c \in Seq(Atoms) /\ Len(w \o c) = Len(w) + Len(c)
            /\ \A i \in 1..Len(w) : (w \o c)[i] = w[i]
            /\ \A i \in 1..Len(c) : (w \o c)[Len(w) + i] = c[i]
        OBVIOUS
      <4> QED BY <4>1, <4>2, Zenon
    <3> DEFINE v == u \o c
    <3> HIDE DEF v
    <3>2. /\ v \in Seq(Atoms) /\ Len(v) = Len(u) + Len(c)
          /\ \A i \in 1..Len(u) : v[i] = u[i]
          /\ \A i \in 1..Len(c) : v[Len(u) + i] = c[i]
      BY <3>1 DEF v
    <3>3. Len(u) = Len(t) + 2
      BY <2>1
    <3>4. /\ v \in Seq(Atoms) /\ Len(v) = Len(t) + 2 + Len(c)
          /\ \A i \in 1..(Len(t) + 2) : v[i] = u[i]
          /\ \A i \in 1..Len(c) : v[Len(t) + 2 + i] = c[i]
      BY <3>2, <3>3
    <3> QED BY <3>4 DEF v
  <2>7. Len(t) \in Nat /\ Len(t) + 1 \in 1..(Len(t) + 2) /\ Len(t) + 2 \in 1..(Len(t) + 2)
        /\ \A i \in 1..Len(t) : i \in 1..(Len(t) + 2)
    OBVIOUS
  <2>8. /\ \A i \in 1..Len(t) : (u \o c)[i] = t[i]
        /\ (u \o c)[Len(t) + 1] = p[1] /\ (u \o c)[Len(t) + 2] = p[2]
    BY <2>1, <2>2, <2>6, <2>7
  <2> QED BY <2>3, <2>4, <2>5, <2>6, <2>8 DEF u
<1>2. Sep \in Seq(Atoms) /\ Len(Sep) = 2 /\ Sep[1] = Underscore /\ Sep[2] = Underscore
  BY Symbols
<1>3. Qualified(t, c) = (t \o Sep) \o c
  BY DEF Qualified
<1> DEFINE Good(p) ==
             /\ (t \o p) \o c \in Seq(Atoms) /\ p \o c \in Seq(Atoms) /\ p \o c # <<>>
             /\ (t \o p) \o c = t \o (p \o c)
             /\ Len(p \o c) = 2 + Len(c)
             /\ Len((t \o p) \o c) = Len(t) + 2 + Len(c)
             /\ \A i \in 1..Len(t) : ((t \o p) \o c)[i] = t[i]
             /\ ((t \o p) \o c)[Len(t) + 1] = p[1] /\ ((t \o p) \o c)[Len(t) + 2] = p[2]
             /\ \A i \in 1..Len(c) : ((t \o p) \o c)[Len(t) + 2 + i] = c[i]
<1>4. \A p \in Seq(Atoms) : Len(p) = 2 => Good(p)
  BY <1>1
<1>5. Good(Sep)
  <2> HIDE DEF Good
  <2> QED BY <1>2, <1>4
<1> DEFINE q == (t \o Sep) \o c
<1>6. /\ q \in Seq(Atoms) /\ Sep \o c \in Seq(Atoms) /\ Sep \o c # <<>>
      /\ q = t \o (Sep \o c)
      /\ Len(Sep \o c) = 2 + Len(c)
      /\ Len(q) = Len(t) + 2 + Len(c)
      /\ \A i \in 1..Len(t) : q[i] = t[i]
      /\ q[Len(t) + 1] = Sep[1] /\ q[Len(t) + 2] = Sep[2]
      /\ \A i \in 1..Len(c) : q[Len(t) + 2 + i] = c[i]
  BY <1>5, Zenon
<1>7. Qualified(t, c) = q
  BY DEF Qualified
<1> HIDE DEF q
<1> QED BY <1>2, <1>6, <1>7, Zenon

LEMMA OneSeparator ==
  ASSUME NEW t \in Seq(Atoms), NEW c \in Seq(Atoms), Plain(t), Plain(c)
  PROVE  Occurrences(Qualified(t, c), Sep) = {Len(t) + 1}
<1> DEFINE q == Qualified(t, c)
<1>1. /\ Len(t) \in Nat \ {0} /\ Len(c) \in Nat \ {0}
      /\ t[Len(t)] # Underscore /\ c[1] # Underscore
      /\ \A i \in Int : ~AtSep(t, i) /\ ~AtSep(c, i)
  BY AtSepIs DEF Plain, Last
<1>2. /\ q \in Seq(Atoms) /\ Len(q) = Len(t) + 2 + Len(c)
      /\ \A i \in 1..Len(t) : q[i] = t[i]
      /\ q[Len(t) + 1] = Underscore /\ q[Len(t) + 2] = Underscore
      /\ \A i \in 1..Len(c) : q[Len(t) + 2 + i] = c[i]
  BY QualifiedIs
<1> HIDE DEF q
<1>3. AtSep(q, Len(t) + 1)
  BY <1>1, <1>2 DEF AtSep
<1>4. ASSUME NEW i \in Int, AtSep(q, i), i # Len(t) + 1 PROVE FALSE
  <2>1. i \in 1..(Len(t) + 1 + Len(c)) /\ q[i] = Underscore /\ q[i + 1] = Underscore
    BY <1>2, <1>4 DEF AtSep
  <2>2. CASE i < Len(t)
    <3>1. i \in 1..Len(t) /\ i + 1 \in 1..Len(t) /\ i \in 1..(Len(t) - 1)
      BY <2>1, <2>2, <1>1
    <3> QED BY <3>1, <2>1, <1>1, <1>2 DEF AtSep
  <2>3. CASE i = Len(t)
    BY <2>1, <2>3, <1>1, <1>2
  <2>4. CASE i = Len(t) + 2
    <3>1. q[Len(t) + 2 + 1] = c[1]
      BY <1>1, <1>2
    <3> QED BY <3>1, <2>1, <2>4, <1>1
  <2>5. CASE i > Len(t) + 2
    <3> DEFINE j == i - (Len(t) + 2)
    <3>1. j \in 1..(Len(c) - 1) /\ j \in 1..Len(c) /\ j + 1 \in 1..Len(c) /\ j \in Int
          /\ Len(t) + 2 + j = i /\ Len(t) + 2 + (j + 1) = i + 1
      BY <2>1, <2>5, <1>1
    <3> HIDE DEF j
    <3>2. c[j] = Underscore /\ c[j + 1] = Underscore
      BY <3>1, <2>1, <1>2
    <3> QED BY <3>1, <3>2, <1>1 DEF AtSep
  <2> QED BY <2>1, <2>2, <2>3, <2>4, <2>5, <1>1, <1>4
<1>5. \A i : i \in Occurrences(q, Sep) => i \in Int
  BY DEF Occurrences
<1>6. Len(t) + 1 \in Occurrences(q, Sep)
  BY <1>1, <1>2, <1>3, AtSepIs
<1>7. \A i \in Occurrences(q, Sep) : i = Len(t) + 1
  BY <1>2, <1>4, <1>5, AtSepIs
<1> QED BY <1>6, <1>7 DEF q

LEMMA TakenApart ==
  ASSUME NEW t \in Seq(Atoms), NEW c \in Seq(Atoms), Plain(t), Plain(c),
         NEW a \in Seq(Atoms), NEW b \in Seq(Atoms), Qualified(a, b) = Qualified(t, c)
  PROVE  a = t /\ b = c
<1> DEFINE q == Qualified(t, c)
<1>1. /\ Len(a) \in Nat /\ Len(b) \in Nat /\ Len(t) \in Nat /\ Len(c) \in Nat
      /\ q \in Seq(Atoms) /\ Len(q) = Len(t) + 2 + Len(c) /\ Len(q) = Len(a) + 2 + Len(b)
      /\ \A i \in 1..Len(t) : q[i] = t[i]
      /\ \A i \in 1..Len(a) : q[i] = a[i]
      /\ q[Len(a) + 1] = Underscore /\ q[Len(a) + 2] = Underscore
      /\ \A i \in 1..Len(c) : q[Len(t) + 2 + i] = c[i]
      /\ \A i \in 1..Len(b) : q[Len(a) + 2 + i] = b[i]
  <2>1. /\ Len(a) \in Nat /\ Len(b) \in Nat /\ Len(t) \in Nat /\ Len(c) \in Nat
        /\ q = Qualified(a, b)
    OBVIOUS
  <2>2. /\ q \in Seq(Atoms) /\ Len(q) = Len(t) + 2 + Len(c)
        /\ \A i \in 1..Len(t) : q[i] = t[i]
        /\ \A i \in 1..Len(c) : q[Len(t) + 2 + i] = c[i]
    BY QualifiedIs, Zenon
  <2>3. /\ Len(q) = Len(a) + 2 + Len(b)
        /\ \A i \in 1..Len(a) : q[i] = a[i]
        /\ q[Len(a) + 1] = Underscore /\ q[Len(a) + 2] = Underscore
        /\ \A i \in 1..Len(b) : q[Len(a) + 2 + i] = b[i]
    <3>1. Qualified(a, b) = q
      OBVIOUS
    <3> HIDE DEF q
    <3>2. /\ Len(Qualified(a, b)) = Len(a) + 2 + Len(b)
          /\ \A i \in 1..Len(a) : Qualified(a, b)[i] = a[i]
          /\ Qualified(a, b)[Len(a) + 1] = Underscore /\ Qualified(a, b)[Len(a) + 2] = Underscore
          /\ \A i \in 1..Len(b) : Qualified(a, b)[Len(a) + 2 + i] = b[i]
      BY QualifiedIs, Zenon
    <3> QED BY <3>1, <3>2
  <2> HIDE DEF q
  <2> QED BY <2>1, <2>2, <2>3
<1>2. Occurrences(q, Sep) = {Len(t) + 1}
  BY OneSeparator
<1> HIDE DEF q
<1>3. AtSep(q, Len(a) + 1)
  BY <1>1 DEF AtSep
<1>4. Len(a) = Len(t) /\ Len(b) = Len(c)
  BY <1>1, <1>2, <1>3, AtSepIs
<1>5. a = t
  BY <1>1, <1>4, SeqEqual
<1>6. b = c
  BY <1>1, <1>4, SeqEqual
<1> QED BY <1>5, <1>6

(* A name without a separator is not that of a column of a table.                     *)
LEMMA NotQualified ==
  ASSUME NEW s \in Seq(Atoms), Occurrences(s, Sep) = {},
         NEW a \in Seq(Atoms), NEW b \in Seq(Atoms)
  PROVE  s # Qualified(a, b)
<1> SUFFICES ASSUME s = Qualified(a, b) PROVE FALSE
  OBVIOUS
<1>1. Len(s) = Len(a) + 2 + Len(b) /\ s[Len(a) + 1] = Underscore /\ s[Len(a) + 2] = Underscore
  BY QualifiedIs
<1>2. Len(a) \in Nat /\ Len(b) \in Nat
  OBVIOUS
<1>3. AtSep(s, Len(a) + 1)
  BY <1>1, <1>2 DEF AtSep
<1> QED BY <1>2, <1>3, AtSepIs

(* What a suffix __c says of a name.                                              *)
LEMMA EndsIn ==
  ASSUME NEW s \in Seq(Atoms), NEW c \in Seq(Atoms)
  PROVE  /\ IsSuffix(Sep \o c, s) => Cut(s, Sep \o c) \in Seq(Atoms)
                                     /\ s = Qualified(Cut(s, Sep \o c), c)
         /\ \A t \in Seq(Atoms) : s = Qualified(t, c) => IsSuffix(Sep \o c, s)
<1> DEFINE u == Sep \o c
<1>1. u \in Seq(Atoms) /\ \A t \in Seq(Atoms) : Qualified(t, c) = t \o u
  BY QualifiedIs
<1>2. ASSUME NEW t \in Seq(Atoms), s = t \o u PROVE IsSuffix(u, s)
  <2> HIDE DEF u
  <2>1. Len(u) \in Nat /\ Len(t) \in Nat /\ Len(s) = Len(t) + Len(u)
    BY <1>1, <1>2
  <2>2. \A i \in 1..Len(u) : s[Len(t) + i] = u[i]
    BY <1>1, <1>2
  <2>3. \A i \in 1..Len(u) : Len(s) - Len(u) + i = Len(t) + i
    BY <2>1
  <2>4. \A i \in 1..Len(u) : s[Len(s) - Len(u) + i] = u[i]
    BY <2>2, <2>3
  <2>5. Len(u) <= Len(s)
    BY <2>1
  <2> QED BY <2>4, <2>5, <1>1, SuffixIs
<1>3. ASSUME IsSuffix(u, s) PROVE Cut(s, u) \in Seq(Atoms) /\ s = Qualified(Cut(s, u), c)
  <2>1. Cut(s, u) \in Seq(Atoms) /\ s = Cut(s, u) \o u
    BY <1>1, <1>3, SuffixCut
  <2> QED BY <2>1, <1>1
<1> QED BY <1>1, <1>2, <1>3

-----------------------------------------------------------------------------
(* The columns that pass a test, one list for each column, put together.            *)
LEMMA FlattenIs ==
  ASSUME NEW V, NEW ss \in Seq(Seq(V)), ss # <<>>
  PROVE  \E f \in [1..Len(ss) -> Seq(V)] :
           /\ FlattenSeq(ss) = f[Len(ss)]
           /\ \A i \in 1..Len(ss) : f[i] = IF i = 1 THEN ss[i] ELSE f[i - 1] \o ss[i]
<1> DEFINE N == Len(ss)
           W == Seq(V)
           F == [1..N -> W]
           B == [p \in F \X (1..N) |->
                   IF p[2] = 1 THEN ss[p[2]] ELSE p[1][p[2] - 1] \o ss[p[2]]]
<1>1. N \in Nat \ {0} /\ \A i \in 1..N : ss[i] \in W
  OBVIOUS
<1>2. ASSUME NEW f \in F, NEW k \in 1..N
      PROVE  /\ B[<<f, k>>] = IF k = 1 THEN ss[k] ELSE f[k - 1] \o ss[k]
             /\ B[<<f, k>>] \in W
  <2>1. B[<<f, k>>] = IF k = 1 THEN ss[k] ELSE f[k - 1] \o ss[k]
    OBVIOUS
  <2>2. k = 1 \/ k - 1 \in 1..N
    OBVIOUS
  <2>3. k # 1 => f[k - 1] \in Seq(V)
    BY <2>2
  <2>4. k # 1 => f[k - 1] \o ss[k] \in Seq(V)
    <3>1. ss[k] \in Seq(V)
      BY <1>1
    <3> QED BY <2>3, <3>1, ConcatProperties
  <2> HIDE DEF B
  <2> QED BY <2>1, <2>4, <1>1
<1>3. IsBody(B, N, W)
  <2>1. B \in [F \X (1..N) -> W]
    <3>1. ASSUME NEW p \in F \X (1..N) PROVE B[p] \in W
      <4>1. PICK f \in F, k \in 1..N : p = <<f, k>>
        OBVIOUS
      <4> HIDE DEF B, F, N, W
      <4> QED BY <1>2, <4>1
    <3> HIDE DEF W
    <3> QED BY <3>1
  <2>2. ASSUME NEW f \in F, NEW g \in F, NEW k \in 1..N, Agree(f, g, k)
        PROVE  B[<<f, k>>] = B[<<g, k>>]
    <3>1. k = 1 \/ k - 1 \in 1..(k - 1)
      OBVIOUS
    <3>2. k = 1 \/ f[k - 1] = g[k - 1]
      BY <2>2, <3>1 DEF Agree
    <3> HIDE DEF B, F
    <3> QED BY <3>2, <1>2
  <2> HIDE DEF B, W
  <2> QED BY <2>1, <2>2 DEF IsBody
<1>4. Describes(B, N, W)
  <2>1. <<>> \in W
    OBVIOUS
  <2> HIDE DEF B, N, W
  <2> QED BY <1>1, <1>3, <2>1, Recursion
<1> DEFINE Good(f) == f = [i \in 1..N |-> IF i = 1 THEN ss[i] ELSE f[i - 1] \o ss[i]]
           flatten == CHOOSE f : Good(f)
<1>5. PICK f \in F : f = [k \in 1..N |-> B[<<f, k>>]]
  <2> HIDE DEF B, N, W
  <2> QED BY <1>4 DEF Describes
<1>6. Good(f)
  <2>1. \A k \in 1..N : B[<<f, k>>] = IF k = 1 THEN ss[k] ELSE f[k - 1] \o ss[k]
    BY <1>2
  <2> HIDE DEF B, N, W
  <2> QED BY <1>5, <2>1
<1>7. Good(flatten)
  <2> HIDE DEF Good
  <2> QED BY <1>6
<1>8. FlattenSeq(ss) = flatten[Len(ss)]
  BY <1>1 DEF FlattenSeq
<1>9. flatten = [i \in 1..N |-> IF i = 1 THEN ss[i] ELSE flatten[i - 1] \o ss[i]]
  BY <1>7
<1> HIDE DEF flatten
<1>10. \A i \in 1..N : flatten[i] = IF i = 1 THEN ss[i] ELSE flatten[i - 1] \o ss[i]
  BY <1>9, Zenon
<1>11. flatten \in F
  <2> DEFINE P == {i \in 1..N : flatten[i] \in W}
  <2>1. ASSUME NEW k \in 1..N, (1..(k - 1)) \subseteq P PROVE k \in P
    <3>1. k = 1 \/ k - 1 \in 1..(k - 1)
      OBVIOUS
    <3>2. k = 1 \/ flatten[k - 1] \in Seq(V)
      BY <2>1, <3>1
    <3>3. flatten[k] = IF k = 1 THEN ss[k] ELSE flatten[k - 1] \o ss[k]
      BY <1>10
    <3>4. k = 1 \/ flatten[k - 1] \o ss[k] \in Seq(V)
      <4>1. ss[k] \in Seq(V)
        BY <1>1
      <4> QED BY <3>2, <4>1, ConcatProperties
    <3> QED BY <3>3, <3>4, <1>1
  <2>2. P = 1..N
    <3>1. P \in SUBSET (1..N)
      OBVIOUS
    <3> HIDE DEF P, N
    <3> QED BY <2>1, <3>1, <1>1, ForAll
  <2>3. flatten = [i \in 1..N |-> flatten[i]]
    <3> HIDE DEF N
    <3> QED BY <1>9
  <2> QED BY <2>2, <2>3
<1> QED BY <1>8, <1>10, <1>11

LEMMA FlattenFacts ==
  ASSUME NEW V, NEW ss \in Seq(Seq(V)), ss # <<>>
  PROVE  /\ FlattenSeq(ss) \in Seq(V)
         /\ \A x : x \in ToSet(FlattenSeq(ss)) <=> \E i \in 1..Len(ss) : x \in ToSet(ss[i])
         /\ Len(FlattenSeq(ss)) = 1 =>
              \E i \in 1..Len(ss) : /\ ss[i] = FlattenSeq(ss)
                                    /\ \A j \in 1..Len(ss) : j # i => ss[j] = <<>>
         /\ \A i \in 1..Len(ss) :
              (\A j \in 1..Len(ss) : j # i => ss[j] = <<>>) => FlattenSeq(ss) = ss[i]
<1>1. PICK f \in [1..Len(ss) -> Seq(V)] :
        /\ FlattenSeq(ss) = f[Len(ss)]
        /\ \A i \in 1..Len(ss) : f[i] = IF i = 1 THEN ss[i] ELSE f[i - 1] \o ss[i]
  BY FlattenIs
<1> DEFINE N == Len(ss)
           Empty(k) == (\A j \in 1..k : ss[j] = <<>>) <=> f[k] = <<>>
           Elems(k) == \A x : x \in ToSet(f[k]) <=> \E i \in 1..k : x \in ToSet(ss[i])
           One(k) == Len(f[k]) = 1 =>
                       \E i \in 1..k : ss[i] = f[k] /\ \A j \in 1..k : j # i => ss[j] = <<>>
           Only(k) == \A i \in 1..k : (\A j \in 1..k : j # i => ss[j] = <<>>) => f[k] = ss[i]
           P == {k \in 1..N : Empty(k) /\ Elems(k) /\ One(k) /\ Only(k)}
<1>2. N \in Nat \ {0} /\ \A i \in 1..N : ss[i] \in Seq(V) /\ f[i] \in Seq(V)
  <2>1. N \in Nat \ {0} /\ \A i \in 1..N : ss[i] \in Seq(V)
    OBVIOUS
  <2>2. \A i \in 1..N : f[i] \in Seq(V)
    <3> HIDE DEF N
    <3>1. f \in [1..N -> Seq(V)]
      BY DEF N
    <3> QED BY <3>1, Zenon
  <2> QED BY <2>1, <2>2
<1>3. ASSUME NEW k \in 1..N, (1..(k - 1)) \subseteq P PROVE k \in P
  <2>1. CASE k = 1
    <3>1. f[1] = ss[1] /\ 1..1 = {1}
      <4>1. 1 \in 1..N
        BY <1>2
      <4>2. f[1] = IF 1 = 1 THEN ss[1] ELSE f[1 - 1] \o ss[1]
        BY <1>1, <4>1
      <4> QED BY <4>2
    <3> QED BY <2>1, <3>1
  <2>2. CASE k # 1
    <3> DEFINE h == k - 1
    <3>1. h \in 1..N /\ h \in 1..(k - 1) /\ \A j : j \in 1..k <=> j \in 1..h \/ j = k
      BY <2>2
    <3>2. k \notin 1..h
      OBVIOUS
    <3>3. Empty(h) /\ Elems(h) /\ One(h) /\ Only(h)
      BY <3>1, <1>3
    <3>4. PICK a \in Seq(V), b \in Seq(V) : a = f[h] /\ b = ss[k]
      BY <3>1, <1>2
    <3>5. f[k] = a \o b
      BY <1>1, <2>2, <3>4
    <3> HIDE DEF h, P
    <3>6. /\ a \o b = <<>> <=> a = <<>> /\ b = <<>>
          /\ a = <<>> => a \o b = b
          /\ b = <<>> => a \o b = a
          /\ Len(a \o b) = 1 => (a = <<>> /\ Len(b) = 1) \/ (b = <<>> /\ Len(a) = 1)
      <4>1. Len(a \o b) = Len(a) + Len(b) /\ Len(a) \in Nat /\ Len(b) \in Nat
        OBVIOUS
      <4>2. (a = <<>> <=> Len(a) = 0) /\ (b = <<>> <=> Len(b) = 0) /\ (a \o b = <<>> <=> Len(a \o b) = 0)
        OBVIOUS
      <4>3. (a = <<>> => a \o b = b) /\ (b = <<>> => a \o b = a)
        BY ConcatEmptySeq
      <4> DEFINE c == a \o b
                 m == Len(a)
                 n == Len(b)
      <4>4. Len(c) = m + n /\ m \in Nat /\ n \in Nat
            /\ (a = <<>> <=> m = 0) /\ (b = <<>> <=> n = 0) /\ (c = <<>> <=> Len(c) = 0)
        BY <4>1, <4>2
      <4> HIDE DEF c, m, n
      <4>5. /\ c = <<>> <=> a = <<>> /\ b = <<>>
            /\ Len(c) = 1 => (a = <<>> /\ n = 1) \/ (b = <<>> /\ m = 1)
        BY <4>4
      <4> QED BY <4>3, <4>5 DEF c, m, n
    <3>7. \A x : x \in ToSet(a \o b) <=> x \in ToSet(a) \/ x \in ToSet(b)
      <4>1. ToSet(a) = Range(a) /\ ToSet(b) = Range(b) /\ ToSet(a \o b) = Range(a \o b)
        BY DEF ToSet, Range
      <4> QED BY <4>1, RangeConcatenation
    <3>8. Empty(k)
      BY <3>1, <3>3, <3>4, <3>5, <3>6
    <3>9. Elems(k)
      <4> SUFFICES ASSUME NEW x
                   PROVE  x \in ToSet(f[k]) <=> \E i \in 1..k : x \in ToSet(ss[i])
        OBVIOUS
      <4>1. x \in ToSet(f[k]) <=> x \in ToSet(f[h]) \/ x \in ToSet(ss[k])
        BY <3>4, <3>5, <3>7
      <4>2. x \in ToSet(f[h]) <=> \E i \in 1..h : x \in ToSet(ss[i])
        BY <3>3
      <4> QED BY <4>1, <4>2, <3>1, Zenon
    <3>10. One(k)
      <4> SUFFICES ASSUME Len(f[k]) = 1
                   PROVE  \E i \in 1..k : ss[i] = f[k] /\ \A j \in 1..k : j # i => ss[j] = <<>>
        OBVIOUS
      <4>1. CASE a = <<>> /\ Len(b) = 1
        <5>1. f[k] = ss[k] /\ \A j \in 1..h : ss[j] = <<>>
          BY <4>1, <3>3, <3>4, <3>5, <3>6
        <5>2. k \in 1..k
          BY <3>1
        <5> QED BY <5>1, <5>2, <3>1
      <4>2. CASE b = <<>> /\ Len(a) = 1
        <5>1. PICK i \in 1..h : ss[i] = f[h] /\ \A j \in 1..h : j # i => ss[j] = <<>>
          BY <4>2, <3>3, <3>4
        <5>2. i \in 1..k /\ ss[i] = f[k] /\ ss[k] = <<>>
          BY <4>2, <5>1, <3>1, <3>4, <3>5, <3>6
        <5> QED BY <5>1, <5>2, <3>1
      <4> QED BY <4>1, <4>2, <3>5, <3>6
    <3>11. Only(k)
      <4> SUFFICES ASSUME NEW i \in 1..k, \A j \in 1..k : j # i => ss[j] = <<>>
                   PROVE  f[k] = ss[i]
        OBVIOUS
      <4>1. CASE i = k
        <5>1. \A j \in 1..h : ss[j] = <<>>
          BY <4>1, <3>1, <3>2
        <5>2. a = <<>>
          BY <5>1, <3>3, <3>4
        <5> QED BY <5>2, <4>1, <3>4, <3>5, <3>6
      <4>2. CASE i # k
        <5>1. i \in 1..h /\ k \in 1..k
          BY <4>2, <3>1
        <5>2. ss[k] = <<>> /\ \A j \in 1..h : j # i => ss[j] = <<>>
          BY <5>1, <4>2, <3>1
        <5>3. f[h] = ss[i]
          BY <5>1, <5>2, <3>3
        <5> QED BY <5>2, <5>3, <3>4, <3>5, <3>6
      <4> QED BY <4>1, <4>2
    <3> QED BY <3>8, <3>9, <3>10, <3>11 DEF P
  <2> QED BY <2>1, <2>2
<1>4. P = 1..N
  <2>1. P \in SUBSET (1..N)
    OBVIOUS
  <2> HIDE DEF P, N
  <2> QED BY <2>1, <1>2, <1>3, ForAll
<1>5. N \in P
  <2> HIDE DEF P
  <2> QED BY <1>2, <1>4
<1>6. f[N] \in Seq(V) /\ Elems(N) /\ One(N) /\ Only(N)
  BY <1>2, <1>5
<1> HIDE DEF N
<1>7. FlattenSeq(ss) = f[N] /\ N = Len(ss)
  BY <1>1 DEF N
<1> QED BY <1>6, <1>7

-----------------------------------------------------------------------------
(* The relations.  Each column is that of a condition, or one of a table of the        *)
(* query, whose other columns are then there too.                                  *)
Cols == [name : Seq(Atoms), of : Seq(Atoms), col : Seq(Atoms)]
Condition == Column(CondCol, NoName, CondCol)
Numbers == Column(HqlCol, NoName, HqlCol)

IsRelation(T, cols) ==
  /\ cols \in Seq(Cols)
  /\ \A x \in ToSet(cols) :
       \/ x = Condition
       \/ \E t \in T : x \in ToSet(Loaded(t)) /\ ToSet(Loaded(t)) \subseteq ToSet(cols)

QueryInv == query \in Queries /\ next \in Nat \ {0}

PartsInv == IsRelation(Sources, done) /\ IsRelation(Sources, left)

JoinInv ==
  /\ IsRelation(Sources, join.left)
  /\ join.right = <<>> \/ \E t \in Sources : join.right = Loaded(t)
  /\ join.how \in {"comma", "cross", "theta"} => join.on = {}
  /\ join.how = "natural" => join.on = NaturalPairs(join.left, join.right)
  /\ join.how = "using" =>
       LET l == ColumnMap(join.left)
           r == ColumnMap(join.right)
       IN  /\ join.using \in DOMAIN l \cap DOMAIN r
           /\ join.on = {<<l[join.using], r[join.using]>>}
  /\ join.how \in {"comma", "cross", "natural", "using", "theta"}

(* The product is made of the parts, and of the column that numbers its rows.          *)
ProductInv ==
  product # <<>> => product = (done \o left) \o <<Numbers>> /\ Distinct(done \o left)

(* What QtColumn makes of the reference.                                         *)
Result ==
  IF query.column = Star
  THEN IF query.table = NoName THEN [kind |-> "columns", cols |-> product]
                               ELSE ColumnsOf(query.table)
  ELSE IF query.table # NoName THEN Fetched(query.table, Qualified(query.table, query.column))
                               ELSE OnlyMatch(Found(query.column))

AnswerInv ==
  IF product = <<>> THEN answer \in {NoAnswer, Error} ELSE answer \in {NoAnswer, Result}

IInv == QueryInv /\ PartsInv /\ JoinInv /\ ProductInv /\ AnswerInv

-----------------------------------------------------------------------------
(* The columns of one table, and of relations side by side.                          *)
LEMMA LoadedIs ==
  ASSUME NEW t \in DOMAIN Catalogue
  PROVE  /\ t \in Seq(Atoms)
         /\ Loaded(t) \in Seq(Cols)
         /\ \A x \in ToSet(Loaded(t)) :
              /\ x.col \in Seq(Atoms) /\ x = Column(Qualified(t, x.col), t, x.col)
              /\ Relational(t) => x.col \in ToSet(Catalogue[t].cols)
              /\ ~Relational(t) => x.col \in {Oid, Filename}
         /\ ~Relational(t) => \A c \in {Oid, Filename} :
                                Column(Qualified(t, c), t, c) \in ToSet(Loaded(t))
<1> DEFINE cs == IF Catalogue[t].system = "POSTGRES" THEN Catalogue[t].cols ELSE <<Oid, Filename>>
           s == [i \in DOMAIN cs |-> Column(Qualified(t, cs[i]), t, cs[i])]
<1>1. t \in Seq(Atoms) /\ Catalogue[t].cols \in Seq(Seq(Atoms))
  BY CatalogueAssumption
<1>2. cs \in Seq(Seq(Atoms))
  <2>1. Oid \in Seq(Atoms) /\ Filename \in Seq(Atoms)
    BY Symbols
  <2>2. <<Oid, Filename>> \in Seq(Seq(Atoms))
    <3> DEFINE A == Seq(Atoms)
    <3>1. Oid \in A /\ Filename \in A
      BY <2>1
    <3> HIDE DEF A
    <3>2. <<Oid, Filename>> \in Seq(A)
      BY <3>1
    <3> QED BY <3>2 DEF A
  <2> QED BY <1>1, <2>2
<1>3. Loaded(t) = s
  BY DEF Loaded
<1>4. Relational(t) => cs = Catalogue[t].cols
  BY DEF Relational
<1>5. ~Relational(t) => cs = <<Oid, Filename>>
  BY DEF Relational
<1> HIDE DEF cs
<1>6. DOMAIN cs = 1..Len(cs) /\ Len(cs) \in Nat /\ \A i \in 1..Len(cs) : cs[i] \in Seq(Atoms)
  BY <1>2
<1>7. \A c \in Seq(Atoms) : Column(Qualified(t, c), t, c) \in Cols
  BY <1>1, QualifiedIs DEF Column, Cols
<1>8. s \in Seq(Cols) /\ DOMAIN s = 1..Len(cs)
      /\ \A i \in 1..Len(cs) : s[i] = Column(Qualified(t, cs[i]), t, cs[i])
  <2>1. \A i \in 1..Len(cs) : Column(Qualified(t, cs[i]), t, cs[i]) \in Cols
    BY <1>6, <1>7
  <2>2. s = [i \in 1..Len(cs) |-> Column(Qualified(t, cs[i]), t, cs[i])]
    BY <1>6
  <2> DEFINE S == Cols
  <2> HIDE DEF S
  <2>3. s \in Seq(S)
    <3>1. \A i \in 1..Len(cs) : Column(Qualified(t, cs[i]), t, cs[i]) \in S
      BY <2>1 DEF S
    <3> HIDE DEF s
    <3> QED BY <3>1, <2>2, <1>6
  <2> QED BY <2>2, <2>3 DEF S
<1> HIDE DEF s
<1>9. ASSUME NEW x \in ToSet(s)
      PROVE  /\ x.col \in Seq(Atoms) /\ x = Column(Qualified(t, x.col), t, x.col)
             /\ Relational(t) => x.col \in ToSet(Catalogue[t].cols)
             /\ ~Relational(t) => x.col \in {Oid, Filename}
  <2>1. PICK i \in 1..Len(cs) : x = s[i]
    BY <1>8 DEF ToSet
  <2>2. x.col = cs[i]
    BY <1>8, <2>1 DEF Column
  <2>3. cs[i] \in ToSet(cs)
    BY <1>6 DEF ToSet
  <2>4. ~Relational(t) => cs[i] \in {Oid, Filename}
    BY <1>5, <1>6
  <2> QED BY <1>4, <1>6, <1>8, <2>1, <2>2, <2>3, <2>4
<1>10. ASSUME ~Relational(t), NEW c \in {Oid, Filename}
       PROVE  Column(Qualified(t, c), t, c) \in ToSet(s)
  <2>1. cs = <<Oid, Filename>> /\ Len(cs) = 2
    BY <1>5, <1>10
  <2>2. PICK i \in 1..2 : c = cs[i]
    BY <2>1
  <2> QED BY <1>8, <2>1, <2>2 DEF ToSet
<1> QED BY <1>1, <1>3, <1>8, <1>9, <1>10

LEMMA ToSetConcat ==
  ASSUME NEW S, NEW a \in Seq(S), NEW b \in Seq(S)
  PROVE  ToSet(a \o b) = ToSet(a) \cup ToSet(b)
<1>1. ToSet(a) = Range(a) /\ ToSet(b) = Range(b) /\ ToSet(a \o b) = Range(a \o b)
  BY DEF ToSet, Range
<1> QED BY <1>1, RangeConcatenation

LEMMA RelationConcat ==
  ASSUME NEW T, NEW a, NEW b, IsRelation(T, a), IsRelation(T, b)
  PROVE  IsRelation(T, a \o b)
<1>1. a \in Seq(Cols) /\ b \in Seq(Cols)
  BY DEF IsRelation
<1>2. a \o b \in Seq(Cols)
  BY <1>1, ConcatProperties
<1>3. ToSet(a \o b) = ToSet(a) \cup ToSet(b)
  BY <1>1, ToSetConcat
<1>4. ASSUME NEW x \in ToSet(a \o b)
      PROVE  \/ x = Condition
             \/ \E t \in T : x \in ToSet(Loaded(t)) /\ ToSet(Loaded(t)) \subseteq ToSet(a \o b)
  <2>1. x \in ToSet(a) \/ x \in ToSet(b)
    BY <1>3
  <2> QED BY <1>3, <2>1 DEF IsRelation
<1> QED BY <1>2, <1>4 DEF IsRelation

LEMMA RelationLoaded ==
  ASSUME NEW T \in SUBSET DOMAIN Catalogue, NEW t \in T
  PROVE  IsRelation(T, Loaded(t))
BY LoadedIs DEF IsRelation

LEMMA RelationCondition ==
  ASSUME NEW T PROVE IsRelation(T, <<Condition>>) /\ IsRelation(T, <<>>)
<1>1. Condition \in Cols
  BY Symbols DEF Condition, Column, Cols
<1>2. <<Condition>> \in Seq(Cols) /\ <<>> \in Seq(Cols)
  <2> DEFINE S == Cols
  <2>1. Condition \in S
    BY <1>1
  <2> HIDE DEF S
  <2>2. <<Condition>> \in Seq(S) /\ <<>> \in Seq(S)
    BY <2>1
  <2> QED BY <2>2 DEF S
<1>3. ToSet(<<Condition>>) = {Condition} /\ ToSet(<<>>) = {}
  BY DEF ToSet
<1> QED BY <1>2, <1>3 DEF IsRelation

LEMMA FromIs ==
  ASSUME QueryInv
  PROVE  /\ Sources \in SUBSET DOMAIN Catalogue
         /\ next <= Len(query.from) => Element.table \in Sources
         /\ query.table \in Seq(Atoms) /\ query.column \in Seq(Atoms)
<1>1. query.from \in Seq(Elements) /\ query.table \in Seq(Atoms) /\ query.column \in Seq(Atoms)
  BY QueriesAssumption DEF QueryInv
<1>2. DOMAIN query.from = 1..Len(query.from) /\ Len(query.from) \in Nat
      /\ \A i \in 1..Len(query.from) : query.from[i] \in Elements
  <2> DEFINE S == Elements
  <2>1. query.from \in Seq(S)
    BY <1>1
  <2> HIDE DEF S
  <2>2. DOMAIN query.from = 1..Len(query.from) /\ Len(query.from) \in Nat
        /\ \A i \in 1..Len(query.from) : query.from[i] \in S
    BY <2>1
  <2> QED BY <2>2 DEF S
<1>3. \A i \in 1..Len(query.from) : query.from[i].table \in DOMAIN Catalogue
  BY <1>2 DEF Elements
<1>4. Sources \in SUBSET DOMAIN Catalogue
  BY <1>2, <1>3 DEF Sources
<1>5. ASSUME next <= Len(query.from) PROVE Element.table \in Sources
  <2>1. next \in DOMAIN query.from
    BY <1>2, <1>5 DEF QueryInv
  <2> QED BY <2>1 DEF Element, Sources
<1> QED BY <1>1, <1>4, <1>5

-----------------------------------------------------------------------------
LEMMA InitInv == Init => IInv
<1> SUFFICES ASSUME Init PROVE IInv
  OBVIOUS
<1>1. QueryInv
  BY DEF Init, QueryInv
<1>2. PartsInv
  BY RelationCondition DEF Init, PartsInv
<1>3. JoinInv
  BY RelationCondition DEF Init, JoinInv, NoJoin
<1>4. ProductInv /\ AnswerInv
  BY DEF Init, ProductInv, AnswerInv
<1> QED BY <1>1, <1>2, <1>3, <1>4 DEF IInv

(* The steps of the FROM list: the product is not there yet.                          *)
LEMMA Elementary ==
  ASSUME IInv, NEW how, HasElement(how)
  PROVE  /\ product = <<>> /\ answer = NoAnswer /\ next + 1 \in Nat \ {0} /\ query \in Queries
         /\ IsRelation(Sources, Loaded(Element.table)) /\ Element.table \in Sources
         /\ IsRelation(Sources, left) /\ IsRelation(Sources, done)
<1>1. Building /\ next <= Len(query.from)
  BY DEF HasElement
<1>2. IsRelation(Sources, Loaded(Element.table)) /\ Element.table \in Sources
  BY <1>1, FromIs, RelationLoaded DEF IInv
<1> QED BY <1>1, <1>2 DEF Building, IInv, QueryInv, PartsInv

LEMMA StepJoin ==
  ASSUME IInv, NEW how \in {"cross", "natural", "using", "theta"}, NEW u, NEW on,
         HasElement(how), JoinInto(how, u, Loaded(Element.table), on),
         next' = next + 1, UNCHANGED <<query, done, product>>,
         how \in {"cross", "theta"} => on = {},
         how = "natural" => on = NaturalPairs(left, Loaded(Element.table)),
         how = "using" =>
           LET l == ColumnMap(left)
               r == ColumnMap(Loaded(Element.table))
           IN  u \in DOMAIN l \cap DOMAIN r /\ on = {<<l[u], r[u]>>}
  PROVE  IInv'
<1> DEFINE r == Loaded(Element.table)
           cols == IF how = "theta" THEN left \o r \o <<Condition>> ELSE left \o r
<1>1. /\ product = <<>> /\ answer = NoAnswer /\ next + 1 \in Nat \ {0} /\ query \in Queries
      /\ IsRelation(Sources, r) /\ IsRelation(Sources, left) /\ IsRelation(Sources, done)
      /\ \E t \in Sources : r = Loaded(t)
  BY Elementary
<1>2. /\ left' = cols
      /\ join' = [how |-> how, using |-> u, left |-> left, right |-> r, on |-> on]
      /\ answer' = answer \/ answer' = Error
  BY DEF JoinInto, Condition
<1>3. Sources' = Sources
  BY DEF Sources
<1>4. IsRelation(Sources, cols)
  BY <1>1, RelationConcat, RelationCondition
<1> HIDE DEF r, cols
<1>5. QueryInv'
  BY <1>1 DEF QueryInv
<1>6. PartsInv'
  BY <1>1, <1>2, <1>3, <1>4 DEF PartsInv
<1>7. JoinInv'
  <2>1. /\ join'.how = how /\ join'.using = u /\ join'.left = left /\ join'.right = r
        /\ join'.on = on
    BY <1>2
  <2> QED BY <1>1, <1>3, <2>1 DEF JoinInv, r
<1>8. ProductInv' /\ AnswerInv'
  BY <1>1, <1>2 DEF ProductInv, AnswerInv
<1> QED BY <1>5, <1>6, <1>7, <1>8 DEF IInv

LEMMA StepRefused ==
  ASSUME IInv, NEW how, HasElement(how), answer' = Error, next' = next + 1,
         UNCHANGED <<query, done, left, join, product>>
  PROVE  IInv'
<1>1. product = <<>> /\ next + 1 \in Nat \ {0}
  BY Elementary
<1>2. Sources' = Sources
  BY DEF Sources
<1>3. QueryInv' /\ PartsInv' /\ JoinInv'
  BY <1>1, <1>2 DEF IInv, QueryInv, PartsInv, JoinInv
<1>4. ProductInv' /\ AnswerInv'
  BY <1>1 DEF ProductInv, AnswerInv
<1> QED BY <1>3, <1>4 DEF IInv

LEMMA ResultKept ==
  ASSUME UNCHANGED <<query, product>> PROVE Result' = Result
BY DEF Result, ColumnsOf, Fetched, Found, OnlyMatch, Selected, Names

LEMMA StepSelect ==
  ASSUME IInv, Resolving, answer' = Result,
         UNCHANGED <<query, next, done, left, join, product>>
  PROVE  IInv'
<1>1. Sources' = Sources
  BY DEF Sources
<1>2. QueryInv' /\ PartsInv' /\ JoinInv' /\ ProductInv'
  BY <1>1 DEF IInv, QueryInv, PartsInv, JoinInv, ProductInv
<1>3. Result' = Result
  BY ResultKept
<1>4. AnswerInv'
  BY <1>3 DEF AnswerInv, Resolving
<1> QED BY <1>2, <1>4 DEF IInv

LEMMA NextInv == IInv /\ [Next]_vars => IInv'
<1> SUFFICES ASSUME IInv, [Next]_vars PROVE IInv'
  OBVIOUS
<1>1. CASE NextSource
  <2>1. /\ product = <<>> /\ answer = NoAnswer /\ next + 1 \in Nat \ {0} /\ query \in Queries
        /\ IsRelation(Sources, Loaded(Element.table))
        /\ IsRelation(Sources, left) /\ IsRelation(Sources, done)
    BY <1>1, Elementary DEF NextSource
  <2>2. Sources' = Sources
    BY <1>1 DEF NextSource, Sources
  <2>3. QueryInv'
    BY <1>1, <2>1 DEF NextSource, QueryInv
  <2>4. PartsInv'
    BY <1>1, <2>1, <2>2, RelationConcat DEF NextSource, PartsInv
  <2>5. JoinInv'
    BY <1>1, <2>2, RelationCondition DEF NextSource, JoinInv, NoJoin
  <2>6. ProductInv' /\ AnswerInv'
    BY <1>1, <2>1 DEF NextSource, ProductInv, AnswerInv
  <2> QED BY <2>3, <2>4, <2>5, <2>6 DEF IInv
<1>2. CASE CrossJoin
  BY <1>2, StepJoin DEF CrossJoin
<1>3. CASE NaturalJoin
  <2>1. CASE NaturalPairs(left, Loaded(Element.table)) = {}
    BY <1>3, <2>1, StepRefused DEF NaturalJoin
  <2>2. CASE NaturalPairs(left, Loaded(Element.table)) # {}
    BY <1>3, <2>2, StepJoin DEF NaturalJoin
  <2> QED BY <2>1, <2>2
<1>4. CASE UsingJoin
  <2> DEFINE l == ColumnMap(left)
             r == ColumnMap(Loaded(Element.table))
  <2>1. CASE Element.column \in DOMAIN l \cap DOMAIN r
    BY <1>4, <2>1, StepJoin DEF UsingJoin
  <2>2. CASE Element.column \notin DOMAIN l \cap DOMAIN r
    BY <1>4, <2>2, StepRefused DEF UsingJoin
  <2> QED BY <2>1, <2>2
<1>5. CASE ThetaJoin
  <2>1. CASE JoinInto("theta", NoName, Loaded(Element.table), {})
    BY <1>5, <2>1, StepJoin DEF ThetaJoin
  <2>2. CASE answer' = Error /\ UNCHANGED <<left, join>>
    BY <1>5, <2>2, StepRefused DEF ThetaJoin
  <2> QED BY <1>5, <2>1, <2>2 DEF ThetaJoin
<1>6. CASE Multiply
  <2>1. Sources' = Sources
    BY <1>6 DEF Multiply, Sources
  <2>2. QueryInv' /\ PartsInv' /\ JoinInv'
    BY <1>6, <2>1 DEF Multiply, IInv, QueryInv, PartsInv, JoinInv
  <2>3. ProductInv'
    BY <1>6 DEF Multiply, Building, ProductInv, Numbers
  <2>4. AnswerInv'
    BY <1>6 DEF Multiply, Building, AnswerInv
  <2> QED BY <2>2, <2>3, <2>4 DEF IInv
<1>7. CASE SelectAll \/ SelectTable \/ SelectQualified \/ SelectUnqualified
  BY <1>7, StepSelect DEF SelectAll, SelectTable, SelectQualified, SelectUnqualified, Answer, Result
<1>8. CASE UNCHANGED vars
  <2>1. Sources' = Sources /\ Result' = Result
    BY <1>8, ResultKept DEF vars, Sources
  <2> QED BY <1>8, <2>1 DEF vars, IInv, QueryInv, PartsInv, JoinInv, ProductInv, AnswerInv
<1> QED BY <1>1, <1>2, <1>3, <1>4, <1>5, <1>6, <1>7, <1>8 DEF Next

THEOREM Invariance == Spec => []IInv
<1> QED BY InitInv, NextInv, PTL DEF Spec

-----------------------------------------------------------------------------
(* The names of the columns of a query whose names are plain.                         *)
Named(x) ==
  /\ x \in Cols /\ x.of \in Sources /\ x.of # NoName
  /\ x.name = Qualified(x.of, x.col) /\ Plain(x.of) /\ Plain(x.col)
  /\ x \in ToSet(Loaded(x.of))

LEMMA NamedIs ==
  ASSUME QueryInv, PlainQuery, NEW t \in Sources, NEW x \in ToSet(Loaded(t))
  PROVE  Named(x) /\ x.of = t
<1>1. t \in DOMAIN Catalogue
  BY FromIs
<1>2. /\ t \in Seq(Atoms) /\ Loaded(t) \in Seq(Cols)
      /\ x.col \in Seq(Atoms) /\ x = Column(Qualified(t, x.col), t, x.col)
      /\ Relational(t) => x.col \in ToSet(Catalogue[t].cols)
      /\ ~Relational(t) => x.col \in {Oid, Filename}
  BY <1>1, LoadedIs
<1>3. x.of = t /\ x.name = Qualified(t, x.col)
  BY <1>2 DEF Column
<1>4. Plain(t)
  BY DEF PlainQuery
<1>5. Plain(x.col)
  <2>1. CASE Relational(t)
    BY <1>2, <2>1 DEF PlainQuery, ToSet
  <2>2. CASE ~Relational(t)
    BY <1>2, <2>2, Symbols
  <2> QED BY <2>1, <2>2
<1>6. x \in Cols
  BY <1>2, QualifiedIs DEF Column, Cols
<1>7. t # NoName
  BY <1>4 DEF Plain, NoName
<1> QED BY <1>3, <1>4, <1>5, <1>6, <1>7 DEF Named

LEMMA RelationNamed ==
  ASSUME QueryInv, PlainQuery, NEW cols, IsRelation(Sources, cols), NEW x \in ToSet(cols),
         x # Condition
  PROVE  Named(x) /\ ToSet(Loaded(x.of)) \subseteq ToSet(cols)
<1>1. PICK t \in Sources : x \in ToSet(Loaded(t)) /\ ToSet(Loaded(t)) \subseteq ToSet(cols)
  BY DEF IsRelation
<1> QED BY <1>1, NamedIs

(* getColumns() finds the column in the name.                                     *)
LEMMA UnqualifiedIs ==
  ASSUME NEW t \in Seq(Atoms), NEW c \in Seq(Atoms), Plain(t), Plain(c)
  PROVE  Unqualified(Qualified(t, c)) = c
<1> DEFINE q == Qualified(t, c)
<1>1. Occurrences(q, Sep) = {Len(t) + 1}
  BY OneSeparator
<1>2. /\ q \in Seq(Atoms) /\ Len(q) = Len(t) + 2 + Len(c)
      /\ \A i \in 1..Len(c) : q[Len(t) + 2 + i] = c[i]
  BY QualifiedIs
<1>3. Len(t) \in Nat /\ Len(c) \in Nat
  OBVIOUS
<1> HIDE DEF q
<1>4. Min(Occurrences(q, Sep)) = Len(t) + 1
  <2> DEFINE k == Len(t) + 1
  <2>1. k \in Int /\ Occurrences(q, Sep) = {k}
    BY <1>1, <1>3
  <2> HIDE DEF k
  <2>2. \A y \in {k} : k <= y
    BY <2>1
  <2>3. Min({k}) \in {k}
    BY <2>2, Zenon DEF Min
  <2>4. Min(Occurrences(q, Sep)) = k
    BY <2>1, <2>3
  <2> QED BY <2>4 DEF k
<1>5. Unqualified(q) = SubSeq(q, Len(t) + 1 + Len(Sep), Len(q))
  BY <1>1, <1>4 DEF Unqualified
<1>6. Len(Sep) = 2
  BY Symbols
<1> DEFINE u == SubSeq(q, Len(t) + 3, Len(q))
<1>7. Unqualified(q) = u
  <2>1. Len(t) + 1 + Len(Sep) = Len(t) + 3
    BY <1>3, <1>6
  <2> QED BY <1>5, <2>1
<1>8. u \in Seq(Atoms) /\ Len(u) = Len(c) /\ \A i \in 1..Len(c) : u[i] = q[Len(t) + 2 + i]
  <2> DEFINE m == Len(t) + 3
             n == Len(q)
  <2>1. m \in 1..(n + 1) /\ n - m + 1 = Len(c)
    BY <1>2, <1>3
  <2>2. \A i \in m..n : q[i] \in Atoms
    BY <1>2, <1>3
  <2>3. SubSeq(q, m, n) \in Seq(Atoms) /\ Len(SubSeq(q, m, n)) = n - m + 1
        /\ \A i \in 1..(n - m + 1) : SubSeq(q, m, n)[i] = q[m + i - 1]
    <3>1. m \in Int /\ n \in Int /\ n - m + 1 \in Nat
      BY <1>2, <1>3, <2>1
    <3> HIDE DEF m, n
    <3> QED BY <2>2, <3>1
  <2>4. \A i \in 1..Len(c) : m + i - 1 = Len(t) + 2 + i
    BY <1>3
  <2> QED BY <2>1, <2>3, <2>4
<1> HIDE DEF u
<1>9. u = c
  BY <1>2, <1>8, SeqEqual
<1> QED BY <1>7, <1>9 DEF q

LEMMA ColumnMapIs ==
  ASSUME NEW cols \in Seq(Cols), \A x \in ToSet(cols) : Named(x)
  PROVE  /\ DOMAIN ColumnMap(cols) = {x.col : x \in ToSet(cols)}
         /\ \A u \in DOMAIN ColumnMap(cols) :
              ColumnMap(cols)[u] \in ToSet(cols) /\ ColumnMap(cols)[u].col = u
<1>1. DOMAIN cols = 1..Len(cols) /\ Len(cols) \in Nat
  OBVIOUS
<1>2. \A i \in DOMAIN cols : cols[i] \in ToSet(cols) /\ Unqualified(cols[i].name) = cols[i].col
  <2> SUFFICES ASSUME NEW i \in DOMAIN cols
               PROVE  cols[i] \in ToSet(cols) /\ Unqualified(cols[i].name) = cols[i].col
    OBVIOUS
  <2>1. cols[i] \in ToSet(cols)
    BY DEF ToSet
  <2>2. /\ cols[i].of \in Seq(Atoms) /\ cols[i].col \in Seq(Atoms)
        /\ Plain(cols[i].of) /\ Plain(cols[i].col)
        /\ cols[i].name = Qualified(cols[i].of, cols[i].col)
    BY <2>1 DEF Named, Cols
  <2> QED BY <2>1, <2>2, UnqualifiedIs
<1>3. DOMAIN ColumnMap(cols) = {cols[i].col : i \in DOMAIN cols}
  BY <1>2 DEF ColumnMap
<1>4. {cols[i].col : i \in DOMAIN cols} = {x.col : x \in ToSet(cols)}
  BY DEF ToSet
<1>5. ASSUME NEW u \in DOMAIN ColumnMap(cols)
      PROVE  ColumnMap(cols)[u] \in ToSet(cols) /\ ColumnMap(cols)[u].col = u
  <2> DEFINE same == {i \in DOMAIN cols : Unqualified(cols[i].name) = u}
  <2>1. ColumnMap(cols)[u] = cols[Max(same)]
    BY DEF ColumnMap
  <2>2. same \in SUBSET (1..Len(cols)) /\ same # {}
    BY <1>1, <1>2, <1>3
  <2>3. Max(same) \in same
    <3> HIDE DEF same
    <3>1. Len(cols) \in Int
      BY <1>1
    <3> QED BY <2>2, <3>1, Greatest
  <2>4. Max(same) \in DOMAIN cols /\ Unqualified(cols[Max(same)].name) = u
    BY <2>3
  <2> HIDE DEF same
  <2> QED BY <2>1, <2>4, <1>2
<1> QED BY <1>3, <1>4, <1>5

(* A join compares the columns of equal names, whatever the tables of the catalogue.     *)
THEOREM JoinsAreOnNames == Spec => []JoinIsOnNames
<1>1. IInv => JoinIsOnNames
  <2> SUFFICES ASSUME IInv, PlainQuery, \A x \in ToSet(join.left) : x.of # NoName
               PROVE  LET C(rel) == {y.col : y \in ToSet(rel)}
                          compared == {p[1].col : p \in join.on}
                      IN  /\ \A p \in join.on : p[1].col = p[2].col
                          /\ join.how = "natural" => compared = C(join.left) \cap C(join.right)
                          /\ join.how = "using" => compared = {join.using}
    BY DEF JoinIsOnNames
  <2> DEFINE l == join.left
             r == join.right
             ml == ColumnMap(l)
             mr == ColumnMap(r)
  <2>1. QueryInv /\ JoinInv
    BY DEF IInv
  <2>2. l \in Seq(Cols) /\ \A x \in ToSet(l) : Named(x)
    <3>1. IsRelation(Sources, l)
      BY <2>1 DEF JoinInv
    <3>2. \A x \in ToSet(l) : x # Condition
      BY DEF Condition, Column
    <3> HIDE DEF l
    <3> QED BY <2>1, <3>1, <3>2, RelationNamed DEF IsRelation
  <2>3. r \in Seq(Cols) /\ \A x \in ToSet(r) : Named(x)
    <3>1. CASE r = <<>>
      BY <3>1 DEF ToSet
    <3>2. CASE \E t \in Sources : r = Loaded(t)
      <4>1. PICK t \in Sources : r = Loaded(t)
        BY <3>2
      <4>2. t \in DOMAIN Catalogue
        BY <2>1, FromIs
      <4> QED BY <4>1, <4>2, <2>1, LoadedIs, NamedIs
    <3> QED BY <2>1, <3>1, <3>2 DEF JoinInv
  <2> HIDE DEF l, r
  <2>4. /\ DOMAIN ml = {x.col : x \in ToSet(l)} /\ DOMAIN mr = {x.col : x \in ToSet(r)}
        /\ \A u \in DOMAIN ml : ml[u].col = u
        /\ \A u \in DOMAIN mr : mr[u].col = u
    BY <2>2, <2>3, ColumnMapIs
  <2>5. CASE join.how \in {"comma", "cross", "theta"}
    <3>1. join.on = {}
      BY <2>1, <2>5 DEF JoinInv
    <3> QED BY <2>5, <3>1
  <2>6. CASE join.how = "natural"
    <3>1. join.on = {<<ml[u], mr[u]>> : u \in DOMAIN ml \cap DOMAIN mr}
      BY <2>1, <2>6 DEF JoinInv, NaturalPairs, l, r
    <3> HIDE DEF ml, mr
    <3>2. \A p \in join.on : p[1].col = p[2].col
      BY <3>1, <2>4
    <3>3. {p[1].col : p \in join.on} = DOMAIN ml \cap DOMAIN mr
      <4> DEFINE D == DOMAIN ml \cap DOMAIN mr
      <4>1. \A p \in join.on : \E u \in D : p = <<ml[u], mr[u]>> /\ p[1].col = u
        BY <3>1, <2>4
      <4>2. \A u \in D : \E p \in join.on : p[1].col = u
        <5>1. \A u \in D : <<ml[u], mr[u]>> \in join.on /\ <<ml[u], mr[u]>>[1].col = u
          BY <3>1, <2>4
        <5> QED BY <5>1, Zenon
      <4> HIDE DEF D
      <4>3. {p[1].col : p \in join.on} \subseteq D /\ D \subseteq {p[1].col : p \in join.on}
        BY <4>1, <4>2
      <4> QED BY <4>3 DEF D
    <3> QED BY <2>6, <3>2, <3>3, <2>4 DEF l, r
  <2>7. CASE join.how = "using"
    <3>1. join.using \in DOMAIN ml \cap DOMAIN mr
          /\ join.on = {<<ml[join.using], mr[join.using]>>}
      BY <2>1, <2>7 DEF JoinInv, l, r
    <3> HIDE DEF ml, mr
    <3> QED BY <2>7, <3>1, <2>4
  <2> QED BY <2>1, <2>5, <2>6, <2>7 DEF JoinInv
<1> QED BY <1>1, Invariance, PTL

-----------------------------------------------------------------------------
(* The columns of the product.                                                  *)
Product == IInv /\ PlainQuery /\ product # <<>>

LEMMA ProductIs ==
  ASSUME Product
  PROVE  /\ product \in Seq(Cols) /\ DOMAIN product = 1..Len(product) /\ Len(product) \in Nat \ {0}
         /\ Numbers \in ToSet(product)
         /\ \A x \in ToSet(product) :
              \/ x \in {Condition, Numbers}
              \/ Named(x) /\ ToSet(Loaded(x.of)) \subseteq ToSet(product)
         /\ \A i, j \in DOMAIN product : product[i].name = product[j].name => i = j
<1> DEFINE pre == done \o left
           last == <<Numbers>>
<1>1. QueryInv /\ PlainQuery /\ IsRelation(Sources, pre) /\ Distinct(pre) /\ product = pre \o last
  BY RelationConcat DEF Product, IInv, PartsInv, ProductInv
<1>2. Numbers \in Cols
  BY Symbols DEF Numbers, Column, Cols
<1>3. last \in Seq(Cols) /\ Len(last) = 1 /\ last[1] = Numbers /\ ToSet(last) = {Numbers}
  <2> DEFINE S == Cols
  <2>1. Numbers \in S
    BY <1>2
  <2> HIDE DEF S
  <2>2. <<Numbers>> \in Seq(S)
    BY <2>1
  <2> QED BY <2>2 DEF S, ToSet
<1> HIDE DEF pre, last
<1>4. pre \in Seq(Cols)
  BY <1>1 DEF IsRelation
<1>5. PICK p \in Seq(Cols), s \in Seq(Cols) : p = pre /\ s = last
  BY <1>3, <1>4
<1>6. /\ p \o s \in Seq(Cols) /\ Len(p \o s) = Len(p) + 1
      /\ \A i \in 1..Len(p) : (p \o s)[i] = p[i]
      /\ (p \o s)[Len(p) + 1] = s[1] /\ Len(p) \in Nat /\ DOMAIN p = 1..Len(p)
      /\ DOMAIN (p \o s) = 1..Len(p \o s)
  <2>1. Len(s) = 1
    BY <1>3, <1>5
  <2>2. Len(p \o s) = Len(p) + Len(s) /\ \A i \in 1..Len(s) : (p \o s)[Len(p) + i] = s[i]
    OBVIOUS
  <2> QED BY <2>1, <2>2
<1>7. ToSet(product) = ToSet(pre) \cup {Numbers}
  BY <1>1, <1>3, <1>4, ToSetConcat
<1>8. \A x \in ToSet(pre) :
        \/ x = Condition
        \/ Named(x) /\ ToSet(Loaded(x.of)) \subseteq ToSet(product)
  BY <1>1, <1>7, RelationNamed
<1>9. \A x \in ToSet(pre) : x.name # HqlCol
  <2> SUFFICES ASSUME NEW x \in ToSet(pre) PROVE x.name # HqlCol
    OBVIOUS
  <2>1. CASE x = Condition
    BY <2>1, Symbols DEF Condition, Column
  <2>2. CASE Named(x)
    BY <2>2, Symbols, NotQualified DEF Named, Cols
  <2> QED BY <2>1, <2>2, <1>8
<1>10. ASSUME NEW i \in 1..(Len(p) + 1), NEW j \in 1..(Len(p) + 1),
              product[i].name = product[j].name
       PROVE  i = j
  <2> DEFINE d == p \o s
  <2>1. /\ \A k \in 1..Len(p) : d[k] = p[k] /\ p[k].name # HqlCol
        /\ d[Len(p) + 1].name = HqlCol /\ product = d
    <3>1. \A k \in 1..Len(p) : p[k] \in ToSet(pre)
      BY <1>5, <1>6 DEF ToSet
    <3>2. d[Len(p) + 1] = Numbers
      BY <1>3, <1>5, <1>6
    <3> QED BY <1>1, <1>5, <1>6, <1>9, <3>1, <3>2 DEF Numbers, Column
  <2>2. \A k, m \in 1..Len(p) : p[k].name = p[m].name => k = m
    BY <1>1, <1>5, <1>6 DEF Distinct
  <2> HIDE DEF d
  <2>3. i \in 1..Len(p) \/ i = Len(p) + 1
    BY <1>6
  <2>4. j \in 1..Len(p) \/ j = Len(p) + 1
    BY <1>6
  <2> QED BY <1>10, <2>1, <2>2, <2>3, <2>4
<1>11. product = p \o s /\ DOMAIN product = 1..(Len(p) + 1) /\ Len(product) = Len(p) + 1
       /\ product \in Seq(Cols)
  BY <1>1, <1>5, <1>6
<1> QED BY <1>6, <1>7, <1>8, <1>10, <1>11

(* A column is known by its name.                                                *)
LEMMA NamedOnce ==
  ASSUME Product, NEW x \in ToSet(product), Named(x), NEW y \in ToSet(product)
  PROVE  /\ y.name = x.name => y = x
         /\ Named(y) /\ y.of = x.of /\ y.col = x.col => y = x
         /\ Named(y) => y = Column(Qualified(y.of, y.col), y.of, y.col)
<1>1. \A z \in Cols : z = Column(z.name, z.of, z.col)
  BY DEF Cols, Column
<1>2. Named(y) => y = Column(Qualified(y.of, y.col), y.of, y.col)
  BY <1>1 DEF Named
<1>3. Named(y) /\ y.of = x.of /\ y.col = x.col => y = x
  BY <1>1 DEF Named
<1>4. ASSUME y.name = x.name PROVE y = x
  <2>1. x.of \in Seq(Atoms) /\ x.col \in Seq(Atoms) /\ x.name = Qualified(x.of, x.col)
        /\ Plain(x.of) /\ Plain(x.col)
    BY DEF Named, Cols
  <2>2. CASE y \in {Condition, Numbers}
    <3>1. y.name \in Seq(Atoms) /\ Occurrences(y.name, Sep) = {}
      BY <2>2, Symbols DEF Condition, Numbers, Column
    <3> QED BY <3>1, <2>1, <1>4, NotQualified
  <2>3. CASE Named(y)
    <3>1. y.of \in Seq(Atoms) /\ y.col \in Seq(Atoms) /\ y.name = Qualified(y.of, y.col)
      BY <2>3 DEF Named, Cols
    <3>2. y.of = x.of /\ y.col = x.col
      <4>1. Qualified(y.of, y.col) = Qualified(x.of, x.col)
        BY <2>1, <3>1, <1>4
      <4> QED BY <2>1, <3>1, <4>1, TakenApart, Zenon
    <3> QED BY <2>3, <3>2, <1>3
  <2> QED BY <2>2, <2>3, ProductIs
<1> QED BY <1>2, <1>3, <1>4

LEMMA AppendIs ==
  ASSUME NEW N, NEW s \in Seq(N), NEW h \in N
  PROVE  /\ DOMAIN Append(s, h) = 1..(Len(s) + 1)
         /\ Append(s, h)[Len(s) + 1] = h
         /\ \A i \in 1..Len(s) : Append(s, h)[i] = s[i]
<1>1. Append(s, h) \in Seq(N) /\ Len(Append(s, h)) = Len(s) + 1
  OBVIOUS
<1>2. DOMAIN Append(s, h) = 1..(Len(s) + 1)
  BY <1>1
<1>3. Append(s, h)[Len(s) + 1] = h /\ \A i \in 1..Len(s) : Append(s, h)[i] = s[i]
  OBVIOUS
<1> QED BY <1>2, <1>3

LEMMA Single ==
  ASSUME NEW N, NEW n \in N
  PROVE  <<n>> \in Seq(N) /\ Len(<<n>>) = 1 /\ DOMAIN <<n>> = {1} /\ <<n>>[1] = n /\ ToSet(<<n>>) = {n}
<1>1. <<n>> \in Seq(N) /\ Len(<<n>>) = 1 /\ <<n>>[1] = n
  OBVIOUS
<1>2. DOMAIN <<n>> = {1}
  OBVIOUS
<1> QED BY <1>1, <1>2 DEF ToSet

(* SELECT of one column.                                                        *)
SelectedOne(x) == [kind |-> "columns", cols |-> <<x>>]

LEMMA SelectedIs ==
  ASSUME Product, NEW n
  PROVE  /\ Selected(<<n>>) = Error
            \/ \E x \in ToSet(product) : x.name = n /\ Selected(<<n>>) = SelectedOne(x)
         /\ \A x \in ToSet(product) :
              Named(x) /\ x.name = n => Selected(<<n>>) = SelectedOne(x)
<1> DEFINE names == <<n>>
           all == Append(names, HqlCol)
           At(m) == CHOOSE i \in DOMAIN product : product[i].name = m
           Bad == \/ \E i \in DOMAIN all : all[i] \notin ToSet(Names(product))
                  \/ \E i, j \in DOMAIN all : i # j /\ all[i] = all[j]
<1>1. DOMAIN all = {1, 2} /\ all[1] = n /\ all[2] = HqlCol
  <2> DEFINE N == {n, HqlCol}
  <2>1. n \in N /\ HqlCol \in N
    OBVIOUS
  <2> HIDE DEF N
  <2>2. names \in Seq(N) /\ Len(names) = 1 /\ names[1] = n
    BY <2>1, Single
  <2> HIDE DEF names
  <2>3. /\ DOMAIN all = 1..(Len(names) + 1)
        /\ all[Len(names) + 1] = HqlCol
        /\ \A i \in 1..Len(names) : all[i] = names[i]
    BY <2>1, <2>2, AppendIs
  <2> HIDE DEF all
  <2> QED BY <2>2, <2>3
<1>2. ToSet(Names(product)) = {x.name : x \in ToSet(product)}
  BY DEF ToSet, Names
<1>3. Bad <=> \/ n \notin ToSet(Names(product)) \/ HqlCol \notin ToSet(Names(product))
             \/ n = HqlCol
  BY <1>1
<1>4. Selected(<<n>>) = IF Bad THEN Error
        ELSE [kind |-> "columns", cols |-> [i \in DOMAIN names |-> product[At(names[i])]]]
  BY DEF Selected
<1> HIDE DEF Bad
<1>5. [i \in DOMAIN names |-> product[At(names[i])]] = <<product[At(n)]>>
  <2>1. DOMAIN names = {1} /\ names[1] = n
    OBVIOUS
  <2> HIDE DEF names
  <2> HIDE DEF At
  <2>2. \A i \in DOMAIN names : i = 1 /\ product[At(names[i])] = product[At(n)]
    BY <2>1, Zenon
  <2>3. [i \in DOMAIN names |-> product[At(names[i])]] = [i \in {1} |-> product[At(n)]]
    BY <2>1, <2>2
  <2>4. \A v : [i \in {1} |-> v] = <<v>>
    OBVIOUS
  <2> QED BY <2>3, <2>4
<1>6. ASSUME n \in ToSet(Names(product))
      PROVE  product[At(n)] \in ToSet(product) /\ product[At(n)].name = n
  <2>1. \E i \in DOMAIN product : product[i].name = n
    BY <1>6 DEF ToSet, Names
  <2>2. At(n) \in DOMAIN product /\ product[At(n)].name = n
    BY <2>1
  <2> QED BY <2>2 DEF ToSet
<1>7. ~Bad => Selected(<<n>>) = SelectedOne(product[At(n)]) /\ n \in ToSet(Names(product))
  BY <1>3, <1>4, <1>5 DEF SelectedOne
<1> HIDE DEF At, names, all
<1>8. ASSUME NEW x \in ToSet(product), Named(x), x.name = n
      PROVE  Selected(<<n>>) = SelectedOne(x)
  <2>1. n \in ToSet(Names(product))
    BY <1>2, <1>8
  <2>2. HqlCol \in ToSet(Names(product))
    <3>1. Numbers \in ToSet(product) /\ Numbers.name = HqlCol
      BY ProductIs DEF Numbers, Column
    <3> QED BY <3>1, <1>2
  <2>3. n # HqlCol
    BY <1>8, Symbols, NotQualified DEF Named, Cols
  <2>4. ~Bad
    BY <1>3, <2>1, <2>2, <2>3
  <2>5. product[At(n)] = x
    BY <2>1, <1>6, <1>8, NamedOnce
  <2> QED BY <1>7, <2>4, <2>5
<1>9. Selected(<<n>>) = Error
      \/ \E x \in ToSet(product) : x.name = n /\ Selected(<<n>>) = SelectedOne(x)
  BY <1>4, <1>6, <1>7
<1> QED BY <1>8, <1>9

OidOf(t) == Column(Qualified(t, Oid), t, Oid)
FileOf(t) == Column(Qualified(t, Filename), t, Filename)
Array(x) == [kind |-> "array", cols |-> <<x>>]

(* An array collection of the product has both columns.                              *)
LEMMA ArrayColumns ==
  ASSUME Product, NEW x \in ToSet(product), Named(x), ~Relational(x.of)
  PROVE  /\ x.col \in {Oid, Filename}
         /\ OidOf(x.of) \in ToSet(product) /\ Named(OidOf(x.of))
         /\ OidOf(x.of).of = x.of /\ OidOf(x.of).col = Oid
         /\ FileOf(x.of) \in ToSet(product) /\ Named(FileOf(x.of))
         /\ FileOf(x.of).of = x.of /\ FileOf(x.of).col = Filename
<1>1. x.of \in Sources /\ x.of \in DOMAIN Catalogue /\ x \in ToSet(Loaded(x.of))
  BY FromIs DEF Named, Product, IInv
<1>2. x.col \in {Oid, Filename}
      /\ \A c \in {Oid, Filename} : Column(Qualified(x.of, c), x.of, c) \in ToSet(Loaded(x.of))
  BY <1>1, LoadedIs
<1>3. ToSet(Loaded(x.of)) \subseteq ToSet(product)
  BY ProductIs, Symbols, NotQualified DEF Named, Condition, Numbers, Column
<1>4. OidOf(x.of) \in ToSet(Loaded(x.of)) /\ FileOf(x.of) \in ToSet(Loaded(x.of))
  BY <1>2 DEF OidOf, FileOf
<1>5. Named(OidOf(x.of)) /\ Named(FileOf(x.of))
  BY <1>1, <1>4, NamedIs DEF Product, IInv
<1> QED BY <1>2, <1>3, <1>4, <1>5 DEF OidOf, FileOf, Column

(* A column or an array is fetched by its name.                                     *)
LEMMA FetchedIs ==
  ASSUME Product, NEW t, NEW n
  PROVE  \/ Fetched(t, n) = Error
         \/ /\ t \in DOMAIN Catalogue
            /\ \E x \in ToSet(product) :
                 IF Relational(t) THEN x.name = n /\ Fetched(t, n) = SelectedOne(x)
                 ELSE x.name = Qualified(t, Oid) /\ Fetched(t, n) = Array(x)
<1>1. CASE t \notin DOMAIN Catalogue
  BY <1>1 DEF Fetched
<1>2. CASE t \in DOMAIN Catalogue /\ Relational(t)
  BY <1>2, SelectedIs DEF Fetched, Relational
<1>3. CASE t \in DOMAIN Catalogue /\ ~Relational(t)
  <2> DEFINE oids == Selected(<<Qualified(t, Oid)>>)
  <2>1. Fetched(t, n) = IF oids = Error THEN Error ELSE [oids EXCEPT !.kind = "array"]
    BY <1>3 DEF Fetched, Relational
  <2>2. oids = Error \/ \E x \in ToSet(product) : x.name = Qualified(t, Oid) /\ oids = SelectedOne(x)
    BY SelectedIs
  <2> HIDE DEF oids
  <2>3. \A x : [SelectedOne(x) EXCEPT !.kind = "array"] = Array(x)
    BY DEF SelectedOne, Array
  <2> QED BY <2>1, <2>2, <2>3, <1>3
<1> QED BY <1>1, <1>2, <1>3

LEMMA FetchedNamed ==
  ASSUME Product, NEW x \in ToSet(product), Named(x)
  PROVE  Fetched(x.of, x.name) = IF Relational(x.of) THEN SelectedOne(x) ELSE Array(OidOf(x.of))
<1>1. x.of \in DOMAIN Catalogue
  BY FromIs DEF Named, Product, IInv
<1>2. CASE Relational(x.of)
  <2>1. Selected(<<x.name>>) = SelectedOne(x)
    BY SelectedIs
  <2> QED BY <1>1, <1>2, <2>1 DEF Fetched, Relational
<1>3. CASE ~Relational(x.of)
  <2> DEFINE o == OidOf(x.of)
  <2>1. o \in ToSet(product) /\ Named(o) /\ o.name = Qualified(x.of, Oid)
    BY <1>3, ArrayColumns DEF OidOf, Column
  <2> HIDE DEF o
  <2>2. Selected(<<Qualified(x.of, Oid)>>) = SelectedOne(o)
    BY <2>1, SelectedIs
  <2>3. SelectedOne(o) # Error
    BY DEF SelectedOne, Error
  <2>4. [SelectedOne(o) EXCEPT !.kind = "array"] = Array(o)
    BY DEF SelectedOne, Array
  <2> QED BY <1>1, <1>3, <2>2, <2>3, <2>4 DEF Fetched, Relational, o
<1> QED BY <1>2, <1>3

(* When the name of a column passes the tests.                                       *)
LEMMA MatchIs ==
  ASSUME Product, NEW x \in ToSet(product), NEW c \in Seq(Atoms)
  PROVE  /\ IsArrayOf(x.name, c) <=> Named(x) /\ x.of = c /\ x.col = Filename
         /\ Named(x) /\ x.col = c => IsColumnOf(x.name, c) /\ Cut(x.name, Sep \o c) = x.of
         /\ IsColumnOf(x.name, c) =>
              \/ Named(x) /\ x.col = c
              \/ Size(x.name) + 1 = Size(Sep \o c) /\ Cut(x.name, Sep \o c) = x.name
         /\ IsArrayOf(x.name, c) => Cut(x.name, Sep \o Filename) = x.of
<1>1. x \in Cols /\ x.name \in Seq(Atoms)
  <2>1. x \in Cols
    BY ProductIs DEF ToSet
  <2> QED BY <2>1 DEF Cols
<1>2. ASSUME NEW a \in Seq(Atoms), NEW b \in Seq(Atoms), x.name = Qualified(a, b)
      PROVE  Named(x) /\ x.of = a /\ x.col = b
  <2>1. CASE x \in {Condition, Numbers}
    <3>1. Occurrences(x.name, Sep) = {}
      BY <2>1, Symbols DEF Condition, Numbers, Column
    <3> QED BY <3>1, <1>1, <1>2, NotQualified
  <2>2. CASE Named(x)
    <3>1. x.of \in Seq(Atoms) /\ x.col \in Seq(Atoms) /\ x.name = Qualified(x.of, x.col)
          /\ Plain(x.of) /\ Plain(x.col)
      BY <2>2 DEF Named, Cols
    <3>2. Qualified(a, b) = Qualified(x.of, x.col)
      BY <3>1, <1>2
    <3>3. a = x.of /\ b = x.col
      <4> HIDE <1>1, <2>2
      <4> QED BY <3>1, <3>2, TakenApart
    <3> QED BY <2>2, <3>3
  <2> QED BY <2>1, <2>2, ProductIs
<1>3. ASSUME NEW d \in Seq(Atoms)
      PROVE  /\ IsSuffix(Sep \o d, x.name) => Named(x) /\ x.col = d /\ Cut(x.name, Sep \o d) = x.of
             /\ Named(x) /\ x.col = d => IsSuffix(Sep \o d, x.name)
  <2>1. ASSUME IsSuffix(Sep \o d, x.name)
        PROVE  Named(x) /\ x.col = d /\ Cut(x.name, Sep \o d) = x.of
    <3>1. Cut(x.name, Sep \o d) \in Seq(Atoms) /\ x.name = Qualified(Cut(x.name, Sep \o d), d)
      BY <2>1, <1>1, EndsIn
    <3> QED BY <3>1, <1>2
  <2>2. ASSUME Named(x), x.col = d PROVE IsSuffix(Sep \o d, x.name)
    <3>1. x.of \in Seq(Atoms) /\ x.name = Qualified(x.of, d)
      BY <2>2 DEF Named, Cols
    <3> QED BY <3>1, <1>1, EndsIn
  <2> QED BY <2>1, <2>2
<1>4. IsArrayOf(x.name, c) <=> Named(x) /\ x.of = c /\ x.col = Filename
  <2>1. IsArrayOf(x.name, c) <=> x.name = Qualified(c, Filename)
    BY DEF IsArrayOf, Qualified
  <2>2. Filename \in Seq(Atoms)
    BY Symbols
  <2>3. Named(x) => x.name = Qualified(x.of, x.col)
    BY DEF Named
  <2> QED BY <2>1, <2>2, <2>3, <1>2
<1>5. IsArrayOf(x.name, c) => Cut(x.name, Sep \o Filename) = x.of
  BY <1>3, <1>4, Symbols
<1>6. Sep \o c \in Seq(Atoms) /\ Sep \o c # <<>>
  BY QualifiedIs
<1>7. IsColumnOf(x.name, c) <=> \/ IsSuffix(Sep \o c, x.name)
                               \/ /\ Occurrences(x.name, Sep \o c) = {}
                                  /\ Size(x.name) + 1 = Size(Sep \o c)
  BY <1>1, <1>6, RfindIs DEF IsColumnOf
<1>8. ~IsSuffix(Sep \o c, x.name) => Cut(x.name, Sep \o c) = x.name
  BY DEF Cut
<1> QED BY <1>3, <1>4, <1>5, <1>7, <1>8

(* What passes is found.                                                         *)
LEMMA MatchesIs ==
  ASSUME NEW n, NEW c
  PROVE  LET a == <<Cut(n, Sep \o Filename), n>>
             b == <<Cut(n, Sep \o c), n>>
         IN  /\ ~IsArrayOf(n, c) /\ ~IsColumnOf(n, c) => Matches(n, c) = <<>>
             /\ IsArrayOf(n, c) /\ ~IsColumnOf(n, c) => Matches(n, c) = <<a>>
             /\ ~IsArrayOf(n, c) /\ IsColumnOf(n, c) => Matches(n, c) = <<b>>
             /\ IsArrayOf(n, c) /\ IsColumnOf(n, c) => Len(Matches(n, c)) = 2
             /\ \A V : a \in V /\ b \in V => Matches(n, c) \in Seq(V)
<1> DEFINE a == <<Cut(n, Sep \o Filename), n>>
           b == <<Cut(n, Sep \o c), n>>
           sa == IF IsArrayOf(n, c) THEN <<a>> ELSE <<>>
           sb == IF IsColumnOf(n, c) THEN <<b>> ELSE <<>>
<1>1. Matches(n, c) = sa \o sb
  BY DEF Matches
<1> HIDE DEF a, b
<1>2. ASSUME NEW V, a \in V, b \in V
      PROVE  /\ <<>> \in Seq(V) /\ <<a>> \in Seq(V) /\ <<b>> \in Seq(V)
             /\ <<>> \o <<>> = <<>> /\ <<a>> \o <<>> = <<a>> /\ <<>> \o <<b>> = <<b>>
             /\ Len(<<a>> \o <<b>>) = 2 /\ <<a>> \o <<b>> \in Seq(V)
  <2>1. <<>> \in Seq(V) /\ <<a>> \in Seq(V) /\ <<b>> \in Seq(V) /\ Len(<<a>>) = 1 /\ Len(<<b>>) = 1
    BY <1>2, Single
  <2>2. PICK e \in Seq(V), p \in Seq(V), q \in Seq(V) : e = <<>> /\ p = <<a>> /\ q = <<b>>
    BY <2>1, Zenon
  <2>3. e \o e = e /\ p \o e = p /\ e \o q = q
    BY <2>2, ConcatEmptySeq
  <2>4. Len(p \o q) = Len(p) + Len(q) /\ p \o q \in Seq(V)
    OBVIOUS
  <2>5. Len(p) = 1 /\ Len(q) = 1
    BY <2>1, <2>2
  <2>6. Len(p \o q) = 2
    BY <2>4, <2>5
  <2> HIDE DEF sa, sb
  <2> QED BY <2>1, <2>2, <2>3, <2>4, <2>6
<1>3. ASSUME NEW V, a \in V, b \in V PROVE sa \o sb \in Seq(V)
  <2>1. <<>> \o <<>> \in Seq(V) /\ <<a>> \o <<>> \in Seq(V) /\ <<>> \o <<b>> \in Seq(V)
        /\ <<a>> \o <<b>> \in Seq(V)
    BY <1>2, <1>3
  <2> QED BY <2>1
<1>4. a \in {a, b} /\ b \in {a, b}
  OBVIOUS
<1>5. /\ <<>> \o <<>> = <<>> /\ <<a>> \o <<>> = <<a>> /\ <<>> \o <<b>> = <<b>>
      /\ Len(<<a>> \o <<b>>) = 2
  <2> DEFINE V == {a, b}
  <2>1. a \in V /\ b \in V
    BY <1>4
  <2> HIDE DEF V
  <2> QED BY <2>1, <1>2
<1>6. ~IsArrayOf(n, c) /\ ~IsColumnOf(n, c) => Matches(n, c) = <<>>
  BY <1>1, <1>5
<1>7. IsArrayOf(n, c) /\ ~IsColumnOf(n, c) => Matches(n, c) = <<a>>
  BY <1>1, <1>5
<1>8. ~IsArrayOf(n, c) /\ IsColumnOf(n, c) => Matches(n, c) = <<b>>
  BY <1>1, <1>5
<1>9. IsArrayOf(n, c) /\ IsColumnOf(n, c) => Len(Matches(n, c)) = 2
  BY <1>1, <1>5
<1> QED BY <1>1, <1>3, <1>6, <1>7, <1>8, <1>9 DEF a, b

LEMMA FoundIs ==
  ASSUME Product, NEW c \in Seq(Atoms)
  PROVE  /\ Len(Found(c)) = 1 =>
              \E x \in ToSet(product) :
                /\ Found(c) = Matches(x.name, c)
                /\ \A y \in ToSet(product) : y # x => Matches(y.name, c) = <<>>
         /\ \A x \in ToSet(product) :
              (\A y \in ToSet(product) : y # x => Matches(y.name, c) = <<>>)
                => Found(c) = Matches(x.name, c)
<1> DEFINE N == Len(product)
           ss == [i \in DOMAIN product |-> Matches(product[i].name, c)]
           A == {Cut(product[i].name, Sep \o Filename) : i \in DOMAIN product}
           B == {Cut(product[i].name, Sep \o c) : i \in DOMAIN product}
           M == {product[i].name : i \in DOMAIN product}
           V == (A \cup B) \X M
<1>1. N \in Nat \ {0} /\ DOMAIN product = 1..N
  BY ProductIs
<1>2. \A i \in 1..N : Matches(product[i].name, c) \in Seq(V)
  <2> SUFFICES ASSUME NEW i \in 1..N PROVE Matches(product[i].name, c) \in Seq(V)
    OBVIOUS
  <2> DEFINE a == <<Cut(product[i].name, Sep \o Filename), product[i].name>>
             b == <<Cut(product[i].name, Sep \o c), product[i].name>>
  <2>1. a \in V /\ b \in V
    BY <1>1
  <2> HIDE DEF V
  <2> QED BY <2>1, MatchesIs
<1> HIDE DEF V, N
<1>3. ss \in Seq(Seq(V)) /\ Len(ss) = N /\ ss # <<>> /\ DOMAIN ss = 1..N
  <2>1. ss = [i \in 1..N |-> Matches(product[i].name, c)]
    BY <1>1
  <2>2. ss \in [1..N -> Seq(V)]
    BY <2>1, <1>2
  <2> HIDE DEF ss
  <2>3. ss \in Seq(Seq(V)) /\ Len(ss) = N
    BY <2>2, <1>1
  <2>4. ss # <<>>
    BY <2>3, <1>1
  <2> QED BY <2>2, <2>3, <2>4
<1>4. \A i \in 1..N : ss[i] = Matches(product[i].name, c)
  BY <1>1
<1>5. Found(c) = FlattenSeq(ss)
  BY DEF Found
<1> HIDE DEF ss
<1>6. /\ Len(Found(c)) = 1 =>
           \E i \in 1..N : ss[i] = Found(c) /\ \A j \in 1..N : j # i => ss[j] = <<>>
      /\ \A i \in 1..N : (\A j \in 1..N : j # i => ss[j] = <<>>) => Found(c) = ss[i]
  BY <1>3, <1>5, FlattenFacts
<1>7. \A x : x \in ToSet(product) <=> \E i \in 1..N : x = product[i]
  BY <1>1 DEF ToSet
<1>8. \A i, j \in 1..N : product[i] = product[j] => i = j
  BY <1>1, ProductIs
<1>9. ASSUME Len(Found(c)) = 1
      PROVE  \E x \in ToSet(product) :
               /\ Found(c) = Matches(x.name, c)
               /\ \A y \in ToSet(product) : y # x => Matches(y.name, c) = <<>>
  <2>1. PICK i \in 1..N : ss[i] = Found(c) /\ \A j \in 1..N : j # i => ss[j] = <<>>
    BY <1>6, <1>9
  <2>2. product[i] \in ToSet(product) /\ Found(c) = Matches(product[i].name, c)
    BY <2>1, <1>4, <1>7
  <2>3. \A y \in ToSet(product) : y # product[i] => Matches(y.name, c) = <<>>
    BY <2>1, <1>4, <1>7
  <2> QED BY <2>2, <2>3
<1>10. ASSUME NEW x \in ToSet(product),
              \A y \in ToSet(product) : y # x => Matches(y.name, c) = <<>>
       PROVE  Found(c) = Matches(x.name, c)
  <2>1. PICK i \in 1..N : x = product[i]
    BY <1>7
  <2>2. \A j \in 1..N : j # i => ss[j] = <<>>
    BY <2>1, <1>4, <1>7, <1>8, <1>10
  <2> QED BY <2>1, <2>2, <1>4, <1>6
<1> QED BY <1>9, <1>10

-----------------------------------------------------------------------------
(* The columns of the product that an unqualified name is about.                     *)
Hit(x, c) == /\ Named(x)
             /\ \/ x.col = c
                \/ x.of = c /\ x.col = Filename
PlainArrays == \A t \in Sources : ~LooksLikeArray(t)

LEMMA HitIs ==
  ASSUME Product, PlainArrays, NEW x \in ToSet(product), Named(x)
  PROVE  x.col = Filename => ~Relational(x.of)
<1>1. x.of \in Sources /\ x.of \in DOMAIN Catalogue /\ x \in ToSet(Loaded(x.of))
  BY FromIs DEF Named, Product, IInv
<1>2. Relational(x.of) => x.col \in ToSet(Catalogue[x.of].cols)
  BY <1>1, LoadedIs
<1> QED BY <1>1, <1>2 DEF PlainArrays, LooksLikeArray

LEMMA HitMatches ==
  ASSUME Product, NEW x \in ToSet(product), NEW c \in Seq(Atoms)
  PROVE  /\ Hit(x, c) => Matches(x.name, c) # <<>>
         /\ Matches(x.name, c) # <<>> => Hit(x, c) \/ Size(x.name) + 1 = Size(Sep \o c)
         /\ Hit(x, c) /\ Len(Matches(x.name, c)) = 1 =>
              Matches(x.name, c) = <<<<x.of, x.name>>>>
         /\ ~Hit(x, c) /\ Len(Matches(x.name, c)) = 1 =>
              Matches(x.name, c) = <<<<x.name, x.name>>>>
<1> DEFINE n == x.name
           A == IsArrayOf(n, c)
           B == IsColumnOf(n, c)
           M == Matches(n, c)
           p == <<x.of, n>>
           q == <<n, n>>
<1>1. /\ A <=> Named(x) /\ x.of = c /\ x.col = Filename
      /\ Named(x) /\ x.col = c => B /\ Cut(n, Sep \o c) = x.of
      /\ B => \/ Named(x) /\ x.col = c
              \/ Size(n) + 1 = Size(Sep \o c) /\ Cut(n, Sep \o c) = n
      /\ A => Cut(n, Sep \o Filename) = x.of
  BY MatchIs
<1>2. /\ ~A /\ ~B => M = <<>>
      /\ A /\ ~B => M = <<<<Cut(n, Sep \o Filename), n>>>>
      /\ ~A /\ B => M = <<<<Cut(n, Sep \o c), n>>>>
      /\ A /\ B => Len(M) = 2
  BY MatchesIs
<1>3. /\ A /\ ~B => M = <<p>>
      /\ ~A /\ B => M = <<<<Cut(n, Sep \o c), n>>>>
  BY <1>1, <1>2
<1>4. Named(x) /\ x.col = c /\ ~A => M = <<p>>
  BY <1>1, <1>2
<1>5. ~(Named(x) /\ x.col = c) /\ B /\ ~A => M = <<q>>
  BY <1>1, <1>2
<1>6. Len(<<>>) = 0 /\ \A v : <<v>> # <<>> /\ Len(<<v>>) = 1
  OBVIOUS
<1> HIDE DEF A, B, M, n, p, q
<1>7. Hit(x, c) <=> A \/ (Named(x) /\ x.col = c)
  BY <1>1 DEF Hit
<1>8. Hit(x, c) => M # <<>>
  <2>1. M = <<p>> => M # <<>>
    BY <1>6
  <2>2. A /\ B => M # <<>>
    BY <1>2, <1>6
  <2> QED BY <1>3, <1>4, <1>7, <2>1, <2>2
<1>9. M # <<>> => Hit(x, c) \/ Size(n) + 1 = Size(Sep \o c)
  BY <1>1, <1>2, <1>7
<1>10. Hit(x, c) /\ Len(M) = 1 => M = <<p>>
  BY <1>1, <1>2, <1>3, <1>4, <1>7
<1>11. ~Hit(x, c) /\ Len(M) = 1 => M = <<q>>
  BY <1>2, <1>5, <1>6, <1>7
<1> QED BY <1>8, <1>9, <1>10, <1>11 DEF M, n, p, q

(* What the name means, when it is about one column.                                  *)
LEMMA MeansIs ==
  ASSUME Product, PlainArrays, NEW c \in Seq(Atoms), NEW x \in ToSet(product), Hit(x, c),
         \A y \in ToSet(product) : Hit(y, c) => y = x
  PROVE  Means(c) = IF Relational(x.of) THEN {x} ELSE {OidOf(x.of)}
<1>1. Named(x) /\ x.of \in Sources /\ (x.col = Filename => ~Relational(x.of))
  BY HitIs DEF Hit, Named
<1>2. ASSUME NEW y \in Means(c)
      PROVE  /\ y \in ToSet(product) /\ Named(y)
             /\ Relational(y.of) => y = x
             /\ ~Relational(y.of) => x.of = y.of /\ y = OidOf(x.of)
  <2>1. y \in ToSet(product) /\ y.of \in Sources
        /\ IF Relational(y.of) THEN y.col = c ELSE y.col = Oid /\ c \in {y.of, Oid, Filename}
    BY DEF Means
  <2>2. Named(y)
    <3>1. Plain(y.of)
      BY <2>1 DEF Product, PlainQuery
    <3>2. y \notin {Condition, Numbers}
      BY <3>1 DEF Plain, Condition, Numbers, Column, NoName
    <3> QED BY <2>1, <3>2, ProductIs
  <2>3. Relational(y.of) => y = x
    BY <2>1, <2>2 DEF Hit
  <2>4. ASSUME ~Relational(y.of) PROVE x.of = y.of /\ y = OidOf(x.of)
    <3> DEFINE f == FileOf(y.of)
    <3>1. f \in ToSet(product) /\ Named(f) /\ f.of = y.of /\ f.col = Filename
      BY <2>1, <2>2, <2>4, ArrayColumns
    <3> HIDE DEF f
    <3>2. Hit(y, c) \/ Hit(f, c)
      BY <2>1, <2>2, <2>4, <3>1 DEF Hit
    <3>3. x.of = y.of
      BY <2>1, <3>1, <3>2
    <3>4. y = Column(Qualified(y.of, y.col), y.of, y.col)
      BY <2>1, <2>2, NamedOnce
    <3> QED BY <2>1, <2>4, <3>3, <3>4 DEF OidOf
  <2> QED BY <2>1, <2>2, <2>3, <2>4
<1>3. CASE Relational(x.of)
  <2>1. x \in Means(c)
    <3>1. x.col = c
      BY <1>1, <1>3 DEF Hit
    <3>2. x.of \in Sources
      BY DEF Hit, Named
    <3> QED BY <1>3, <3>1, <3>2 DEF Means
  <2>2. \A y \in Means(c) : y = x
    BY <1>2, <1>3
  <2> QED BY <1>3, <2>1, <2>2
<1>4. CASE ~Relational(x.of)
  <2> DEFINE o == OidOf(x.of)
  <2>1. x.col \in {Oid, Filename} /\ o \in ToSet(product) /\ o.of = x.of /\ o.col = Oid
    BY <1>4, ArrayColumns DEF Hit
  <2>2. x.of \in Sources
    BY DEF Hit, Named
  <2>3. c \in {x.of, Oid, Filename}
    BY <2>1 DEF Hit
  <2> HIDE DEF o
  <2>4. o \in Means(c)
    BY <1>4, <2>1, <2>2, <2>3 DEF Means
  <2>5. \A y \in Means(c) : y = o
    BY <1>2, <1>4 DEF o
  <2> QED BY <1>4, <2>4, <2>5 DEF o
<1> QED BY <1>3, <1>4

(* The answer to an unqualified name.                                             *)
LEMMA UnqualifiedAnswer ==
  ASSUME Product, PlainArrays, NEW c \in Seq(Atoms), OnlyMatch(Found(c)) # Error
  PROVE  /\ Len(OnlyMatch(Found(c)).cols) = 1
         /\ (\A i \in Overshoots(c) : product[i].name \notin DOMAIN Catalogue) =>
              Means(c) = {OnlyMatch(Found(c)).cols[1]}
<1> DEFINE found == Found(c)
<1>1. Len(found) = 1 /\ OnlyMatch(found) = Fetched(found[1][1], found[1][2])
  BY DEF OnlyMatch
<1>2. PICK x \in ToSet(product) :
        /\ found = Matches(x.name, c)
        /\ \A y \in ToSet(product) : y # x => Matches(y.name, c) = <<>>
  BY <1>1, FoundIs
<1> HIDE DEF found
<1>3. \A y : Len(SelectedOne(y).cols) = 1 /\ SelectedOne(y).cols[1] = y
             /\ Len(Array(y).cols) = 1 /\ Array(y).cols[1] = y
  <2> SUFFICES ASSUME NEW y
               PROVE  Len(SelectedOne(y).cols) = 1 /\ SelectedOne(y).cols[1] = y
                      /\ Len(Array(y).cols) = 1 /\ Array(y).cols[1] = y
    OBVIOUS
  <2>1. SelectedOne(y).cols = <<y>> /\ Array(y).cols = <<y>>
    BY DEF SelectedOne, Array
  <2>2. Len(<<y>>) = 1 /\ <<y>>[1] = y
    OBVIOUS
  <2> QED BY <2>1, <2>2
<1>4. \A y \in ToSet(product) : Hit(y, c) => y = x
  BY <1>2, HitMatches
<1>5. CASE Hit(x, c)
  <2>1. found = <<<<x.of, x.name>>>>
    BY <1>1, <1>2, <1>5, HitMatches
  <2>2. found[1][1] = x.of /\ found[1][2] = x.name
    BY <2>1
  <2>3. OnlyMatch(found) = IF Relational(x.of) THEN SelectedOne(x) ELSE Array(OidOf(x.of))
    BY <1>1, <1>5, <2>2, FetchedNamed DEF Hit
  <2>4. Means(c) = IF Relational(x.of) THEN {x} ELSE {OidOf(x.of)}
    BY <1>4, <1>5, MeansIs
  <2>5. CASE Relational(x.of)
    BY <2>3, <2>4, <2>5, <1>3 DEF found
  <2>6. CASE ~Relational(x.of)
    BY <2>3, <2>4, <2>6, <1>3 DEF found
  <2> QED BY <2>5, <2>6
<1>6. CASE ~Hit(x, c)
  <2>1. found = <<<<x.name, x.name>>>>
    BY <1>1, <1>2, <1>6, HitMatches
  <2>2. found[1][1] = x.name /\ found[1][2] = x.name
    BY <2>1
  <2>3. OnlyMatch(found) = Fetched(x.name, x.name)
    BY <1>1, <2>2
  <2>4. x.name \in DOMAIN Catalogue
    BY <2>3, FetchedIs DEF found
  <2>5. Len(OnlyMatch(found).cols) = 1
    <3>1. \E y : Fetched(x.name, x.name) \in {SelectedOne(y), Array(y)}
      BY <2>3, FetchedIs DEF found
    <3> QED BY <3>1, <2>3, <1>3
  <2>6. \E i \in Overshoots(c) : product[i].name \in DOMAIN Catalogue
    <3>1. Matches(x.name, c) # <<>>
      BY <1>1, <1>2
    <3>2. Size(x.name) + 1 = Size(Sep \o c)
      BY <3>1, <1>6, HitMatches
    <3>3. PICK i \in DOMAIN product : product[i] = x
      BY DEF ToSet
    <3>4. i \in Overshoots(c)
      BY <3>2, <3>3 DEF Overshoots
    <3> QED BY <2>4, <3>3, <3>4
  <2> QED BY <2>5, <2>6 DEF found
<1> QED BY <1>5, <1>6

(* The answer to a qualified name.                                                *)
LEMMA QualifiedAnswer ==
  ASSUME Product, NEW t \in Seq(Atoms), NEW c \in Seq(Atoms),
         Fetched(t, Qualified(t, c)) # Error
  PROVE  LET a == Fetched(t, Qualified(t, c))
         IN  /\ Len(a.cols) = 1 /\ a.cols[1].of = t
             /\ Relational(t) => a.cols[1].col = c
<1> DEFINE n == Qualified(t, c)
           a == Fetched(t, n)
<1>1. PICK x \in ToSet(product) :
        IF Relational(t) THEN x.name = n /\ a = SelectedOne(x)
        ELSE x.name = Qualified(t, Oid) /\ a = Array(x)
  BY FetchedIs
<1>2. ASSUME NEW b \in Seq(Atoms), x.name = Qualified(t, b) PROVE x.of = t /\ x.col = b
  <2>1. CASE x \in {Condition, Numbers}
    <3>1. x.name \in Seq(Atoms) /\ Occurrences(x.name, Sep) = {}
      BY <2>1, Symbols DEF Condition, Numbers, Column
    <3> QED BY <3>1, <1>2, NotQualified
  <2>2. CASE Named(x)
    <3>1. x.of \in Seq(Atoms) /\ x.col \in Seq(Atoms) /\ x.name = Qualified(x.of, x.col)
          /\ Plain(x.of) /\ Plain(x.col)
      BY <2>2 DEF Named, Cols
    <3>2. Qualified(t, b) = Qualified(x.of, x.col)
      BY <3>1, <1>2
    <3>3. t = x.of /\ b = x.col
      BY <3>1, <3>2, TakenApart, Zenon
    <3> QED BY <3>3
  <2> QED BY <2>1, <2>2, ProductIs
<1>3. a.cols = <<x>>
  BY <1>1 DEF SelectedOne, Array
<1>4. Len(<<x>>) = 1 /\ <<x>>[1] = x
  OBVIOUS
<1>5. x.of = t /\ (Relational(t) => x.col = c)
  BY <1>1, <1>2, Symbols
<1> HIDE DEF a
<1>6. Len(a.cols) = 1 /\ a.cols[1] = x
  BY <1>3, <1>4
<1>7. a.cols[1].of = t /\ (Relational(t) => a.cols[1].col = c)
  BY <1>5, <1>6
<1> QED BY <1>6, <1>7 DEF a

(* What is selected is what the query says: with a table, that column of the table, or   *)
(* the array; without one, the only column or array of that name.                       *)
THEOREM AnswersAreMeant == Spec => []AnswerIsMeant
<1>1. IInv => AnswerIsMeant
  <2> SUFFICES ASSUME IInv, PlainQuery, \A t \in Sources : ~LooksLikeArray(t),
                      answer.kind \in {"columns", "array"}, query.column # Star
               PROVE  /\ Len(answer.cols) = 1
                      /\ LET x == answer.cols[1]
                         IN  IF query.table = NoName
                             THEN (\A i \in Overshoots(query.column) :
                                     product[i].name \notin DOMAIN Catalogue)
                                    => Means(query.column) = {x}
                             ELSE /\ x.of = query.table
                                  /\ Relational(x.of) => x.col = query.column
    BY DEF AnswerIsMeant
  <2>1. QueryInv /\ AnswerInv /\ PlainArrays
    BY DEF IInv, PlainArrays
  <2>2. query.table \in Seq(Atoms) /\ query.column \in Seq(Atoms)
    BY <2>1, FromIs
  <2>3. answer # NoAnswer /\ answer # Error
    BY DEF NoAnswer, Error
  <2>4. product # <<>> /\ answer = Result /\ Product
    BY <2>1, <2>3 DEF AnswerInv, Product
  <2>5. CASE query.table = NoName
    <3>1. answer = OnlyMatch(Found(query.column))
      BY <2>4, <2>5 DEF Result
    <3> QED BY <2>1, <2>2, <2>3, <2>4, <2>5, <3>1, UnqualifiedAnswer
  <2>6. CASE query.table # NoName
    <3>1. answer = Fetched(query.table, Qualified(query.table, query.column))
      BY <2>4, <2>6 DEF Result
    <3>2. /\ Len(answer.cols) = 1 /\ answer.cols[1].of = query.table
          /\ Relational(query.table) => answer.cols[1].col = query.column
      BY <2>2, <2>3, <2>4, <3>1, QualifiedAnswer
    <3> QED BY <2>6, <3>2
  <2> QED BY <2>5, <2>6
<1> QED BY <1>1, Invariance, PTL

(* A name that means one thing is about one column.                                  *)
LEMMA UniqueHit ==
  ASSUME Product, PlainArrays, NEW c \in Seq(Atoms), NEW z, Means(c) = {z},
         \A t \in Sources : ~Relational(t) => t \notin {Oid, Filename}
  PROVE  \E x \in ToSet(product) :
           /\ Hit(x, c) /\ \A y \in ToSet(product) : Hit(y, c) => y = x
           /\ ~(x.col = Filename /\ x.col = c /\ x.of = c)
<1>1. z \in ToSet(product) /\ z.of \in Sources
      /\ IF Relational(z.of) THEN z.col = c ELSE z.col = Oid /\ c \in {z.of, Oid, Filename}
  BY DEF Means
<1>2. Named(z)
  <2>1. Plain(z.of)
    BY <1>1 DEF Product, PlainQuery
  <2>2. z \notin {Condition, Numbers}
    BY <2>1 DEF Plain, Condition, Numbers, Column, NoName
  <2> QED BY <1>1, <2>2, ProductIs
<1>3. ASSUME NEW y \in ToSet(product), Hit(y, c)
      PROVE  IF Relational(y.of) THEN y = z
             ELSE /\ z = OidOf(y.of) /\ z.of = y.of /\ ~Relational(z.of)
                  /\ y \in {z, FileOf(z.of)}
  <2>1. Named(y) /\ y.of \in Sources
    BY <1>3 DEF Hit, Named
  <2>2. CASE Relational(y.of)
    <3>1. y.col = c
      BY <2>1, <2>2, <1>3, HitIs DEF Hit
    <3>2. y \in Means(c)
      BY <2>1, <2>2, <3>1 DEF Means
    <3> QED BY <2>2, <3>2
  <2>3. CASE ~Relational(y.of)
    <3> DEFINE o == OidOf(y.of)
    <3>1. y.col \in {Oid, Filename} /\ o \in ToSet(product) /\ o.of = y.of /\ o.col = Oid
      BY <2>1, <2>3, ArrayColumns
    <3>2. c \in {y.of, Oid, Filename}
      BY <3>1, <1>3 DEF Hit
    <3> HIDE DEF o
    <3>3. o \in Means(c)
      BY <2>1, <2>3, <3>1, <3>2 DEF Means
    <3>4. o = z
      BY <3>3
    <3>5. y = Column(Qualified(y.of, y.col), y.of, y.col)
      BY <2>1, NamedOnce
    <3>6. y = OidOf(y.of) \/ y = FileOf(y.of)
      BY <3>1, <3>5 DEF OidOf, FileOf
    <3> QED BY <2>3, <3>1, <3>4, <3>6 DEF o
  <2> QED BY <2>2, <2>3
<1>4. CASE Relational(z.of)
  <2>1. Hit(z, c)
    BY <1>1, <1>2, <1>4 DEF Hit
  <2>2. \A y \in ToSet(product) : Hit(y, c) => y = z
    BY <1>3, <1>4
  <2>3. z.col # Filename
    BY <1>1, <1>2, <1>4, HitIs
  <2> QED BY <1>1, <2>1, <2>2, <2>3
<1>5. CASE ~Relational(z.of)
  <2> DEFINE t == z.of
             f == FileOf(t)
  <2>1. f \in ToSet(product) /\ Named(f) /\ f.of = t /\ f.col = Filename
    BY <1>1, <1>2, <1>5, ArrayColumns
  <2>2. t \notin {Oid, Filename} /\ z.col = Oid /\ c \in {t, Oid, Filename} /\ Oid # Filename
    BY <1>1, <1>5, Symbols
  <2> HIDE DEF f
  <2>3. \A y \in ToSet(product) : Hit(y, c) => y \in {z, f}
    BY <1>3, <1>4, <1>5 DEF f
  <2>4. CASE c = Oid
    <3>1. Hit(z, c) /\ ~Hit(f, c)
      BY <1>2, <2>1, <2>2, <2>4 DEF Hit
    <3> QED BY <1>1, <2>2, <2>3, <2>4, <3>1
  <2>5. CASE c # Oid
    <3>1. Hit(f, c) /\ ~Hit(z, c)
      BY <1>2, <2>1, <2>2, <2>5 DEF Hit
    <3>2. ~(f.col = c /\ f.of = c)
      BY <2>1, <2>2
    <3> QED BY <2>1, <2>3, <3>1, <3>2
  <2> QED BY <2>4, <2>5
<1> QED BY <1>4, <1>5

(* A column or array that only one source has is found under its unqualified name.       *)
THEOREM UniquesAreFound == Spec => []UniqueIsFound
<1>1. IInv => UniqueIsFound
  <2> SUFFICES ASSUME IInv, PlainQuery, \A t \in Sources : ~LooksLikeArray(t),
                      product # <<>>, query.table = NoName,
                      Cardinality(Means(query.column)) = 1,
                      Overshoots(query.column) = {},
                      \A t \in Sources : ~Relational(t) => t \notin {Oid, Filename}
               PROVE  answer.kind # "error"
    BY DEF UniqueIsFound
  <2> DEFINE c == query.column
             found == Found(c)
  <2>1. QueryInv /\ AnswerInv /\ PlainArrays /\ Product
    BY DEF IInv, PlainArrays, Product
  <2>2. c \in Seq(Atoms)
    BY <2>1, FromIs
  <2>3. CASE answer = NoAnswer
    BY <2>3 DEF NoAnswer
  <2>4. CASE answer = Result /\ c = Star
    BY <2>4 DEF Result
  <2>5. CASE answer = Result /\ c # Star
    <3>1. answer = OnlyMatch(found)
      BY <2>5 DEF Result
    <3>2. IsFiniteSet(Means(c))
      <4>1. DOMAIN product = 1..Len(product) /\ Len(product) \in Nat
        BY <2>1, ProductIs
      <4>2. ToSet(product) = {product[i] : i \in DOMAIN product}
        BY DEF ToSet
      <4>3. IsFiniteSet(DOMAIN product)
        BY <4>1, FS_Interval
      <4>4. IsFiniteSet(ToSet(product))
        <5>1. product \in Surjection(DOMAIN product, ToSet(product))
          BY <2>1, <4>1, <4>2, ProductIs DEF Surjection
        <5> QED BY <4>3, <5>1, FS_Surjection
      <4>5. Means(c) \subseteq ToSet(product)
        BY DEF Means
      <4> QED BY <4>4, <4>5, FS_Subset
    <3>3. PICK z : Means(c) = {z}
      BY <3>2, FS_Singleton
    <3> HIDE DEF c
    <3>4. PICK x \in ToSet(product) :
            /\ Hit(x, c) /\ \A y \in ToSet(product) : Hit(y, c) => y = x
            /\ ~(x.col = Filename /\ x.col = c /\ x.of = c)
      BY <2>1, <2>2, <3>3, UniqueHit
    <3>5. \A y \in ToSet(product) : Matches(y.name, c) # <<>> => Hit(y, c)
      <4> SUFFICES ASSUME NEW y \in ToSet(product), Matches(y.name, c) # <<>>, ~Hit(y, c)
                   PROVE  FALSE
        OBVIOUS
      <4>1. Size(y.name) + 1 = Size(Sep \o c)
        BY <2>1, <2>2, HitMatches
      <4>2. PICK i \in DOMAIN product : product[i] = y
        BY DEF ToSet
      <4>3. i \in Overshoots(c)
        BY <4>1, <4>2 DEF Overshoots
      <4> QED BY <4>3 DEF c
    <3>6. \A y \in ToSet(product) : y # x => Matches(y.name, c) = <<>>
      BY <3>4, <3>5
    <3>7. found = Matches(x.name, c)
      BY <2>1, <2>2, <3>6, FoundIs
    <3>8. Len(Matches(x.name, c)) = 1
      <4> DEFINE n == x.name
                 p == <<Cut(n, Sep \o Filename), n>>
                 q == <<Cut(n, Sep \o c), n>>
                 M == Matches(n, c)
      <4>1. ~(IsArrayOf(n, c) /\ IsColumnOf(n, c))
        <5>1. IsArrayOf(n, c) => x.of = c /\ x.col = Filename
          BY <2>1, <2>2, MatchIs
        <5>2. IsColumnOf(n, c) => x.col = c \/ Size(n) + 1 = Size(Sep \o c)
          BY <2>1, <2>2, MatchIs
        <5>3. Size(n) + 1 # Size(Sep \o c)
          <6>1. PICK i \in DOMAIN product : product[i] = x
            BY DEF ToSet
          <6> QED BY <6>1 DEF Overshoots, c
        <5> QED BY <5>1, <5>2, <5>3, <3>4
      <4>2. M # <<>>
        BY <2>1, <2>2, <3>4, HitMatches
      <4>3. M = <<>> \/ M = <<p>> \/ M = <<q>>
        BY <4>1, MatchesIs
      <4>4. Len(<<p>>) = 1 /\ Len(<<q>>) = 1
        OBVIOUS
      <4> HIDE DEF M, p, q
      <4>5. Len(M) = 1
        BY <4>2, <4>3, <4>4
      <4> QED BY <4>5 DEF M
    <3>9. found = <<<<x.of, x.name>>>>
      BY <2>1, <2>2, <3>4, <3>7, <3>8, HitMatches
    <3> HIDE DEF found
    <3>10. Len(found) = 1 /\ found[1][1] = x.of /\ found[1][2] = x.name
      BY <3>9
    <3>11. answer = Fetched(x.of, x.name)
      BY <3>1, <3>10 DEF OnlyMatch
    <3>12. answer = SelectedOne(x) \/ answer = Array(OidOf(x.of))
      BY <2>1, <3>4, <3>11, FetchedNamed DEF Hit
    <3> QED BY <3>12 DEF SelectedOne, Array
  <2> QED BY <2>1, <2>3, <2>4, <2>5 DEF AnswerInv
<1> QED BY <1>1, Invariance, PTL

-----------------------------------------------------------------------------
(* "table.*": the names that start with the table's are selected.                       *)
LEMMA StartsWith ==
  ASSUME NEW t \in Seq(Atoms), NEW u \in Seq(Atoms), NEW c \in Seq(Atoms)
  PROVE  /\ IsPrefix(t, Qualified(t, c))
         /\ Plain(t) /\ IsPrefix(t, Qualified(u, c)) => IsPrefix(t, u)
<1>1. /\ Len(t) \in Nat /\ Len(u) \in Nat /\ Len(c) \in Nat
      /\ DOMAIN t = 1..Len(t)
  OBVIOUS
<1>2. IsPrefix(t, Qualified(t, c))
  <2>1. /\ Qualified(t, c) \in Seq(Atoms) /\ Len(Qualified(t, c)) = Len(t) + 2 + Len(c)
        /\ \A i \in 1..Len(t) : Qualified(t, c)[i] = t[i]
    BY QualifiedIs
  <2>2. Len(t) <= Len(Qualified(t, c))
    BY <1>1, <2>1
  <2> QED BY <2>1, <2>2, PrefixIs
<1>3. ASSUME Plain(t), IsPrefix(t, Qualified(u, c)) PROVE IsPrefix(t, u)
  <2> DEFINE q == Qualified(u, c)
             m == Len(u)
  <2>1. /\ q \in Seq(Atoms) /\ \A i \in 1..m : q[i] = u[i]
        /\ q[m + 1] = Underscore /\ q[m + 2] = Underscore
    BY QualifiedIs
  <2> HIDE DEF q
  <2>2. Len(t) <= Len(q) /\ \A i \in 1..Len(t) : q[i] = t[i]
    BY <1>3, <2>1, PrefixIs DEF q
  <2>3. CASE Len(t) <= m
    <3>1. \A i \in 1..Len(t) : u[i] = t[i]
      BY <1>1, <2>1, <2>2, <2>3
    <3> QED BY <2>3, <3>1, PrefixIs
  <2>4. CASE Len(t) = m + 1
    <3>1. t # <<>> /\ Last(t) = t[Len(t)]
      BY <1>3 DEF Plain, Last
    <3>2. Last(t) = Underscore
      BY <1>1, <2>1, <2>2, <2>4, <3>1
    <3> QED BY <1>3, <3>2 DEF Plain
  <2>5. CASE Len(t) >= m + 2
    <3>1. t[m + 1] = Underscore /\ t[m + 1 + 1] = Underscore /\ m + 1 \in 1..(Len(t) - 1)
      <4>1. m + 1 \in 1..Len(t) /\ m + 2 \in 1..Len(t) /\ m + 1 + 1 = m + 2
            /\ m + 1 \in 1..(Len(t) - 1)
        BY <1>1, <2>5
      <4> QED BY <2>1, <2>2, <4>1
    <3>2. m + 1 \in Occurrences(t, Sep)
      <4>1. m + 1 \in Int
        BY <1>1
      <4> QED BY <3>1, <4>1, AtSepIs DEF AtSep
    <3> QED BY <1>3, <3>2 DEF Plain
  <2>6. Len(t) <= m \/ Len(t) = m + 1 \/ Len(t) >= m + 2
    <3> DEFINE l == Len(t)
    <3>1. l \in Nat /\ m \in Nat
      BY <1>1
    <3> HIDE DEF l, m
    <3>2. l <= m \/ l = m + 1 \/ l >= m + 2
      BY <3>1
    <3> QED BY <3>2 DEF l
  <2> QED BY <2>3, <2>4, <2>5, <2>6
<1> QED BY <1>2, <1>3

LEMMA SelectedAll ==
  ASSUME Product, NEW N, NEW names \in Seq(N), HqlCol \in N, Selected(names) # Error
  PROVE  /\ HqlCol \notin ToSet(names)
         /\ \A x \in ToSet(Selected(names).cols) : x \in ToSet(product) /\ x.name \in ToSet(names)
         /\ \A x \in ToSet(product) :
              x.name \in ToSet(names) => x \in ToSet(Selected(names).cols)
<1> DEFINE all == Append(names, HqlCol)
           At(m) == CHOOSE i \in DOMAIN product : product[i].name = m
           cols == [i \in DOMAIN names |-> product[At(names[i])]]
           M == ToSet(Names(product))
<1>1. /\ DOMAIN names = 1..Len(names) /\ Len(names) \in Nat
      /\ DOMAIN all = 1..(Len(names) + 1) /\ all[Len(names) + 1] = HqlCol
      /\ \A i \in 1..Len(names) : all[i] = names[i]
  BY AppendIs
<1>2. /\ ~ \E i \in DOMAIN all : all[i] \notin M
      /\ ~ \E i, j \in DOMAIN all : i # j /\ all[i] = all[j]
      /\ Selected(names) = [kind |-> "columns", cols |-> cols]
  BY DEF Selected
<1>3. Selected(names).cols = cols
  BY <1>2
<1> HIDE DEF all, cols, M
<1>4. \A i \in DOMAIN names : names[i] \in M /\ names[i] # HqlCol
  <2> SUFFICES ASSUME NEW i \in DOMAIN names PROVE names[i] \in M /\ names[i] # HqlCol
    OBVIOUS
  <2>1. i \in DOMAIN all /\ Len(names) + 1 \in DOMAIN all /\ i # Len(names) + 1 /\ all[i] = names[i]
    BY <1>1
  <2> QED BY <1>1, <1>2, <2>1
<1>5. \A i \in DOMAIN names : At(names[i]) \in DOMAIN product /\ product[At(names[i])].name = names[i]
  <2> SUFFICES ASSUME NEW i \in DOMAIN names
               PROVE  At(names[i]) \in DOMAIN product /\ product[At(names[i])].name = names[i]
    OBVIOUS
  <2>1. \E j \in DOMAIN product : product[j].name = names[i]
    BY <1>4 DEF M, ToSet, Names
  <2> QED BY <2>1
<1> HIDE DEF At
<1>6. /\ DOMAIN cols = DOMAIN names
      /\ \A i \in DOMAIN names : cols[i] = product[At(names[i])]
  BY DEF cols
<1>7. ASSUME NEW x \in ToSet(cols) PROVE x \in ToSet(product) /\ x.name \in ToSet(names)
  <2>1. PICK i \in DOMAIN names : x = cols[i]
    BY <1>6, <1>7 DEF ToSet
  <2> QED BY <2>1, <1>5, <1>6 DEF ToSet
<1>8. ASSUME NEW x \in ToSet(product), x.name \in ToSet(names) PROVE x \in ToSet(cols)
  <2>1. PICK i \in DOMAIN names : names[i] = x.name
    BY <1>8 DEF ToSet
  <2>2. PICK j \in DOMAIN product : product[j] = x
    BY DEF ToSet
  <2>3. At(names[i]) = j
    BY <2>1, <2>2, <1>5, ProductIs
  <2>4. cols[i] = x
    BY <2>1, <2>2, <2>3, <1>6
  <2> QED BY <2>4, <1>6 DEF ToSet
<1>9. HqlCol \notin ToSet(names)
  BY <1>4 DEF ToSet
<1> QED BY <1>3, <1>7, <1>8, <1>9

LEMMA ColumnsOfIs ==
  ASSUME Product, NEW t \in Seq(Atoms), ColumnsOf(t) # Error
  PROVE  \E names \in Seq(Seq(Atoms)) :
           /\ ColumnsOf(t) = Selected(names)
           /\ \A x \in ToSet(product) : x.name \in ToSet(names) <=> IsPrefix(t, x.name)
<1> DEFINE V == Seq(Atoms)
           N == Len(product)
           If(n) == IF NamesTable(n, t) THEN <<n>> ELSE <<>>
           ss == [i \in DOMAIN product |-> If(product[i].name)]
           names == FlattenSeq(ss)
<1>1. N \in Nat \ {0} /\ DOMAIN product = 1..N /\ product \in Seq(Cols)
  BY ProductIs
<1>2. \A i \in 1..N : product[i].name \in V
  <2> SUFFICES ASSUME NEW i \in 1..N PROVE product[i].name \in V
    OBVIOUS
  <2>1. product[i] \in Cols
    BY <1>1
  <2> QED BY <2>1 DEF Cols
<1> HIDE DEF V, N
<1>3. \A i \in 1..N : If(product[i].name) \in Seq(V)
  <2> SUFFICES ASSUME NEW i \in 1..N PROVE If(product[i].name) \in Seq(V)
    OBVIOUS
  <2>1. product[i].name \in V
    BY <1>2
  <2>2. <<product[i].name>> \in Seq(V)
    BY <2>1, Single
  <2>3. <<>> \in Seq(V)
    OBVIOUS
  <2> QED BY <2>2, <2>3
<1>4. \A n, m : m \in ToSet(If(n)) <=> m = n /\ IsPrefix(t, n)
  <2> SUFFICES ASSUME NEW n, NEW m PROVE m \in ToSet(If(n)) <=> m = n /\ IsPrefix(t, n)
    OBVIOUS
  <2>1. ToSet(<<>>) = {}
    BY DEF ToSet
  <2>2. ToSet(<<n>>) = {n}
    BY Single
  <2> QED BY <2>1, <2>2 DEF NamesTable
<1> HIDE DEF If
<1>5. ss \in Seq(Seq(V)) /\ Len(ss) = N /\ ss # <<>>
  <2>1. ss = [i \in 1..N |-> If(product[i].name)]
    BY <1>1
  <2>2. ss \in [1..N -> Seq(V)]
    BY <2>1, <1>3
  <2> HIDE DEF ss
  <2>3. ss \in Seq(Seq(V)) /\ Len(ss) = N
    BY <2>2, <1>1
  <2> QED BY <2>3, <1>1
<1>6. \A i \in 1..N : ss[i] = If(product[i].name)
  BY <1>1
<1>7. ColumnsOf(t) = IF names = <<>> THEN Error ELSE Selected(names)
  BY DEF ColumnsOf, If
<1> HIDE DEF ss
<1>8. names \in Seq(V) /\ \A n : n \in ToSet(names) <=> \E i \in 1..N : n \in ToSet(ss[i])
  BY <1>5, FlattenFacts
<1> HIDE DEF names
<1>9. \A n : n \in ToSet(names) <=> \E i \in 1..N : n = product[i].name /\ IsPrefix(t, product[i].name)
  BY <1>4, <1>6, <1>8
<1>10. \A x \in ToSet(product) : x.name \in ToSet(names) <=> IsPrefix(t, x.name)
  <2> SUFFICES ASSUME NEW x \in ToSet(product)
               PROVE  x.name \in ToSet(names) <=> IsPrefix(t, x.name)
    OBVIOUS
  <2>1. PICK i \in 1..N : product[i] = x
    BY <1>1 DEF ToSet
  <2> QED BY <2>1, <1>9
<1>11. ColumnsOf(t) = Selected(names)
  BY <1>7
<1> QED BY <1>8, <1>10, <1>11 DEF V

(* "table.*" selects all columns of the table, and no others if no other name starts     *)
(* with this one's.                                                              *)
THEOREM StarsAreTables == Spec => []StarIsTable
<1>1. IInv => StarIsTable
  <2> SUFFICES ASSUME IInv, PlainQuery, answer.kind = "columns", query.column = Star,
                      query.table # NoName
               PROVE  /\ \A x \in ToSet(product) : x.of = query.table => x \in ToSet(answer.cols)
                      /\ /\ Plain(query.table) /\ ~IsPrefix(query.table, CondCol)
                         /\ \A t \in Sources : IsPrefix(query.table, t) => t = query.table
                         => \A x \in ToSet(answer.cols) : x.of = query.table
    BY DEF StarIsTable
  <2> DEFINE t == query.table
  <2>1. t \in Seq(Atoms)
    BY FromIs DEF IInv
  <2>2. answer # NoAnswer /\ answer # Error
    BY DEF NoAnswer, Error
  <2>3. Product /\ answer = Result
    BY <2>2 DEF IInv, AnswerInv, Product
  <2>4. answer = ColumnsOf(t)
    BY <2>3 DEF Result
  <2> HIDE DEF t
  <2>5. PICK names \in Seq(Seq(Atoms)) :
          /\ ColumnsOf(t) = Selected(names)
          /\ \A x \in ToSet(product) : x.name \in ToSet(names) <=> IsPrefix(t, x.name)
    BY <2>1, <2>2, <2>3, <2>4, ColumnsOfIs
  <2>6. /\ HqlCol \notin ToSet(names)
        /\ \A x \in ToSet(answer.cols) : x \in ToSet(product) /\ x.name \in ToSet(names)
        /\ \A x \in ToSet(product) : x.name \in ToSet(names) => x \in ToSet(answer.cols)
    <3>1. HqlCol \in Seq(Atoms)
      BY Symbols
    <3> QED BY <2>2, <2>3, <2>4, <2>5, <3>1, SelectedAll
  <2>7. \A x : Named(x) => x.of \in Seq(Atoms) /\ x.col \in Seq(Atoms) /\ x.of \in Sources
                           /\ x.name = Qualified(x.of, x.col)
    BY DEF Named, Cols
  <2>8. ASSUME NEW x \in ToSet(product), x.of = t PROVE x \in ToSet(answer.cols)
    <3>1. x \notin {Condition, Numbers}
      BY <2>8 DEF Condition, Numbers, Column, t
    <3>2. Named(x)
      BY <2>3, <3>1, ProductIs
    <3>3. IsPrefix(t, x.name)
      BY <2>1, <2>7, <2>8, <3>2, StartsWith
    <3> QED BY <2>5, <2>6, <3>3
  <2>9. ASSUME Plain(t), ~IsPrefix(t, CondCol), \A u \in Sources : IsPrefix(t, u) => u = t,
               NEW x \in ToSet(answer.cols)
        PROVE  x.of = t
    <3>1. x \in ToSet(product) /\ x.name \in ToSet(names) /\ IsPrefix(t, x.name)
      BY <2>5, <2>6
    <3>2. x.name # CondCol /\ x.name # HqlCol
      BY <2>6, <2>9, <3>1
    <3>3. x \notin {Condition, Numbers}
      BY <3>2 DEF Condition, Numbers, Column
    <3>4. Named(x)
      BY <2>3, <3>1, <3>3, ProductIs
    <3>5. IsPrefix(t, x.of)
      BY <2>1, <2>7, <2>9, <3>1, <3>4, StartsWith
    <3> QED BY <2>7, <2>9, <3>4, <3>5
  <2> QED BY <2>8, <2>9 DEF t
<1> QED BY <1>1, Invariance, PTL
=============================================================================
