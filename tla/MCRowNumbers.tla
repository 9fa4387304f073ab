------------------------------ MODULE MCRowNumbers ------------------------------
(***************************************************************************)
(* Queries of the README and the tests, by the classes of their nodes.              *)
(***************************************************************************)
EXTENDS RowNumbersProps

N(c, l, r) == [class |-> c, left |-> l, right |-> r]
Q(nodes, cond) == [nodes |-> nodes, cond |-> cond]

Pg == N("pgColumn", 0, 0)
Ras == N("rasColumn", 0, 0)

(* SELECT id ^ 2, f(id) FROM sql WHERE id > 1.                                  *)
OnlyRelations ==
  Q(<<Pg, Pg, N("pgOperation", 1, 2),
      Pg, Pg, N("pgOperation", 4, 5), N("sqlFunction", 4, 0), N("list", 6, 7)>>, 3)

(* SELECT Coll, inv(Coll) FROM Coll WHERE avg_cells(Coll) > 100.                  *)
OnlyArrays ==
  Q(<<Ras, N("scalarFunction", 1, 0), Pg, N("pgOperation", 2, 3),
      Ras, Ras, N("function1", 6, 0), N("list", 5, 7)>>, 4)

(* SELECT P.firstName, Coll FROM P, Coll WHERE P.size >= avg_cells(Coll).           *)
NameAndArray ==
  Q(<<Pg, Ras, N("scalarFunction", 2, 0), N("pgOperation", 1, 3),
      Pg, Ras, N("list", 5, 6)>>, 4)

(* SELECT P.firstName, 255 - Coll FROM P, Coll WHERE P.size < 5 * 1024.             *)
NameAndOperation ==
  Q(<<Pg, Pg, N("pgOperation", 1, 2),
      Pg, Pg, Ras, N("mixedOperation", 5, 6), N("list", 4, 7)>>, 3)

(* SELECT Coll[1:100, *:*] + scale(Coll, 2) FROM Coll.                           *)
ArrayOperations ==
  Q(<<Ras, Pg, N("interval", 2, 0), N("trim", 1, 3),
      Ras, Pg, N("function2", 5, 6), N("arrayOperation", 4, 7), N("list", 8, 0)>>, 0)

(* SELECT avg_cells(Coll), P.firstName FROM P, Coll.                             *)
ScalarAndName ==
  Q(<<Ras, N("scalarFunction", 1, 0), Pg, N("list", 2, 3)>>, 0)

(* SELECT P.size - Coll FROM P, Coll WHERE avg_cells(255 - Coll) > 100.              *)
OperationTwice ==
  Q(<<Pg, Ras, N("mixedOperation", 1, 2), N("scalarFunction", 3, 0), Pg, N("pgOperation", 4, 5),
      Pg, Ras, N("mixedOperation", 7, 8), N("list", 9, 0)>>, 6)

MCQueries == {OnlyRelations, OnlyArrays, NameAndArray, NameAndOperation, ArrayOperations,
              ScalarAndName, OperationTwice}
=============================================================================
