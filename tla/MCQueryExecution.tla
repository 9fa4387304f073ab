--------------------------- MODULE MCQueryExecution ---------------------------
(***************************************************************************)
(* Plans for TLC: queries of the README and the tests, by kinds of nodes.      *)
(***************************************************************************)
EXTENDS QueryExecutionProps

N(k, r, a) == [kind |-> k, reads |-> r, arrays |-> a]

(* SELECT * FROM t WHERE a > 1; and a query whose product has no row, so that    *)
(* nothing of its SELECT list is evaluated.                                  *)
Relational == <<N("pgSource", {}, {}), N("multiply", {1}, {}), N("pgColumn", {2}, {}),
                N("constant", {2}, {}), N("pgOperation", {3, 4}, {}), N("where", {5}, {}),
                N("filtered", {2, 6}, {}), N("star", {7}, {}), N("addResults", {8}, {}),
                N("finish", {9}, {})>>
NoRows == <<N("pgSource", {}, {}), N("multiply", {1}, {}), N("finish", {2}, {})>>

(* SELECT g(t1.a) FROM t1 NATURAL JOIN t2.                                   *)
Natural == <<N("pgSource", {}, {}), N("pgSource", {}, {}), N("join", {1, 2}, {}),
             N("multiply", {3}, {}), N("string", {4}, {}), N("sqlFunction", {5}, {}),
             N("postGis", {6}, {}), N("addResults", {7}, {}), N("finish", {8}, {})>>

(* SELECT * FROM t JOIN a ON f(a): the arrays of the rows of tmp are looked up one   *)
(* by one.                                                                  *)
Theta == <<N("pgSource", {}, {}), N("rasSource", {}, {}), N("thetaOpen", {1, 2}, {}),
           N("rasColumn", {0}, {}), N("scalarFunction", {4}, {4}), N("thetaClose", {5}, {}),
           N("multiply", {6}, {}), N("star", {7}, {}), N("addResults", {8}, {}),
           N("finish", {9}, {})>>

(* SELECT a + 1 FROM a, and SELECT a[i] + a FROM a: operators on arrays.       *)
Mixed == <<N("rasSource", {}, {}), N("multiply", {1}, {}), N("rasColumn", {2}, {}),
           N("constant", {2}, {}), N("mixedOperation", {3, 4}, {3}),
           N("addResults", {5}, {}), N("finish", {6}, {5})>>
Arrays == <<N("rasSource", {}, {}), N("multiply", {1}, {}), N("rasColumn", {2}, {}),
            N("interval", {2}, {}), N("addResults", {4}, {}), N("trim", {3, 5}, {3}),
            N("rasColumn", {2}, {}), N("arrayOperation", {6, 7}, {6, 7}),
            N("addResults", {8}, {}), N("finish", {9}, {8})>>

(* SELECT scale(a, 2), avg_cells(a) FROM a.                                  *)
Functions == <<N("rasSource", {}, {}), N("multiply", {1}, {}), N("rasColumn", {2}, {}),
               N("constant", {2}, {}), N("function2", {3, 4}, {3}), N("rasColumn", {2}, {}),
               N("scalarFunction", {6}, {6}), N("addResults", {5, 7}, {}),
               N("finish", {8}, {5})>>

MCPlans == {Relational, NoRows, Natural, Theta, Mixed, Arrays, Functions}
=============================================================================
