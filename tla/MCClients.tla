------------------------------- MODULE MCClients -------------------------------
(***************************************************************************)
(* Menus for TLC: the queries are short, but every kind of call is in one.        *)
(***************************************************************************)
EXTENDS ClientsProps

N(k, r, a) == [kind |-> k, reads |-> r, arrays |-> a]

(* SELECT a FROM t, and the same without a row.                                 *)
OneColumn == <<N("pgSource", {}, {}), N("multiply", {1}, {}), N("pgColumn", {2}, {}),
               N("addResults", {3}, {}), N("finish", {4}, {})>>
NoRows == <<N("pgSource", {}, {}), N("multiply", {1}, {}), N("finish", {2}, {})>>

(* SELECT * FROM t1 JOIN t2 ON cond, of no row.                                 *)
Theta == <<N("pgSource", {}, {}), N("pgSource", {}, {}), N("thetaOpen", {1, 2}, {}),
           N("pgColumn", {0}, {}), N("thetaClose", {4}, {}), N("multiply", {5}, {}),
           N("finish", {6}, {})>>

(* SELECT a FROM a, and SELECT avg_cells(a) FROM a.                              *)
OneArray == <<N("rasSource", {}, {}), N("multiply", {1}, {}), N("rasColumn", {2}, {}),
              N("addResults", {3}, {}), N("finish", {4}, {3})>>
Average == <<N("rasSource", {}, {}), N("multiply", {1}, {}), N("rasColumn", {2}, {}),
             N("scalarFunction", {3}, {3}), N("finish", {4}, {})>>

MCMenus == {{OneColumn, NoRows}, {Theta}, {OneArray, Average}}
=============================================================================
