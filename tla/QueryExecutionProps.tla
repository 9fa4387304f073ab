-------------------------- MODULE QueryExecutionProps --------------------------
(***************************************************************************)
(* What the execution of queries promises its user and the two databases,     *)
(* with plans that TLC can try.                                             *)
(***************************************************************************)
EXTENDS QueryExecution

Stored(i) == colls[i] # {}

(* The registry of PostgresDS names only tables that exist, at every moment    *)
(* at which a query, a signal or the end of the input can start the removal,   *)
(* however calls fail: one missing table would undo the removal of all.        *)
RegisteredExists ==
  swallowed = "no" /\ proc \in {"idle", "query"} => pgTemps \subseteq tables

(* A query fails for a reason outside the client, or for a row loop that found no   *)
(* row in this run, so that no collection was made: the ids and the order of the   *)
(* calls never make a statement illegal, in this run or in a later one.         *)
FailureHasCause == failed > 0 => faults > 0 \/ run \in noRows

(* In a first run every fault leaves at most one relation behind that no        *)
(* registry knows, besides tmp; what the client does by itself leaves none,     *)
(* whichever call of whichever node it was that failed.                       *)
OrphanTables == {t \in tables \ {Tmp} : t \notin pgTemps}
OrphanColls == {i \in Ids : Stored(i) /\ i \notin rmTemps}
OneOrphanPerFault ==
  run = 1 /\ proc = "idle" => Cardinality(OrphanTables) + Cardinality(OrphanColls) <= faults

(* A query that reports ok has built every one of its tables, also when a       *)
(* commit was lost and its exception swallowed on the way.                    *)
OkIsReal ==
  proc = "idle" /\ status = "ok" =>
    \A n \in 1..(Len(plan) - 1) : plan[n].kind # "thetaOpen" => base + n \in tables

(* Without faults the program leaves nothing behind on either server, except the   *)
(* table tmp of a theta join whose condition met an empty row loop.             *)
CleanExit ==
  proc = "gone" /\ faults = 0 => /\ tables \subseteq {Tmp}
                                 /\ noRows = {} => Tmp \notin tables
                                 /\ colls = NoCollection

(* Whatever fails, every query is answered, or the process is on its way out, and       *)
(* every exit ends, also when tables cannot be dropped.                             *)
QueriesAndExitsEnd ==
  /\ proc = "query" ~> proc # "query"
  /\ proc = "exit" ~> proc = "gone"
=============================================================================
