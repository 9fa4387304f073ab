---------------------------- MODULE QueryExecution ----------------------------
(***************************************************************************)
(* The execution of queries by the whole client: QueryTree::execute() walks   *)
(* the query tree, every node materialises its result as a relation named by  *)
(* the node's id, in PostgreSQL and for arrays also as a rasdaman collection,  *)
(* and registers it for removal; exitProgram() removes what is registered.    *)
(* Calls fail, signals arrive between and inside calls, the process dies and   *)
(* is started again, and then the ids start from 1 again while the servers     *)
(* remember.                                                               *)
(*                                                                         *)
(* One call of a data source is one action; PostgresDS and RasdamanDS model    *)
(* what goes on inside a call, and the ways a call can end here are theirs.     *)
(* A read (SELECT without INTO) whose failure leaves what a failure of the     *)
(* next call leaves is part of that call.  A plan is the sequence of nodes in  *)
(* the order of their evaluation.                                           *)
(***************************************************************************)
EXTENDS NodeScripts

CONSTANTS Plans,      \* the queries the user may type
          MaxId,      \* bound on the ids one process gives out
          MaxRuns,    \* how often the program is started
          MaxFaults   \* how many calls fail, signals arrive or processes die

ASSUME PlansAssumption == \A p \in Plans : IsPlan(p) /\ FormsTree(p)
ASSUME BoundsAssumption == MaxId \in 0..99 /\ MaxRuns \in Nat \ {0} /\ MaxFaults \in Nat

Tmp == 0
Ids == 1..MaxId
Rels == {Tmp} \cup Ids
Runs == 1..MaxRuns

VARIABLES
  proc,       \* what the process does: wait for input, execute, exit, or be gone
  plan,       \* the query in execution, or the last one
  node, pos,  \* its current node and that node's next call
  base,       \* the id before the first one of the query
  idCounter,  \* QtNode::idCounter
  status,     \* what the last query reported
  tables,     \* PostgreSQL: the generated tables that exist
  pgTemps,    \* the registry of PostgresDS
  colls,      \* rasdaman: for every generated name, the runs whose arrays it holds
  rmTemps,    \* the registry of RasdamanDS
  run,        \* how often the program has been started
  failed,     \* how many queries failed in this run
  faults,     \* how many faults there have been
  swallowed,  \* whether commitTa() has swallowed an exception in this run
  noRows      \* the runs in which a row loop found no row to loop over

treeVars == <<plan, node, pos, base, idCounter>>
pgVars == <<tables, pgTemps>>
rmVars == <<colls, rmTemps>>
histVars == <<run, failed, faults, swallowed, noRows>>
vars == <<proc, treeVars, status, pgVars, rmVars, histVars>>

TypeOK ==
  /\ proc \in {"idle", "query", "exit", "exitRas", "gone"}
  /\ plan \in Plans
  /\ node \in 1..Len(plan) /\ pos \in 1..6
  /\ base \in 0..MaxId /\ idCounter \in 0..MaxId
  /\ status \in {"none", "ok", "failed"}
  /\ tables \in SUBSET Rels /\ pgTemps \in SUBSET Ids
  /\ colls \in [Ids -> SUBSET Runs] /\ rmTemps \in SUBSET Ids
  /\ run \in Runs
  /\ failed \in Nat /\ faults \in 0..MaxFaults
  /\ swallowed \in {"no", "yes"}
  /\ noRows \in SUBSET Runs

NoCollection == [i \in Ids |-> {}]

Init ==
  /\ proc = "idle"
  /\ plan \in Plans
  /\ node = 1 /\ pos = 1 /\ base = 0 /\ idCounter = 0
  /\ status = "none"
  /\ tables = {} /\ pgTemps = {}
  /\ colls = NoCollection /\ rmTemps = {}
  /\ run = 1 /\ failed = 0 /\ faults = 0 /\ swallowed = "no" /\ noRows = {}

-----------------------------------------------------------------------------
Current == plan[node]
Call == Script[Current.kind][pos]
Calling(c) == proc = "query" /\ Call = c

Rel(n) == IF n = 0 THEN Tmp ELSE base + n
Own == IF Current.kind = "thetaOpen" THEN Tmp ELSE base + node

(* What the servers require of the next call.                                *)
Legal ==
  /\ Call # "save" => \A n \in Current.reads : Rel(n) \in tables
  /\ \A n \in Current.arrays : colls[Rel(n)] # {}
  /\ Call \in {"pgInto", "tmpClose"} => Own \notin tables
  /\ Call = "pgNumber" => Own \in tables
  /\ Call = "tmpClose" => Tmp \in tables
  /\ Call = "rmRead" => colls[Own] # {}

Advance ==
  IF pos < Len(Script[Current.kind]) THEN pos' = pos + 1 /\ node' = node
                                     ELSE pos' = 1 /\ node' = node + 1

WithArray == [colls EXCEPT ![Own] = @ \cup {run}]

-----------------------------------------------------------------------------
(* Mutation of generateId(): the ids of the last query are given out again.   *)
StartQueryReusesIds ==
  /\ proc = "idle"
  /\ \E p \in Plans :
       /\ Len(p) <= MaxId
       /\ plan' = p
       /\ base' = 0
       /\ idCounter' = Len(p)
  /\ node' = 1 /\ pos' = 1
  /\ proc' = "query"
  /\ UNCHANGED <<status, pgVars, rmVars, histVars>>

(* The parser has built a tree, whose nodes have taken ids, and executes it.   *)
StartQuery ==
  /\ proc = "idle"
  /\ \E p \in Plans :
       /\ idCounter + Len(p) <= MaxId
       /\ plan' = p
       /\ idCounter' = idCounter + Len(p)
  /\ base' = idCounter
  /\ node' = 1 /\ pos' = 1
  /\ proc' = "query"
  /\ UNCHANGED <<status, pgVars, rmVars, histVars>>

(* The calls that succeed.                                                  *)

PgCreates ==
  /\ \/ Calling("pgInto") /\ tables' = tables \cup {Own}
     \/ Calling("tmpInto") /\ tables' = tables \cup {Tmp}
     \/ Calling("tmpClose") /\ tables' = (tables \cup {Own}) \ {Tmp}
  /\ Legal
  /\ Advance
  /\ UNCHANGED <<proc, plan, base, idCounter, status, pgTemps, rmVars, histVars>>

(* The commit fails, commitTa() drops the exception, and the call returns.    *)
PgCreateLost ==
  /\ Call \in {"pgInto", "tmpInto", "tmpClose"} /\ proc = "query"
  /\ Legal
  /\ faults < MaxFaults
  /\ faults' = faults + 1
  /\ swallowed' = "yes"
  /\ Advance
  /\ UNCHANGED <<proc, plan, base, idCounter, status, pgVars, rmVars, run, failed, noRows>>

PgRegisters ==
  /\ Calling("pgReg")
  /\ pgTemps' = pgTemps \cup {Own}
  /\ Advance
  /\ UNCHANGED <<proc, plan, base, idCounter, status, tables, rmVars, histVars>>

(* insertData() replaces a table of that name and registers it by itself.      *)
PgLoads ==
  /\ Calling("pgLoad") /\ Legal
  /\ tables' = tables \cup {Own}
  /\ pgTemps' = pgTemps \cup {Own}
  /\ Advance
  /\ UNCHANGED <<proc, plan, base, idCounter, status, rmVars, histVars>>

(* One SELECT INTO per row: rasdaman adds to a collection that exists.        *)
RmAddsArray ==
  /\ Calling("rmInto") /\ Legal
  /\ colls' = WithArray
  /\ (pos' = pos /\ node' = node) \/ Advance
  /\ UNCHANGED <<proc, plan, base, idCounter, status, pgVars, rmTemps, histVars>>

(* A loop over the rows of a table, or over the arrays of a collection, that is  *)
(* empty makes no SELECT INTO: no row may satisfy a condition, or the source may   *)
(* hold no array any more.  There will be no collection to read.              *)
RmLoopsOverNoRow ==
  /\ Calling("rmInto") /\ Legal
  /\ Current.kind \in RowKinds /\ run \notin colls[Own]
  /\ noRows' = noRows \cup {run}
  /\ Advance
  /\ UNCHANGED <<proc, plan, base, idCounter, status, pgVars, rmVars>>
  /\ UNCHANGED <<run, failed, faults, swallowed>>

RmRegisters ==
  /\ Calling("rmReg")
  /\ rmTemps' = rmTemps \cup {Own}
  /\ Advance
  /\ UNCHANGED <<proc, plan, base, idCounter, status, pgVars, colls, histVars>>

Reads ==
  /\ proc = "query" /\ Call \in {"pgNumber", "rmRead", "pgRead", "save"}
  /\ Legal
  /\ Advance
  /\ UNCHANGED <<proc, plan, base, idCounter, status, pgVars, rmVars, histVars>>

(* RasdamanDS::removeTempTables(): a DROP that fails is only warned about, so that a *)
(* registered collection that was never made does no harm.                   *)
DropCollections ==
  /\ rmTemps' = {}
  /\ \E kept \in SUBSET rmTemps :
       /\ faults' = faults + Cardinality(kept)
       /\ faults' <= MaxFaults
       /\ colls' = [i \in Ids |-> IF i \in rmTemps \ kept THEN {} ELSE colls[i]]

QueryOk ==
  /\ Calling("rmRemove")
  /\ DropCollections
  /\ proc' = "idle" /\ status' = "ok"
  /\ UNCHANGED <<treeVars, pgVars, run, failed, swallowed, noRows>>

-----------------------------------------------------------------------------
(* The calls that fail.                                                     *)

(* What a call that is cut short may leave on the servers, at once or by the end  *)
(* of the process: a change whose commit was refused is still pending, and a later *)
(* call may commit it.                                                     *)
Leftovers ==
  /\ tables' \in IF Call = "pgLoad" THEN {tables, tables \cup {Own}, tables \ {Own}}
                                    ELSE {tables}
  /\ colls' \in IF Call = "rmInto" THEN {colls, WithArray} ELSE {colls}

(* The exception ends in QueryTree::execute(): nothing is cleaned up.         *)
CallFails ==
  /\ proc = "query" /\ Call \notin {"pgReg", "rmReg", "rmRemove"}
  /\ IF Legal THEN faults < MaxFaults /\ faults' = faults + 1 /\ Leftovers
              ELSE UNCHANGED <<faults, tables, colls>>
  /\ proc' = "idle" /\ status' = "failed"
  /\ failed' = failed + 1
  /\ UNCHANGED <<treeVars, pgTemps, rmTemps, run, swallowed, noRows>>

(* SIGINT, SIGTSTP, SIGPIPE or a segmentation fault inside a call or between    *)
(* two: the handler calls exitProgram() then and there.                      *)
Signal ==
  /\ proc = "query"
  /\ faults < MaxFaults /\ faults' = faults + 1
  /\ Leftovers
  /\ proc' = "exit"
  /\ UNCHANGED <<treeVars, status, pgTemps, rmTemps, run, failed, swallowed, noRows>>

(* The process is killed by a signal it does not handle.                     *)
Killed ==
  /\ proc \in {"idle", "query", "exit", "exitRas"}
  /\ faults < MaxFaults /\ faults' = faults + 1
  /\ IF proc = "query" THEN Leftovers ELSE tables' = tables /\ colls' = colls
  /\ proc' = "gone"
  /\ UNCHANGED <<treeVars, status, pgTemps, rmTemps, run, failed, swallowed, noRows>>

-----------------------------------------------------------------------------
(* exitProgram().                                                          *)

EndOfInput ==
  /\ proc = "idle"
  /\ proc' = "exit"
  /\ UNCHANGED <<treeVars, status, pgVars, rmVars, histVars>>

Missing == pgTemps \ tables

(* Mutation of exitProgram(): the registry is emptied, nothing is dropped.     *)
ExitForgets ==
  /\ proc = "exit"
  /\ tables' = tables
  /\ pgTemps' = {} /\ proc' = "exitRas"
  /\ UNCHANGED <<treeVars, status, rmVars, histVars>>

(* Mutation: the removal is tried again until every table can be dropped.      *)
ExitDropsRetries ==
  /\ proc = "exit" /\ Missing = {}
  /\ tables' = tables \ pgTemps
  /\ pgTemps' = {} /\ proc' = "exitRas"
  /\ UNCHANGED <<treeVars, status, rmVars, histVars>>

(* PostgresDS::removeTempTables() is one transaction.  A DROP of a table that  *)
(* does not exist undoes it; the next DROP, if there is one, uses the NULL     *)
(* transaction, twice, and the process dies.                                *)
ExitDropsTables ==
  /\ proc = "exit"
  /\ \/ /\ Missing = {}
        /\ tables' = tables \ pgTemps
        /\ pgTemps' = {} /\ proc' = "exitRas"
     \/ /\ Missing # {} /\ \A t \in Missing : IsLast(t, pgTemps)
        /\ tables' = tables
        /\ pgTemps' = {} /\ proc' = "exitRas"
     \/ /\ \E t \in Missing : ~IsLast(t, pgTemps)
        /\ UNCHANGED pgVars
        /\ proc' = "gone"
  /\ UNCHANGED <<treeVars, status, rmVars, histVars>>

(* The link fails or a DROP is refused; or a signal interrupts the removal and  *)
(* its handler starts another one, which commits the DROPs made so far.        *)
ExitDropsFail ==
  /\ proc = "exit"
  /\ faults < MaxFaults /\ faults' = faults + 1
  /\ \/ pgTemps' = {} /\ tables' = tables /\ proc' = "exitRas"
     \/ pgTemps' = pgTemps /\ tables' = tables /\ proc' = "gone"
     \/ /\ pgTemps' = pgTemps /\ proc' = "gone"
        /\ \E t \in pgTemps : tables' = tables \ UpTo(t, pgTemps)
  /\ UNCHANGED <<treeVars, status, rmVars, run, failed, swallowed, noRows>>

ExitDropsCollections ==
  /\ proc = "exitRas"
  /\ DropCollections
  /\ proc' = "gone"
  /\ UNCHANGED <<treeVars, status, pgVars, run, failed, swallowed, noRows>>

(* The user starts the program again: the ids start again, too.              *)
Restart ==
  /\ proc = "gone" /\ run < MaxRuns
  /\ run' = run + 1
  /\ proc' = "idle" /\ status' = "none"
  /\ idCounter' = 0
  /\ pgTemps' = {} /\ rmTemps' = {}
  /\ failed' = 0 /\ swallowed' = "no"
  /\ UNCHANGED <<plan, node, pos, base, tables, colls, faults, noRows>>

-----------------------------------------------------------------------------
Step ==
  \/ PgCreates \/ PgRegisters \/ PgLoads \/ RmAddsArray \/ RmLoopsOverNoRow
  \/ RmRegisters \/ Reads \/ QueryOk \/ CallFails
  \/ ExitDropsTables \/ ExitDropsCollections

Environment ==
  \/ StartQuery \/ EndOfInput \/ Restart
  \/ PgCreateLost \/ Signal \/ Killed \/ ExitDropsFail

Next == Step \/ Environment

(* The process keeps running, and a query has finitely many rows.             *)
Spec == Init /\ [][Next]_vars /\ WF_vars(Step)
=============================================================================
