------------------------- MODULE QueryExecution_proofs -------------------------
(***************************************************************************)
(* Proofs about the execution of queries: type correctness and the safety      *)
(* properties of QueryExecutionProps, for any queries, ids, runs of the program  *)
(* and faults.                                                              *)
(***************************************************************************)
EXTENDS QueryExecutionProps, FiniteSetTheorems, TLAPS

(* How many calls a node of kind k makes, and whether one of the set calls is among   *)
(* those before the i-th.                                                    *)
Calls(k) == Len(Script[k])
Did(k, i, calls) == \E j \in 1..(i - 1) : Script[k][j] \in calls

(* What the current node has done so far: made its table, registered it, made its   *)
(* collection, read it, registered that one.                                  *)
OwnId == base + node
Kind == Current.kind
Makes == {"pgInto", "pgLoad", "tmpClose"}
Made == Did(Kind, pos, Makes)
Registered == Did(Kind, pos, {"pgReg", "pgLoad"})
ArrayMade == Did(Kind, pos, {"rmInto"})
ArrayRead == Did(Kind, pos, {"rmRead"})
ArrayRegistered == Did(Kind, pos, {"rmReg"})

(* Its collection may be there as soon as the first of its calls has begun.        *)
ArrayBegun == ArrayMade \/ Call = "rmInto"

(* The first call of the node has been made, at least for one row.                *)
Begun == pos > 1 \/ (run = 1 /\ Stored(OwnId))

-----------------------------------------------------------------------------
(* The inductive invariant, in parts.                                       *)

FlowInv == proc = "query" =>
  /\ pos \in 1..Calls(Kind)
  /\ idCounter = base + Len(plan)

(* The registries name only relations of this run, and those of the current node   *)
(* as soon as it has registered them.  A row loop has made a collection, unless it met   *)
(* no row; what has been read is there.                                      *)
RegistryInv ==
  /\ proc = "idle" => pgTemps \subseteq 1..idCounter
  /\ proc = "query" =>
       /\ pgTemps \subseteq 1..OwnId
       /\ OwnId \in pgTemps <=> Registered
       /\ ArrayRegistered => OwnId \in rmTemps
       /\ ArrayMade => Stored(OwnId) \/ run \in noRows
       /\ ArrayRead => Stored(OwnId)

(* Unless a commit has been lost, what is registered exists, and so does what the    *)
(* current node has made.                                                   *)
ExistsInv == swallowed = "no" =>
  /\ proc \in {"idle", "query"} => pgTemps \subseteq tables
  /\ proc = "query" /\ Made => OwnId \in tables

(* Whatever the nodes before have read has been there, and still is.               *)
ReadInv == proc = "query" =>
  /\ \A m \in 1..node : m < node \/ Begun =>
       \A n \in plan[m].reads \ {0} : base + n \in tables
  /\ Begun => /\ 0 \in Current.reads /\ Kind # "thetaClose" => Tmp \in tables
              /\ \A n \in Current.arrays : Stored(base + n)

NoFunction1 == \A p \in Plans : \A n \in 1..Len(p) : p[n].kind # "function1"

(* In a first run the servers hold nothing beyond what the current node has made.     *)
FirstRunInv == run = 1 =>
  /\ proc = "idle" => /\ tables \subseteq 0..idCounter
                      /\ \A i \in Ids : Stored(i) => i <= idCounter
  /\ proc = "query" => /\ tables \subseteq 0..OwnId
                       /\ OwnId \in tables => Made
                       /\ \A i \in Ids : Stored(i) => i <= OwnId
                       /\ Stored(OwnId) => ArrayBegun

(* Every fault of a first run has left at most one orphan, those of the current node    *)
(* apart.                                                                   *)
Own1 == IF proc = "query" THEN {OwnId} ELSE {}
Orphans == Cardinality(OrphanTables \ Own1) + Cardinality(OrphanColls \ Own1)
OrphanInv ==
  run = 1 /\ proc \in {"idle", "query"} /\ NoFunction1 => Orphans <= faults

(* The table tmp is there, as far as the client has got.                         *)
TmpNow == IF pos > 1 /\ Kind \in {"thetaOpen", "thetaClose"} THEN Kind = "thetaOpen"
                                                          ELSE InTheta(plan, node)
IsArrayKind(k) == \E i \in 1..Calls(k) : Script[k][i] = "rmInto"

(* Without faults the servers hold exactly what the nodes so far have made, of the       *)
(* arrays nothing that is not registered, and besides the table tmp at most, if a row   *)
(* loop without rows has made the condition of a theta join fail.                   *)
NodesDone == \A n \in 1..(node - 1) :
  /\ plan[n].kind # "thetaOpen" => base + n \in tables
  /\ IsArrayKind(plan[n].kind) => Stored(base + n)
CleanNodes ==
  /\ tables \subseteq pgTemps \cup {Tmp, OwnId}
  /\ OwnId \in tables => Made
  /\ TmpNow => Tmp \in tables
  /\ noRows = {} /\ Tmp \in tables => TmpNow
  /\ NodesDone
CleanArrays ==
  /\ proc = "gone" => colls = NoCollection
  /\ proc \in {"idle", "exit", "exitRas"} => \A i \in Ids : Stored(i) => i \in rmTemps
  /\ proc = "query" =>
       \A i \in Ids : Stored(i) /\ i \notin rmTemps => i = OwnId /\ ArrayBegun
CleanInv == faults = 0 =>
  /\ swallowed = "no"
  /\ failed > 0 => run \in noRows
  /\ proc \in {"idle", "exit"} => pgTemps \subseteq tables /\ tables \subseteq pgTemps \cup {Tmp}
  /\ proc \in {"exitRas", "gone"} => tables \subseteq {Tmp}
  /\ proc # "query" /\ noRows = {} => Tmp \notin tables
  /\ proc = "query" => CleanNodes
  /\ NoFunction1 => CleanArrays

IInv ==
  /\ TypeOK /\ FlowInv /\ RegistryInv /\ ExistsInv /\ ReadInv /\ OkIsReal
  /\ FirstRunInv /\ OrphanInv /\ CleanInv

-----------------------------------------------------------------------------
(* The scripts.                                                             *)

AllCalls == {"pgInto", "tmpInto", "tmpClose", "pgLoad", "pgReg", "pgNumber", "pgRead",
             "rmInto", "rmRead", "rmReg", "save", "rmRemove"}
Theta == {"thetaOpen", "thetaClose"}
ToFinish == <<"pgRead", "save", "rmRemove">>
OpensTheta == <<"tmpInto", "pgNumber">>
ClosesTheta == <<"tmpClose", "pgReg">>
OneArgument == <<"rmInto", "rmRead", "pgLoad", "pgNumber", "pgReg">>
OtherScripts ==
  {<<"pgInto", "pgReg">>, <<"pgInto", "pgReg", "pgNumber">>, <<"pgLoad">>,
   <<"pgLoad", "pgNumber", "pgReg">>, <<"rmInto", "rmReg", "rmRead", "pgLoad", "pgNumber">>,
   <<"rmInto", "rmRead", "rmReg", "pgLoad", "pgReg", "pgNumber">>}

(* The kinds of nodes share ten scripts.                                      *)
LEMMA TenScripts ==
  ASSUME NEW k \in DOMAIN Script
  PROVE  /\ k = "finish" => Script[k] = ToFinish
         /\ k = "thetaOpen" => Script[k] = OpensTheta
         /\ k = "thetaClose" => Script[k] = ClosesTheta
         /\ k = "function1" => Script[k] = OneArgument
         /\ k \notin {"finish", "thetaOpen", "thetaClose", "function1"} => Script[k] \in OtherScripts
BY DEF Script, Plain, PgSource, RasSource, Multiply, AddResults, Filtered, Where, Join, ThetaOpen,
       ThetaClose, StarColumn, PgColumn, Constant, String, SqlFunction, PostGisFunction,
       Interval, PgOperation, RasColumn, MixedOperation, ArrayOperation, Trim, Function1,
       Function2, ScalarFunction, Finish, ToFinish, OpensTheta, ClosesTheta, OneArgument,
       OtherScripts

(* What a call tells of the calls before it.                                   *)
CallFacts(k, i) ==
  LET c == Script[k][i]
      made == Did(k, i, Makes)
      registered == Did(k, i, {"pgReg", "pgLoad"})
      arrayMade == Did(k, i, {"rmInto"})
      arrayRegistered == Did(k, i, {"rmReg"})
  IN /\ c \in AllCalls
     /\ i = 1 => c \in {"pgInto", "tmpInto", "tmpClose", "pgLoad", "rmInto", "pgRead"}
     /\ i > 1 => c \notin {"pgInto", "tmpInto", "tmpClose", "rmInto", "pgRead"}
     /\ c = "tmpInto" => k = "thetaOpen"
     /\ c = "tmpClose" => k = "thetaClose"
     /\ c \in {"pgRead", "save", "rmRemove"} <=> k = "finish"
     /\ k = "finish" => ~made /\ ~registered /\ ~arrayMade
     /\ k = "thetaOpen" => c \in {"tmpInto", "pgNumber"} /\ ~made /\ ~registered /\ ~arrayMade
     /\ k = "thetaClose" => c \in {"tmpClose", "pgReg"}
     /\ c = "pgReg" => made
     /\ c = "pgLoad" => ~made /\ ~registered
     /\ c = "pgNumber" => made \/ k = "thetaOpen"
     /\ c = "rmRead" => arrayMade /\ ~made
     /\ c = "rmReg" => arrayMade
     /\ c \notin {"rmInto", "rmRead", "rmReg"} /\ arrayMade => arrayRegistered \/ k = "function1"
     /\ registered => made
     /\ made => registered \/ c = "pgReg"

(* And what the last call of a node leaves.                                    *)
EndFacts(k) ==
  LET e == Calls(k) + 1
  IN /\ k \notin {"finish", "thetaOpen"} => Did(k, e, Makes) /\ Did(k, e, {"pgReg", "pgLoad"})
     /\ k \in {"finish", "thetaOpen"} => ~Did(k, e, Makes) /\ ~Did(k, e, {"pgReg", "pgLoad"})
     /\ IsArrayKind(k) => Did(k, e, {"rmRead"})
     /\ Did(k, e, {"rmInto"}) => Did(k, e, {"rmReg"}) \/ k = "function1"

LEMMA ScriptFacts ==
  ASSUME NEW k \in DOMAIN Script
  PROVE  /\ Calls(k) \in 1..6
         /\ \A i \in 1..Calls(k) : CallFacts(k, i)
         /\ EndFacts(k)
<1> USE DEF CallFacts, EndFacts, Calls, Did, Makes, AllCalls, IsArrayKind
<1>1. CASE k = "finish"
  <2>1. Script[k] = <<"pgRead", "save", "rmRemove">>
    BY <1>1, TenScripts DEF ToFinish
  <2> QED BY <1>1, <2>1
<1>2. CASE k = "thetaOpen"
  <2>1. Script[k] = <<"tmpInto", "pgNumber">>
    BY <1>2, TenScripts DEF OpensTheta
  <2> QED BY <1>2, <2>1
<1>3. CASE k = "thetaClose"
  <2>1. Script[k] = <<"tmpClose", "pgReg">>
    BY <1>3, TenScripts DEF ClosesTheta
  <2> QED BY <1>3, <2>1
<1>4. CASE k = "function1"
  <2>1. Script[k] = <<"rmInto", "rmRead", "pgLoad", "pgNumber", "pgReg">>
    BY <1>4, TenScripts DEF OneArgument
  <2> QED BY <1>4, <2>1
<1>5. CASE k \notin {"finish", "thetaOpen", "thetaClose", "function1"}
  <2>1. CASE Script[k] = <<"pgInto", "pgReg">>
    BY <1>5, <2>1
  <2>2. CASE Script[k] = <<"pgInto", "pgReg", "pgNumber">>
    BY <1>5, <2>2
  <2>3. CASE Script[k] = <<"pgLoad">>
    BY <1>5, <2>3
  <2>4. CASE Script[k] = <<"pgLoad", "pgNumber", "pgReg">>
    BY <1>5, <2>4
  <2>5. CASE Script[k] = <<"rmInto", "rmReg", "rmRead", "pgLoad", "pgNumber">>
    BY <1>5, <2>5
  <2>6. CASE Script[k] = <<"rmInto", "rmRead", "rmReg", "pgLoad", "pgReg", "pgNumber">>
    BY <1>5, <2>6
  <2> QED
    BY <1>5, <2>1, <2>2, <2>3, <2>4, <2>5, <2>6, TenScripts DEF OtherScripts
<1> QED BY <1>1, <1>2, <1>3, <1>4, <1>5

(* One call more.                                                           *)
LEMMA DidNext ==
  ASSUME NEW k, NEW i \in Nat \ {0}, NEW calls
  PROVE  /\ ~Did(k, 1, calls)
         /\ Did(k, i + 1, calls) <=> Did(k, i, calls) \/ Script[k][i] \in calls
BY DEF Did

-----------------------------------------------------------------------------
(* The current node and its next call.                                         *)
Shape == TypeOK /\ FlowInv

LEMMA Now ==
  ASSUME Shape, proc = "query"
  PROVE  /\ IsPlan(plan) /\ FormsTree(plan)
         /\ Len(plan) \in Nat /\ node \in 1..Len(plan) /\ node \in Nat
         /\ base \in Nat /\ base + Len(plan) <= MaxId /\ MaxId \in Nat
         /\ Kind = plan[node].kind /\ Kind \in DOMAIN Script
         /\ Kind = "finish" <=> node = Len(plan)
         /\ Calls(Kind) \in 1..6 /\ pos \in 1..Calls(Kind)
         /\ Calls(Kind) \in Nat /\ pos \in Nat \ {0}
         /\ Call = Script[Kind][pos] /\ CallFacts(Kind, pos) /\ EndFacts(Kind)
         /\ OwnId = base + node /\ OwnId \in Ids /\ OwnId \in Nat \ {0} /\ OwnId # Tmp
         /\ Own = IF Kind = "thetaOpen" THEN Tmp ELSE OwnId
         /\ Current.reads \subseteq 0..(node - 1) /\ Current.arrays \subseteq 1..(node - 1)
         /\ \A n \in Nat : Rel(n) = IF n = 0 THEN Tmp ELSE base + n
<1>1. IsPlan(plan) /\ FormsTree(plan)
  BY PlansAssumption DEF Shape, TypeOK
<1>2. /\ Len(plan) \in Nat /\ node \in 1..Len(plan) /\ node \in Nat /\ base \in Nat
      /\ idCounter = base + Len(plan) /\ idCounter <= MaxId /\ MaxId \in Nat
      /\ pos \in 1..Calls(Kind)
  BY <1>1, BoundsAssumption DEF Shape, TypeOK, FlowInv, IsPlan
<1>3. plan[node] \in Nodes
  BY <1>1, <1>2 DEF IsPlan
<1>4. Kind = plan[node].kind /\ Kind \in DOMAIN Script
  BY <1>3 DEF Nodes, Kind, Current
<1>5. Kind = "finish" <=> node = Len(plan)
  BY <1>1, <1>2, <1>4 DEF IsPlan
<1>6. Calls(Kind) \in 1..6 /\ CallFacts(Kind, pos) /\ EndFacts(Kind)
  BY <1>2, <1>4, ScriptFacts
<1>7. OwnId = base + node /\ OwnId \in Ids /\ OwnId \in Nat \ {0} /\ OwnId # Tmp
  BY <1>2 DEF OwnId, Ids, Tmp
<1>8. Own = IF Kind = "thetaOpen" THEN Tmp ELSE OwnId
  BY DEF Own, OwnId, Kind
<1>9. Current.reads \subseteq 0..(node - 1) /\ Current.arrays \subseteq 1..(node - 1)
  BY <1>1, <1>2 DEF IsPlan, Current
<1>10. Call = Script[Kind][pos]
  BY DEF Call, Kind
<1>11. \A n \in Nat : Rel(n) = IF n = 0 THEN Tmp ELSE base + n
  BY DEF Rel
<1>12. Calls(Kind) \in Nat /\ pos \in Nat \ {0}
  BY <1>2, <1>6
<1> QED
  BY <1>1, <1>2, <1>4, <1>5, <1>6, <1>7, <1>8, <1>9, <1>10, <1>11, <1>12

(* A call that returns leads to the next one of the node, or to the next node.        *)
Within ==
  /\ pos' = pos + 1 /\ node' = node /\ pos + 1 <= Calls(Kind)
  /\ OwnId' = OwnId /\ Kind' = Kind /\ Current' = Current
  /\ Made' <=> Made \/ Call \in Makes
  /\ Registered' <=> Registered \/ Call \in {"pgReg", "pgLoad"}
  /\ ArrayMade' <=> ArrayMade \/ Call = "rmInto"
  /\ ArrayRead' <=> ArrayRead \/ Call = "rmRead"
  /\ ArrayRegistered' <=> ArrayRegistered \/ Call = "rmReg"
  /\ ArrayBegun' <=> ArrayBegun

Over ==
  /\ pos' = 1 /\ node' = node + 1 /\ node + 1 <= Len(plan)
  /\ OwnId' = OwnId + 1 /\ Current' = plan[node + 1]
  /\ ~Made' /\ ~Registered' /\ ~ArrayMade' /\ ~ArrayRead' /\ ~ArrayRegistered'
  /\ Made \/ Call \in Makes <=> Kind # "thetaOpen"
  /\ Registered \/ Call \in {"pgReg", "pgLoad"} <=> Kind # "thetaOpen"
  /\ IsArrayKind(Kind) => ArrayRead \/ Call = "rmRead"
  /\ ArrayBegun => ArrayRegistered \/ Call = "rmReg" \/ Kind = "function1"

LEMMA Advances ==
  ASSUME Shape, proc = "query", Call # "rmRemove", Advance, UNCHANGED <<plan, base>>
  PROVE  Within \/ Over
<1>1. CASE pos < Calls(Kind)
  <2>1. pos' = pos + 1 /\ node' = node /\ pos + 1 <= Calls(Kind)
    <3>1. pos \in Nat \ {0} /\ Calls(Kind) \in Nat
      BY Now
    <3> QED BY <1>1, <3>1 DEF Advance, Kind, Calls
  <2>2. OwnId' = OwnId /\ Kind' = Kind /\ Current' = Current
    BY <2>1 DEF OwnId, Kind, Current
  <2>3. \A calls : Did(Kind', pos', calls) <=> Did(Kind, pos, calls) \/ Call \in calls
    <3>1. Call = Script[Kind][pos] /\ pos \in Nat \ {0}
      BY Now
    <3> QED BY <2>1, <2>2, <3>1, DidNext
  <2>4. Call' # "rmInto"
    <3>1. CallFacts(Kind, pos + 1)
      BY <2>1, Now, ScriptFacts
    <3>2. Call' = Script[Kind][pos + 1]
      BY <2>1, <2>2 DEF Call, Kind
    <3>3. pos + 1 > 1
      BY Now
    <3> QED BY <3>1, <3>2, <3>3 DEF CallFacts
  <2>5. Within
    BY <2>1, <2>2, <2>3, <2>4
       DEF Within, Made, Registered, ArrayMade, ArrayRead, ArrayRegistered, ArrayBegun
  <2> QED BY <2>5
<1>2. CASE ~(pos < Calls(Kind))
  <2>1. pos' = 1 /\ node' = node + 1 /\ pos = Calls(Kind)
    <3>1. pos \in 1..Calls(Kind) /\ pos \in Nat \ {0} /\ Calls(Kind) \in Nat
      BY Now
    <3> QED BY <1>2, <3>1 DEF Advance, Kind, Calls
  <2>2. Kind # "finish"
    <3>1. Kind = "finish" => Script[Kind] = <<"pgRead", "save", "rmRemove">>
      BY Now, TenScripts DEF ToFinish
    <3>2. Call = Script[Kind][Calls(Kind)] /\ Calls(Kind) = Len(Script[Kind])
      BY <2>1, Now DEF Calls
    <3> QED BY <3>1, <3>2
  <2>3. node + 1 <= Len(plan)
    BY <2>2, Now
  <2>4. OwnId' = OwnId + 1 /\ Current' = plan[node + 1]
    BY <2>1, Now DEF OwnId, Current
  <2>5. \A calls : ~Did(Kind', pos', calls)
    BY <2>1 DEF Did
  <2>6. \A calls : Did(Kind, pos + 1, calls) <=> Did(Kind, pos, calls) \/ Call \in calls
    <3>1. Call = Script[Kind][pos] /\ pos \in Nat \ {0}
      BY Now
    <3> QED BY <3>1, DidNext
  <2>7. EndFacts(Kind)
    BY Now
  <2>8. Over
    BY <2>1, <2>2, <2>3, <2>4, <2>5, <2>6, <2>7
       DEF Over, EndFacts, Made, Registered, ArrayMade, ArrayRead, ArrayRegistered, ArrayBegun
  <2> QED BY <2>8
<1> QED BY <1>1, <1>2

-----------------------------------------------------------------------------
(* Removals and leftovers have the right types.                                 *)
LEMMA Drops ==
  ASSUME TypeOK, DropCollections
  PROVE  /\ rmTemps' = {} /\ faults' \in 0..MaxFaults /\ faults' >= faults
         /\ colls' \in [Ids -> SUBSET Runs]
         /\ \A i \in Ids : colls'[i] \subseteq colls[i]
<1>1. PICK kept \in SUBSET rmTemps :
        /\ faults' = faults + Cardinality(kept) /\ faults' <= MaxFaults
        /\ colls' = [i \in Ids |-> IF i \in rmTemps \ kept THEN {} ELSE colls[i]]
  BY DEF DropCollections
<1>2. Cardinality(kept) \in Nat
  <2>1. IsFiniteSet(Ids)
    BY BoundsAssumption, FS_Interval DEF Ids
  <2>2. IsFiniteSet(kept)
    BY <2>1, FS_Subset DEF TypeOK
  <2> QED BY <2>2, FS_CardinalityType
<1> QED
  BY <1>1, <1>2, BoundsAssumption DEF DropCollections, TypeOK

LEMMA Leaves ==
  ASSUME Shape, proc = "query", Leftovers
  PROVE  /\ tables' \in SUBSET Rels /\ colls' \in [Ids -> SUBSET Runs]
         /\ tables' = tables \/ (Call = "pgLoad" /\ tables' \in {tables \cup {OwnId}, tables \ {OwnId}})
         /\ colls' = colls \/ (Call = "rmInto" /\ colls' = [colls EXCEPT ![OwnId] = @ \cup {run}])
<1>1. Call \in {"pgLoad", "rmInto"} => Own = OwnId /\ OwnId \in Ids
  BY Now DEF CallFacts
<1>2. colls \in [Ids -> SUBSET Runs] /\ tables \in SUBSET Rels /\ run \in Runs
  BY DEF Shape, TypeOK
<1> QED
  BY <1>1, <1>2 DEF Leftovers, WithArray, Rels

(* Every step keeps the types, and the place in the script.                          *)
LEMMA TypingStep ==
  ASSUME Shape, [Next]_vars
  PROVE  Shape'
<1> USE BoundsAssumption
<1>1. ASSUME proc = "query", Call # "rmRemove", Advance,
             UNCHANGED <<proc, plan, base, idCounter>>
      PROVE  FlowInv' /\ node' \in 1..Len(plan) /\ pos' \in 1..6
  <2>1. Within \/ Over
    BY <1>1, Advances
  <2>2. CASE Within
    <3>1. idCounter' = base' + Len(plan')
      BY <1>1 DEF Shape, FlowInv
    <3>2. pos \in Nat \ {0} /\ Calls(Kind) \in 1..6 /\ node \in 1..Len(plan)
      BY <1>1, Now
    <3>3. pos' \in 1..Calls(Kind') /\ node' \in 1..Len(plan) /\ pos' \in 1..6
      BY <2>2, <3>2 DEF Within
    <3> QED BY <3>1, <3>3 DEF FlowInv
  <2>3. CASE Over
    <3>1. node' \in 1..Len(plan) /\ pos' = 1 /\ plan[node'] \in Nodes
      <4>1. IsPlan(plan) /\ node \in Nat /\ Len(plan) \in Nat
        BY <1>1, Now
      <4>2. node' \in 1..Len(plan) /\ pos' = 1
        BY <2>3, <4>1 DEF Over
      <4> QED BY <4>1, <4>2 DEF IsPlan
    <3>2. Kind' = plan[node'].kind /\ Kind' \in DOMAIN Script
      BY <1>1, <3>1 DEF Nodes, Kind, Current
    <3>3. Calls(Kind') \in 1..6
      BY <3>2, ScriptFacts
    <3>4. idCounter' = base' + Len(plan')
      BY <1>1 DEF Shape, FlowInv
    <3> QED BY <3>1, <3>3, <3>4 DEF FlowInv
  <2> QED BY <2>1, <2>2, <2>3
<1>2. proc = "query" => Own \in Rels /\ OwnId \in Ids /\ (Own = OwnId \/ Kind = "thetaOpen")
  BY Now DEF Rels
<1>3. CASE PgCreates
  <2>1. proc = "query" /\ Call # "rmRemove"
    BY <1>3 DEF PgCreates, Calling
  <2>2. tables' \in SUBSET Rels
    BY <1>2, <1>3, <2>1 DEF PgCreates, Shape, TypeOK, Rels
  <2> QED BY <1>1, <1>3, <2>1, <2>2 DEF PgCreates, Shape, TypeOK, pgVars, rmVars, histVars
<1>4. CASE PgCreateLost
  BY <1>1, <1>4 DEF PgCreateLost, Shape, TypeOK, pgVars, rmVars
<1>5. CASE PgRegisters
  <2>1. proc = "query" /\ Call = "pgReg" /\ Own \in Ids
    BY <1>2, <1>5, Now DEF PgRegisters, Calling, CallFacts
  <2> QED BY <1>1, <1>5, <2>1 DEF PgRegisters, Shape, TypeOK, rmVars, histVars
<1>6. CASE PgLoads
  <2>1. proc = "query" /\ Call = "pgLoad" /\ Own \in Ids
    BY <1>2, <1>6, Now DEF PgLoads, Calling, CallFacts
  <2> QED BY <1>1, <1>2, <1>6, <2>1 DEF PgLoads, Shape, TypeOK, rmVars, histVars
<1>7. CASE RmAddsArray
  <2>1. proc = "query" /\ Call = "rmInto"
    BY <1>7 DEF RmAddsArray, Calling
  <2>2. colls' \in [Ids -> SUBSET Runs]
    BY <1>7 DEF RmAddsArray, WithArray, Shape, TypeOK
  <2>3. FlowInv' /\ node' \in 1..Len(plan) /\ pos' \in 1..6
    <3>1. CASE pos' = pos /\ node' = node
      BY <1>7, <2>1, <3>1 DEF RmAddsArray, Shape, TypeOK, FlowInv, Kind, Current
    <3> QED BY <1>1, <1>7, <2>1, <3>1 DEF RmAddsArray
  <2> QED BY <1>7, <2>2, <2>3 DEF RmAddsArray, Shape, TypeOK, pgVars, histVars
<1>21. CASE RmLoopsOverNoRow
  <2>1. proc = "query" /\ Call # "rmRemove"
    BY <1>21 DEF RmLoopsOverNoRow, Calling
  <2> QED BY <1>1, <1>21, <2>1 DEF RmLoopsOverNoRow, Shape, TypeOK, pgVars, rmVars
<1>8. CASE RmRegisters
  <2>1. proc = "query" /\ Call = "rmReg" /\ Own \in Ids
    BY <1>2, <1>8, Now DEF RmRegisters, Calling, CallFacts
  <2> QED BY <1>1, <1>8, <2>1 DEF RmRegisters, Shape, TypeOK, pgVars, histVars
<1>9. CASE Reads
  BY <1>1, <1>9 DEF Reads, Shape, TypeOK, pgVars, rmVars, histVars
<1>10. CASE QueryOk
  BY <1>10, Drops DEF QueryOk, Shape, TypeOK, FlowInv, treeVars, pgVars
<1>11. CASE CallFails
  <2>1. faults' \in 0..MaxFaults /\ tables' \in SUBSET Rels /\ colls' \in [Ids -> SUBSET Runs]
    BY <1>11, Leaves DEF CallFails, Shape, TypeOK
  <2> QED BY <1>11, <2>1 DEF CallFails, Shape, TypeOK, FlowInv, treeVars
<1>12. CASE Signal
  BY <1>12, Leaves DEF Signal, Shape, TypeOK, FlowInv, treeVars
<1>13. CASE Killed
  <2>1. tables' \in SUBSET Rels /\ colls' \in [Ids -> SUBSET Runs]
    BY <1>13, Leaves DEF Killed, Shape, TypeOK
  <2> QED BY <1>13, <2>1 DEF Killed, Shape, TypeOK, FlowInv, treeVars
<1>14. CASE StartQuery
  <2>1. PICK p \in Plans : /\ idCounter + Len(p) <= MaxId
                           /\ plan' = p /\ idCounter' = idCounter + Len(p)
    BY <1>14 DEF StartQuery
  <2>2. IsPlan(p) /\ Len(p) \in Nat \ {0} /\ p[1] \in Nodes
    BY PlansAssumption DEF IsPlan
  <2>3. Calls(p[1].kind) \in 1..6
    BY <2>2, ScriptFacts DEF Nodes
  <2>4. node' = 1 /\ pos' = 1 /\ base' = idCounter /\ Kind' = p[1].kind
    BY <1>14, <2>1 DEF StartQuery, Kind, Current
  <2>5. FlowInv'
    BY <2>1, <2>3, <2>4 DEF FlowInv
  <2>6. idCounter' \in 0..MaxId /\ node' \in 1..Len(plan')
    BY <2>1, <2>2, <2>4 DEF Shape, TypeOK
  <2>7. TypeOK'
    BY <1>14, <2>1, <2>4, <2>6 DEF StartQuery, Shape, TypeOK, pgVars, rmVars, histVars
  <2> QED BY <2>5, <2>7 DEF Shape
<1>15. CASE EndOfInput
  BY <1>15 DEF EndOfInput, Shape, TypeOK, FlowInv, treeVars, pgVars, rmVars, histVars
<1>16. CASE ExitDropsTables
  BY <1>16 DEF ExitDropsTables, Shape, TypeOK, FlowInv, treeVars, pgVars, rmVars, histVars
<1>17. CASE ExitDropsFail
  BY <1>17 DEF ExitDropsFail, Shape, TypeOK, FlowInv, treeVars, rmVars
<1>18. CASE ExitDropsCollections
  BY <1>18, Drops DEF ExitDropsCollections, Shape, TypeOK, FlowInv, treeVars, pgVars
<1>19. CASE Restart
  BY <1>19 DEF Restart, Shape, TypeOK, FlowInv, Runs
<1>20. CASE UNCHANGED vars
  BY <1>20 DEF vars, treeVars, pgVars, rmVars, histVars, Shape, TypeOK, FlowInv, Kind, Current
<1> QED
  BY <1>3, <1>4, <1>5, <1>6, <1>7, <1>8, <1>9, <1>10, <1>11, <1>12, <1>13, <1>14, <1>15,
     <1>16, <1>17, <1>18, <1>19, <1>20, <1>21 DEF Next, Step, Environment

LEMMA Typing == Spec => []Shape
<1>1. Init => Shape
  <2> SUFFICES ASSUME Init PROVE Shape
    OBVIOUS
  <2>1. Len(plan) \in Nat \ {0}
    BY PlansAssumption DEF Init, IsPlan
  <2> QED
    BY <2>1, BoundsAssumption DEF Init, Shape, TypeOK, FlowInv, Ids, Rels, Runs, NoCollection
<1>2. Shape /\ [Next]_vars => Shape'
  BY TypingStep
<1> QED
  BY <1>1, <1>2, PTL DEF Spec

(* Type correctness: every variable keeps its type, whatever the queries, the calls     *)
(* and the signals do.                                                       *)
THEOREM TypeCorrect == Spec => []TypeOK
<1>1. Shape => TypeOK
  BY DEF Shape
<1> QED
  BY <1>1, Typing, PTL

-----------------------------------------------------------------------------
(* What a call that returns does: it changes its own relation only, and returns only    *)
(* if it was legal or merely registers.  A creating call may return without its table,  *)
(* and a row loop without a collection.                                       *)
Again ==
  /\ Call = "rmInto" /\ pos' = pos /\ node' = node
  /\ OwnId' = OwnId /\ Kind' = Kind /\ Current' = Current
  /\ Made' <=> Made
  /\ Registered' <=> Registered
  /\ ArrayMade' <=> ArrayMade
  /\ ArrayRead' <=> ArrayRead
  /\ ArrayRegistered' <=> ArrayRegistered
  /\ ArrayBegun' <=> ArrayBegun

Returns ==
  /\ proc = "query" /\ proc' = "query" /\ Call # "rmRemove"
  /\ Call \in {"pgReg", "rmReg"} \/ Legal
  /\ Within \/ Over \/ Again
  /\ UNCHANGED <<plan, base, idCounter, status, run, failed>>
  /\ \A t : t \in pgTemps' <=> t \in pgTemps \/ (t = OwnId /\ Call \in {"pgReg", "pgLoad"})
  /\ \A t : t \in rmTemps' <=> t \in rmTemps \/ (t = OwnId /\ Call = "rmReg")
  /\ \A i \in Ids : /\ colls[i] # {} => colls'[i] # {}
                    /\ colls'[i] # {} => colls[i] # {} \/ (i = OwnId /\ Call = "rmInto")
  /\ Call = "rmInto" => colls'[OwnId] # {} \/ run \in noRows'
  /\ noRows \subseteq noRows'
  /\ \/ /\ UNCHANGED <<faults, swallowed>>
        /\ \A t : t \in tables' <=> /\ \/ t \in tables
                                       \/ t = OwnId /\ Call \in Makes
                                       \/ t = Tmp /\ Call = "tmpInto"
                                    /\ ~(t = Tmp /\ Call = "tmpClose")
     \/ faults' = faults + 1 /\ swallowed' = "yes" /\ UNCHANGED tables

LEMMA CallReturns ==
  ASSUME Shape,
         \/ PgCreates \/ PgCreateLost \/ PgRegisters \/ PgLoads
         \/ RmAddsArray \/ RmLoopsOverNoRow \/ RmRegisters \/ Reads
  PROVE  Returns
<1>1. /\ proc = "query" /\ proc' = "query" /\ Call # "rmRemove"
      /\ Call \in {"pgReg", "rmReg"} \/ Legal
      /\ UNCHANGED <<plan, base, idCounter, status, run, failed>>
  BY DEF PgCreates, PgCreateLost, PgRegisters, PgLoads, RmAddsArray, RmLoopsOverNoRow,
         RmRegisters, Reads, Calling, histVars
<1>2. /\ OwnId \in Ids /\ OwnId # Tmp /\ Own = IF Kind = "thetaOpen" THEN Tmp ELSE OwnId
      /\ CallFacts(Kind, pos) /\ Call = Script[Kind][pos]
  BY <1>1, Now
<1>3. Call \in {"pgInto", "tmpClose", "pgReg", "pgLoad", "rmInto", "rmReg"} => Own = OwnId
  BY <1>2 DEF CallFacts
<1>4. Within \/ Over \/ Again
  <2>1. CASE Advance
    BY <1>1, <2>1, Advances
  <2>2. CASE Call = "rmInto" /\ pos' = pos /\ node' = node
    BY <1>1, <2>2 DEF Again, OwnId, Kind, Current, Made, Registered, ArrayMade,
                      ArrayRead, ArrayRegistered, ArrayBegun, Did, Call
  <2> QED BY <2>1, <2>2 DEF PgCreates, PgCreateLost, PgRegisters, PgLoads, RmAddsArray,
                            RmLoopsOverNoRow, RmRegisters, Reads, Calling
<1>5. \A t : t \in pgTemps' <=> t \in pgTemps \/ (t = OwnId /\ Call \in {"pgReg", "pgLoad"})
  BY <1>3 DEF PgCreates, PgCreateLost, PgRegisters, PgLoads, RmAddsArray, RmLoopsOverNoRow,
              RmRegisters, Reads, Calling, pgVars
<1>6. \A t : t \in rmTemps' <=> t \in rmTemps \/ (t = OwnId /\ Call = "rmReg")
  BY <1>3 DEF PgCreates, PgCreateLost, PgRegisters, PgLoads, RmAddsArray, RmLoopsOverNoRow,
              RmRegisters, Reads, Calling, rmVars
<1>7. /\ \A i \in Ids : /\ colls[i] # {} => colls'[i] # {}
                        /\ colls'[i] # {} => colls[i] # {} \/ (i = OwnId /\ Call = "rmInto")
      /\ Call = "rmInto" => colls'[OwnId] # {} \/ run \in noRows'
      /\ noRows \subseteq noRows'
  <2>1. CASE RmAddsArray
    BY <1>2, <1>3, <2>1 DEF RmAddsArray, Calling, WithArray, histVars, Shape, TypeOK
  <2>2. CASE RmLoopsOverNoRow
    BY <2>2 DEF RmLoopsOverNoRow, rmVars
  <2>3. CASE ~RmAddsArray /\ ~RmLoopsOverNoRow
    BY <2>3 DEF PgCreates, PgCreateLost, PgRegisters, PgLoads, RmRegisters, Reads, Calling, rmVars,
                histVars
  <2> QED BY <2>1, <2>2, <2>3
<1>8. \/ /\ UNCHANGED <<faults, swallowed>>
         /\ \A t : t \in tables' <=> /\ \/ t \in tables
                                        \/ t = OwnId /\ Call \in Makes
                                        \/ t = Tmp /\ Call = "tmpInto"
                                     /\ ~(t = Tmp /\ Call = "tmpClose")
      \/ faults' = faults + 1 /\ swallowed' = "yes" /\ UNCHANGED tables
  <2>1. CASE PgCreates
    BY <1>2, <1>3, <2>1 DEF PgCreates, Calling, histVars, Makes
  <2>2. CASE PgCreateLost
    BY <2>2 DEF PgCreateLost, pgVars
  <2>3. CASE PgLoads
    BY <1>2, <1>3, <2>3 DEF PgLoads, Calling, histVars, Makes
  <2>4. CASE PgRegisters \/ RmAddsArray \/ RmRegisters \/ Reads
    BY <2>4 DEF PgRegisters, RmAddsArray, RmRegisters, Reads, Calling, histVars, pgVars, Makes
  <2>5. CASE RmLoopsOverNoRow
    BY <2>5 DEF RmLoopsOverNoRow, Calling, pgVars, Makes
  <2> QED BY <2>1, <2>2, <2>3, <2>4, <2>5
<1> QED
  BY <1>1, <1>4, <1>5, <1>6, <1>7, <1>8 DEF Returns

(* A query begins with fresh ids.                                             *)
Begins ==
  /\ proc = "idle" /\ proc' = "query"
  /\ plan' \in Plans /\ node' = 1 /\ pos' = 1
  /\ base' = idCounter /\ OwnId' = idCounter + 1 /\ OwnId' \in Ids
  /\ Current' = plan'[1] /\ Current'.reads \subseteq {0} /\ Current'.arrays = {}
  /\ ~Made' /\ ~Registered' /\ ~ArrayMade' /\ ~ArrayRead' /\ ~ArrayRegistered'
  /\ UNCHANGED <<status, tables, pgTemps, colls, rmTemps, run, failed, faults, swallowed,
               noRows>>

LEMMA QueryBegins ==
  ASSUME Shape, StartQuery
  PROVE  Begins
<1>1. /\ plan' \in Plans /\ node' = 1 /\ pos' = 1 /\ proc = "idle" /\ proc' = "query"
      /\ base' = idCounter
      /\ UNCHANGED <<status, tables, pgTemps, colls, rmTemps, run, failed, faults, swallowed,
                   noRows>>
  BY DEF StartQuery, pgVars, rmVars, histVars
<1>2. OwnId' = idCounter + 1 /\ Current' = plan'[1]
  BY <1>1 DEF OwnId, Current
<1>3. IsPlan(plan') /\ Len(plan') \in Nat \ {0}
  BY <1>1, PlansAssumption DEF IsPlan
<1>4. plan'[1].reads \subseteq {0} /\ plan'[1].arrays = {}
  BY <1>3 DEF IsPlan
<1>5. ~Made' /\ ~Registered' /\ ~ArrayMade' /\ ~ArrayRead' /\ ~ArrayRegistered'
  BY <1>1 DEF Made, Registered, ArrayMade, ArrayRead, ArrayRegistered, Did
<1>6. OwnId' \in Ids
  <2>1. PICK p \in Plans : idCounter + Len(p) <= MaxId /\ plan' = p
    BY DEF StartQuery
  <2> QED BY <2>1, <1>2, <1>3, BoundsAssumption DEF Ids, Shape, TypeOK
<1> QED
  BY <1>1, <1>2, <1>4, <1>5, <1>6 DEF Begins

(* Between two queries, and from one call to the next.                             *)
LEMMA Cases ==
  ASSUME Shape, [Next]_vars
  PROVE  \/ Returns \/ Begins \/ QueryOk \/ CallFails \/ Restart
         \/ proc' \notin {"idle", "query"}
         \/ UNCHANGED vars
<1>1. \/ PgCreates \/ PgCreateLost \/ PgRegisters \/ PgLoads
      \/ RmAddsArray \/ RmLoopsOverNoRow \/ RmRegisters \/ Reads
      => Returns
  BY CallReturns
<1>2. StartQuery => Begins
  BY QueryBegins
<1>3. \/ EndOfInput \/ Signal \/ Killed \/ ExitDropsTables \/ ExitDropsFail \/ ExitDropsCollections
      => proc' \notin {"idle", "query"}
  BY DEF EndOfInput, Signal, Killed, ExitDropsTables, ExitDropsFail, ExitDropsCollections
<1> QED
  BY <1>1, <1>2, <1>3 DEF Next, Step, Environment

-----------------------------------------------------------------------------
(* The registries.                                                          *)
LEMMA Registries == Spec => []RegistryInv
<1>1. Init => RegistryInv
  BY DEF Init, RegistryInv
<1>2. Shape /\ RegistryInv /\ [Next]_vars => RegistryInv'
  <2> SUFFICES ASSUME Shape, RegistryInv, [Next]_vars PROVE RegistryInv'
    OBVIOUS
  <2>1. CASE Returns
    <3>1. proc = "query" /\ proc' = "query" /\ OwnId \in Ids /\ OwnId \in Nat \ {0}
      BY <2>1, Now DEF Returns
    <3>5. /\ pgTemps \subseteq 1..OwnId
          /\ OwnId \in pgTemps <=> Registered
          /\ ArrayRegistered => OwnId \in rmTemps
          /\ ArrayMade => colls[OwnId] # {} \/ run \in noRows
          /\ ArrayRead => colls[OwnId] # {}
      BY <3>1 DEF RegistryInv, Stored
    <3>6. \A t : t \in pgTemps' <=> t \in pgTemps \/ (t = OwnId /\ Call \in {"pgReg", "pgLoad"})
      BY <2>1 DEF Returns
    <3>4. \A t \in pgTemps' : t \in 1..OwnId
      <4>1. OwnId \in 1..OwnId
        BY <3>1
      <4> QED BY <3>5, <3>6, <4>1
    <3>2. CASE Within \/ Again
      <4>1. /\ OwnId' = OwnId
            /\ Registered' <=> Registered \/ Call \in {"pgReg", "pgLoad"}
            /\ ArrayRegistered' <=> ArrayRegistered \/ Call = "rmReg"
            /\ ArrayMade' => ArrayMade \/ Call = "rmInto"
            /\ ArrayRead' => ArrayRead \/ Call = "rmRead"
        BY <3>2 DEF Within, Again
      <4>2. OwnId' \in pgTemps' <=> Registered'
        BY <3>5, <3>6, <4>1
      <4>3. ArrayRegistered' => OwnId' \in rmTemps'
        BY <2>1, <3>5, <4>1 DEF Returns
      <4>4. ArrayMade' => colls'[OwnId'] # {} \/ run' \in noRows'
        BY <2>1, <3>1, <3>5, <4>1 DEF Returns
      <4>5. ArrayRead' => colls'[OwnId'] # {}
        <5>1. Call = "rmRead" => colls[OwnId] # {}
          <6>1. CallFacts(Kind, pos) /\ Call = Script[Kind][pos]
                /\ Own = (IF Kind = "thetaOpen" THEN Tmp ELSE OwnId)
            BY <3>1, Now
          <6> QED BY <2>1, <6>1 DEF Returns, Legal, CallFacts
        <5> QED BY <2>1, <3>1, <3>5, <4>1, <5>1 DEF Returns
      <4> QED BY <3>1, <3>4, <4>1, <4>2, <4>3, <4>4, <4>5 DEF RegistryInv, Stored
    <3>3. CASE Over
      <4>1. OwnId' = OwnId + 1 /\ ~Registered' /\ ~ArrayMade' /\ ~ArrayRead' /\ ~ArrayRegistered'
        BY <3>3 DEF Over
      <4> QED BY <3>1, <3>4, <4>1 DEF RegistryInv
    <3> QED BY <2>1, <3>2, <3>3 DEF Returns
  <2>2. CASE Begins
    BY <2>2 DEF Begins, RegistryInv, Shape, TypeOK
  <2>3. CASE QueryOk \/ CallFails
    <3>1. /\ proc = "query" /\ proc' = "idle" /\ pgTemps' = pgTemps
          /\ idCounter' = idCounter
      BY <2>3 DEF QueryOk, CallFails, Calling, treeVars, pgVars
    <3>2. OwnId <= idCounter /\ OwnId \in Nat /\ idCounter \in Nat
      <4>1. /\ node \in 1..Len(plan) /\ Len(plan) \in Nat /\ base \in Nat /\ OwnId = base + node
            /\ idCounter = base + Len(plan)
        BY <3>1, Now DEF Shape, FlowInv
      <4> QED BY <4>1
    <3> QED BY <3>1, <3>2 DEF RegistryInv
  <2>4. CASE Restart
    BY <2>4 DEF Restart, RegistryInv
  <2>5. CASE UNCHANGED vars
    BY <2>5 DEF vars, treeVars, pgVars, rmVars, histVars, RegistryInv, Registered, ArrayMade,
                ArrayRead, ArrayRegistered, Did, OwnId, Kind, Current, Stored
  <2> QED BY <2>1, <2>2, <2>3, <2>4, <2>5, Cases DEF RegistryInv
<1> QED
  BY <1>1, <1>2, Typing, PTL DEF Spec

(* What is registered exists, unless a commit has been lost.                      *)
LEMMA Existing == Spec => []ExistsInv
<1>1. Init => ExistsInv
  BY DEF Init, ExistsInv
<1>2. Shape /\ RegistryInv /\ ExistsInv /\ [Next]_vars => ExistsInv'
  <2> SUFFICES ASSUME Shape, RegistryInv, ExistsInv, [Next]_vars, swallowed' = "no",
                      proc' \in {"idle", "query"}
               PROVE  /\ pgTemps' \subseteq tables'
                      /\ proc' = "query" /\ Made' => OwnId' \in tables'
    BY DEF ExistsInv
  <2>1. CASE Returns
    <3>1. /\ proc = "query" /\ OwnId \in Ids /\ OwnId # Tmp /\ Tmp \notin pgTemps
          /\ CallFacts(Kind, pos) /\ Call = Script[Kind][pos]
      BY <2>1, Now DEF Returns, Shape, TypeOK, Tmp, Ids
    <3>2. swallowed = "no" /\ pgTemps \subseteq tables /\ (Made => OwnId \in tables)
      BY <2>1, <3>1 DEF Returns, ExistsInv
    <3>3. \A t : t \in tables' <=> /\ \/ t \in tables
                                      \/ t = OwnId /\ Call \in Makes
                                      \/ t = Tmp /\ Call = "tmpInto"
                                   /\ ~(t = Tmp /\ Call = "tmpClose")
      BY <2>1 DEF Returns
    <3>4. Call = "pgReg" => Made
      BY <3>1 DEF CallFacts, Made
    <3>5. pgTemps' \subseteq tables'
      BY <2>1, <3>1, <3>2, <3>3, <3>4 DEF Returns, Makes
    <3>6. Made' => OwnId' \in tables'
      BY <2>1, <3>1, <3>2, <3>3 DEF Returns, Within, Over, Again
    <3> QED BY <3>5, <3>6
  <2>2. CASE Begins
    BY <2>2 DEF Begins, ExistsInv
  <2>3. CASE QueryOk
    BY <2>3 DEF QueryOk, Calling, pgVars, ExistsInv
  <2>4. CASE CallFails
    <3>1. /\ proc = "query" /\ proc' = "idle"
          /\ swallowed' = swallowed /\ pgTemps' = pgTemps
      BY <2>4 DEF CallFails
    <3>2. /\ pgTemps \subseteq tables
          /\ CallFacts(Kind, pos) /\ Call = Script[Kind][pos]
      BY <3>1, Now DEF ExistsInv
    <3>3. \/ tables' = tables
          \/ Call = "pgLoad" /\ tables' \in {tables \cup {OwnId}, tables \ {OwnId}}
      BY <2>4, <3>1, Leaves DEF CallFails
    <3>4. Call = "pgLoad" => OwnId \notin pgTemps
      BY <3>1, <3>2 DEF CallFacts, RegistryInv, Registered
    <3> QED BY <3>1, <3>2, <3>3, <3>4
  <2>5. CASE Restart
    BY <2>5 DEF Restart
  <2>6. CASE UNCHANGED vars
    BY <2>6 DEF vars, treeVars, pgVars, histVars, ExistsInv, Made, Did, OwnId, Kind, Current
  <2> QED BY <2>1, <2>2, <2>3, <2>4, <2>5, <2>6, Cases
<1> QED
  BY <1>1, <1>2, Typing, Registries, PTL DEF Spec

(* The registry of PostgresDS names only tables that exist, at every moment at which    *)
(* exitProgram() can start to remove them, as long as commitTa() swallowed nothing.   *)
THEOREM RegisteredAlwaysExists == Spec => []RegisteredExists
<1>1. ExistsInv => RegisteredExists
  BY DEF ExistsInv, RegisteredExists
<1> QED
  BY <1>1, Existing, PTL

-----------------------------------------------------------------------------
(* The ids of a query are above those of the queries before.                      *)
LEMMA IdsOfQuery ==
  ASSUME Shape, proc = "query"
  PROVE  OwnId <= idCounter /\ OwnId \in Nat /\ idCounter \in Nat
<1>1. /\ node \in 1..Len(plan) /\ Len(plan) \in Nat /\ base \in Nat /\ OwnId = base + node
      /\ idCounter = base + Len(plan)
  BY Now DEF Shape, FlowInv
<1> QED BY <1>1

(* In a first run the client meets nothing that it has not made itself.                *)
LEMMA FirstRun == Spec => []FirstRunInv
<1>1. Init => FirstRunInv
  BY DEF Init, FirstRunInv, Stored, NoCollection
<1>2. Shape /\ FirstRunInv /\ [Next]_vars => FirstRunInv'
  <2> SUFFICES ASSUME Shape, FirstRunInv, [Next]_vars PROVE FirstRunInv'
    OBVIOUS
  <2>0. ASSUME run = 1, proc = "query"
        PROVE  /\ \A t \in tables : t \in 0..OwnId
               /\ OwnId \in tables => Made
               /\ \A i \in Ids : colls[i] # {} => i <= OwnId
               /\ colls[OwnId] # {} => ArrayBegun
    BY <2>0 DEF FirstRunInv, Stored
  <2>1. CASE Returns
    <3> SUFFICES ASSUME run = 1 PROVE FirstRunInv'
      BY <2>1 DEF Returns, FirstRunInv
    <3>1. proc = "query" /\ proc' = "query" /\ OwnId \in Ids /\ OwnId \in Nat \ {0} /\ Tmp = 0
      BY <2>1, Now DEF Returns, Tmp
    <3>2. /\ \A t \in tables' : t \in tables \/ (t = OwnId /\ Call \in Makes) \/ t = Tmp
          /\ \A i \in Ids : colls'[i] # {} => colls[i] # {} \/ (i = OwnId /\ Call = "rmInto")
      BY <2>1 DEF Returns
    <3>3. \A t \in tables' : t \in 0..OwnId
      <4>1. OwnId \in 0..OwnId /\ Tmp \in 0..OwnId
        BY <3>1
      <4> QED BY <2>0, <3>1, <3>2, <4>1
    <3>4. \A i \in Ids : colls'[i] # {} => i <= OwnId
      BY <2>0, <3>1, <3>2
    <3>5. CASE Within \/ Again
      <4>1. /\ OwnId' = OwnId
            /\ Made \/ Call \in Makes => Made' \/ Again
            /\ Made => Made'
            /\ ArrayBegun' <=> ArrayBegun
        BY <3>5 DEF Within, Again
      <4>2. OwnId' \in tables' => Made'
        BY <2>0, <3>1, <3>2, <4>1 DEF Again, Makes
      <4>3. colls'[OwnId'] # {} => ArrayBegun'
        BY <2>0, <3>1, <3>2, <4>1 DEF ArrayBegun
      <4> QED BY <3>1, <3>3, <3>4, <4>1, <4>2, <4>3 DEF FirstRunInv, Stored
    <3>6. CASE Over
      <4>1. OwnId' = OwnId + 1
        BY <3>6 DEF Over
      <4>2. OwnId' \notin tables' /\ tables' \subseteq 0..OwnId'
        BY <3>1, <3>3, <4>1
      <4>3. \A i \in Ids : colls'[i] # {} => i <= OwnId' /\ i # OwnId'
        <5> SUFFICES ASSUME NEW i \in Ids, colls'[i] # {} PROVE i <= OwnId' /\ i # OwnId'
          OBVIOUS
        <5>1. i \in Nat /\ i <= OwnId /\ OwnId \in Nat
          BY <3>1, <3>4 DEF Ids
        <5> QED BY <4>1, <5>1
      <4>4. OwnId' \in Ids
        <5>1. /\ node + 1 <= Len(plan) /\ node \in Nat /\ Len(plan) \in Nat /\ OwnId = base + node
              /\ base \in Nat /\ MaxId \in Nat /\ base + Len(plan) <= MaxId
          BY <3>1, <3>6, Now DEF Over
        <5> QED BY <4>1, <5>1 DEF Ids
      <4> QED BY <3>1, <4>2, <4>3, <4>4 DEF FirstRunInv, Stored
    <3> QED BY <2>1, <3>5, <3>6 DEF Returns
  <2>2. CASE Begins
    <3> SUFFICES ASSUME run = 1 PROVE FirstRunInv'
      BY <2>2 DEF Begins, FirstRunInv
    <3>1. /\ OwnId' = idCounter + 1 /\ idCounter \in Nat /\ proc' = "query"
          /\ tables' = tables /\ colls' = colls
      BY <2>2 DEF Begins, Shape, TypeOK
    <3>2. /\ \A t \in tables : t \in 0..idCounter
          /\ \A i \in Ids : colls[i] # {} => i <= idCounter
      BY <2>2 DEF Begins, FirstRunInv, Stored
    <3>3. tables' \subseteq 0..OwnId' /\ OwnId' \notin tables'
      BY <3>1, <3>2
    <3>4. \A i \in Ids : colls'[i] # {} => i <= OwnId' /\ i # OwnId'
      <4>1. \A i \in Ids : i \in Nat
        BY DEF Ids
      <4> QED BY <3>1, <3>2, <4>1
    <3>5. OwnId' \in Ids
      BY <2>2 DEF Begins
    <3> QED BY <3>1, <3>3, <3>4, <3>5 DEF FirstRunInv, Stored
  <2>3. CASE QueryOk \/ CallFails
    <3> SUFFICES ASSUME run = 1 PROVE FirstRunInv'
      BY <2>3 DEF QueryOk, CallFails, FirstRunInv
    <3>1. proc = "query" /\ proc' = "idle" /\ idCounter' = idCounter
      BY <2>3 DEF QueryOk, CallFails, Calling, treeVars
    <3>2. OwnId <= idCounter /\ OwnId \in Nat \ {0} /\ idCounter \in Nat /\ OwnId \in Ids
      BY <3>1, IdsOfQuery, Now
    <3>3. \A t \in tables' : t \in tables \/ t = OwnId
      <4>1. CASE QueryOk
        BY <4>1 DEF QueryOk, pgVars
      <4>2. CASE CallFails
        BY <3>1, <4>2, Leaves DEF CallFails
      <4> QED BY <2>3, <4>1, <4>2
    <3>4. \A i \in Ids : colls'[i] # {} => colls[i] # {} \/ i = OwnId
      <4>1. CASE QueryOk
        BY <4>1, Drops DEF QueryOk, Shape
      <4>2. CASE CallFails
        <5>1. colls' = colls \/ colls' = [colls EXCEPT ![OwnId] = @ \cup {run}]
          BY <3>1, <4>2, Leaves DEF CallFails
        <5> QED BY <5>1 DEF Shape, TypeOK
      <4> QED BY <2>3, <4>1, <4>2
    <3>5. tables' \subseteq 0..idCounter'
      <4>1. OwnId \in 0..idCounter /\ \A t \in 0..OwnId : t \in 0..idCounter
        BY <3>2
      <4> QED BY <2>0, <3>1, <3>3, <4>1
    <3>6. \A i \in Ids : colls'[i] # {} => i <= idCounter'
      <4> SUFFICES ASSUME NEW i \in Ids, colls'[i] # {} PROVE i <= idCounter
        BY <3>1
      <4>1. i \in Nat /\ i <= OwnId
        <5>1. OwnId \in Nat /\ OwnId <= OwnId
          BY <3>2
        <5> QED BY <2>0, <3>1, <3>4, <5>1 DEF Ids
      <4> QED BY <3>2, <4>1
    <3> QED BY <3>1, <3>5, <3>6 DEF FirstRunInv, Stored
  <2>4. CASE Restart
    BY <2>4 DEF Restart, FirstRunInv, Shape, TypeOK, Runs
  <2>5. CASE UNCHANGED vars
    BY <2>5 DEF vars, treeVars, pgVars, rmVars, histVars, FirstRunInv, Made, ArrayMade, ArrayBegun,
                Did, OwnId, Kind, Current, Call, Stored
  <2> QED BY <2>1, <2>2, <2>3, <2>4, <2>5, Cases DEF FirstRunInv
<1> QED
  BY <1>1, <1>2, Typing, PTL DEF Spec

-----------------------------------------------------------------------------
(* The servers have found what the calls so far have read.                         *)
LEMMA HasRead ==
  ASSUME Shape, ReadInv, proc = "query", Begun \/ (Legal /\ Call # "save")
  PROVE  /\ \A m \in 1..node : \A n \in plan[m].reads \ {0} : base + n \in tables
         /\ 0 \in Current.reads /\ Kind # "thetaClose" => Tmp \in tables
         /\ \A n \in Current.arrays : colls[base + n] # {}
<1>1. /\ Current = plan[node] /\ node \in Nat
      /\ Current.reads \subseteq 0..(node - 1) /\ Current.arrays \subseteq 1..(node - 1)
  BY Now DEF Current
<1>2. \A n \in Nat : Rel(n) = IF n = 0 THEN Tmp ELSE base + n
  BY Now
<1>3. /\ \A m \in 1..node : m < node \/ Begun =>
             \A n \in plan[m].reads \ {0} : base + n \in tables
      /\ Begun => /\ 0 \in Current.reads /\ Kind # "thetaClose" => Tmp \in tables
                  /\ \A n \in Current.arrays : colls[base + n] # {}
  BY DEF ReadInv, Stored
<1>4. CASE Begun
  BY <1>3, <1>4
<1>5. CASE Legal /\ Call # "save"
  <2>1. /\ \A n \in Current.reads : Rel(n) \in tables
        /\ \A n \in Current.arrays : colls[Rel(n)] # {}
    BY <1>5 DEF Legal
  <2>2. /\ \A n \in Current.reads \ {0} : n \in Nat /\ Rel(n) = base + n
        /\ \A n \in Current.arrays : n \in Nat /\ Rel(n) = base + n
        /\ Rel(0) = Tmp
    BY <1>1, <1>2
  <2>3. \A n \in plan[node].reads \ {0} : base + n \in tables
    BY <1>1, <2>1, <2>2
  <2>4. \A m \in 1..node : m < node \/ m = node
    BY <1>1
  <2>5. \A m \in 1..node : \A n \in plan[m].reads \ {0} : base + n \in tables
    BY <1>3, <2>3, <2>4
  <2> QED BY <2>1, <2>2, <2>5
<1> QED BY <1>4, <1>5

(* What the nodes of a query have read has been there, and stays.                   *)
LEMMA Reading == Spec => []ReadInv
<1>1. Init => ReadInv
  BY DEF Init, ReadInv
<1>2. Shape /\ FirstRunInv /\ ReadInv /\ [Next]_vars => ReadInv'
  <2> SUFFICES ASSUME Shape, FirstRunInv, ReadInv, [Next]_vars PROVE ReadInv'
    OBVIOUS
  <2>1. CASE Returns
    <3>1. /\ proc = "query" /\ plan' = plan /\ base' = base /\ run' = run
          /\ Within \/ Over \/ Again
      BY <2>1 DEF Returns
    <3>2. /\ CallFacts(Kind, pos) /\ Call = Script[Kind][pos] /\ pos \in Nat \ {0}
          /\ OwnId \in Nat \ {0} /\ node \in Nat /\ base \in Nat /\ Tmp = 0
          /\ Current.reads \subseteq 0..(node - 1) /\ IsPlan(plan)
      BY <3>1, Now DEF Tmp
    <3>3. Begun \/ (Legal /\ Call # "save")
      <4>1. pos = 1 => Call \notin {"save", "pgReg", "rmReg"}
        BY <3>2 DEF CallFacts
      <4> QED BY <2>1, <3>2, <4>1 DEF Returns, Begun
    <3>4. /\ \A m \in 1..node : \A n \in plan[m].reads \ {0} : base + n \in tables
          /\ 0 \in Current.reads /\ Kind # "thetaClose" => Tmp \in tables
          /\ \A n \in Current.arrays : colls[base + n] # {}
      BY <3>1, <3>3, HasRead
    <3>5. \A t \in tables : t \in tables' \/ (t = Tmp /\ Kind = "thetaClose")
      BY <2>1, <3>2 DEF Returns, CallFacts
    <3>6. \A m \in 1..node : \A n \in plan'[m].reads \ {0} : base' + n \in tables'
      <4> SUFFICES ASSUME NEW m \in 1..node, NEW n \in plan[m].reads \ {0}
                   PROVE  base + n \in tables'
        BY <3>1
      <4>1. m \in 1..Len(plan)
        BY <3>1, <3>2, Now
      <4>2. n \in Nat \ {0}
        BY <3>2, <4>1 DEF IsPlan
      <4> QED BY <3>2, <3>4, <3>5, <4>2
    <3>7. CASE Within \/ Again
      <4>1. node' = node /\ Current' = Current /\ Kind' = Kind
        BY <3>7 DEF Within, Again
      <4>2. 0 \in Current'.reads /\ Kind' # "thetaClose" => Tmp \in tables'
        BY <3>4, <3>5, <4>1
      <4>3. \A n \in Current'.arrays : colls'[base' + n] # {}
        <5> SUFFICES ASSUME NEW n \in Current.arrays PROVE colls'[base + n] # {}
          BY <3>1, <4>1
        <5>1. base + n \in Ids
          <6>1. /\ Current.arrays \subseteq 1..(node - 1) /\ node \in 1..Len(plan) /\ Len(plan) \in Nat
                /\ base + Len(plan) <= MaxId /\ MaxId \in Nat
            BY <3>1, Now
          <6> QED BY <3>2, <6>1 DEF Ids
        <5> QED BY <2>1, <3>4, <5>1 DEF Returns
      <4> QED BY <3>6, <4>1, <4>2, <4>3 DEF ReadInv, Stored
    <3>8. CASE Over
      <4>1. node' = node + 1 /\ pos' = 1 /\ OwnId' = OwnId + 1
        BY <3>8 DEF Over
      <4>2. ~Begun'
        <5>1. OwnId' \in Ids
          <6>1. /\ node + 1 <= Len(plan) /\ node \in Nat /\ Len(plan) \in Nat /\ OwnId = base + node
                /\ MaxId \in Nat /\ base + Len(plan) <= MaxId
            BY <3>1, <3>8, Now DEF Over
          <6> QED BY <3>2, <4>1, <6>1 DEF Ids
        <5>2. run = 1 => colls[OwnId'] = {}
          <6>1. run = 1 => \A i \in Ids : colls[i] # {} => i <= OwnId
            BY <3>1 DEF FirstRunInv, Stored
          <6> QED BY <3>2, <4>1, <5>1, <6>1
        <5>3. OwnId' # OwnId
          BY <3>2, <4>1
        <5>4. colls'[OwnId'] # {} => colls[OwnId'] # {} \/ (OwnId' = OwnId /\ Call = "rmInto")
          BY <2>1, <5>1 DEF Returns
        <5> QED BY <3>1, <4>1, <5>2, <5>3, <5>4 DEF Begun, Stored
      <4>3. \A m \in 1..node' : m < node' => m \in 1..node
        BY <3>2, <4>1
      <4> QED BY <3>6, <4>2, <4>3 DEF ReadInv
    <3> QED BY <3>1, <3>7, <3>8
  <2>2. CASE Begins
    <3>1. /\ node' = 1 /\ pos' = 1 /\ OwnId' = idCounter + 1 /\ OwnId' \in Ids
          /\ idCounter \in Nat /\ run' = run /\ colls' = colls
      BY <2>2 DEF Begins, Shape, TypeOK
    <3>2. run = 1 => colls[OwnId'] = {}
      <4>1. run = 1 => \A i \in Ids : colls[i] # {} => i <= idCounter
        BY <2>2 DEF Begins, FirstRunInv, Stored
      <4> QED BY <3>1, <4>1
    <3>3. ~Begun'
      BY <3>1, <3>2 DEF Begun, Stored
    <3>4. \A m \in 1..node' : ~(m < node')
      BY <3>1
    <3> QED BY <3>3, <3>4 DEF ReadInv
  <2>3. CASE QueryOk \/ CallFails \/ Restart
    BY <2>3 DEF QueryOk, CallFails, Restart, ReadInv
  <2>4. CASE UNCHANGED vars
    BY <2>4 DEF vars, treeVars, pgVars, rmVars, histVars, ReadInv, Begun, OwnId, Kind, Current, Stored
  <2> QED BY <2>1, <2>2, <2>3, <2>4, Cases DEF ReadInv
<1> QED
  BY <1>1, <1>2, Typing, FirstRun, PTL DEF Spec

(* A query that reports ok has built every one of its tables: even when commitTa() has   *)
(* swallowed an exception, a later call of the query would have missed the table.      *)
THEOREM OkReal == Spec => []OkIsReal
<1>1. Init => OkIsReal
  BY DEF Init, OkIsReal
<1>2. Shape /\ ReadInv /\ OkIsReal /\ [Next]_vars => OkIsReal'
  <2> SUFFICES ASSUME Shape, ReadInv, OkIsReal, [Next]_vars, proc' = "idle", status' = "ok",
                      NEW n \in 1..(Len(plan') - 1), plan'[n].kind # "thetaOpen"
               PROVE  base' + n \in tables'
    BY DEF OkIsReal
  <2>1. CASE QueryOk
    <3>1. /\ proc = "query" /\ Call = "rmRemove"
          /\ plan' = plan /\ base' = base /\ tables' = tables
      BY <2>1 DEF QueryOk, Calling, treeVars, pgVars
    <3>2. /\ CallFacts(Kind, pos) /\ Call = Script[Kind][pos] /\ pos \in Nat \ {0}
          /\ Kind = "finish" <=> node = Len(plan)
          /\ FormsTree(plan) /\ Len(plan) \in Nat
      BY <3>1, Now
    <3>3. Kind = "finish" /\ pos # 1
      BY <3>1, <3>2 DEF CallFacts
    <3>4. \A m \in 1..node : \A r \in plan[m].reads \ {0} : base + r \in tables
      BY <3>1, <3>2, <3>3, HasRead DEF Begun
    <3>5. n \in 1..Len(plan) /\ n < Len(plan) /\ n # 0 /\ plan[n].kind # "thetaOpen"
      BY <3>1, <3>2
    <3>6. PICK m \in 1..Len(plan) : n \in plan[m].reads
      BY <3>2, <3>5 DEF FormsTree
    <3> QED BY <3>1, <3>2, <3>3, <3>4, <3>5, <3>6
  <2>2. CASE UNCHANGED vars
    BY <2>2 DEF vars, treeVars, pgVars, OkIsReal
  <2>3. ~QueryOk /\ ~(UNCHANGED vars) => FALSE
    <3>1. ~Returns /\ ~Begins
      BY DEF Returns, Begins
    <3>2. ~CallFails /\ ~Restart
      BY DEF CallFails, Restart
    <3> QED BY <3>1, <3>2, Cases
  <2> QED BY <2>1, <2>2, <2>3
<1> QED
  BY <1>1, <1>2, Typing, Reading, PTL DEF Spec

-----------------------------------------------------------------------------
(* Between the halves of a theta join, one node later.                              *)
LEMMA ThetaNext ==
  ASSUME NEW p, NEW n \in Nat \ {0}
  PROVE  InTheta(p, n + 1) <=> \/ p[n].kind = "thetaOpen"
                               \/ InTheta(p, n) /\ p[n].kind # "thetaClose"
<1>1. (n + 1) - 1 = n /\ n \in 1..n /\ \A m \in 1..n : m = n \/ m \in 1..(n - 1)
  OBVIOUS
<1>2. ASSUME p[n].kind = "thetaOpen" PROVE InTheta(p, n + 1)
  <2>1. \A k \in (n + 1)..n : p[k].kind # "thetaClose"
    OBVIOUS
  <2> QED BY <1>1, <1>2, <2>1 DEF InTheta
<1>3. ASSUME InTheta(p, n), p[n].kind # "thetaClose" PROVE InTheta(p, n + 1)
  <2>1. PICK m \in 1..(n - 1) : /\ p[m].kind = "thetaOpen"
                                /\ \A k \in (m + 1)..(n - 1) : p[k].kind # "thetaClose"
    BY <1>3 DEF InTheta
  <2>2. m \in 1..n /\ \A k \in (m + 1)..n : k = n \/ k \in (m + 1)..(n - 1)
    OBVIOUS
  <2> QED BY <1>1, <1>3, <2>1, <2>2 DEF InTheta
<1>4. ASSUME InTheta(p, n + 1), p[n].kind # "thetaOpen"
      PROVE  InTheta(p, n) /\ p[n].kind # "thetaClose"
  <2>1. PICK m \in 1..n : /\ p[m].kind = "thetaOpen"
                          /\ \A k \in (m + 1)..n : p[k].kind # "thetaClose"
    BY <1>1, <1>4 DEF InTheta
  <2>2. m \in 1..(n - 1)
    BY <1>4, <2>1
  <2>3. n \in (m + 1)..n /\ \A k \in (m + 1)..(n - 1) : k \in (m + 1)..n
    BY <2>2
  <2> QED BY <2>1, <2>2, <2>3 DEF InTheta
<1> QED BY <1>2, <1>3, <1>4

(* As long as nothing has gone wrong, the next call is legal: its tables and arrays are   *)
(* there, and the name of what it makes is free.  Only what a row loop without rows has   *)
(* not made cannot be read.                                                 *)
LEMMA LegalWhenClean ==
  ASSUME Shape, RegistryInv, ExistsInv, CleanInv, faults = 0,
         proc = "query", Call \notin {"pgReg", "rmReg", "rmRemove"}
  PROVE  Legal \/ (Call = "rmRead" /\ colls[OwnId] = {} /\ run \in noRows)
<1>1. /\ CallFacts(Kind, pos) /\ Call = Script[Kind][pos] /\ pos \in Nat \ {0}
      /\ Own = (IF Kind = "thetaOpen" THEN Tmp ELSE OwnId)
      /\ node \in 1..Len(plan) /\ Len(plan) \in Nat /\ node \in Nat
      /\ FormsTree(plan) /\ Current = plan[node] /\ Kind = plan[node].kind
      /\ Current.reads \subseteq 0..(node - 1) /\ Current.arrays \subseteq 1..(node - 1)
  BY Now DEF Current
<1>2. \A n \in Nat : Rel(n) = IF n = 0 THEN Tmp ELSE base + n
  BY Now
<1>3. /\ OwnId \in tables => Made
      /\ TmpNow => Tmp \in tables
      /\ \A n \in 1..(node - 1) : /\ plan[n].kind # "thetaOpen" => base + n \in tables
                                  /\ IsArrayKind(plan[n].kind) => colls[base + n] # {}
      /\ Made => OwnId \in tables
      /\ ArrayMade => colls[OwnId] # {} \/ run \in noRows
  BY DEF CleanInv, CleanNodes, NodesDone, ExistsInv, RegistryInv, Stored
<1>4. Kind = "thetaClose" \/ 0 \in Current.reads => Tmp \in tables
  <2>1. Kind = "thetaClose" \/ 0 \in Current.reads => InTheta(plan, node)
    BY <1>1 DEF FormsTree
  <2>2. Kind = "thetaClose" => pos = 1
    BY <1>1 DEF CallFacts
  <2> QED BY <1>3, <2>1, <2>2 DEF TmpNow
<1>5. \A n \in Current.reads : Rel(n) \in tables
  <2> SUFFICES ASSUME NEW n \in Current.reads PROVE Rel(n) \in tables
    OBVIOUS
  <2>1. CASE n = 0
    BY <1>2, <1>4, <2>1
  <2>2. CASE n # 0
    <3>1. n \in 1..(node - 1) /\ n \in Nat
      BY <1>1, <2>2
    <3>2. plan[n].kind # "thetaOpen"
      BY <1>1, <2>2 DEF FormsTree
    <3> QED BY <1>2, <1>3, <2>2, <3>1, <3>2
  <2> QED BY <2>1, <2>2
<1>6. \A n \in Current.arrays : colls[Rel(n)] # {}
  <2> SUFFICES ASSUME NEW n \in Current.arrays PROVE colls[Rel(n)] # {}
    OBVIOUS
  <2>1. n \in 1..(node - 1) /\ n \in Nat /\ n # 0
    BY <1>1
  <2>2. IsArrayKind(plan[n].kind)
    BY <1>1 DEF FormsTree, IsArrayKind, Calls
  <2> QED BY <1>2, <1>3, <2>1, <2>2
<1>7. Call \in {"pgInto", "tmpClose"} => Own \notin tables
  <2>1. Call \in {"pgInto", "tmpClose"} => pos = 1 /\ Own = OwnId
    BY <1>1 DEF CallFacts
  <2>2. pos = 1 => ~Made
    BY DEF Made, Did
  <2> QED BY <1>3, <2>1, <2>2
<1>8. Call = "pgNumber" => Own \in tables
  <2>1. Call = "pgNumber" => pos > 1 /\ (Made \/ Kind = "thetaOpen")
    BY <1>1 DEF CallFacts, Made
  <2>2. Kind = "thetaOpen" => ~Made /\ Own = Tmp
    BY <1>1 DEF CallFacts, Made
  <2> QED BY <1>1, <1>3, <2>1, <2>2 DEF TmpNow
<1>9. Call = "tmpClose" => Tmp \in tables
  BY <1>1, <1>4 DEF CallFacts
<1>10. Call = "rmRead" => Own = OwnId /\ (colls[OwnId] # {} \/ run \in noRows)
  BY <1>1, <1>3 DEF CallFacts, ArrayMade
<1> QED BY <1>5, <1>6, <1>7, <1>8, <1>9, <1>10 DEF Legal

(* Without faults a call that returns keeps the servers as the client knows them.       *)
LEMMA CleanReturns ==
  ASSUME Shape, RegistryInv, ExistsInv, CleanInv, faults = 0, faults' = 0, Returns
  PROVE  CleanInv'
<1>1. /\ proc = "query" /\ proc' = "query" /\ plan' = plan /\ base' = base /\ failed' = failed
      /\ Within \/ Over \/ Again
  BY DEF Returns
<1>2. /\ CallFacts(Kind, pos) /\ Call = Script[Kind][pos] /\ pos \in Nat \ {0}
      /\ OwnId \in Ids /\ OwnId \in Nat \ {0} /\ node \in Nat /\ node # 0 /\ base \in Nat
      /\ OwnId = base + node /\ Tmp = 0 /\ Tmp \notin pgTemps
      /\ Len(plan) \in Nat /\ node \in 1..Len(plan) /\ base + Len(plan) <= MaxId /\ MaxId \in Nat
      /\ Kind = plan[node].kind
  BY <1>1, Now DEF Tmp, Shape, TypeOK, Ids
<1>3. /\ swallowed' = swallowed
      /\ \A t : t \in tables' <=> /\ \/ t \in tables
                                     \/ t = OwnId /\ Call \in Makes
                                     \/ t = Tmp /\ Call = "tmpInto"
                                  /\ ~(t = Tmp /\ Call = "tmpClose")
  BY DEF Returns
<1>4. /\ \A t : t \in pgTemps' <=> t \in pgTemps \/ (t = OwnId /\ Call \in {"pgReg", "pgLoad"})
      /\ \A t : t \in rmTemps' <=> t \in rmTemps \/ (t = OwnId /\ Call = "rmReg")
      /\ \A i \in Ids : /\ colls[i] # {} => colls'[i] # {}
                        /\ colls'[i] # {} => colls[i] # {} \/ (i = OwnId /\ Call = "rmInto")
      /\ Call = "rmRead" => Legal
  BY DEF Returns
<1>5. /\ swallowed = "no" /\ (failed > 0 => run \in noRows)
      /\ \A t \in tables : t \in pgTemps \/ t = Tmp \/ t = OwnId
      /\ OwnId \in tables => Made
      /\ TmpNow => Tmp \in tables
      /\ noRows = {} /\ Tmp \in tables => TmpNow
      /\ \A n \in 1..(node - 1) : /\ plan[n].kind # "thetaOpen" => base + n \in tables
                                  /\ IsArrayKind(plan[n].kind) => colls[base + n] # {}
      /\ NoFunction1 => \A i \in Ids : colls[i] # {} /\ i \notin rmTemps => i = OwnId /\ ArrayBegun
      /\ Made => OwnId \in tables
      /\ ArrayRead => colls[OwnId] # {}
      /\ OwnId \in pgTemps <=> Registered
      /\ ArrayRegistered => OwnId \in rmTemps
      /\ \A t \in pgTemps : t \in 1..OwnId
  BY <1>1 DEF CleanInv, CleanNodes, NodesDone, CleanArrays, ExistsInv, RegistryInv, Stored
<1>9. (failed' > 0 => run' \in noRows') /\ (noRows' = {} => noRows = {})
  <2>1. noRows \subseteq noRows' /\ run' = run
    BY DEF Returns
  <2> QED BY <1>1, <1>5, <2>1
<1>6. \A n \in 1..(node - 1) :
        /\ plan[n].kind # "thetaOpen" => base + n \in tables'
        /\ IsArrayKind(plan[n].kind) => colls'[base + n] # {}
  <2> SUFFICES ASSUME NEW n \in 1..(node - 1)
               PROVE  /\ plan[n].kind # "thetaOpen" => base + n \in tables'
                      /\ IsArrayKind(plan[n].kind) => colls'[base + n] # {}
    OBVIOUS
  <2>1. base + n # Tmp /\ base + n \in Ids
    BY <1>2 DEF Ids
  <2> QED BY <1>3, <1>4, <1>5, <2>1
<1>7. CASE Within \/ Again
  <2>1. /\ node' = node /\ OwnId' = OwnId /\ Kind' = Kind
        /\ Made' <=> Made \/ Call \in Makes
        /\ ArrayBegun' <=> ArrayBegun
        /\ pos' = pos + 1 \/ (pos' = pos /\ Call = "rmInto")
    BY <1>7 DEF Within, Again, Makes
  <2>2. \A t \in tables' : t \in pgTemps' \/ t = Tmp \/ t = OwnId'
    BY <1>3, <1>4, <1>5, <2>1
  <2>3. OwnId' \in tables' => Made'
    BY <1>2, <1>3, <1>5, <2>1
  <2>4. (TmpNow' => Tmp \in tables') /\ (noRows' = {} /\ Tmp \in tables' => TmpNow')
    <3>1. InTheta(plan, node)' <=> InTheta(plan, node)
      BY <1>1, <2>1
    <3>2. CASE Kind = "thetaOpen"
      <4>1. pos' > 1
        BY <1>2, <2>1, <3>2 DEF CallFacts
      <4>2. pos = 1 => Call = "tmpInto"
        BY <1>2, <3>2 DEF CallFacts
      <4>3. Call # "tmpClose"
        BY <1>2, <3>2 DEF CallFacts
      <4> QED BY <1>2, <1>3, <1>5, <1>9, <2>1, <3>2, <4>1, <4>2, <4>3 DEF TmpNow
    <3>3. CASE Kind = "thetaClose"
      <4>1. pos' > 1
        BY <1>2, <2>1, <3>3 DEF CallFacts
      <4>2. (pos = 1 => Call = "tmpClose") /\ Call # "tmpInto"
        BY <1>2, <3>3 DEF CallFacts
      <4> QED BY <1>2, <1>3, <1>5, <1>9, <2>1, <3>3, <4>1, <4>2 DEF TmpNow
    <3>4. CASE Kind \notin {"thetaOpen", "thetaClose"}
      <4>1. Call \notin {"tmpInto", "tmpClose"}
        BY <1>2, <3>4 DEF CallFacts
      <4> QED BY <1>2, <1>3, <1>5, <1>9, <2>1, <3>1, <3>4, <4>1 DEF TmpNow
    <3> QED BY <3>2, <3>3, <3>4
  <2>5. NoFunction1 => \A i \in Ids : colls'[i] # {} /\ i \notin rmTemps' => i = OwnId' /\ ArrayBegun'
    BY <1>4, <1>5, <2>1 DEF ArrayBegun
  <2>6. CleanNodes'
    <3>1. NodesDone'
      BY <1>1, <1>6, <2>1 DEF NodesDone, Stored
    <3> QED BY <1>2, <2>2, <2>3, <2>4, <3>1 DEF CleanNodes
  <2>7. NoFunction1 => CleanArrays'
    BY <1>1, <2>5 DEF CleanArrays, Stored
  <2> QED BY <1>1, <1>3, <1>5, <1>9, <2>6, <2>7 DEF CleanInv
<1>8. CASE Over
  <2>1. /\ node' = node + 1 /\ pos' = 1 /\ OwnId' = OwnId + 1
        /\ Made \/ Call \in Makes <=> Kind # "thetaOpen"
        /\ Registered \/ Call \in {"pgReg", "pgLoad"} <=> Kind # "thetaOpen"
        /\ IsArrayKind(Kind) => ArrayRead \/ Call = "rmRead"
        /\ ArrayBegun => ArrayRegistered \/ Call = "rmReg" \/ Kind = "function1"
    BY <1>8 DEF Over
  <2>2. \A t \in tables' : t \in pgTemps' \/ t = Tmp
    BY <1>2, <1>3, <1>4, <1>5, <2>1
  <2>3. OwnId' \notin tables'
    <3>1. OwnId' \notin pgTemps /\ OwnId' # Tmp /\ OwnId' # OwnId
      BY <1>2, <1>5, <2>1
    <3> QED BY <1>4, <2>2, <3>1
  <2>4. (TmpNow' => Tmp \in tables') /\ (noRows' = {} /\ Tmp \in tables' => TmpNow')
    <3>1. TmpNow' <=> InTheta(plan, node + 1)
      BY <1>1, <2>1 DEF TmpNow
    <3>2. InTheta(plan, node + 1) <=> Kind = "thetaOpen" \/ (InTheta(plan, node) /\ Kind # "thetaClose")
      BY <1>2, ThetaNext
    <3>3. CASE Kind = "thetaOpen"
      <4>1. (pos = 1 => Call = "tmpInto") /\ Call # "tmpClose"
        BY <1>2, <3>3 DEF CallFacts
      <4> QED BY <1>2, <1>3, <1>5, <1>9, <3>1, <3>2, <3>3, <4>1 DEF TmpNow
    <3>4. CASE Kind = "thetaClose"
      <4>1. (pos = 1 => Call = "tmpClose") /\ Call # "tmpInto"
        BY <1>2, <3>4 DEF CallFacts
      <4> QED BY <1>2, <1>3, <1>5, <1>9, <3>1, <3>2, <3>4, <4>1 DEF TmpNow
    <3>5. CASE Kind \notin {"thetaOpen", "thetaClose"}
      <4>1. Call \notin {"tmpInto", "tmpClose"}
        BY <1>2, <3>5 DEF CallFacts
      <4> QED BY <1>2, <1>3, <1>5, <1>9, <3>1, <3>2, <3>5, <4>1 DEF TmpNow
    <3> QED BY <3>3, <3>4, <3>5
  <2>5. \A n \in 1..node : /\ plan[n].kind # "thetaOpen" => base + n \in tables'
                           /\ IsArrayKind(plan[n].kind) => colls'[base + n] # {}
    <3>1. /\ plan[node].kind # "thetaOpen" => base + node \in tables'
          /\ IsArrayKind(plan[node].kind) => colls'[base + node] # {}
      <4>1. Call = "rmRead" => colls[OwnId] # {}
        <5>1. Call = "rmRead" => Own = OwnId
          BY <1>1, <1>2, Now DEF CallFacts
        <5> QED BY <1>4, <5>1 DEF Legal
      <4> QED BY <1>2, <1>3, <1>4, <1>5, <2>1, <4>1
    <3>2. \A n \in 1..node : n = node \/ n \in 1..(node - 1)
      BY <1>2
    <3> QED BY <1>6, <3>1, <3>2
  <2>6. NoFunction1 => \A i \in Ids : colls'[i] # {} => i \in rmTemps'
    <3>1. NoFunction1 => Kind # "function1"
      BY <1>2 DEF NoFunction1, Shape, TypeOK
    <3> QED BY <1>4, <1>5, <2>1, <3>1 DEF ArrayBegun
  <2>7. tables' \subseteq pgTemps' \cup {Tmp, OwnId'}
    BY <2>2
  <2>8. CleanNodes'
    <3>1. \A n \in 1..(node' - 1) : n \in 1..node
      BY <1>2, <2>1
    <3>2. NodesDone'
      BY <1>1, <2>5, <3>1 DEF NodesDone, Stored
    <3> QED BY <2>3, <2>4, <2>7, <3>2 DEF CleanNodes
  <2>9. NoFunction1 => CleanArrays'
    BY <1>1, <2>6 DEF CleanArrays, Stored
  <2> QED BY <1>1, <1>3, <1>5, <1>9, <2>8, <2>9 DEF CleanInv
<1> QED BY <1>1, <1>7, <1>8

(* A removal without faults drops every collection that is registered.                   *)
LEMMA DropsAll ==
  ASSUME Shape, DropCollections, faults' = 0
  PROVE  faults = 0 /\ colls' = [i \in Ids |-> IF i \in rmTemps THEN {} ELSE colls[i]]
<1>1. PICK kept \in SUBSET rmTemps :
        /\ faults' = faults + Cardinality(kept)
        /\ colls' = [i \in Ids |-> IF i \in rmTemps \ kept THEN {} ELSE colls[i]]
  BY DEF DropCollections
<1>2. IsFiniteSet(kept)
  <2>1. IsFiniteSet(Ids)
    BY BoundsAssumption, FS_Interval DEF Ids
  <2> QED BY <2>1, FS_Subset DEF Shape, TypeOK
<1>3. Cardinality(kept) \in Nat /\ faults \in Nat
  BY <1>2, FS_CardinalityType, BoundsAssumption DEF Shape, TypeOK
<1>4. faults = 0 /\ Cardinality(kept) = 0
  BY <1>1, <1>3
<1>5. kept = {}
  BY <1>2, <1>4, FS_EmptySet
<1> QED BY <1>1, <1>4, <1>5

(* The servers as the client leaves them: nothing goes wrong by itself.                 *)
LEMMA Clean == Spec => []CleanInv
<1>1. Init => CleanInv
  BY DEF Init, CleanInv, CleanArrays, NoCollection, Stored
<1>2. Shape /\ RegistryInv /\ ExistsInv /\ CleanInv /\ [Next]_vars => CleanInv'
  <2> SUFFICES ASSUME Shape, RegistryInv, ExistsInv, CleanInv, [Next]_vars, faults' = 0
               PROVE  CleanInv'
    BY DEF CleanInv
  <2>0. faults \in Nat
    BY BoundsAssumption DEF Shape, TypeOK
  <2>1. CASE Returns
    <3>1. faults = 0
      BY <2>0, <2>1 DEF Returns
    <3> QED BY <2>1, <3>1, CleanReturns
  <2>2. CASE Begins
    <3>1. /\ faults = 0 /\ swallowed' = "no" /\ (failed' > 0 => run' \in noRows')
          /\ pgTemps \subseteq tables /\ tables \subseteq pgTemps \cup {Tmp}
          /\ noRows = {} => Tmp \notin tables
          /\ noRows' = noRows /\ rmTemps' = rmTemps
          /\ NoFunction1 => \A i \in Ids : colls[i] # {} => i \in rmTemps
          /\ plan' \in Plans /\ node' = 1 /\ pos' = 1 /\ ~Made' /\ OwnId' = idCounter + 1
          /\ tables' = tables /\ pgTemps' = pgTemps /\ colls' = colls /\ proc' = "query"
          /\ proc = "idle" /\ idCounter \in Nat
      BY <2>2 DEF Begins, CleanInv, CleanArrays, Stored, Shape, TypeOK
    <3>2. OwnId' \notin tables
      <4>1. \A t \in tables : t = Tmp \/ t \in 1..idCounter
        BY <3>1 DEF RegistryInv
      <4> QED BY <3>1, <4>1 DEF Tmp
    <3>3. ~TmpNow'
      BY <3>1 DEF TmpNow, InTheta
    <3>4. NodesDone'
      <4>1. 1..(node' - 1) = {}
        BY <3>1
      <4> QED BY <4>1 DEF NodesDone
    <3>5. CleanNodes'
      BY <3>1, <3>2, <3>3, <3>4 DEF CleanNodes
    <3>6. NoFunction1 => CleanArrays'
      BY <3>1 DEF CleanArrays, Stored
    <3> QED BY <3>1, <3>5, <3>6 DEF CleanInv
  <2>3. CASE QueryOk
    <3>1. faults = 0 /\ colls' = [i \in Ids |-> IF i \in rmTemps THEN {} ELSE colls[i]]
      BY <2>3, DropsAll DEF QueryOk
    <3>3. /\ proc = "query" /\ proc' = "idle" /\ Call = "rmRemove"
          /\ tables' = tables /\ pgTemps' = pgTemps /\ failed' = failed /\ swallowed' = swallowed
          /\ run' = run /\ noRows' = noRows
      BY <2>3 DEF QueryOk, Calling, pgVars
    <3>4. /\ CallFacts(Kind, pos) /\ Call = Script[Kind][pos]
          /\ Kind = "finish" <=> node = Len(plan)
          /\ FormsTree(plan)
      BY <3>3, Now
    <3>5. Kind = "finish" /\ ~Made /\ ~ArrayMade
      BY <3>3, <3>4 DEF CallFacts, Made, ArrayMade
    <3>6. /\ swallowed = "no" /\ (failed > 0 => run \in noRows)
          /\ CleanNodes /\ pgTemps \subseteq tables
          /\ NoFunction1 => CleanArrays
      BY <3>1, <3>3 DEF CleanInv, ExistsInv
    <3>7. noRows = {} => Tmp \notin tables
      BY <3>4, <3>5, <3>6 DEF CleanNodes, TmpNow, FormsTree
    <3>8. pgTemps' \subseteq tables' /\ tables' \subseteq pgTemps' \cup {Tmp}
      BY <3>3, <3>5, <3>6 DEF CleanNodes
    <3>9. NoFunction1 => CleanArrays'
      <4> SUFFICES ASSUME NoFunction1 PROVE \A i \in Ids : colls'[i] = {}
        BY <3>3 DEF CleanArrays, Stored
      <4>1. \A i \in Ids : i \notin rmTemps => colls[i] = {}
        BY <3>3, <3>5, <3>6 DEF CleanArrays, ArrayBegun, Stored
      <4> QED BY <3>1, <4>1
    <3> QED BY <3>3, <3>6, <3>7, <3>8, <3>9 DEF CleanInv
  <2>4. CASE CallFails
    <3>1. /\ proc = "query" /\ Call \notin {"pgReg", "rmReg", "rmRemove"} /\ faults = 0 /\ ~Legal
          /\ proc' = "idle" /\ tables' = tables /\ colls' = colls
          /\ pgTemps' = pgTemps /\ rmTemps' = rmTemps
          /\ run' = run /\ swallowed' = swallowed /\ noRows' = noRows
      BY <2>0, <2>4 DEF CallFails
    <3>2. Call = "rmRead" /\ colls[OwnId] = {} /\ run \in noRows
      BY <3>1, LegalWhenClean
    <3>3. /\ swallowed = "no" /\ CleanNodes /\ pgTemps \subseteq tables
          /\ NoFunction1 => CleanArrays
      BY <3>1 DEF CleanInv, ExistsInv
    <3>4. ~Made
      <4>1. CallFacts(Kind, pos) /\ Call = Script[Kind][pos]
        BY <3>1, Now
      <4> QED BY <3>2, <4>1 DEF CallFacts, Made
    <3>5. tables \subseteq pgTemps \cup {Tmp}
      BY <3>3, <3>4 DEF CleanNodes
    <3>6. NoFunction1 => CleanArrays'
      BY <3>1, <3>2, <3>3 DEF CleanArrays, Stored
    <3> QED BY <3>1, <3>2, <3>3, <3>5, <3>6 DEF CleanInv
  <2>5. ASSUME PgCreateLost \/ Signal \/ Killed \/ ExitDropsFail PROVE FALSE
    BY <2>0, <2>5 DEF PgCreateLost, Signal, Killed, ExitDropsFail
  <2>6. CASE EndOfInput
    BY <2>6 DEF EndOfInput, CleanInv, CleanArrays, ExistsInv, Stored, pgVars, rmVars, histVars
  <2>7. CASE ExitDropsTables
    <3>1. /\ faults = 0 /\ proc = "exit" /\ Missing = {} /\ tables \subseteq pgTemps \cup {Tmp}
          /\ swallowed = "no" /\ (failed > 0 => run \in noRows)
          /\ noRows = {} => Tmp \notin tables
          /\ NoFunction1 => \A i \in Ids : colls[i] # {} => i \in rmTemps
      BY <2>7 DEF ExitDropsTables, histVars, CleanInv, CleanArrays, Missing, Stored
    <3>2. /\ tables' \subseteq {Tmp} /\ (noRows' = {} => Tmp \notin tables')
          /\ proc' = "exitRas" /\ colls' = colls /\ rmTemps' = rmTemps
          /\ swallowed' = swallowed /\ failed' = failed /\ run' = run /\ noRows' = noRows
      BY <2>7, <3>1 DEF ExitDropsTables, histVars, rmVars
    <3> QED BY <3>1, <3>2 DEF CleanInv, CleanArrays, Stored
  <2>8. CASE ExitDropsCollections
    <3>1. faults = 0 /\ colls' = [i \in Ids |-> IF i \in rmTemps THEN {} ELSE colls[i]]
      BY <2>8, DropsAll DEF ExitDropsCollections
    <3>2. /\ proc = "exitRas" /\ proc' = "gone" /\ tables' = tables
          /\ swallowed' = swallowed /\ failed' = failed /\ run' = run /\ noRows' = noRows
      BY <2>8 DEF ExitDropsCollections, pgVars
    <3>3. NoFunction1 => colls' = NoCollection
      <4> SUFFICES ASSUME NoFunction1 PROVE \A i \in Ids : i \notin rmTemps => colls[i] = {}
        BY <3>1 DEF NoCollection
      <4> QED BY <3>1, <3>2 DEF CleanInv, CleanArrays, Stored
    <3> QED BY <3>1, <3>2, <3>3 DEF CleanInv, CleanArrays
  <2>9. CASE Restart
    BY <2>9 DEF Restart, CleanInv, CleanArrays, NoCollection, Stored
  <2>10. CASE UNCHANGED vars
    <3>1. CleanNodes' <=> CleanNodes
      BY <2>10 DEF vars, treeVars, pgVars, rmVars, histVars, CleanNodes, NodesDone, TmpNow, InTheta,
                   Made, Did, OwnId, Kind, Current, Stored
    <3>2. CleanArrays' <=> CleanArrays
      BY <2>10 DEF vars, treeVars, rmVars, CleanArrays, ArrayBegun, ArrayMade, Did, OwnId, Kind,
                   Current, Call, Stored
    <3> QED BY <2>10, <3>1, <3>2 DEF vars, pgVars, rmVars, histVars, CleanInv
  <2> QED
    BY <2>1, <2>2, <2>3, <2>4, <2>5, <2>6, <2>7, <2>8, <2>9, <2>10, CallReturns, QueryBegins
       DEF Next, Step, Environment
<1> QED
  BY <1>1, <1>2, Typing, Registries, Existing, PTL DEF Spec

(* No query fails by the client's own doing: a failure needs a row loop that found no row *)
(* in this run, or a call that failed on the servers, a signal or the death of the        *)
(* process before it, in this run or an earlier one.                            *)
THEOREM FailuresHaveCause == Spec => []FailureHasCause
<1>1. Shape /\ CleanInv => FailureHasCause
  BY BoundsAssumption DEF Shape, TypeOK, CleanInv, FailureHasCause
<1> QED
  BY <1>1, Typing, Clean, PTL

(* Without faults the program leaves nothing on either server, but for the table tmp if a *)
(* row loop found no row in the condition of a theta join, provided that no query      *)
(* has a node whose execute() forgets the collection (QtFunction of one argument).     *)
THEOREM ExitsClean ==
  ASSUME NoFunction1
  PROVE  Spec => []CleanExit
<1>1. CleanInv => CleanExit
  BY NoFunction1 DEF CleanInv, CleanArrays, CleanExit
<1> QED
  BY <1>1, Clean, PTL

-----------------------------------------------------------------------------
(* Counting orphans.                                                        *)
LEMMA Fewer ==
  ASSUME NEW S, IsFiniteSet(S), NEW T \in SUBSET S
  PROVE  Cardinality(T) \in Nat /\ Cardinality(S) \in Nat /\ Cardinality(T) <= Cardinality(S)
BY FS_Subset, FS_CardinalityType

LEMMA AtMostMore ==
  ASSUME NEW S, NEW K, IsFiniteSet(S), IsFiniteSet(K), NEW T \in SUBSET (S \cup K)
  PROVE  Cardinality(T) <= Cardinality(S) + Cardinality(K)
<1>1. IsFiniteSet(S \cup K) /\ Cardinality(S \cup K) = Cardinality(S) + Cardinality(K) - Cardinality(S \cap K)
  BY FS_Union
<1>2. Cardinality(S) \in Nat /\ Cardinality(K) \in Nat
  BY FS_CardinalityType
<1>3. Cardinality(S \cap K) \in Nat
  BY FS_Intersection, FS_CardinalityType
<1>4. Cardinality(T) \in Nat /\ Cardinality(T) <= Cardinality(S \cup K)
  BY <1>1, Fewer
<1> QED BY <1>1, <1>2, <1>3, <1>4

FreeTables == OrphanTables \ Own1
FreeColls == OrphanColls \ Own1

LEMMA OrphansFinite ==
  ASSUME TypeOK
  PROVE  /\ IsFiniteSet(FreeTables) /\ IsFiniteSet(FreeColls)
         /\ Cardinality(FreeTables) \in Nat /\ Cardinality(FreeColls) \in Nat
<1>1. IsFiniteSet(Ids)
  BY BoundsAssumption, FS_Interval DEF Ids
<1>2. FreeTables \subseteq Ids /\ FreeColls \subseteq Ids
  BY DEF TypeOK, FreeTables, FreeColls, OrphanTables, OrphanColls, Rels
<1>3. IsFiniteSet(FreeTables) /\ IsFiniteSet(FreeColls)
  BY <1>1, <1>2, FS_Subset
<1> QED BY <1>3, FS_CardinalityType

LEMMA NotFunction1 ==
  ASSUME Shape, proc = "query", NoFunction1
  PROVE  Kind # "function1"
<1>1. node \in 1..Len(plan) /\ Kind = plan[node].kind
  BY Now
<1> QED BY <1>1 DEF NoFunction1, Shape, TypeOK

(* A call that returns, and the beginning of a query, make no orphan.               *)
LEMMA NoNewOrphan ==
  ASSUME Shape, RegistryInv, FirstRunInv, NoFunction1, run = 1, Returns \/ Begins
  PROVE  FreeTables' \subseteq FreeTables /\ FreeColls' \subseteq FreeColls
<1>1. CASE Returns
  <2>0. proc = "query" /\ proc' = "query" /\ (Within \/ Over \/ Again)
    BY <1>1 DEF Returns
  <2>1. /\ \A t : t \in pgTemps' <=> t \in pgTemps \/ (t = OwnId /\ Call \in {"pgReg", "pgLoad"})
        /\ \A t : t \in rmTemps' <=> t \in rmTemps \/ (t = OwnId /\ Call = "rmReg")
        /\ \A i \in Ids : colls'[i] # {} => colls[i] # {} \/ (i = OwnId /\ Call = "rmInto")
        /\ \A t \in tables' : t \in tables \/ (t = OwnId /\ Call \in Makes) \/ t = Tmp
    BY <1>1 DEF Returns
  <2>2. /\ OwnId \in tables => Made
        /\ colls[OwnId] # {} => ArrayBegun
        /\ OwnId \in pgTemps <=> Registered
        /\ ArrayRegistered => OwnId \in rmTemps
    BY <2>0 DEF FirstRunInv, RegistryInv, Stored
  <2>3. \A t \in FreeTables' : t \in FreeTables
    <3>1. CASE Within \/ Again
      <4>1. OwnId' = OwnId
        BY <3>1 DEF Within, Again
      <4> QED BY <2>0, <2>1, <4>1 DEF FreeTables, OrphanTables, Own1
    <3>2. CASE Over
      <4>1. OwnId \in tables' => OwnId = Tmp \/ Kind # "thetaOpen"
        BY <2>1, <2>2, <3>2 DEF Over
      <4>2. Kind # "thetaOpen" => OwnId \in pgTemps'
        BY <2>1, <2>2, <3>2 DEF Over
      <4> QED BY <2>0, <2>1, <4>1, <4>2 DEF FreeTables, OrphanTables, Own1
    <3> QED BY <2>0, <3>1, <3>2
  <2>4. \A i \in FreeColls' : i \in FreeColls
    <3>1. CASE Within \/ Again
      <4>1. OwnId' = OwnId
        BY <3>1 DEF Within, Again
      <4> QED BY <2>0, <2>1, <4>1 DEF FreeColls, OrphanColls, Own1, Stored
    <3>2. CASE Over
      <4>1. colls'[OwnId] # {} /\ OwnId \in Ids => ArrayBegun
        BY <2>1, <2>2 DEF ArrayBegun
      <4>2. Kind # "function1"
        BY <2>0, NotFunction1
      <4>3. ArrayBegun => OwnId \in rmTemps'
        BY <2>1, <2>2, <3>2, <4>2 DEF Over
      <4> QED BY <2>0, <2>1, <4>1, <4>3 DEF FreeColls, OrphanColls, Own1, Stored
    <3> QED BY <2>0, <3>1, <3>2
  <2> QED BY <2>3, <2>4
<1>2. CASE Begins
  BY <1>2 DEF Begins, FreeTables, FreeColls, OrphanTables, OrphanColls, Own1, Stored
<1> QED BY <1>1, <1>2

(* What a failed call leaves of its own: a call that was illegal nothing, any other one  *)
(* at most one relation.                                                      *)
LEMMA OneOwnOrphan ==
  ASSUME Shape, RegistryInv, FirstRunInv, ReadInv, NoFunction1, run = 1, CallFails
  PROVE  \E A, B \in SUBSET {OwnId} :
           /\ FreeTables' \subseteq FreeTables \cup A
           /\ FreeColls' \subseteq FreeColls \cup B
           /\ A = {} \/ B = {}
           /\ A # {} \/ B # {} => Legal
<1>1. /\ proc = "query" /\ proc' = "idle" /\ Call \notin {"pgReg", "rmReg", "rmRemove"}
      /\ pgTemps' = pgTemps /\ rmTemps' = rmTemps
      /\ Legal \/ (tables' = tables /\ colls' = colls)
  BY DEF CallFails
<1>2. /\ CallFacts(Kind, pos) /\ Call = Script[Kind][pos] /\ Kind # "function1" /\ OwnId \in Ids
      /\ pos \in Nat \ {0}
  <2>1. Kind # "function1"
    BY <1>1, NotFunction1
  <2> QED BY <1>1, <2>1, Now
<1>3. /\ OwnId \in tables => Made
      /\ colls[OwnId] # {} => ArrayBegun
      /\ OwnId \in pgTemps <=> Registered
      /\ ArrayRegistered => OwnId \in rmTemps
  BY <1>1, <1>2 DEF FirstRunInv, RegistryInv, Stored
<1>4. /\ \A t \in tables' : t \in tables \/ (t = OwnId /\ Call = "pgLoad")
      /\ \A i \in Ids : colls'[i] # {} => colls[i] # {} \/ (i = OwnId /\ Call = "rmInto")
  <2>1. CASE Legal
    <3>1. /\ tables' = tables \/ (Call = "pgLoad" /\ tables' \in {tables \cup {OwnId}, tables \ {OwnId}})
          /\ colls' = colls \/ (Call = "rmInto" /\ colls' = [colls EXCEPT ![OwnId] = @ \cup {run}])
      BY <1>1, <2>1, Leaves DEF CallFails
    <3> QED BY <3>1 DEF Shape, TypeOK
  <2> QED BY <1>1, <2>1
<1>5. OwnId \in tables /\ OwnId \notin pgTemps => FALSE
  BY <1>1, <1>2, <1>3 DEF CallFacts, Made, Registered
<1>6. ArrayBegun /\ OwnId \notin rmTemps => Call \in {"rmInto", "rmRead"}
  BY <1>1, <1>2, <1>3 DEF CallFacts, ArrayBegun, ArrayMade, ArrayRegistered
<1>7. Call \in {"rmInto", "rmRead"} /\ colls[OwnId] # {} => Legal
  <2> SUFFICES ASSUME Call \in {"rmInto", "rmRead"}, colls[OwnId] # {} PROVE Legal
    OBVIOUS
  <2>1. Begun /\ Kind \notin {"thetaOpen", "thetaClose"}
    BY <1>2 DEF CallFacts, Begun, Stored
  <2>2. /\ \A m \in 1..node : \A n \in plan[m].reads \ {0} : base + n \in tables
        /\ 0 \in Current.reads /\ Kind # "thetaClose" => Tmp \in tables
        /\ \A n \in Current.arrays : colls[base + n] # {}
    BY <1>1, <2>1, HasRead
  <2>3. /\ \A n \in Nat : Rel(n) = IF n = 0 THEN Tmp ELSE base + n
        /\ Own = IF Kind = "thetaOpen" THEN Tmp ELSE OwnId
    BY <1>1, Now
  <2>4. /\ node \in Nat /\ node \in 1..Len(plan) /\ Len(plan) \in Nat
        /\ Current.reads \subseteq 0..(node - 1) /\ Current.arrays \subseteq 1..(node - 1)
    BY <1>1, Now
  <2>5. \A n \in Current.reads : Rel(n) \in tables
    <3>1. node \in 1..node /\ Current = plan[node]
      BY <2>4 DEF Current
    <3>2. \A n \in Current.reads : n \in Nat
      BY <2>4
    <3> QED BY <2>1, <2>2, <2>3, <3>1, <3>2
  <2>6. \A n \in Current.arrays : colls[Rel(n)] # {}
    <3>1. \A n \in Current.arrays : n \in Nat /\ n # 0
      BY <2>4
    <3> QED BY <2>2, <2>3, <3>1
  <2> QED BY <2>1, <2>3, <2>5, <2>6 DEF Legal
<1>8. OwnId \in tables' /\ OwnId \notin pgTemps => Call = "pgLoad" /\ Legal
  BY <1>1, <1>4, <1>5
<1>9. colls'[OwnId] # {} /\ OwnId \notin rmTemps => Call \in {"rmInto", "rmRead"} /\ Legal
  BY <1>1, <1>2, <1>3, <1>4, <1>6, <1>7 DEF ArrayBegun
<1> DEFINE A == IF OwnId \in tables' /\ OwnId \notin pgTemps THEN {OwnId} ELSE {}
           B == IF colls'[OwnId] # {} /\ OwnId \notin rmTemps THEN {OwnId} ELSE {}
<1>10. FreeTables' \subseteq FreeTables \cup A
  BY <1>1, <1>4 DEF FreeTables, OrphanTables, Own1
<1>11. FreeColls' \subseteq FreeColls \cup B
  BY <1>1, <1>4 DEF FreeColls, OrphanColls, Own1, Stored
<1>12. A = {} \/ B = {}
  BY <1>8, <1>9
<1>13. A # {} \/ B # {} => Legal
  BY <1>8, <1>9
<1>14. A \in SUBSET {OwnId} /\ B \in SUBSET {OwnId}
  OBVIOUS
<1> HIDE DEF A, B
<1> QED BY <1>10, <1>11, <1>12, <1>13, <1>14

(* A removal leaves the collections it has warned about, each for one fault.            *)
LEMMA RemovalOrphans ==
  ASSUME Shape, FirstRunInv, run = 1, QueryOk
  PROVE  \E kept \in SUBSET rmTemps :
           /\ FreeTables' \subseteq FreeTables
           /\ FreeColls' \subseteq FreeColls \cup kept
           /\ faults' = faults + Cardinality(kept)
<1>1. PICK kept \in SUBSET rmTemps :
        /\ faults' = faults + Cardinality(kept)
        /\ colls' = [i \in Ids |-> IF i \in rmTemps \ kept THEN {} ELSE colls[i]]
  BY DEF QueryOk, DropCollections
<1>2. /\ proc = "query" /\ proc' = "idle" /\ Call = "rmRemove"
      /\ tables' = tables /\ pgTemps' = pgTemps
  BY DEF QueryOk, Calling, pgVars
<1>3. CallFacts(Kind, pos) /\ Call = Script[Kind][pos] /\ OwnId \in Ids
  BY <1>2, Now
<1>4. ~Made /\ ~ArrayBegun
  BY <1>2, <1>3 DEF CallFacts, Made, ArrayBegun, ArrayMade
<1>5. OwnId \notin tables /\ colls[OwnId] = {}
  BY <1>2, <1>4 DEF FirstRunInv, Stored
<1>6. FreeTables' \subseteq FreeTables
  BY <1>2, <1>5 DEF FreeTables, OrphanTables, Own1
<1>7. \A i \in Ids : colls'[i] # {} => colls[i] # {} /\ i # OwnId /\ (i \in rmTemps => i \in kept)
  BY <1>1, <1>5
<1>8. FreeColls' \subseteq FreeColls \cup kept
  BY <1>2, <1>7 DEF FreeColls, OrphanColls, Own1, Stored
<1> QED BY <1>1, <1>6, <1>8

LEMMA Orphaned == Spec => []OrphanInv
<1>1. Init => OrphanInv
  <2> SUFFICES ASSUME Init PROVE Orphans <= faults
    BY DEF OrphanInv
  <2>1. OrphanTables \ Own1 = {} /\ OrphanColls \ Own1 = {} /\ faults = 0
    BY DEF Init, OrphanTables, OrphanColls, Stored, NoCollection
  <2> QED BY <2>1, FS_EmptySet DEF Orphans
<1>2. Shape /\ RegistryInv /\ FirstRunInv /\ ReadInv /\ OrphanInv /\ [Next]_vars => OrphanInv'
  <2> SUFFICES ASSUME Shape, RegistryInv, FirstRunInv, ReadInv, OrphanInv, [Next]_vars,
                      NoFunction1, run' = 1, proc' \in {"idle", "query"}
               PROVE  Cardinality(FreeTables') + Cardinality(FreeColls') <= faults'
    BY DEF OrphanInv, Orphans, FreeTables, FreeColls
  <2>1. /\ IsFiniteSet(FreeTables) /\ IsFiniteSet(FreeColls)
        /\ Cardinality(FreeTables) \in Nat /\ Cardinality(FreeColls) \in Nat
    BY OrphansFinite DEF Shape
  <2>2. faults \in Nat
    BY BoundsAssumption DEF Shape, TypeOK
  <2>3. run = 1 /\ proc \in {"idle", "query"} =>
          Cardinality(FreeTables) + Cardinality(FreeColls) <= faults
    BY DEF OrphanInv, Orphans, FreeTables, FreeColls
  <2>4. CASE Returns \/ Begins
    <3>1. run = 1 /\ proc \in {"idle", "query"} /\ (faults' = faults \/ faults' = faults + 1)
      BY <2>4 DEF Returns, Begins
    <3>2. FreeTables' \subseteq FreeTables /\ FreeColls' \subseteq FreeColls
      BY <2>4, <3>1, NoNewOrphan
    <3>3. /\ Cardinality(FreeTables') \in Nat /\ Cardinality(FreeTables') <= Cardinality(FreeTables)
          /\ Cardinality(FreeColls') \in Nat /\ Cardinality(FreeColls') <= Cardinality(FreeColls)
      BY <2>1, <3>2, Fewer
    <3> QED BY <2>1, <2>2, <2>3, <3>1, <3>3
  <2>5. CASE QueryOk
    <3>1. run = 1 /\ proc = "query"
      BY <2>5 DEF QueryOk, Calling
    <3>2. PICK kept \in SUBSET rmTemps :
            /\ FreeTables' \subseteq FreeTables
            /\ FreeColls' \subseteq FreeColls \cup kept
            /\ faults' = faults + Cardinality(kept)
      BY <2>5, <3>1, RemovalOrphans
    <3>3. IsFiniteSet(kept) /\ Cardinality(kept) \in Nat
      <4>1. IsFiniteSet(Ids) /\ kept \subseteq Ids
        BY BoundsAssumption, FS_Interval DEF Ids, Shape, TypeOK
      <4>2. IsFiniteSet(kept)
        BY <4>1, FS_Subset
      <4> QED BY <4>2, FS_CardinalityType
    <3>4. /\ Cardinality(FreeTables') \in Nat /\ Cardinality(FreeTables') <= Cardinality(FreeTables)
      BY <2>1, <3>2, Fewer
    <3>5. Cardinality(FreeColls') <= Cardinality(FreeColls) + Cardinality(kept)
      BY <2>1, <3>2, <3>3, AtMostMore
    <3>6. Cardinality(FreeColls') \in Nat
      <4>1. IsFiniteSet(FreeColls \cup kept)
        BY <2>1, <3>3, FS_Union
      <4> QED BY <3>2, <4>1, Fewer
    <3> QED BY <2>1, <2>2, <2>3, <3>1, <3>2, <3>3, <3>4, <3>5, <3>6
  <2>6. CASE CallFails
    <3>1. /\ run = 1 /\ proc = "query"
          /\ faults' = IF Legal THEN faults + 1 ELSE faults
      BY <2>6 DEF CallFails
    <3>2. PICK A \in SUBSET {OwnId}, B \in SUBSET {OwnId} :
            /\ FreeTables' \subseteq FreeTables \cup A
            /\ FreeColls' \subseteq FreeColls \cup B
            /\ A = {} \/ B = {}
            /\ A # {} \/ B # {} => Legal
      BY <2>6, <3>1, OneOwnOrphan
    <3>3. /\ IsFiniteSet(A) /\ (Cardinality(A) = 0 \/ (Cardinality(A) = 1 /\ A # {}))
          /\ IsFiniteSet(B) /\ (Cardinality(B) = 0 \/ (Cardinality(B) = 1 /\ B # {}))
      <4>1. (A = {} \/ A = {OwnId}) /\ (B = {} \/ B = {OwnId})
        OBVIOUS
      <4>2. IsFiniteSet({}) /\ Cardinality({}) = 0
        BY FS_EmptySet
      <4>3. IsFiniteSet({OwnId}) /\ Cardinality({OwnId}) = 1 /\ {OwnId} # {}
        BY FS_Singleton
      <4> QED BY <4>1, <4>2, <4>3
    <3>4. /\ Cardinality(FreeTables') <= Cardinality(FreeTables) + Cardinality(A)
          /\ Cardinality(FreeColls') <= Cardinality(FreeColls) + Cardinality(B)
      BY <2>1, <3>2, <3>3, AtMostMore
    <3>5. Cardinality(FreeTables') \in Nat /\ Cardinality(FreeColls') \in Nat
      <4>1. IsFiniteSet(FreeTables \cup A) /\ IsFiniteSet(FreeColls \cup B)
        BY <2>1, <3>3, FS_Union
      <4> QED BY <3>2, <4>1, Fewer
    <3>6. Cardinality(A) + Cardinality(B) <= IF Legal THEN 1 ELSE 0
      <4>1. Cardinality({}) = 0
        BY FS_EmptySet
      <4> QED BY <3>2, <3>3, <4>1
    <3>7. Cardinality(A) \in Nat /\ Cardinality(B) \in Nat
      BY <3>3
    <3> QED BY <2>1, <2>2, <2>3, <3>1, <3>4, <3>5, <3>6, <3>7
  <2>7. CASE Restart
    BY <2>7 DEF Restart, Shape, TypeOK, Runs
  <2>8. CASE UNCHANGED vars
    <3>1. /\ run = 1 /\ proc \in {"idle", "query"} /\ faults' = faults
          /\ FreeTables' = FreeTables /\ FreeColls' = FreeColls
      BY <2>8 DEF vars, treeVars, pgVars, rmVars, histVars, FreeTables, FreeColls, OrphanTables,
                  OrphanColls, Own1, OwnId, Stored
    <3> QED BY <2>3, <3>1
  <2> QED BY <2>4, <2>5, <2>6, <2>7, <2>8, Cases
<1> QED
  BY <1>1, <1>2, Typing, Registries, FirstRun, Reading, PTL DEF Spec

(* The whole inductive invariant.                                              *)
THEOREM Invariance == Spec => []IInv
<1>1. Shape /\ RegistryInv /\ ExistsInv /\ ReadInv /\ OkIsReal /\ FirstRunInv /\ OrphanInv /\ CleanInv
      => IInv
  BY DEF Shape, IInv
<1> QED
  BY <1>1, Typing, Registries, Existing, Reading, OkReal, FirstRun, Orphaned, Clean, PTL

(* In a first run every fault leaves at most one relation that no registry knows, and     *)
(* what the client does by itself leaves none, provided that no query has a node whose  *)
(* execute() forgets the collection (QtFunction of one argument).                    *)
THEOREM OrphansBounded ==
  ASSUME NoFunction1
  PROVE  Spec => []OneOrphanPerFault
<1>1. OrphanInv => OneOrphanPerFault
  <2>1. proc = "idle" => OrphanTables \ Own1 = OrphanTables /\ OrphanColls \ Own1 = OrphanColls
    BY DEF Own1
  <2> QED BY <2>1, NoFunction1 DEF OrphanInv, Orphans, OneOrphanPerFault
<1> QED
  BY <1>1, Orphaned, PTL
=============================================================================
