------------------------------ MODULE TempStore ------------------------------
(***************************************************************************)
(* What an observer of the database sees of the data source's calls          *)
(* (DataSourceInterface.hpp): the committed tables and the registry of       *)
(* temporary tables change in single steps, each of which belongs to the     *)
(* call in progress and touches that call's table only.  Removal is the one  *)
(* step that changes several tables, and it changes all of them or none.     *)
(***************************************************************************)
CONSTANTS Tables,    \* the table names
          Contents,  \* what a table may hold; "absent", "empty", ... are among them
          Ops        \* the calls

VARIABLES stored,    \* the committed tables
          temps,     \* the tables marked as temporary
          op, arg    \* the call in progress, or the last one, and its table

vars == <<stored, temps, op, arg>>

Init ==
  /\ stored = [t \in Tables |-> "absent"]
  /\ temps = {}
  /\ op = "none" /\ arg = 0

NewCall ==
  /\ op' \in Ops
  /\ arg' \in Tables \cup {0}
  /\ UNCHANGED <<stored, temps>>

Put(t, c) == stored' = [stored EXCEPT ![t] = c]

(* query() with a SELECT INTO.                                             *)
Create ==
  /\ op = "into" /\ stored[arg] = "absent"
  /\ Put(arg, "full")
  /\ UNCHANGED <<temps, op, arg>>

(* insertData(): the old table goes, an empty one comes, rows are added and  *)
(* the table is marked as temporary, whether or not the rows survived.       *)
DropOld ==
  /\ op = "insertData"
  /\ Put(arg, "absent")
  /\ UNCHANGED <<temps, op, arg>>

MakeEmpty ==
  /\ op = "insertData" /\ stored[arg] = "absent"
  /\ Put(arg, "empty")
  /\ UNCHANGED <<temps, op, arg>>

Load ==
  /\ op = "insertData"
  /\ \/ stored' = stored
     \/ stored[arg] = "empty" /\ Put(arg, "full")
     \/ stored[arg] \in {"full", "mixed"} /\ Put(arg, "mixed")
  /\ temps' = temps \cup {arg}
  /\ UNCHANGED <<op, arg>>

(* addTempTable(), after the SELECT INTO of the same table.                  *)
Register ==
  /\ op = "into" /\ op' = "addTempTable"
  /\ temps' = temps \cup {arg}
  /\ UNCHANGED <<stored, arg>>

(* removeTempTables(): the registry is emptied, and its tables are gone or   *)
(* all still there.                                                         *)
RemoveAll ==
  /\ op = "removeTempTables"
  /\ stored' \in {stored, [t \in Tables |-> IF t \in temps THEN "absent" ELSE stored[t]]}
  /\ temps' = {}
  /\ UNCHANGED <<op, arg>>

Next == NewCall \/ Create \/ DropOld \/ MakeEmpty \/ Load \/ Register \/ RemoveAll

Spec == Init /\ [][Next]_vars
=============================================================================
