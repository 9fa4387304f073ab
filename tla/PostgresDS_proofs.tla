-------------------------- MODULE PostgresDS_proofs --------------------------
(***************************************************************************)
(* Proofs about the relational data source: type correctness, the invariant  *)
(* that ties the open transaction to the call in progress, the safety         *)
(* properties of PostgresDSProps, and the refinement of TempStore.           *)
(***************************************************************************)
EXTENDS PostgresDSProps, TLAPS

-----------------------------------------------------------------------------
(* The inductive invariant, in parts.                                       *)

QueryOps == {"catalog", "select", "into", "number"}
TableOps == {"select", "into", "number", "insertData", "addTempTable"}
LoadSteps == {"drop", "create", "copy"}

(* The calls that name a table have one.                                     *)
ArgInv == op \in TableOps => arg \in Tables

(* A link needs an open connection, and so does a transaction; without a      *)
(* transaction, or without a link, the server has no uncommitted work.        *)
ConnInv ==
  /\ link = "up" => conn = "open"
  /\ tr = "open" => conn = "open"
  /\ ~(tr = "open" /\ link = "up") => work = db

(* Which calls can be at which round trip.                                  *)
FlowInv ==
  /\ pc \in LoadSteps \cup {"exec", "remove"} => then = pc
  /\ pc \in {"connect", "begin", "exec", "remove"} \cup LoadSteps =>
       /\ then = "return" => op = "connect"
       /\ then = "exec" => op \in QueryOps
       /\ then \in LoadSteps => op = "insertData"
       /\ then = "remove" => op = "removeTempTables"
  /\ pc = "commit" => op \in {"select", "into", "number", "insertData",
                              "removeTempTables", "commit", "disconnect"}
  /\ pc = "close" => op = "disconnect"
  /\ pc = "fault" => op = "removeTempTables"

(* When there is a transaction, and when there is none.                      *)
TransInv ==
  /\ pc \in {"begin", "close"} => tr = "NULL"
  /\ pc \in LoadSteps \cup {"exec"} => tr = "open"
  /\ pc = "commit" /\ op \in {"select", "into", "number", "insertData"} => tr = "open"
  /\ pc = "idle" /\ tr = "open" => op \in {"connect", "catalog"}

(* What the open transaction would commit.                                  *)
WorkInv ==
  tr = "open" /\ link = "up" =>
    /\ pc \in {"idle", "exec"} \cup LoadSteps => work = db
    /\ pc = "connect" /\ then \notin {"create", "copy"} => work = db
    /\ pc = "connect" /\ then = "create" =>
         work \in {db, [db EXCEPT ![arg] = "absent"]}
    /\ pc = "connect" /\ then = "copy" =>
         \/ work = db
         \/ db[arg] = "absent" /\ work = [db EXCEPT ![arg] = "empty"]
    /\ pc = "remove" => work = Without(tempTables \ left)
    /\ pc = "commit" =>
         /\ op \notin {"into", "insertData", "removeTempTables"} => work = db
         /\ op = "into" =>
              db[arg] = "absent" /\ work = [db EXCEPT ![arg] = "full"]
         /\ op = "insertData" =>
              db[arg] # "absent" /\ work = [db EXCEPT ![arg] = Copied(db[arg])]
         /\ op = "removeTempTables" => work = Without(tempTables)

(* How far a removal has come, and that it lost its transaction only to a     *)
(* refused DROP.                                                            *)
RemoveInv ==
  Removing =>
    /\ left \subseteq tempTables
    /\ pc \in {"connect", "begin"} => left = tempTables
    /\ pc = "commit" => left = {}
    /\ pc = "remove" /\ tr = "NULL" => caught = "exception" /\ left # tempTables
    /\ pc = "commit" /\ tr = "NULL" => caught = "exception"
    /\ pc = "fault" => caught = "exception" /\ left # {} /\ left # tempTables

(* While nothing was swallowed, the three transactions of insertData() build  *)
(* on one another.                                                          *)
LoadInv ==
  caught = "nothing" =>
    /\ pc = "connect" /\ then = "create" =>
         IF tr = "open" THEN link = "up" => work[arg] = "absent" ELSE db[arg] = "absent"
    /\ pc \in {"begin", "create"} /\ then = "create" => db[arg] = "absent"
    /\ pc = "connect" /\ then = "copy" =>
         tr = "open" /\ (link = "up" => db[arg] = "absent" /\ work[arg] = "empty")
    /\ pc \in {"begin", "copy"} /\ then = "copy" => db[arg] = "empty"
    /\ pc = "commit" /\ op = "insertData" => db[arg] = "empty"

IInv ==
  /\ TypeOK /\ ArgInv
  /\ ConnInv /\ FlowInv /\ TransInv /\ WorkInv /\ RemoveInv /\ LoadInv
  /\ SuccessIsReal

-----------------------------------------------------------------------------
(* Every outcome of commitTa() closes the transaction; the tables become what *)
(* the transaction made of them or stay as they were, and they only stay when *)
(* the exception is swallowed.                                              *)
LEMMA CommitTaOutcome ==
  ASSUME TypeOK, CommitTa
  PROVE  /\ tr' = "NULL" /\ work' = db'
         /\ \/ tr = "NULL" /\ UNCHANGED <<conn, link, db, caught>>
            \/ tr = "open" /\ link = "up" /\ db' = work /\ UNCHANGED <<conn, link, caught>>
            \/ /\ tr = "open" /\ conn' = "bad" /\ link' = "down" /\ caught' = "exception"
               /\ db' = db \/ (link = "up" /\ db' = work)
         /\ db' \in Databases
BY DEF TypeOK, CommitTa, SeenBroken, connVars

(* Types and arguments together are inductive; the types alone are not,       *)
(* because addTempTable() registers the argument of the call before it.       *)
LEMMA Typing == Spec => [](TypeOK /\ ArgInv)
<1>1. Init => TypeOK /\ ArgInv
  BY DEF Init, ArgInv, TableOps, TypeOK, Databases, Contents, Ops, Tables
<1>2. TypeOK /\ ArgInv /\ [Next]_vars => (TypeOK /\ ArgInv)'
  <2> SUFFICES ASSUME TypeOK, ArgInv, [Next]_vars PROVE (TypeOK /\ ArgInv)'
    OBVIOUS
  <2> USE DEF TypeOK, ArgInv, TableOps, Databases, Contents, Ops, connVars, callVars
  <2>1. ASSUME NEW o \in {"connect", "catalog"}, CallConnect(o)
        PROVE (TypeOK /\ ArgInv)'
    BY <2>1 DEF CallConnect, Call
  <2>2. ASSUME NEW o \in {"select", "into", "number"}, NEW t \in Tables, CallQuery(o, t)
        PROVE (TypeOK /\ ArgInv)'
    BY <2>2 DEF CallQuery, Call
  <2>3. ASSUME NEW t \in Tables, CallInsertData(t)
        PROVE (TypeOK /\ ArgInv)'
    BY <2>3 DEF CallInsertData, Call
  <2>4. CASE CallRemoveTempTables
    BY <2>4 DEF CallRemoveTempTables, Call
  <2>5. ASSUME NEW o \in {"commit", "disconnect"}, CallCommit(o)
        PROVE (TypeOK /\ ArgInv)'
    BY <2>5 DEF CallCommit, Call
  <2>6. CASE AddTempTable
    BY <2>6 DEF AddTempTable
  <2>7. CASE Connect
    BY <2>7, CommitTaOutcome DEF Connect, ConnectThrows, Throw
  <2>8. CASE Begin
    BY <2>8 DEF Begin, ConnectThrows, Throw
  <2>9. CASE ExecOk
    BY <2>9 DEF ExecOk, Legal
  <2>10. CASE ExecThrows
    BY <2>10 DEF ExecThrows, AbortTa, SeenBroken, Throw
  <2>11. CASE DropOld
    BY <2>11 DEF DropOld, AbortTa, SeenBroken, NextStep
  <2>12. CASE CreateTable
    BY <2>12 DEF CreateTable, AbortTa, SeenBroken, NextStep
  <2>13. CASE CopyData
    BY <2>13 DEF CopyData, AbortTa, SeenBroken, Throw, Copied
  <2>14. CASE DropTemp
    BY <2>14 DEF DropTemp
  <2>15. CASE DropTempRefused
    BY <2>15 DEF DropTempRefused, AbortTa
  <2>16. CASE DropTempBroken
    BY <2>16 DEF DropTempBroken, AbortTa, SeenBroken, Throw
  <2>17. CASE NullTransaction
    BY <2>17 DEF NullTransaction
  <2>18. CASE AllVisited
    BY <2>18 DEF AllVisited
  <2>19. CASE Finish
    BY <2>19, CommitTaOutcome DEF Finish
  <2>20. CASE CloseConn
    BY <2>20 DEF CloseConn
  <2>21. CASE LinkLoss
    BY <2>21 DEF LinkLoss
  <2>22. CASE UNCHANGED vars
    BY <2>22 DEF vars
  <2>30. QED
    BY <2>1, <2>2, <2>3, <2>4, <2>5, <2>6, <2>7, <2>8, <2>9, <2>10, <2>11,
       <2>12, <2>13, <2>14, <2>15, <2>16, <2>17, <2>18, <2>19, <2>20, <2>21, <2>22
       DEF Next, NewCall, Step
<1>3. QED
  BY <1>1, <1>2, PTL DEF Spec

(* Type correctness: every variable keeps its type whatever the calls, the    *)
(* server and the network do.                                               *)
THEOREM TypeCorrect == Spec => []TypeOK
BY Typing, PTL

-----------------------------------------------------------------------------
(* The open transaction, the registry and the call in progress always fit     *)
(* together: what the transaction would commit is exactly the effect of the   *)
(* call's last round trip.                                                  *)
THEOREM Invariance == Spec => []IInv
<1>1. Init => IInv
  BY DEF Init, IInv, TypeOK, ArgInv, ConnInv, FlowInv, TransInv, WorkInv, RemoveInv,
         LoadInv, SuccessIsReal, Databases, Contents, Ops, Tables, TableOps,
         LoadSteps, Removing
<1>2. IInv /\ TypeOK' /\ ArgInv' /\ [Next]_vars => IInv'
  <2> SUFFICES ASSUME IInv, TypeOK', ArgInv', [Next]_vars PROVE IInv'
    OBVIOUS
  <2> USE DEF IInv, ConnInv, FlowInv, TransInv, WorkInv, RemoveInv, LoadInv,
              SuccessIsReal, ArgInv, TypeOK, Databases, Contents, Ops, TableOps,
              QueryOps, LoadSteps, Removing, Without, Copied, connVars, callVars
  <2>1. ASSUME NEW o \in {"connect", "catalog"}, CallConnect(o)
        PROVE IInv'
    BY <2>1 DEF CallConnect, Call
  <2>2. ASSUME NEW o \in {"select", "into", "number"}, NEW t \in Tables, CallQuery(o, t)
        PROVE IInv'
    BY <2>2 DEF CallQuery, Call
  <2>3. ASSUME NEW t \in Tables, CallInsertData(t)
        PROVE IInv'
    BY <2>3 DEF CallInsertData, Call
  <2>4. CASE CallRemoveTempTables
    BY <2>4 DEF CallRemoveTempTables, Call
  <2>5. ASSUME NEW o \in {"commit", "disconnect"}, CallCommit(o)
        PROVE IInv'
    BY <2>5 DEF CallCommit, Call
  <2>6. CASE AddTempTable
    BY <2>6 DEF AddTempTable
  <2>7. CASE Connect
    BY <2>7, CommitTaOutcome DEF Connect, ConnectThrows, Throw
  <2>8. CASE Begin
    BY <2>8 DEF Begin, ConnectThrows, Throw
  <2>9. CASE ExecOk
    BY <2>9 DEF ExecOk, Legal
  <2>10. CASE ExecThrows
    BY <2>10 DEF ExecThrows, AbortTa, SeenBroken, Throw
  <2>11. CASE DropOld
    BY <2>11 DEF DropOld, AbortTa, SeenBroken, NextStep
  <2>12. CASE CreateTable
    BY <2>12 DEF CreateTable, AbortTa, SeenBroken, NextStep
  <2>13. CASE CopyData
    BY <2>13 DEF CopyData, AbortTa, SeenBroken, Throw
  <2>14. CASE DropTemp
    <3>1. PICK t \in left : /\ work' = [work EXCEPT ![t] = "absent"]
                            /\ left' = left \ {t}
      BY <2>14 DEF DropTemp
    <3>2. t \in Tables /\ t \in tempTables /\ work = Without(tempTables \ left)
      BY <2>14, <3>1 DEF DropTemp
    <3>3. \A u \in Tables : work'[u] = IF u \in tempTables \ left' THEN "absent" ELSE db[u]
      BY <3>1, <3>2
    <3>4. work' = [u \in Tables |-> work'[u]]
      OBVIOUS
    <3>5. work' = Without(tempTables \ left')
      BY <3>3, <3>4
    <3>6. /\ left' \subseteq tempTables
          /\ UNCHANGED <<conn, link, tr, db, tempTables, op, arg, pc, then, ret, caught>>
          /\ tr = "open" /\ link = "up" /\ pc = "remove" /\ op = "removeTempTables"
      BY <2>14, <3>1 DEF DropTemp
    <3>7. WorkInv'
      BY <3>5, <3>6
    <3>8. RemoveInv'
      BY <3>6
    <3>9. (ConnInv /\ FlowInv /\ TransInv /\ LoadInv /\ SuccessIsReal)'
      BY <3>6
    <3>10. QED
      BY <3>7, <3>8, <3>9
  <2>15. CASE DropTempRefused
    BY <2>15 DEF DropTempRefused, AbortTa
  <2>16. CASE DropTempBroken
    BY <2>16 DEF DropTempBroken, AbortTa, SeenBroken, Throw
  <2>17. CASE NullTransaction
    BY <2>17 DEF NullTransaction
  <2>18. CASE AllVisited
    BY <2>18 DEF AllVisited
  <2>19. CASE Finish
    BY <2>19, CommitTaOutcome DEF Finish
  <2>20. CASE CloseConn
    BY <2>20 DEF CloseConn
  <2>21. CASE LinkLoss
    BY <2>21 DEF LinkLoss
  <2>22. CASE UNCHANGED vars
    BY <2>22 DEF vars
  <2>30. QED
    BY <2>1, <2>2, <2>3, <2>4, <2>5, <2>6, <2>7, <2>8, <2>9, <2>10, <2>11,
       <2>12, <2>13, <2>14, <2>15, <2>16, <2>17, <2>18, <2>19, <2>20, <2>21, <2>22
       DEF Next, NewCall, Step
<1>3. QED
  BY <1>1, <1>2, Typing, PTL DEF Spec

-----------------------------------------------------------------------------
(* The safety properties.                                                   *)

(* No call but connect() and the catalogue query leaves a transaction open.   *)
THEOREM AtRestClosed == Spec => []RestClosed
<1>1. IInv => RestClosed
  BY DEF IInv, TransInv, RestClosed
<1>2. QED
  BY <1>1, Invariance, PTL

(* A normal return is true unless an exception was swallowed.                 *)
THEOREM SuccessReal == Spec => []SuccessIsReal
<1>1. IInv => SuccessIsReal
  BY DEF IInv
<1>2. QED
  BY <1>1, Invariance, PTL

(* The NULL transaction is used only after a refused DROP, with the registry  *)
(* still whole.                                                             *)
THEOREM FaultCause == Spec => []FaultOnlyAfterRefusedDrop
<1>1. IInv => FaultOnlyAfterRefusedDrop
  BY DEF IInv, FlowInv, RemoveInv, FaultOnlyAfterRefusedDrop, Removing
<1>2. QED
  BY <1>1, Invariance, PTL

(* removeTempTables() is all or nothing on the server.                        *)
THEOREM RemovalIsAtomic == Spec => RemovalAtomic
<1>1. IInv /\ [Next]_vars => [Removing => db' \in {db, Without(tempTables)}]_vars
  <2> SUFFICES ASSUME IInv, [Next]_vars, Removing
               PROVE  db' \in {db, Without(tempTables)}
    OBVIOUS
  <2> USE DEF Removing
  <2>1. CASE NewCall
    BY <2>1 DEF NewCall, CallConnect, CallQuery, CallInsertData, CallRemoveTempTables,
                CallCommit, AddTempTable, Call
  <2>2. CASE Connect
    BY <2>2, CommitTaOutcome DEF Connect, ConnectThrows, IInv, TypeOK, FlowInv, WorkInv,
                                 QueryOps, LoadSteps
  <2>3. CASE Finish
    BY <2>3, CommitTaOutcome DEF Finish, IInv, WorkInv, ConnInv
  <2>4. CASE \/ Begin \/ ExecOk \/ ExecThrows \/ DropOld \/ CreateTable \/ CopyData
    BY <2>4 DEF Begin, ExecOk, ExecThrows, DropOld, CreateTable, CopyData, ConnectThrows,
                AbortTa
  <2>5. CASE \/ DropTemp \/ DropTempRefused \/ DropTempBroken \/ NullTransaction
             \/ AllVisited \/ CloseConn \/ LinkLoss \/ UNCHANGED vars
    BY <2>5 DEF DropTemp, DropTempRefused, DropTempBroken, NullTransaction, AllVisited,
                CloseConn, LinkLoss, vars, AbortTa
  <2>6. QED
    BY <2>1, <2>2, <2>3, <2>4, <2>5 DEF Next, Step
<1>2. QED
  BY <1>1, Invariance, PTL DEF Spec, RemovalAtomic

(* The registry is forgotten with tables left only after a swallowed           *)
(* exception.                                                               *)
THEOREM ForgottenAfterCaught == Spec => ForgottenOnlyAfterCaught
<1>1. IInv /\ [Next]_vars =>
        [tempTables' = {} /\ caught' = "nothing" =>
           \A t \in tempTables : db'[t] = "absent"]_vars
  <2> SUFFICES ASSUME IInv, [Next]_vars, tempTables' = {}, caught' = "nothing",
                      NEW t \in tempTables
               PROVE  db'[t] = "absent"
    OBVIOUS
  <2>1. CASE Finish
    <3>1. op = "removeTempTables" /\ tr = "open"
      BY <2>1, CommitTaOutcome DEF Finish, IInv, RemoveInv, Removing
    <3>2. link = "up" /\ db' = work
      BY <2>1, <3>1, CommitTaOutcome DEF Finish, IInv, TypeOK
    <3>3. work = Without(tempTables)
      BY <2>1, <3>1, <3>2 DEF Finish, IInv, WorkInv
    <3>4. QED
      BY <3>2, <3>3 DEF Without, IInv, TypeOK
  <2>2. CASE ~Finish
    <3>1. tempTables \subseteq tempTables'
      BY <2>2 DEF Next, NewCall, Step, CallConnect, CallQuery, CallInsertData,
                  CallRemoveTempTables, CallCommit, Call, AddTempTable, Connect, Begin,
                  ExecOk, ExecThrows, DropOld, CreateTable, CopyData, DropTemp,
                  DropTempRefused, DropTempBroken, NullTransaction, AllVisited,
                  CloseConn, LinkLoss, vars
    <3>2. QED
      BY <3>1
  <2>3. QED
    BY <2>1, <2>2
<1>2. QED
  BY <1>1, Invariance, PTL DEF Spec, ForgottenOnlyAfterCaught

-----------------------------------------------------------------------------
(* Seen from outside the calls are the single steps of TempStore.             *)
THEOREM Refinement == Spec => ImplementsStore
<1>1. Init => Store!Init
  BY DEF Init, Store!Init
<1>2. IInv /\ [Next]_vars => [Store!Next]_(Store!vars)
  <2> SUFFICES ASSUME IInv, [Next]_vars
               PROVE  Store!Next \/ UNCHANGED <<db, tempTables, op, arg>>
    BY DEF Store!vars
  <2> USE DEF IInv, callVars
  <2>1. CASE NewCall /\ ~AddTempTable
    <3>1. Store!NewCall
      BY <2>1 DEF NewCall, CallConnect, CallQuery, CallInsertData, CallRemoveTempTables,
                  CallCommit, Call, Store!NewCall, Ops
    <3>2. QED
      BY <3>1 DEF Store!Next
  <2>2. CASE AddTempTable
    <3>1. Store!Register
      BY <2>2 DEF AddTempTable, Store!Register
    <3>2. QED
      BY <3>1 DEF Store!Next
  <2>3. CASE Connect
    <3>1. CASE db' = db
      BY <2>3, <3>1 DEF Connect
    <3>2. CASE db' # db
      <4>1. /\ db' = work /\ tr = "open" /\ link = "up"
            /\ UNCHANGED <<tempTables, op, arg>>
        BY <2>3, <3>2, CommitTaOutcome DEF Connect, ConnectThrows
      <4>2. op = "insertData" /\ then \in {"create", "copy"}
        BY <2>3, <3>2, <4>1 DEF Connect, FlowInv, WorkInv, LoadSteps
      <4>3. CASE then = "create"
        BY <2>3, <3>2, <4>1, <4>2, <4>3
           DEF Connect, WorkInv, Store!Next, Store!DropOld, Store!Put
      <4>4. CASE then = "copy"
        BY <2>3, <3>2, <4>1, <4>2, <4>4
           DEF Connect, WorkInv, Store!Next, Store!MakeEmpty, Store!Put
      <4>5. QED
        BY <4>2, <4>3, <4>4
    <3>3. QED
      BY <3>1, <3>2
  <2>4. CASE Finish
    <3>1. /\ UNCHANGED <<op, arg>>
          /\ db' = db \/ (tr = "open" /\ link = "up" /\ db' = work)
      BY <2>4, CommitTaOutcome DEF Finish
    <3>2. CASE op = "insertData"
      <4>1. tempTables' = tempTables \cup {arg}
        BY <2>4, <3>2 DEF Finish
      <4>2. \/ db' = db
            \/ db' = [db EXCEPT ![arg] = Copied(db[arg])] /\ db[arg] # "absent"
        BY <2>4, <3>1, <3>2 DEF Finish, WorkInv
      <4>3. db[arg] \in Contents
        BY <3>2 DEF ArgInv, TableOps, TypeOK, Databases
      <4>4. Store!Load
        BY <3>1, <3>2, <4>1, <4>2, <4>3 DEF Store!Load, Store!Put, Copied, Contents
      <4>5. QED
        BY <4>4 DEF Store!Next
    <3>3. CASE op = "removeTempTables"
      <4>1. tempTables' = {}
        BY <2>4, <3>3 DEF Finish
      <4>2. db' \in {db, Without(tempTables)}
        BY <2>4, <3>1, <3>3 DEF Finish, WorkInv
      <4>3. Store!RemoveAll
        BY <3>1, <3>3, <4>1, <4>2 DEF Store!RemoveAll, Without
      <4>4. QED
        BY <4>3 DEF Store!Next
    <3>4. CASE op = "into"
      <4>1. \/ db' = db
            \/ db' = [db EXCEPT ![arg] = "full"] /\ db[arg] = "absent"
        BY <2>4, <3>1, <3>4 DEF Finish, WorkInv
      <4>2. UNCHANGED tempTables
        BY <2>4, <3>4 DEF Finish
      <4>3. QED
        BY <3>1, <3>4, <4>1, <4>2 DEF Store!Next, Store!Create, Store!Put
    <3>5. CASE op \notin {"insertData", "removeTempTables", "into"}
      BY <2>4, <3>1, <3>5 DEF Finish, WorkInv
    <3>6. QED
      BY <3>2, <3>3, <3>4, <3>5
  <2>5. CASE \/ Begin \/ ExecOk \/ ExecThrows \/ DropOld \/ CreateTable \/ CopyData
             \/ DropTemp \/ DropTempRefused \/ DropTempBroken \/ NullTransaction
             \/ AllVisited \/ CloseConn \/ LinkLoss \/ UNCHANGED vars
    BY <2>5 DEF Begin, ExecOk, ExecThrows, DropOld, CreateTable, CopyData, DropTemp,
                DropTempRefused, DropTempBroken, NullTransaction, AllVisited, CloseConn,
                LinkLoss, vars, AbortTa, ConnectThrows
  <2>6. QED
    BY <2>1, <2>2, <2>3, <2>4, <2>5 DEF Next, NewCall, Step
<1>3. QED
  BY <1>1, <1>2, Invariance, PTL DEF Spec, ImplementsStore, Store!Spec
=============================================================================
