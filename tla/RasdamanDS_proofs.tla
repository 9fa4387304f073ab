-------------------------- MODULE RasdamanDS_proofs --------------------------
(***************************************************************************)
(* Proofs about the array data source: type correctness, and the safety       *)
(* properties of RasdamanDSProps, for any number of collections and of lost    *)
(* sessions, whether or not the server refuses statements.                    *)
(***************************************************************************)
EXTENDS RasdamanDSProps, TLAPS

InStatement == pc \in {"connect", "begin", "exec", "commit"}

(* The calls that use a collection have one.                                  *)
ArgInv ==
  /\ op \in {"read", "byOid", "into", "addTempTable"} => arg \in Colls
  /\ op = "removeTempTables" /\ InStatement => arg \in Colls
  /\ pc = "next" => op = "removeTempTables"
  /\ InStatement => \/ op \in {"read", "byOid", "into", "removeTempTables"}
                    \/ op = "connect" /\ pc \in {"connect", "begin"}

Shape == TypeOK /\ ArgInv

(* A session needs an opened database, and so do the round trips after          *)
(* connect(); only removals come back to the loop.                            *)
ConnInv ==
  /\ db = "NULL" => session = "down"
  /\ pc \in {"begin", "exec", "commit"} => db = "open"
  /\ pc = "commit" => op # "byOid"

(* What the open transaction would commit: the effect of the one statement        *)
(* that is waiting for its commit, and of those whose commit was refused; nothing   *)
(* without a session.                                                        *)
WorkInv ==
  /\ session = "down" => work = colls /\ refused = {}
  /\ Uncommitted \subseteq refused \cup IF pc = "commit" THEN {arg} ELSE {}
  /\ pc = "commit" /\ session = "up" =>
       /\ op = "into" => arg \in work
       /\ op = "removeTempTables" => arg \notin work

(* The collections that the removal has left behind it are dropped, or warned     *)
(* about, and no transaction brings them back.                                 *)
Behind == tempTables \ (left \cup IF InStatement THEN {arg} ELSE {})
RemoveInv == Removing => Behind \cap (colls \cup work) \subseteq warned

(* How many statements a lost session may still make fail: two if it was lost     *)
(* before a commit, which leaves its transaction in place, one until the object   *)
(* has noticed, and none for a session that the client has given up itself.       *)
Pending ==
  IF db = "open" /\ session = "down" THEN (IF pc = "commit" THEN 2 ELSE 1) ELSE 0
LossInv == failures + Pending <= 2 * losses

IInv == Shape /\ ConnInv /\ WorkInv /\ RemoveInv /\ LossInv /\ SuccessIsReal

-----------------------------------------------------------------------------
LEMMA Typing == Spec => []Shape
<1>1. Init => Shape
  BY NCollsAssumption, MaxLossesAssumption DEF Init, Shape, TypeOK, ArgInv, Ops, InStatement
<1>2. Shape /\ [Next]_vars => Shape'
  <2> SUFFICES ASSUME Shape, [Next]_vars PROVE Shape'
    OBVIOUS
  <2> USE MaxLossesAssumption
      DEF Shape, TypeOK, ArgInv, Ops, InStatement, connVars, serverVars, callVars, countVars
  <2>1. CASE CallConnect
    BY <2>1 DEF CallConnect, Call
  <2>2. ASSUME NEW o \in {"read", "byOid", "into"}, NEW c \in Colls, CallStatement(o, c)
        PROVE  Shape'
    BY <2>2 DEF CallStatement, Call
  <2>3. CASE CallRemoveTempTables
    BY <2>3 DEF CallRemoveTempTables, Call
  <2>4. CASE CallDisconnect
    BY <2>4 DEF CallDisconnect, Disconnect
  <2>5. CASE AddTempTable
    BY <2>5 DEF AddTempTable
  <2>6. CASE AlreadyConnected
    BY <2>6 DEF AlreadyConnected, Return
  <2>7. CASE OpenDatabase
    BY <2>7 DEF OpenDatabase
  <2>8. CASE OpenThrows
    BY <2>8 DEF OpenThrows, Disconnect, Raise
  <2>9. CASE BeginOk
    BY <2>9 DEF BeginOk, Return
  <2>10. CASE BeginThrows
    BY <2>10 DEF BeginThrows, Disconnect, Raise
  <2>11. CASE ExecOk
    BY <2>11 DEF ExecOk, Effect
  <2>12. CASE ExecThrows
    BY <2>12 DEF ExecThrows, Disconnect, Raise
  <2>13. CASE CommitOk
    BY <2>13 DEF CommitOk, Return
  <2>14. CASE CommitThrows
    BY <2>14 DEF CommitThrows, Raise
  <2>15. CASE DropNext
    BY <2>15 DEF DropNext, IsFirst
  <2>16. CASE ClearRegistry
    BY <2>16 DEF ClearRegistry
  <2>17. CASE SessionLoss
    BY <2>17 DEF SessionLoss
  <2>18. CASE UNCHANGED vars
    BY <2>18 DEF vars
  <2> QED
    BY <2>1, <2>2, <2>3, <2>4, <2>5, <2>6, <2>7, <2>8, <2>9, <2>10, <2>11, <2>12, <2>13,
       <2>14, <2>15, <2>16, <2>17, <2>18 DEF Next, NewCall, Step
<1> QED
  BY <1>1, <1>2, PTL DEF Spec

(* Type correctness: every variable keeps its type, whatever the calls, the     *)
(* server and the network do.                                               *)
THEOREM TypeCorrect == Spec => []TypeOK
<1>1. Shape => TypeOK
  BY DEF Shape
<1> QED
  BY <1>1, Typing, PTL

-----------------------------------------------------------------------------
(* The transaction, the session, the registry and the failures so far fit the     *)
(* round trip that the call in progress has come to.                          *)
THEOREM Invariance == Spec => []IInv
<1>1. Init => IInv
  BY NCollsAssumption, MaxLossesAssumption
     DEF Init, IInv, Shape, TypeOK, ArgInv, ConnInv, WorkInv, RemoveInv, LossInv, Pending,
         SuccessIsReal, Ops, InStatement, Removing, Uncommitted
<1>2. IInv /\ Shape' /\ [Next]_vars => IInv'
  <2> SUFFICES ASSUME IInv, Shape', [Next]_vars PROVE IInv'
    OBVIOUS
  <2> USE MaxLossesAssumption
      DEF IInv, Shape, TypeOK, ArgInv, ConnInv, WorkInv, RemoveInv, LossInv, Pending,
          SuccessIsReal, InStatement, Removing, Behind, Uncommitted, connVars, serverVars,
          callVars, countVars
  <2>1. CASE CallConnect
    BY <2>1 DEF CallConnect, Call
  <2>2. ASSUME NEW o \in {"read", "byOid", "into"}, NEW c \in Colls, CallStatement(o, c)
        PROVE  IInv'
    BY <2>2 DEF CallStatement, Call
  <2>3. CASE CallRemoveTempTables
    BY <2>3 DEF CallRemoveTempTables, Call
  <2>4. CASE CallDisconnect
    BY <2>4 DEF CallDisconnect, Disconnect
  <2>5. CASE AddTempTable
    BY <2>5 DEF AddTempTable
  <2>6. CASE AlreadyConnected
    BY <2>6 DEF AlreadyConnected, Return, IsConnected
  <2>7. CASE OpenDatabase
    BY <2>7 DEF OpenDatabase
  <2>8. CASE OpenThrows
    BY <2>8 DEF OpenThrows, Disconnect, Raise
  <2>9. CASE BeginOk
    BY <2>9 DEF BeginOk, Return
  <2>10. CASE BeginThrows
    BY <2>10 DEF BeginThrows, Disconnect, Raise
  <2>11. CASE ExecOk
    BY <2>11 DEF ExecOk, Effect
  <2>12. CASE ExecThrows
    BY <2>12 DEF ExecThrows, Disconnect, Raise
  <2>13. CASE CommitOk
    BY <2>13 DEF CommitOk, Return
  <2>14. CASE CommitThrows
    BY <2>14 DEF CommitThrows, Raise
  <2>15. CASE DropNext
    BY <2>15 DEF DropNext, IsFirst
  <2>16. CASE ClearRegistry
    BY <2>16 DEF ClearRegistry
  <2>17. CASE SessionLoss
    BY <2>17 DEF SessionLoss
  <2>18. CASE UNCHANGED vars
    BY <2>18 DEF vars
  <2> QED
    BY <2>1, <2>2, <2>3, <2>4, <2>5, <2>6, <2>7, <2>8, <2>9, <2>10, <2>11, <2>12, <2>13,
       <2>14, <2>15, <2>16, <2>17, <2>18 DEF Next, NewCall, Step
<1> QED
  BY <1>1, <1>2, Typing, PTL DEF Spec

-----------------------------------------------------------------------------
(* At rest the server has nothing uncommitted of this client but changes whose       *)
(* commit it has refused, although queryByOid() leaves its transaction open,          *)
(* whichever error ended the last call.                                         *)
THEOREM OnlyRefusedIsPending == Spec => []OnlyRefusedPending
<1>1. IInv => OnlyRefusedPending
  BY DEF IInv, WorkInv, OnlyRefusedPending
<1> QED
  BY <1>1, Invariance, PTL

(* A normal return of a SELECT INTO is true: the collection is committed.        *)
THEOREM SuccessReal == Spec => []SuccessIsReal
<1>1. IInv => SuccessIsReal
  BY DEF IInv
<1> QED
  BY <1>1, Invariance, PTL

(* A lost session makes at most two statements fail.                            *)
THEOREM LossIsBounded == Spec => []LossCostsTwo
<1>1. IInv => LossCostsTwo
  BY MaxLossesAssumption DEF IInv, Shape, TypeOK, LossInv, Pending, LossCostsTwo
<1> QED
  BY <1>1, Invariance, PTL

(* The DROPs of removeTempTables() do not touch one another, they may commit what   *)
(* was refused before, and the registry forgets no collection that the server still  *)
(* has without a warning.                                                      *)
THEOREM RemovalsAreIndependent == Spec => RemovalIndependent
<1>1. IInv /\ [Next]_vars =>
        [/\ Removing => /\ colls \ colls' \subseteq refused \cup {arg}
                        /\ colls' \ colls \subseteq refused \ {arg}
         /\ tempTables' = {} => tempTables \cap colls' \subseteq warned']_vars
  <2> SUFFICES ASSUME IInv, [Next]_vars
               PROVE  /\ Removing => /\ colls \ colls' \subseteq refused \cup {arg}
                                     /\ colls' \ colls \subseteq refused \ {arg}
                      /\ tempTables' = {} => tempTables \cap colls' \subseteq warned'
    OBVIOUS
  <2> USE DEF IInv, Shape, TypeOK, ArgInv, ConnInv, WorkInv, RemoveInv, Removing, Behind,
              InStatement, Uncommitted, connVars, serverVars, callVars, countVars
  <2>1. CASE NewCall
    BY <2>1 DEF NewCall, CallConnect, CallStatement, CallRemoveTempTables, CallDisconnect,
                AddTempTable, Call
  <2>2. CASE CommitOk
    BY <2>2 DEF CommitOk, Return
  <2>3. CASE ClearRegistry
    BY <2>3 DEF ClearRegistry
  <2>4. CASE SessionLoss
    BY <2>4 DEF SessionLoss
  <2>5. CASE \/ AlreadyConnected \/ OpenDatabase \/ OpenThrows \/ BeginOk \/ BeginThrows
             \/ ExecOk \/ ExecThrows \/ CommitThrows \/ DropNext \/ UNCHANGED vars
    BY <2>5 DEF AlreadyConnected, OpenDatabase, OpenThrows, BeginOk, BeginThrows, ExecOk,
                ExecThrows, CommitThrows, DropNext, vars
  <2> QED
    BY <2>1, <2>2, <2>3, <2>4, <2>5 DEF Next, Step
<1> QED
  BY <1>1, Invariance, PTL DEF Spec, RemovalIndependent
=============================================================================
