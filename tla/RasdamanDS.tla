------------------------------ MODULE RasdamanDS ------------------------------
(***************************************************************************)
(* The array data source of the client: class RasdamanDS                    *)
(* (datasources/RasdamanDS.cpp) with what its calls observe of the rasdaman  *)
(* client library and server.                                              *)
(*                                                                         *)
(* Unlike PostgresDS the class asks the client library whether it is         *)
(* connected and reuses an active transaction.  The library answers from its *)
(* own memory: a session the server has given up (idle time-out, restart,    *)
(* network) still looks connected.  Errors of commit() are not handled here: *)
(* the transaction may stay open with its change, for the next call to go on *)
(* with; and queryByOid() leaves its transaction open for its caller.        *)
(*                                                                         *)
(* A collection name is its rank in the map order of the registry.           *)
(***************************************************************************)
EXTENDS Naturals

CONSTANTS NColls,     \* number of collection names the calls may use
          MaxLosses,  \* how often the server may lose the session
          Rejects     \* whether the server may refuse a statement that is legal

ASSUME NCollsAssumption == NColls \in Nat
ASSUME MaxLossesAssumption == MaxLosses \in Nat
ASSUME RejectsAssumption == Rejects \in BOOLEAN

Colls == 1..NColls

Ops == {"none", "connect", "read", "byOid", "into", "addTempTable",
        "removeTempTables", "disconnect"}

VARIABLES
  db,          \* the pointer db: NULL or an opened r_Database
  tr,          \* the pointer tr: NULL, or the state of the r_Transaction
  session,     \* whether the server still has the session behind db
  colls,       \* server: the committed collections
  work,        \* server: the collections as the open transaction sees them
  tempTables,  \* the registry tempTables
  op, arg,     \* the call in progress, or the last one, and its collection
  pc,          \* the next round trip of that call
  left,        \* removeTempTables(): the registered collections not yet visited
  ret,         \* how the last call ended
  warned,      \* removeTempTables(): the collections its handler warned about
  refused,     \* the collections of the calls whose commit was refused, in the
               \* transaction that is still open
  losses,      \* how often the session was lost
  failures     \* how many statements the losses have made fail

connVars == <<db, tr, session>>
serverVars == <<colls, work, refused>>
callVars == <<op, arg>>
countVars == <<losses, failures>>
vars == <<connVars, serverVars, tempTables, callVars, pc, left, ret, warned, countVars>>

TypeOK ==
  /\ db \in {"NULL", "open"}
  /\ tr \in {"NULL", "active", "inactive"}
  /\ session \in {"up", "down"}
  /\ colls \in SUBSET Colls
  /\ work \in SUBSET Colls
  /\ tempTables \in SUBSET Colls
  /\ op \in Ops
  /\ arg \in Colls \cup {0}
  /\ pc \in {"idle", "connect", "begin", "exec", "commit", "next"}
  /\ left \in SUBSET Colls
  /\ ret \in {"ok", "error"}
  /\ warned \in SUBSET Colls
  /\ refused \in SUBSET Colls
  /\ losses \in 0..MaxLosses
  /\ failures \in Nat

Init ==
  /\ db = "NULL" /\ tr = "NULL" /\ session = "down"
  /\ colls = {} /\ work = {}
  /\ tempTables = {}
  /\ op = "none" /\ arg = 0
  /\ pc = "idle"
  /\ left = {} /\ warned = {} /\ refused = {}
  /\ ret = "ok"
  /\ losses = 0 /\ failures = 0

(* Mutation of the handlers: an error retries the statement.                  *)
RaiseRetries ==
  /\ pc' = "connect"
  /\ ret' = "error"
  /\ warned' = warned

-----------------------------------------------------------------------------
(* An r_Error leaves the call; in removeTempTables() it leaves updateQuery()  *)
(* only, and the loop warns and goes on.                                    *)
Raise ==
  IF op = "removeTempTables"
  THEN pc' = "next" /\ warned' = warned \cup {arg} /\ ret' = ret
  ELSE pc' = "idle" /\ ret' = "error" /\ warned' = warned

Return ==
  /\ pc' = IF op = "removeTempTables" THEN "next" ELSE "idle"
  /\ ret' = "ok"
  /\ warned' = warned

(* Mutation of the handlers: the broken database object is kept.             *)
AbortOnly ==
  /\ tr' = "NULL"
  /\ work' = colls /\ refused' = {}
  /\ UNCHANGED <<db, session>>

(* disconnect(): abortTa(), then the database object is closed and dropped.   *)
Disconnect ==
  /\ tr' = "NULL"
  /\ db' = "NULL" /\ session' = "down"
  /\ work' = colls /\ refused' = {}

-----------------------------------------------------------------------------
(* connect().                                                              *)

IsConnected == db = "open" /\ tr = "active"

AlreadyConnected ==
  /\ pc = "connect" /\ IsConnected
  /\ IF op = "connect" THEN Return ELSE pc' = "exec" /\ UNCHANGED <<ret, warned>>
  /\ UNCHANGED <<connVars, serverVars, tempTables, callVars, left, countVars>>

OpenDatabase ==
  /\ pc = "connect" /\ ~IsConnected
  /\ db' = "open"
  /\ session' = IF db = "NULL" THEN "up" ELSE session
  /\ pc' = "begin"
  /\ UNCHANGED <<tr, serverVars, tempTables, callVars, left, ret, warned, countVars>>

(* The server cannot be reached.                                            *)
OpenThrows ==
  /\ pc = "connect" /\ db = "NULL" /\ Rejects
  /\ Disconnect
  /\ Raise
  /\ UNCHANGED <<colls, tempTables, callVars, left, countVars>>

(* openTa(): what is left of an earlier transaction is aborted, a new one     *)
(* begins.                                                                  *)
BeginOk ==
  /\ pc = "begin" /\ session = "up"
  /\ tr' = "active"
  /\ work' = colls /\ refused' = {}
  /\ IF op = "connect" THEN Return ELSE pc' = "exec" /\ UNCHANGED <<ret, warned>>
  /\ UNCHANGED <<db, session, colls, tempTables, callVars, left, countVars>>

BeginThrows ==
  /\ pc = "begin" /\ session = "down"
  /\ Disconnect
  /\ Raise
  /\ failures' = failures + 1
  /\ UNCHANGED <<colls, tempTables, callVars, left, losses>>

-----------------------------------------------------------------------------
(* The statements.                                                         *)

Legal == op \in {"read", "byOid", "removeTempTables"} => arg \in work

Effect ==
  IF op = "into" THEN work \cup {arg}
  ELSE IF op = "removeTempTables" THEN work \ {arg}
  ELSE work

(* Mutation of updateQuery(): it returns without commitTa().                 *)
ExecWithoutCommit ==
  /\ pc = "exec" /\ session = "up" /\ Legal
  /\ work' = Effect
  /\ Return
  /\ UNCHANGED <<connVars, colls, refused, tempTables, callVars, left, countVars>>

(* query() and updateQuery() go on to commitTa(); queryByOid() returns with   *)
(* the transaction open, also when it throws because the number of objects    *)
(* it found is not one: only r_Error is handled.                             *)
ExecOk ==
  /\ pc = "exec" /\ session = "up" /\ Legal
  /\ work' = Effect
  /\ IF op = "byOid" THEN /\ pc' = "idle" /\ ret' \in {"ok", "error"}
                     ELSE /\ pc' = "commit" /\ ret' = ret
  /\ UNCHANGED <<connVars, colls, refused, tempTables, callVars, left, warned, countVars>>

ExecThrows ==
  /\ pc = "exec"
  /\ session = "down" \/ ~Legal \/ Rejects
  /\ Disconnect
  /\ Raise
  /\ failures' = IF session = "down" THEN failures + 1 ELSE failures
  /\ UNCHANGED <<colls, tempTables, callVars, left, losses>>

(* Mutation of commitTa(): the transaction is deleted without commit().       *)
CommitDeletesOnly ==
  /\ pc = "commit" /\ session = "up"
  /\ tr' = "NULL"
  /\ work' = colls /\ refused' = {}
  /\ Return
  /\ UNCHANGED <<db, session, colls, tempTables, callVars, left, countVars>>

CommitOk ==
  /\ pc = "commit" /\ session = "up"
  /\ colls' = work
  /\ tr' = "NULL" /\ refused' = {}
  /\ Return
  /\ UNCHANGED <<db, session, work, tempTables, callVars, left, countVars>>

(* commit() throws past commitTa(), and past the handlers of its callers: tr     *)
(* still points to the transaction, in whatever state the library left it.  A    *)
(* server that has only refused the commit may have kept the change, too.        *)
CommitThrows ==
  /\ pc = "commit"
  /\ session = "down" \/ Rejects
  /\ tr' \in {"active", "inactive"}
  /\ \/ work' = work /\ refused' = IF session = "up" THEN refused \cup {arg} ELSE refused
     \/ work' = colls /\ refused' = {}
  /\ Raise
  /\ failures' = IF session = "down" THEN failures + 1 ELSE failures
  /\ UNCHANGED <<db, session, colls, tempTables, callVars, left, losses>>

-----------------------------------------------------------------------------
(* removeTempTables(): one transaction per collection.                       *)

IsFirst(c, S) == c \in S /\ \A d \in S : c <= d

(* Mutation of removeTempTables(): the iterator is advanced twice.            *)
DropNextSkips ==
  /\ pc = "next"
  /\ \E c \in left :
       /\ IsFirst(c, left)
       /\ arg' = c
       /\ left' = left \ {c, c + 1}
  /\ pc' = "connect"
  /\ UNCHANGED <<connVars, serverVars, tempTables, op, ret, warned, countVars>>

DropNext ==
  /\ pc = "next"
  /\ \E c \in left :
       /\ IsFirst(c, left)
       /\ arg' = c
       /\ left' = left \ {c}
  /\ pc' = "connect"
  /\ UNCHANGED <<connVars, serverVars, tempTables, op, ret, warned, countVars>>

ClearRegistry ==
  /\ pc = "next" /\ left = {}
  /\ tempTables' = {}
  /\ pc' = "idle" /\ ret' = "ok"
  /\ UNCHANGED <<connVars, serverVars, callVars, left, warned, countVars>>

-----------------------------------------------------------------------------
(* The calls.                                                              *)

Call(o, c) ==
  /\ pc = "idle"
  /\ op' = o /\ arg' = c
  /\ warned' = {}
  /\ UNCHANGED <<serverVars, tempTables, ret, countVars>>

CallConnect ==
  /\ Call("connect", 0)
  /\ pc' = "connect"
  /\ UNCHANGED <<connVars, left>>

(* query() by getCollection(), queryByOid(), and updateQuery() with a          *)
(* SELECT INTO.                                                             *)
CallStatement(o, c) ==
  /\ Call(o, c)
  /\ pc' = "connect"
  /\ UNCHANGED <<connVars, left>>

CallRemoveTempTables ==
  /\ Call("removeTempTables", 0)
  /\ pc' = "next"
  /\ left' = tempTables
  /\ UNCHANGED connVars

CallDisconnect ==
  /\ pc = "idle"
  /\ op' = "disconnect" /\ arg' = 0
  /\ Disconnect
  /\ UNCHANGED <<colls, tempTables, pc, left, ret, warned, countVars>>

(* addTempTable(): the query tree names the collection of its last SELECT     *)
(* INTO.                                                                    *)
AddTempTable ==
  /\ pc = "idle" /\ op = "into" /\ ret = "ok"
  /\ tempTables' = tempTables \cup {arg}
  /\ op' = "addTempTable"
  /\ UNCHANGED <<connVars, serverVars, arg, pc, left, ret, warned, countVars>>

(* The server gives the session up.  If that happens during the commit the    *)
(* commit may have been carried out.                                        *)
SessionLoss ==
  /\ losses < MaxLosses /\ session = "up"
  /\ losses' = losses + 1
  /\ session' = "down"
  /\ colls' \in IF pc = "commit" THEN {colls, work} ELSE {colls}
  /\ work' = colls' /\ refused' = {}
  /\ UNCHANGED <<db, tr, tempTables, callVars, pc, left, ret, warned, failures>>

NewCall ==
  \/ CallConnect
  \/ \E o \in {"read", "byOid", "into"}, c \in Colls : CallStatement(o, c)
  \/ CallRemoveTempTables
  \/ CallDisconnect
  \/ AddTempTable

Step ==
  \/ AlreadyConnected \/ OpenDatabase \/ OpenThrows \/ BeginOk \/ BeginThrows
  \/ ExecOk \/ ExecThrows
  \/ CommitOk \/ CommitThrows
  \/ DropNext \/ ClearRegistry

Next == NewCall \/ Step \/ SessionLoss

(* The client keeps running: a call in progress takes its next step.         *)
Spec == Init /\ [][Next]_vars /\ WF_vars(Step)
=============================================================================
