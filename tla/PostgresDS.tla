------------------------------ MODULE PostgresDS ------------------------------
(***************************************************************************)
(* The relational data source of the client: class PostgresDS              *)
(* (datasources/PostgresDS.cpp) together with the part of libpqxx and of    *)
(* the PostgreSQL server that its calls observe.                           *)
(*                                                                         *)
(* The class keeps one connection, at most one open transaction and a       *)
(* registry of temporary tables.  Every call is a fixed sequence of server   *)
(* round trips; each round trip is one action here, so that the loss of the  *)
(* connection can fall between any two of them.  The program is single      *)
(* threaded: a call starts only when the previous one has returned.         *)
(*                                                                         *)
(* A table name is its rank in the order in which std::map iterates over    *)
(* the registry.  Of a table's data the model keeps only how it came to be.  *)
(***************************************************************************)
EXTENDS Naturals

CONSTANTS NTables,  \* number of table names the calls may use
          Faults    \* which failures the server and the network may produce

ASSUME NTablesAssumption == NTables \in Nat
ASSUME FaultsAssumption == Faults \subseteq {"link", "reject"}

Tables == 1..NTables

(* "empty": created without rows; "full": exactly the rows of one load;     *)
(* "mixed": rows appended to rows that were there before.                   *)
Contents == {"absent", "empty", "full", "mixed"}

Databases == [Tables -> Contents]

Ops == {"none", "connect", "catalog", "select", "into", "number", "insertData",
        "addTempTable", "removeTempTables", "commit", "disconnect"}

VARIABLES
  conn,        \* the pointer conn: NULL, is_open(), or a connection seen broken
  link,        \* whether the network link below conn really works
  tr,          \* tr # NULL
  db,          \* server: the committed tables
  work,        \* server: the tables as the open transaction sees them
  tempTables,  \* the registry tempTables
  op, arg,     \* the call in progress, or the last one, and its table
  pc,          \* the next round trip of that call
  then,        \* what follows once connect() has returned
  left,        \* removeTempTables(): the registered tables not yet visited
  ret,         \* how the last call ended
  caught       \* a catch block of the call swallowed an exception

connVars == <<conn, link>>
callVars == <<op, arg>>
vars == <<conn, link, tr, db, work, tempTables, op, arg, pc, then, left, ret, caught>>

TypeOK ==
  /\ conn \in {"NULL", "open", "bad"}
  /\ link \in {"up", "down"}
  /\ tr \in {"open", "NULL"}
  /\ db \in Databases
  /\ work \in Databases
  /\ tempTables \in SUBSET Tables
  /\ op \in Ops
  /\ arg \in Tables \cup {0}
  /\ pc \in {"idle", "connect", "begin", "exec", "drop", "create", "copy",
             "remove", "commit", "close", "fault"}
  /\ then \in {"return", "exec", "drop", "create", "copy", "remove"}
  /\ left \in SUBSET Tables
  /\ ret \in {"ok", "error"}
  /\ caught \in {"nothing", "exception"}

Init ==
  /\ conn = "NULL" /\ link = "down" /\ tr = "NULL"
  /\ db = [t \in Tables |-> "absent"]
  /\ work = db
  /\ tempTables = {}
  /\ op = "none" /\ arg = 0
  /\ pc = "idle" /\ then = "return"
  /\ left = {}
  /\ ret = "ok" /\ caught = "nothing"

-----------------------------------------------------------------------------
(* Transactions.                                                           *)

(* Mutation of abortTa(): the pointer to the aborted transaction is kept.    *)
AbortTaKeepsPointer ==
  /\ work' = db
  /\ UNCHANGED <<tr, db>>

(* abortTa(): whatever the transaction did is gone, and so is tr.           *)
AbortTa ==
  /\ tr' = "NULL"
  /\ work' = db
  /\ db' = db

(* The connection turns out to be broken.                                  *)
SeenBroken ==
  /\ conn' = "bad"
  /\ link' = "down"

(* Mutation of commitTa(): the transaction is deleted without commit().      *)
CommitTaDeletesOnly ==
  /\ tr' = "NULL"
  /\ work' = db
  /\ UNCHANGED <<connVars, db, caught>>

(* commitTa(): an exception of commit() is logged and dropped.  When the    *)
(* link breaks during the commit the server may or may not have done it.    *)
CommitTa ==
  /\ tr' = "NULL"
  /\ \/ /\ tr = "NULL"
        /\ UNCHANGED <<connVars, db, caught>>
     \/ /\ tr = "open" /\ link = "up"
        /\ db' = work
        /\ UNCHANGED <<connVars, caught>>
     \/ /\ tr = "open" /\ link = "up" /\ "link" \in Faults
        /\ db' \in {db, work}
        /\ SeenBroken
        /\ caught' = "exception"
     \/ /\ tr = "open" /\ link = "down"
        /\ db' = db
        /\ SeenBroken
        /\ caught' = "exception"
  /\ work' = db'

(* Mutation of the handlers: an error retries the call until it succeeds.    *)
RetryForever ==
  /\ pc' = "connect"
  /\ ret' = "error"

(* An exception leaves the call.                                           *)
Throw ==
  /\ pc' = "idle"
  /\ ret' = "error"

-----------------------------------------------------------------------------
(* connect(): openConn(), then the two halves of openTa().                  *)

(* disconnect() in connect()'s handler: tr is NULL there, conn is deleted.  *)
ConnectThrows ==
  /\ Throw
  /\ conn' = "NULL" /\ link' = "down"
  /\ UNCHANGED <<tr, db, work, caught>>

(* Mutation of connect(): an open connection is enough, no new transaction.  *)
ConnectReusesOpen ==
  /\ pc = "connect"
  /\ conn' = "open" /\ link' = IF conn = "open" THEN link ELSE "up"
  /\ pc' = IF conn = "open" THEN then ELSE "begin"
  /\ UNCHANGED <<tr, db, work, tempTables, callVars, then, left, ret, caught>>

(* openConn() makes a new connection unless the old one looks open; then    *)
(* openTa() commits whatever is open.  Nothing is when conn is not open.    *)
Connect ==
  /\ pc = "connect"
  /\ \/ /\ conn = "open"
        /\ CommitTa
        /\ pc' = "begin" /\ ret' = ret
     \/ /\ conn # "open"
        /\ conn' = "open" /\ link' = "up"
        /\ pc' = "begin" /\ ret' = ret
        /\ UNCHANGED <<tr, db, work, caught>>
     \/ /\ conn # "open" /\ "link" \in Faults
        /\ ConnectThrows
  /\ UNCHANGED <<tempTables, callVars, then, left>>

(* A new work object: libpqxx retries BEGIN on a fresh connection when the     *)
(* old one has died, so that a loss nobody noticed may stay unnoticed.       *)
Begin ==
  /\ pc = "begin"
  /\ \/ /\ tr' = "open"
        /\ conn' = "open" /\ link' = "up"
        /\ pc' = IF then = "return" THEN "idle" ELSE then
        /\ ret' = IF then = "return" THEN "ok" ELSE ret
        /\ UNCHANGED <<db, work, caught>>
     \/ /\ link = "down"
        /\ ConnectThrows
  /\ UNCHANGED <<tempTables, callVars, then, left>>

-----------------------------------------------------------------------------
(* query() and regularQuery().                                             *)

(* The statement of the call makes sense in the transaction's tables.       *)
Legal ==
  /\ op = "into" => work[arg] = "absent"
  /\ op \in {"select", "number"} => work[arg] # "absent"

(* regularQuery() without commitTa() is all that the start-up catalogue      *)
(* query does: its transaction stays open.                                 *)
ExecOk ==
  /\ pc = "exec" /\ tr = "open" /\ link = "up" /\ Legal
  /\ work' = IF op = "into" THEN [work EXCEPT ![arg] = "full"] ELSE work
  /\ IF op = "catalog" THEN pc' = "idle" /\ ret' = "ok"
                       ELSE pc' = "commit" /\ ret' = ret
  /\ UNCHANGED <<connVars, tr, db, tempTables, callVars, then, left, caught>>

(* Both handlers of regularQuery() abort the transaction and rethrow.        *)
ExecThrows ==
  /\ pc = "exec" /\ tr = "open"
  /\ \/ link = "up" /\ (~Legal \/ "reject" \in Faults) /\ UNCHANGED connVars
     \/ link = "down" /\ SeenBroken
  /\ AbortTa
  /\ Throw
  /\ UNCHANGED <<tempTables, callVars, then, left, caught>>

-----------------------------------------------------------------------------
(* insertData(): drop, create and fill, each in a transaction of its own:   *)
(* the connect() before the next step commits the step before it.           *)

NextStep(s) ==
  /\ pc' = "connect"
  /\ then' = s

(* The DROP may fail because there is no such table; the handler takes       *)
(* every failure for that one.                                             *)
DropOld ==
  /\ pc = "drop"
  /\ \/ /\ link = "up" /\ work[arg] # "absent"
        /\ work' = [work EXCEPT ![arg] = "absent"]
        /\ UNCHANGED <<connVars, tr, db, caught>>
     \/ /\ link = "up" /\ work[arg] = "absent"
        /\ AbortTa
        /\ UNCHANGED <<connVars, caught>>
     \/ /\ link = "up" /\ work[arg] # "absent" /\ "reject" \in Faults
        /\ AbortTa
        /\ caught' = "exception"
        /\ UNCHANGED connVars
     \/ /\ link = "down"
        /\ AbortTa
        /\ SeenBroken
        /\ caught' = "exception"
  /\ NextStep("create")
  /\ UNCHANGED <<tempTables, callVars, left, ret>>

(* createTable() does not report a failed CREATE to insertData().           *)
CreateTable ==
  /\ pc = "create"
  /\ \/ /\ link = "up" /\ work[arg] = "absent"
        /\ work' = [work EXCEPT ![arg] = "empty"]
        /\ UNCHANGED <<connVars, tr, db, caught>>
     \/ /\ link = "up" /\ (work[arg] # "absent" \/ "reject" \in Faults)
        /\ AbortTa
        /\ caught' = "exception"
        /\ UNCHANGED connVars
     \/ /\ link = "down"
        /\ AbortTa
        /\ SeenBroken
        /\ caught' = "exception"
  /\ NextStep("copy")
  /\ UNCHANGED <<tempTables, callVars, left, ret>>

(* The tablewriter appends to whatever table of that name is there.          *)
Copied(c) == IF c = "empty" THEN "full" ELSE "mixed"

CopyData ==
  /\ pc = "copy"
  /\ \/ /\ link = "up" /\ work[arg] # "absent"
        /\ work' = [work EXCEPT ![arg] = Copied(work[arg])]
        /\ pc' = "commit" /\ ret' = ret
        /\ UNCHANGED <<connVars, tr, db>>
     \/ /\ link = "up" /\ (work[arg] = "absent" \/ "reject" \in Faults)
        /\ AbortTa
        /\ Throw
        /\ UNCHANGED connVars
     \/ /\ link = "down"
        /\ AbortTa
        /\ SeenBroken
        /\ Throw
  /\ UNCHANGED <<tempTables, callVars, then, left, caught>>

-----------------------------------------------------------------------------
(* removeTempTables(): one DROP per registered table, in map order, all in   *)
(* one transaction.                                                        *)

IsFirst(t, S) == t \in S /\ \A u \in S : t <= u

(* Mutation of removeTempTables(): every DROP is committed at once.          *)
DropTempCommitted ==
  /\ pc = "remove" /\ tr = "open" /\ link = "up"
  /\ \E t \in left :
       /\ IsFirst(t, left)
       /\ work[t] # "absent"
       /\ db' = [db EXCEPT ![t] = "absent"]
       /\ left' = left \ {t}
  /\ work' = db'
  /\ UNCHANGED <<connVars, tr, tempTables, callVars, pc, then, ret, caught>>

DropTemp ==
  /\ pc = "remove" /\ tr = "open" /\ link = "up"
  /\ \E t \in left :
       /\ IsFirst(t, left)
       /\ work[t] # "absent"
       /\ work' = [work EXCEPT ![t] = "absent"]
       /\ left' = left \ {t}
  /\ UNCHANGED <<connVars, tr, db, tempTables, callVars, pc, then, ret, caught>>

(* regularQuery() has already aborted the transaction when the loop's        *)
(* handler drops the sql_error, and the loop goes on without one.            *)
DropTempRefused ==
  /\ pc = "remove" /\ tr = "open" /\ link = "up"
  /\ \E t \in left :
       /\ IsFirst(t, left)
       /\ work[t] = "absent" \/ "reject" \in Faults
       /\ left' = left \ {t}
  /\ AbortTa
  /\ caught' = "exception"
  /\ UNCHANGED <<connVars, tempTables, callVars, pc, then, ret>>

(* Mutation: the registry is cleared even when the removal is cut short.     *)
DropTempBrokenClears ==
  /\ pc = "remove" /\ tr = "open" /\ link = "down" /\ left # {}
  /\ SeenBroken
  /\ AbortTa
  /\ Throw
  /\ tempTables' = {}
  /\ UNCHANGED <<callVars, then, left, caught>>

(* broken_connection is not an sql_error: it leaves removeTempTables().      *)
DropTempBroken ==
  /\ pc = "remove" /\ tr = "open" /\ link = "down" /\ left # {}
  /\ SeenBroken
  /\ AbortTa
  /\ Throw
  /\ UNCHANGED <<tempTables, callVars, then, left, caught>>

(* tr->exec() with tr = NULL: the process receives SIGSEGV.                 *)
NullTransaction ==
  /\ pc = "remove" /\ tr = "NULL" /\ left # {}
  /\ pc' = "fault"
  /\ UNCHANGED <<connVars, tr, db, work, tempTables, callVars, then, left, ret, caught>>

AllVisited ==
  /\ pc = "remove" /\ left = {}
  /\ pc' = "commit"
  /\ UNCHANGED <<connVars, tr, db, work, tempTables, callVars, then, left, ret, caught>>

-----------------------------------------------------------------------------
(* The commitTa() that ends query(), insertData(), removeTempTables(),       *)
(* commit() and the first half of disconnect(), and what follows it.         *)
Finish ==
  /\ pc = "commit"
  /\ CommitTa
  /\ tempTables' = IF op = "insertData" THEN tempTables \cup {arg}
                   ELSE IF op = "removeTempTables" THEN {}
                   ELSE tempTables
  /\ IF op = "disconnect" THEN pc' = "close" /\ ret' = ret
                          ELSE pc' = "idle" /\ ret' = "ok"
  /\ UNCHANGED <<callVars, then, left>>

(* closeConn().                                                            *)
CloseConn ==
  /\ pc = "close"
  /\ conn' = "NULL" /\ link' = "down"
  /\ pc' = "idle" /\ ret' = "ok"
  /\ UNCHANGED <<tr, db, work, tempTables, callVars, then, left, caught>>

-----------------------------------------------------------------------------
(* The calls.                                                              *)

Call(o, t) ==
  /\ pc = "idle"
  /\ op' = o /\ arg' = t
  /\ caught' = "nothing"
  /\ UNCHANGED <<connVars, tr, db, work, tempTables, ret>>

(* connect(), and connect() followed by regularQuery() on the catalogue.    *)
CallConnect(o) ==
  /\ Call(o, 0)
  /\ pc' = "connect"
  /\ then' = IF o = "connect" THEN "return" ELSE "exec"
  /\ left' = left

(* query() with a SELECT, with a SELECT INTO, and insertHqlIdToTable().      *)
CallQuery(o, t) ==
  /\ Call(o, t)
  /\ pc' = "connect" /\ then' = "exec"
  /\ left' = left

CallInsertData(t) ==
  /\ Call("insertData", t)
  /\ pc' = "connect" /\ then' = "drop"
  /\ left' = left

CallRemoveTempTables ==
  /\ Call("removeTempTables", 0)
  /\ pc' = "connect" /\ then' = "remove"
  /\ left' = tempTables

(* commit() and disconnect().                                              *)
CallCommit(o) ==
  /\ Call(o, 0)
  /\ pc' = "commit"
  /\ UNCHANGED <<then, left>>

(* addTempTable(): the query tree calls it after the SELECT INTO it names.   *)
AddTempTable ==
  /\ pc = "idle" /\ op = "into" /\ ret = "ok"
  /\ tempTables' = tempTables \cup {arg}
  /\ op' = "addTempTable"
  /\ UNCHANGED <<connVars, tr, db, work, arg, pc, then, left, ret, caught>>

(* The link breaks; the server rolls back what was open on it.  Whether the  *)
(* client ever notices depends on its next round trip.                      *)
LinkLoss ==
  /\ "link" \in Faults /\ link = "up" /\ pc # "fault"
  /\ link' = "down"
  /\ work' = db
  /\ UNCHANGED <<conn, tr, db, tempTables, callVars, pc, then, left, ret, caught>>

NewCall ==
  \/ \E o \in {"connect", "catalog"} : CallConnect(o)
  \/ \E o \in {"select", "into", "number"}, t \in Tables : CallQuery(o, t)
  \/ \E t \in Tables : CallInsertData(t)
  \/ CallRemoveTempTables
  \/ \E o \in {"commit", "disconnect"} : CallCommit(o)
  \/ AddTempTable

Step ==
  \/ Connect \/ Begin
  \/ ExecOk \/ ExecThrows
  \/ DropOld \/ CreateTable \/ CopyData
  \/ DropTemp \/ DropTempRefused \/ DropTempBroken \/ NullTransaction \/ AllVisited
  \/ Finish \/ CloseConn

Next == NewCall \/ Step \/ LinkLoss

(* The client keeps running: a call in progress takes its next step.         *)
Spec == Init /\ [][Next]_vars /\ WF_vars(Step)
=============================================================================
