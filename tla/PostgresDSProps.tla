--------------------------- MODULE PostgresDSProps ---------------------------
(***************************************************************************)
(* What the relational data source promises its callers, and what its       *)
(* comments say it does.                                                   *)
(***************************************************************************)
EXTENDS PostgresDS

Without(S) == [t \in Tables |-> IF t \in S THEN "absent" ELSE db[t]]

Removing == op = "removeTempTables" /\ pc # "idle"

(* At rest no transaction is open, whatever error ended the last call, but   *)
(* for connect() and the start-up catalogue query, which leave theirs open.  *)
RestClosed == pc = "idle" /\ tr = "open" => op \in {"connect", "catalog"}

(* query() and insertData() tell the truth: when they return normally, and    *)
(* no catch block dropped an exception on the way, the table is committed    *)
(* with exactly the rows of this call, and a loaded table is registered.      *)
SuccessIsReal ==
  pc = "idle" /\ ret = "ok" /\ caught = "nothing" =>
    /\ op \in {"into", "insertData"} => db[arg] = "full"
    /\ op = "insertData" => arg \in tempTables

(* removeTempTables() runs its DROPs in one transaction: whatever fails       *)
(* half way, the server never ends up with some of the registered tables      *)
(* gone and others left, and no other table is touched.                      *)
RemovalAtomic == [][Removing => db' \in {db, Without(tempTables)}]_vars

(* The registry is emptied when its tables are gone, unless an exception was  *)
(* swallowed in that very call: only then are tables forgotten on the server. *)
ForgottenOnlyAfterCaught ==
  [][tempTables' = {} /\ caught' = "nothing" => \A t \in tempTables : db'[t] = "absent"]_vars

(* tr is used while NULL only in removeTempTables(), after a refused DROP,    *)
(* and before the registry is emptied: a second removal finds it whole.       *)
FaultOnlyAfterRefusedDrop ==
  pc = "fault" => Removing /\ caught = "exception" /\ left # {} /\ left # tempTables

(* Every call comes back to its caller or dies of the NULL transaction; the   *)
(* network may fail again and again meanwhile.                               *)
CallsReturn == pc # "idle" ~> pc \in {"idle", "fault"}

(* Seen from outside, the calls' many transactions are the single steps of    *)
(* TempStore: a call changes its own table only, and removal is one step.     *)
Store == INSTANCE TempStore WITH stored <- db, temps <- tempTables
ImplementsStore == Store!Spec

=============================================================================
