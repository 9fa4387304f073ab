-------------------------------- MODULE Clients --------------------------------
(***************************************************************************)
(* Several processes of the program on the same two servers, at once or one      *)
(* after the other.  Each of them names its relations id1, id2, ..., all make       *)
(* the table tmp for a theta join, all make the sequence hqlid to number the rows   *)
(* of a table, and each removes at its end what its own registries name.          *)
(*                                                                         *)
(* A call of a data source is one action, but for those in which another client    *)
(* can come between: insertData() drops, creates and fills a table in three         *)
(* transactions, and insertHqlIdToTable() holds hqlid, and the table it alters,      *)
(* between its statements and the commit.                                     *)
(***************************************************************************)
EXTENDS NodeScripts

CONSTANTS Clients,     \* the processes
          Nobody,
          Menus,       \* sets of queries; in a behaviour all users ask queries of one
          MaxId,       \* bound on the ids one process gives out
          MaxFaults    \* how many calls fail or processes die

ASSUME ClientsAssumption == Nobody \notin Clients
ASSUME MenusAssumption == \A m \in Menus : \A p \in m : IsPlan(p) /\ FormsTree(p)
ASSUME BoundsAssumption == MaxId \in 0..99 /\ MaxFaults \in Nat

Tmp == 0
Ids == 1..MaxId
Rels == {Tmp} \cup Ids

VARIABLES
  menu,       \* the queries that are asked
  at,         \* what every process does
  plan,       \* its query, or the last one
  node, pos,  \* the query's current node and that node's next call
  phase,      \* how many transactions of the call are done
  base,       \* the id before the first one of the query
  idCounter,  \* QtNode::idCounter
  hand,       \* whose arrays the rows are from that it is about to load
  answer,     \* whose rows it has read as its last answer
  pgTemps, rmTemps,  \* its registries
  maker,      \* PostgreSQL: who has made a generated table, Nobody if it does not exist
  rows,       \* whose rows, or numbers of arrays, it holds
  numbered,   \* the tables that have a column iqlinternalid of their own
  hqlid,      \* the client whose transaction has made the sequence hqlid
  colls,      \* rasdaman: for every generated name, whose arrays it holds
  overlap,    \* whether two processes have been running at the same time
  swallowed,  \* whether commitTa() has swallowed an exception, in whichever process
  faults      \* how many faults there have been

treeVars == <<plan, node, pos, phase, base, idCounter, hand>>
pgVars == <<maker, rows, numbered, hqlid>>
regVars == <<pgTemps, rmTemps>>
vars == <<menu, at, treeVars, answer, pgVars, regVars, colls, overlap, swallowed, faults>>

TypeOK ==
  /\ menu \in Menus
  /\ at \in [Clients -> {"new", "idle", "query", "exit", "exitRas", "gone"}]
  /\ plan \in [Clients -> menu]
  /\ \A c \in Clients : node[c] \in 1..Len(plan[c])
  /\ pos \in [Clients -> 1..6] /\ phase \in [Clients -> 0..2]
  /\ base \in [Clients -> 0..MaxId] /\ idCounter \in [Clients -> 0..MaxId]
  /\ hand \in [Clients -> SUBSET Clients] /\ answer \in [Clients -> SUBSET Clients]
  /\ pgTemps \in [Clients -> SUBSET Ids] /\ rmTemps \in [Clients -> SUBSET Ids]
  /\ maker \in [Rels -> Clients \cup {Nobody}]
  /\ rows \in [Rels -> SUBSET Clients]
  /\ numbered \in SUBSET Rels
  /\ hqlid \in Clients \cup {Nobody}
  /\ colls \in [Ids -> SUBSET Clients]
  /\ overlap \in {"no", "yes"} /\ swallowed \in {"no", "yes"} /\ faults \in 0..MaxFaults

All(x) == [c \in Clients |-> x]

Init ==
  /\ menu \in Menus
  /\ at = All("new")
  /\ plan \in {[c \in Clients |-> p] : p \in menu}
  /\ node = All(1) /\ pos = All(1) /\ phase = All(0)
  /\ base = All(0) /\ idCounter = All(0)
  /\ hand = All({}) /\ answer = All({})
  /\ pgTemps = All({}) /\ rmTemps = All({})
  /\ maker = [r \in Rels |-> Nobody] /\ rows = [r \in Rels |-> {}]
  /\ numbered = {} /\ hqlid = Nobody
  /\ colls = [i \in Ids |-> {}]
  /\ overlap = "no" /\ swallowed = "no" /\ faults = 0

-----------------------------------------------------------------------------
Current(c) == plan[c][node[c]]
Call(c) == Script[Current(c).kind][pos[c]]
Calling(c, call) == at[c] = "query" /\ Call(c) = call

Rel(c, n) == IF n = 0 THEN Tmp ELSE base[c] + n
Own(c) == IF Current(c).kind = "thetaOpen" THEN Tmp ELSE base[c] + node[c]
Read(c) == {Rel(c, n) : n \in Current(c).reads}
Arrays(c) == {Rel(c, n) : n \in Current(c).arrays}

Exists(r) == maker[r] # Nobody

(* The table that a client is altering is locked until its transaction ends.       *)
Locked == IF hqlid = Nobody THEN {} ELSE {Own(hqlid)}

(* A node reads tables in its first call, and arrays in its first or in the saving.    *)
ReadsArrays(c) == Call(c) = "save" \/ (pos[c] = 1 /\ Call(c) # "pgRead")

(* What the servers require of the next call.  A condition of a theta join reads     *)
(* the numbers of tmp.                                                        *)
Legal(c) ==
  /\ pos[c] = 1 => \A r \in Read(c) : Exists(r) /\ (r = Tmp => Tmp \in numbered)
  /\ ReadsArrays(c) => \A r \in Arrays(c) : colls[r] # {}
  /\ Call(c) \in {"pgInto", "tmpClose"} => ~Exists(Own(c))
  /\ Call(c) = "pgNumber" => Exists(Own(c)) /\ Own(c) \notin numbered
  /\ Call(c) = "tmpClose" => Exists(Tmp) /\ Tmp \in numbered
  /\ Call(c) = "rmRead" => colls[Own(c)] # {}

Advance(c) ==
  /\ phase' = [phase EXCEPT ![c] = 0]
  /\ IF pos[c] < Len(Script[Current(c).kind])
     THEN pos' = [pos EXCEPT ![c] = @ + 1] /\ node' = node
     ELSE pos' = [pos EXCEPT ![c] = 1] /\ node' = [node EXCEPT ![c] = @ + 1]

GoesTo(c, place) == at' = [at EXCEPT ![c] = place]

Created(c, r, content) ==
  /\ maker' = [maker EXCEPT ![r] = c]
  /\ rows' = [rows EXCEPT ![r] = content]

RowsOf(c, R) == {c} \cup UNION {rows[r] : r \in R}

-----------------------------------------------------------------------------
(* A program that is started while another runs overlaps with it.               *)
StartProgram(c) ==
  /\ at[c] = "new"
  /\ GoesTo(c, "idle")
  /\ overlap' = IF \E d \in Clients : at[d] \notin {"new", "gone"} THEN "yes" ELSE overlap
  /\ UNCHANGED <<menu, treeVars, answer, pgVars, regVars, colls, swallowed, faults>>

StartQuery(c) ==
  /\ at[c] = "idle"
  /\ \E p \in menu :
       /\ idCounter[c] + Len(p) <= MaxId
       /\ plan' = [plan EXCEPT ![c] = p]
       /\ idCounter' = [idCounter EXCEPT ![c] = @ + Len(p)]
  /\ base' = [base EXCEPT ![c] = idCounter[c]]
  /\ node' = [node EXCEPT ![c] = 1] /\ pos' = [pos EXCEPT ![c] = 1]
  /\ phase' = [phase EXCEPT ![c] = 0]
  /\ answer' = [answer EXCEPT ![c] = {}]
  /\ GoesTo(c, "query")
  /\ UNCHANGED <<menu, hand, pgVars, regVars, colls, overlap, swallowed, faults>>

(* Mutation of the nodes' statements: a table of that name is replaced.          *)
SelectsOver(c) ==
  /\ Calling(c, "pgInto") /\ ({Own(c)} \cup Read(c)) \cap Locked = {}
  /\ \A r \in Read(c) : Exists(r)
  /\ Created(c, Own(c), RowsOf(c, Read(c)))
  /\ Advance(c)
  /\ UNCHANGED <<menu, at, plan, base, idCounter, hand, answer, numbered, hqlid,
                 regVars, colls, overlap, swallowed, faults>>

(* A SELECT INTO fails when somebody has made the table.                       *)
SelectsInto(c) ==
  /\ Calling(c, "pgInto") /\ ({Own(c)} \cup Read(c)) \cap Locked = {}
  /\ Legal(c)
  /\ Created(c, Own(c), RowsOf(c, Read(c)))
  /\ Advance(c)
  /\ UNCHANGED <<menu, at, plan, base, idCounter, hand, answer, numbered, hqlid,
                 regVars, colls, overlap, swallowed, faults>>

(* DROP TABLE IF EXISTS tmp; SELECT ... INTO tmp: whoever has made it.            *)
MakesTmp(c) ==
  /\ Calling(c, "tmpInto") /\ ({Tmp} \cup Read(c)) \cap Locked = {}
  /\ Legal(c)
  /\ Created(c, Tmp, RowsOf(c, Read(c)))
  /\ numbered' = numbered \ {Tmp}
  /\ Advance(c)
  /\ UNCHANGED <<menu, at, plan, base, idCounter, hand, answer, hqlid, regVars, colls,
                 overlap, swallowed, faults>>

(* SELECT ... INTO id<n> FROM tmp JOIN ...; DROP TABLE tmp.                       *)
ClosesTmp(c) ==
  /\ Calling(c, "tmpClose") /\ ({Tmp, Own(c)} \cup Read(c)) \cap Locked = {}
  /\ Legal(c)
  /\ maker' = [maker EXCEPT ![Own(c)] = c, ![Tmp] = Nobody]
  /\ rows' = [rows EXCEPT ![Own(c)] = RowsOf(c, {Tmp} \cup Read(c)), ![Tmp] = {}]
  /\ numbered' = numbered \ {Tmp}
  /\ Advance(c)
  /\ UNCHANGED <<menu, at, plan, base, idCounter, hand, answer, hqlid, regVars, colls,
                 overlap, swallowed, faults>>

Registers(c) ==
  /\ Calling(c, "pgReg")
  /\ pgTemps' = [pgTemps EXCEPT ![c] = @ \cup {Own(c)}]
  /\ Advance(c)
  /\ UNCHANGED <<menu, at, plan, base, idCounter, hand, answer, pgVars, rmTemps, colls,
                 overlap, swallowed, faults>>

(* insertHqlIdToTable(): CREATE SEQUENCE waits for the end of the transaction that     *)
(* has made the sequence; an ALTER TABLE, for that of one that alters the table.       *)
Numbers(c) ==
  /\ Calling(c, "pgNumber") /\ phase[c] = 0
  /\ hqlid = Nobody
  /\ Legal(c)
  /\ hqlid' = c
  /\ phase' = [phase EXCEPT ![c] = 1]
  /\ UNCHANGED <<menu, at, plan, node, pos, base, idCounter, hand, answer, maker, rows,
                 numbered, regVars, colls, overlap, swallowed, faults>>

(* The sequence is dropped in the transaction that has made it.                  *)
NumbersCommits(c) ==
  /\ Calling(c, "pgNumber") /\ phase[c] = 1
  /\ numbered' = numbered \cup {Own(c)}
  /\ hqlid' = Nobody
  /\ Advance(c)
  /\ UNCHANGED <<menu, at, plan, base, idCounter, hand, answer, maker, rows, regVars,
                 colls, overlap, swallowed, faults>>

(* The arrays of which a node makes the rows that it is about to load.             *)
InHand(c) ==
  IF "rmRead" \in {Script[Current(c).kind][i] : i \in 1..Len(Script[Current(c).kind])}
  THEN hand[c]
  ELSE {c} \cup UNION {colls[r] : r \in Arrays(c)}

(* insertData() drops the table of this name, whoever has made it.                *)
LoadDrops(c) ==
  /\ Calling(c, "pgLoad") /\ phase[c] = 0
  /\ Own(c) \notin Locked
  /\ Legal(c)
  /\ Created(Nobody, Own(c), {})
  /\ numbered' = numbered \ {Own(c)}
  /\ hand' = [hand EXCEPT ![c] = InHand(c)]
  /\ phase' = [phase EXCEPT ![c] = 1]
  /\ UNCHANGED <<menu, at, plan, node, pos, base, idCounter, answer, hqlid, regVars,
                 colls, overlap, swallowed, faults>>

(* createTable() swallows the exception when somebody else has just made it.        *)
LoadCreates(c) ==
  /\ Calling(c, "pgLoad") /\ phase[c] = 1
  /\ Own(c) \notin Locked
  /\ IF Exists(Own(c)) THEN UNCHANGED <<maker, rows>> ELSE Created(c, Own(c), {})
  /\ phase' = [phase EXCEPT ![c] = 2]
  /\ UNCHANGED <<menu, at, plan, node, pos, base, idCounter, hand, answer, numbered,
                 hqlid, regVars, colls, overlap, swallowed, faults>>

(* The rows go into whichever table has the name and as many columns.              *)
LoadCopies(c) ==
  /\ Calling(c, "pgLoad") /\ phase[c] = 2
  /\ Own(c) \notin Locked
  /\ Exists(Own(c)) /\ Own(c) \notin numbered
  /\ rows' = [rows EXCEPT ![Own(c)] = @ \cup hand[c]]
  /\ pgTemps' = [pgTemps EXCEPT ![c] = @ \cup {Own(c)}]
  /\ Advance(c)
  /\ UNCHANGED <<menu, at, plan, base, idCounter, hand, answer, maker, numbered, hqlid,
                 rmTemps, colls, overlap, swallowed, faults>>

(* One SELECT INTO per row: rasdaman adds to a collection that exists.             *)
AddsArrays(c) ==
  /\ Calling(c, "rmInto") /\ Legal(c)
  /\ colls' = [colls EXCEPT ![Own(c)] = @ \cup {c} \cup UNION {colls[r] : r \in Arrays(c)}]
  /\ UNCHANGED <<node, pos, phase>> \/ Advance(c)
  /\ UNCHANGED <<menu, at, plan, base, idCounter, hand, answer, pgVars, regVars,
                 overlap, swallowed, faults>>

(* The loop is over, after no SELECT INTO at all if there is no row to loop over; then   *)
(* there will be no collection to read.                                        *)
LoopIsOver(c) ==
  /\ Calling(c, "rmInto") /\ Legal(c) /\ Current(c).kind \in RowKinds
  /\ Advance(c)
  /\ UNCHANGED <<menu, at, plan, base, idCounter, hand, answer, pgVars, regVars, colls,
                 overlap, swallowed, faults>>

RmRegisters(c) ==
  /\ Calling(c, "rmReg")
  /\ rmTemps' = [rmTemps EXCEPT ![c] = @ \cup {Own(c)}]
  /\ Advance(c)
  /\ UNCHANGED <<menu, at, plan, base, idCounter, hand, answer, pgVars, pgTemps, colls,
                 overlap, swallowed, faults>>

ReadsCollection(c) ==
  /\ Calling(c, "rmRead") /\ Legal(c)
  /\ hand' = [hand EXCEPT ![c] = colls[Own(c)]]
  /\ Advance(c)
  /\ UNCHANGED <<menu, at, plan, base, idCounter, answer, pgVars, regVars, colls,
                 overlap, swallowed, faults>>

(* QueryTree::execute() reads the table of the answer, and the arrays in it.          *)
ReadsAnswer(c) ==
  /\ Calling(c, "pgRead") /\ Read(c) \cap Locked = {}
  /\ Legal(c)
  /\ answer' = [answer EXCEPT ![c] = RowsOf(c, Read(c))]
  /\ Advance(c)
  /\ UNCHANGED <<menu, at, plan, base, idCounter, hand, pgVars, regVars, colls, overlap,
                 swallowed, faults>>

Saves(c) ==
  /\ Calling(c, "save") /\ Legal(c)
  /\ Advance(c)
  /\ UNCHANGED <<menu, at, plan, base, idCounter, hand, answer, pgVars, regVars, colls,
                 overlap, swallowed, faults>>

(* RasdamanDS::removeTempTables() drops what is there under these names.            *)
DropsCollections(c) ==
  /\ rmTemps' = [rmTemps EXCEPT ![c] = {}]
  /\ colls' = [i \in Ids |-> IF i \in rmTemps[c] THEN {} ELSE colls[i]]

QueryOk(c) ==
  /\ Calling(c, "rmRemove")
  /\ DropsCollections(c)
  /\ GoesTo(c, "idle")
  /\ UNCHANGED <<menu, treeVars, answer, pgVars, pgTemps, overlap, swallowed, faults>>

-----------------------------------------------------------------------------
(* Mutation of regularQuery(): the transaction stays open after an error.           *)
HqlidAfterErrorKept(c) == hqlid

(* A failed call aborts its transaction, and PostgreSQL that of a dead client.       *)
HqlidAfterError(c) == IF hqlid = c THEN Nobody ELSE hqlid

(* What the others have done makes the next call fail; a copy into somebody else's     *)
(* table may find other columns there.                                        *)
Refused(c) ==
  \/ phase[c] = 0 /\ ~Legal(c)
  \/ Calling(c, "pgLoad") /\ phase[c] = 2
       /\ (maker[Own(c)] # c \/ Own(c) \in numbered)

Fails(c) ==
  /\ at[c] = "query"
  /\ hqlid' = HqlidAfterError(c)
  /\ GoesTo(c, "idle")
  /\ answer' = [answer EXCEPT ![c] = {}]
  /\ UNCHANGED <<menu, treeVars, maker, rows, numbered, regVars, colls, overlap,
                 swallowed>>

CallRefused(c) ==
  /\ at[c] = "query" /\ Refused(c)
  /\ Call(c) = "pgNumber" => hqlid = Nobody
  /\ Fails(c)
  /\ UNCHANGED faults

(* The link, the server, or a lock that the server breaks.                       *)
CallFails(c) ==
  /\ at[c] = "query" /\ Call(c) \notin {"pgReg", "rmReg", "rmRemove"}
  /\ faults < MaxFaults /\ faults' = faults + 1
  /\ Fails(c)

(* commitTa() swallows the exception of a commit that fails: the call returns and has    *)
(* changed nothing, but its client goes on, and registers what it has not made.         *)
CommitSwallowed(c) ==
  /\ at[c] = "query"
  /\ faults < MaxFaults /\ faults' = faults + 1
  /\ swallowed' = "yes"
  /\ UNCHANGED <<menu, at, plan, base, idCounter, answer, maker, rows, numbered, rmTemps,
                 colls, overlap>>

CreateLost(c) ==
  /\ \/ Call(c) \in {"pgInto", "tmpInto"} /\ ({Own(c)} \cup Read(c)) \cap Locked = {}
     \/ Call(c) = "tmpClose" /\ ({Tmp, Own(c)} \cup Read(c)) \cap Locked = {}
  /\ Legal(c)
  /\ Advance(c)
  /\ CommitSwallowed(c)
  /\ UNCHANGED <<hand, hqlid, pgTemps>>

NumbersLost(c) ==
  /\ Call(c) = "pgNumber" /\ phase[c] = 1
  /\ hqlid' = Nobody
  /\ Advance(c)
  /\ CommitSwallowed(c)
  /\ UNCHANGED <<hand, pgTemps>>

(* Of insertData(), the commits of the DROP and of the CREATE TABLE, which connect()      *)
(* makes, and that of the copy.                                              *)
LoadLost(c) ==
  /\ Call(c) = "pgLoad" /\ Own(c) \notin Locked
  /\ \/ /\ phase[c] = 0 /\ Legal(c) /\ Exists(Own(c))
        /\ hand' = [hand EXCEPT ![c] = InHand(c)]
        /\ phase' = [phase EXCEPT ![c] = 1] /\ UNCHANGED <<node, pos, pgTemps>>
     \/ /\ phase[c] = 1 /\ ~Exists(Own(c))
        /\ phase' = [phase EXCEPT ![c] = 2] /\ UNCHANGED <<node, pos, hand, pgTemps>>
     \/ /\ phase[c] = 2 /\ Exists(Own(c)) /\ Own(c) \notin numbered
        /\ pgTemps' = [pgTemps EXCEPT ![c] = @ \cup {Own(c)}]
        /\ Advance(c) /\ UNCHANGED hand
  /\ CommitSwallowed(c)
  /\ UNCHANGED hqlid

Killed(c) ==
  /\ at[c] \in {"idle", "query", "exit", "exitRas"}
  /\ faults < MaxFaults /\ faults' = faults + 1
  /\ hqlid' = HqlidAfterError(c)
  /\ GoesTo(c, "gone")
  /\ UNCHANGED <<menu, treeVars, answer, maker, rows, numbered, regVars, colls, overlap,
                 swallowed>>

-----------------------------------------------------------------------------
EndOfInput(c) ==
  /\ at[c] = "idle"
  /\ GoesTo(c, "exit")
  /\ UNCHANGED <<menu, treeVars, answer, pgVars, regVars, colls, overlap, swallowed,
                 faults>>

Dropped(c) ==
  /\ maker' = [r \in Rels |-> IF r \in pgTemps[c] THEN Nobody ELSE maker[r]]
  /\ rows' = [r \in Rels |-> IF r \in pgTemps[c] THEN {} ELSE rows[r]]
  /\ numbered' = numbered \ pgTemps[c]

(* PostgresDS::removeTempTables() is one transaction: a table that another client has   *)
(* removed undoes it, and if it is not the last one, the process dies of it.            *)
ExitDropsTables(c) ==
  /\ at[c] = "exit" /\ pgTemps[c] \cap Locked = {}
  /\ LET missing == {r \in pgTemps[c] : ~Exists(r)}
     IN \/ /\ missing = {}
           /\ Dropped(c)
           /\ pgTemps' = [pgTemps EXCEPT ![c] = {}] /\ GoesTo(c, "exitRas")
        \/ /\ missing # {} /\ \A r \in missing : IsLast(r, pgTemps[c])
           /\ UNCHANGED <<maker, rows, numbered>>
           /\ pgTemps' = [pgTemps EXCEPT ![c] = {}] /\ GoesTo(c, "exitRas")
        \/ /\ \E r \in missing : ~IsLast(r, pgTemps[c])
           /\ UNCHANGED <<maker, rows, numbered, pgTemps>>
           /\ GoesTo(c, "gone")
  /\ UNCHANGED <<menu, treeVars, answer, hqlid, rmTemps, colls, overlap, swallowed,
                 faults>>

ExitDropsCollections(c) ==
  /\ at[c] = "exitRas"
  /\ DropsCollections(c)
  /\ GoesTo(c, "gone")
  /\ UNCHANGED <<menu, treeVars, answer, pgVars, pgTemps, overlap, swallowed, faults>>

-----------------------------------------------------------------------------
Step(c) ==
  \/ SelectsInto(c) \/ MakesTmp(c) \/ ClosesTmp(c) \/ Registers(c)
  \/ Numbers(c) \/ NumbersCommits(c)
  \/ LoadDrops(c) \/ LoadCreates(c) \/ LoadCopies(c)
  \/ AddsArrays(c) \/ LoopIsOver(c) \/ RmRegisters(c) \/ ReadsCollection(c)
  \/ ReadsAnswer(c) \/ Saves(c) \/ QueryOk(c) \/ CallRefused(c)
  \/ ExitDropsTables(c) \/ ExitDropsCollections(c)

Next ==
  \E c \in Clients :
    \/ Step(c)
    \/ StartProgram(c) \/ StartQuery(c) \/ EndOfInput(c)
    \/ CallFails(c) \/ Killed(c)
    \/ CreateLost(c) \/ NumbersLost(c) \/ LoadLost(c)

(* Every process keeps running, whatever the others do; PostgreSQL serves those that     *)
(* wait for a lock in turn.                                                   *)
Fairness == \A c \in Clients : WF_vars(Step(c)) /\ SF_vars(Numbers(c))

Spec == Init /\ [][Next]_vars /\ Fairness
=============================================================================
