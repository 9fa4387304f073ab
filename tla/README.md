# IQL: a verification development

IQL ("hql") is a command-line client that executes one query language over two
database systems: relations in PostgreSQL and array collections in rasdaman.
This directory holds TLA+ models of the client, TLC configurations, and proofs
for TLAPS. Paths are relative to the root of the repository; the program is in
`src/`.

## 1. The system

```
driver.cpp  main, signalHandler, exitProgram
   |  readQuery() -> yyparse()                 grammar/lexer.ll, grammar/parser.yy
   v
QueryTree   load, execute, save files, encoding format      querytree/QueryTree.cpp
   |  setupDbSource() and execute() of every node            querytree/Qt*.cpp
   v                     v
PostgresDS            RasdamanDS                             datasources/*DS.cpp
   | libpqxx             | rasdaman client library
PostgreSQL            rasdaman
```

The program is single threaded. Concurrency comes from outside: the two
servers and the network, signals that run `exitProgram()` in the middle of a
call, the death of the process and its next start, and other clients.

| Component | State | Operations | Interacts | What makes it correct |
|---|---|---|---|---|
| `PostgresDS` | connection, open transaction `tr`, registry `tempTables` | connect, query, insertData, insertHqlIdToTable, addTempTable, removeTempTables, commit, disconnect | called by the nodes, `IqlApp` and `exitProgram()`; libpqxx exceptions | no transaction at rest; a normal return means that the work is committed; removal of all temporary tables or none; the registry forgets nothing |
| `RasdamanDS` | database and transaction objects, registry | query, queryByOid, updateQuery, getCollection, addTempTable, removeTempTables, disconnect | called by the array nodes and `QueryTree` | nothing uncommitted at rest but what a refused commit has left; failures are independent; a lost session is recovered from |
| Query execution | node ids (`idCounter`), tree, one relation per node on each server | execute() of each class, QueryTree::execute() | uses both data sources; the parser builds the tree | relations exist before they are registered and read; ids do not collide; ok is only said of a query that was executed; nothing is left behind |
| Choice of the system | `db_source` of each node, resolved column names | setupDbSource(), dispatch in execute() | reads the dictionary of `IqlApp` | an expression is evaluated by the system that can; plain expressions work |
| Session | `errorCount`, `encode`, statement loop | readQuery, yyerror, setEncodingFormat, exitProgram | shell and user | every statement is answered once, in order; the exit status tells; the session ends |
| `IqlApp` | the two data sources, the table dictionary, PostGIS names | constructor, isPostGisFunction, destructor | asked by the nodes | a name means one table; it is current |
| Column names | `qColumnNames` of each relation, of the cartesian product | naming in `QtDataSource`, joins in `QtJoin`, product in `QtList`, resolution in `QtColumn` | every relation is passed on as an `IqlTable` | a column is found under the name the query says, and no other is |
| `IqlTable` | rows and column names of a result | constructors from either server's result, getColumn, print | passed between nodes | rows stay aligned |
| Lexer | start condition, nesting depth, literal buffer | one rule for each kind of text | asked by the parser; asks the keyword lookup | literals, comments and operators end where they should; it ends |
| Keyword lookup | two tables sorted by hand | ScanKeywordLookup, RasqlKeywordLookup, isPostGisFunction | asked by the lexer for every identifier | every keyword is found, as itself; the search ends |
| Grammar | Bison tables | yyparse | builds the tree, executes it statement by statement | - |
| Logger, `str.c`, tests, third-party headers | - | - | - | see section 7 |

Hard to test, and the reason for the models (all with lines in
`PROJECT.json`, "hazards"): a failure between two of the many small
transactions of one call; exceptions swallowed by `commitTa()` and
`createTable()`; a broken connection that still looks open; registries that
must agree with what the servers hold; node ids that start again with every
process while the relations named by them do not; decisions made from
`db_source` before the operands have found theirs; a parser that is called
again in the middle of the input; state that outlives its query; names that are
put together and taken apart by searching in strings; rows that are put side by
side by numbers given to them in different places; clients that all use the same
names; a scanner whose rules overlap; a table that must be sorted and is kept by hand.

## 2. Modules

| Module | Models | Extends |
|---|---|---|
| `TempStore` | abstract specification: what the database shows of the data source's calls | - |
| `PostgresDS` | class `PostgresDS`, one action per server round trip | - |
| `PostgresDSProps` | its properties, and `TempStore` by a refinement mapping | `PostgresDS` |
| `PostgresDS_proofs` | theorems about it | `PostgresDSProps`, `TLAPS` |
| `RasdamanDS`, `RasdamanDSProps` | class `RasdamanDS`, its properties | - |
| `RasdamanDS_proofs` | theorems about it | `RasdamanDSProps`, `TLAPS` |
| `NodeScripts` | the calls of data sources that every class of nodes makes, the order of the registries | - |
| `QueryExecution`, `...Props`, `MC...` | query execution over both data sources, failures, signals, restarts | `NodeScripts` |
| `QueryExecution_proofs` | theorems about it, for all queries that form a tree | `QueryExecutionProps`, `TLAPS` |
| `Clients`, `...Props`, `MC...` | several processes on the same servers | `NodeScripts` |
| `Clients_proofs` | theorems about relational queries, and about turns, of any number of clients | `ClientsProps`, `TLAPS` |
| `RowNumbers`, `...Props`, `MC...` | which rows of the nodes' tables are put side by side | - |
| `RowNumbers_proofs` | theorems about answers, failures and lost rows, for all queries and sizes | `RowNumbersProps`, `TLAPS` |
| `DbSource`, `...Props`, `MC...` | `setupDbSource()` and the dispatch of `execute()` | - |
| `DbSource_proofs` | theorems about the choice, for expressions of any depth | `DbSourceProps`, `TLAPS` |
| `Session`, `...Props`, `MC...` | start-up, driver, statement loop, encoding format | - |
| `FrontEnd_proofs` | theorems about the exit status and the encoder, for inputs of any length, about the keyword searches, for all tables, and about the scanner, for all texts | `SessionProps`, `KeywordLookupProps`, `LexerProps`, `TLAPS` |
| `ColumnNames`, `...Props`, `MC...` | how columns are named, joined and found | - |
| `ColumnNames_proofs` | theorems about it, for all catalogues, widths and queries | `ColumnNamesProps`, `TLAPS` |
| `Lexer`, `...Props`, `MC...` | the rules of the scanner | - |
| `KeywordLookup`, `...Props`, `MC...` | the two binary searches, and PostGIS names after them | - |
| `KeywordTables` | the program's two keyword tables, as ranks | - |
| `MCScanner` | the inputs of `MCLexer` and `MCKeywordLookup` in one specification: a text is scanned or a word is looked up | both |

A component is specified in a module of its name; its properties are in
`...Props`, and `MC...` gives TLC its inputs where they are more than numbers.
Operators called `...` with the comment "Mutation" are wrong versions of the
definition that follows them; no specification uses them. They are there to
show that each property can fail: putting one in the place of the definition
makes TLC find the property violated.

### PostgresDS

| Variable | In the code |
|---|---|
| `conn`, `link` | `conn`: NULL, open, or seen broken by an exception; `link` is whether it really works |
| `tr` | `tr` (NULL or not) |
| `db`, `work` | server: committed tables, and tables as the open transaction sees them |
| `tempTables` | `tempTables` |
| `op`, `arg`, `pc`, `then`, `left` | the call in progress, its table, its next round trip, what follows `connect()`, and the rest of the removal loop |
| `ret`, `caught` | how the last call ended; whether a catch block dropped an exception in it |

`Connect` and `Begin` are `connect()` (openConn, then the two halves of openTa:
commit what is open, begin anew). `ExecOk` and `ExecThrows` are
`regularQuery()`. `DropOld`, `CreateTable`, `CopyData` are the three
transactions of `insertData()`; `NextStep` is the `connect()` between them,
which commits. `DropTemp...`, `NullTransaction` and `AllVisited` are the loop of
`removeTempTables()`. `Finish` is the `commitTa()` at the end of a call.
`LinkLoss` may happen before any round trip; a commit during which the link
breaks may or may not have taken place. Table names are ranks in the order of
`std::map`, which is the order of removal. `TempStore` is what is promised: a
call's effects on the committed tables are single steps on the call's own table,
and `removeTempTables()` is one step for all.

### RasdamanDS

Same form: `session` and the client's belief in it (`isConnected()` asks the
library), the transaction object, `colls` and `work`, the registry, the removal
loop, whose DROPs have a transaction each (`RemovalIndependent`). `CommitThrows` is a `commit()`
that fails because the session is lost, or that the server refuses in a live session: no handler
of the class catches that, `tr` stays, and with it perhaps the change (`refused`), which the
next call's `connect()` finds open and its commit makes permanent. A SELECT INTO whose commit was
refused has failed and its collection is not registered, but a later call, a DROP of the
removal at the exit at the latest, may still commit it, as an orphan. `LossCostsTwo` counts with `losses`
and `failures`, which exist for it only and are bounded by the number of losses.

### NodeScripts and QueryExecution

A query is a *plan*: its nodes in the order of evaluation, each with its kind and
the nodes whose relations it reads. For every class `NodeScripts` has a *script*, the
calls of data sources that its `execute()` makes, in their order: `pgInto`
(SELECT INTO), `pgReg` (`PostgresDS::addTempTable`), `pgNumber`
(`insertHqlIdToTable`), `pgLoad` (`insertData`), `rmInto`, `rmReg`, `rmRead` for
rasdaman, and for the whole query `pgRead`, `save`, `rmRemove`. `FormsTree` is what the parser
guarantees of a plan: a node reads what earlier nodes have made, every table but the last is
read, and `tmp` is used in the condition of a theta join only (`InTheta`). One call is one
action; that a call of a data source is atomic for an observer is what
`TempStore` says and the theorem `Refinement` proves. Array nodes of the classes `RowKinds` make
one SELECT INTO for each row, which may be none (`RmLoopsOverNoRow`): then there is no collection
to read, and the query fails; `noRows` remembers the runs in which this happened. A call may fail with what
it may leave behind (`Leftovers`, a collection whose commit was refused included), its commit may be lost and its exception
swallowed (`PgCreateLost`), a signal may run `exitProgram()` (`Signal`), the
process may be killed (`Killed`) and started again (`Restart`): ids start from
1 again, and the tables and collections of the dead process are still there.
`colls` keeps, for every name, the runs whose arrays it holds.

### Clients

The same plans and scripts, executed by several processes at once or one after the
other (`overlap` tells). Calls are single actions except where another client can
come between: `LoadDrops`, `LoadCreates` and `LoadCopies` are the three transactions
of `insertData()`; `Numbers` and `NumbersCommits` are `insertHqlIdToTable()`, which
holds the sequence `hqlid`, and a lock on the table it alters (`Locked`), until its
commit. `MakesTmp` and `ClosesTmp` are the two halves of a theta join around its
condition. `maker` and `rows` are what a generated table's name hides: who has
made the table and whose rows are in it; `colls` is the same for collections. `Legal`
is what the servers require of the next call, and `CallRefused` what becomes of a
call that another client has made illegal. `LoopIsOver` is the end of a row loop, also of one over
no rows. `CallFails` and `Killed` are faults,
after which PostgreSQL rolls the transaction back, and `hqlid` with it. `CreateLost`, `NumbersLost`
and `LoadLost` are calls, or transactions of `insertData()`, whose commit fails and whose exception
`commitTa()` swallows (`swallowed`): the client goes on as if it had made the table, and
registers it. If another client makes the table of that name next, the first one reads it, and drops it
at its exit; `RelationalIsPrivate` and `OnlyMakerRemoves` say what is left of privacy then. A client's
exit is `ExitDropsTables`, one transaction that a missing table undoes, and that the
process does not survive when the missing one is not the last in the order of the registry,
and `ExitDropsCollections`.

### RowNumbers

One SELECT without the calls: a row is its number (`iqlinternalid`), its place in the
order in which the server delivers its table, and the set of rows of the cartesian product
its cells were computed from. `Multiply` numbers the product. Relational nodes
(`KeepsNumbers`) pass the numbers on and join their operands on them. Array nodes number
their table anew: `ReadsArrays` (array columns), `RowByRow` (operators, trimming, functions
with two arguments) and `WholeCollection` (functions of one). `Filter` is `QtWhere`, which
keeps the numbers of the rows it keeps, and so leaves gaps. `Answers` is the end. A server
may deliver a join in another order (`Orders`, `shuffled`), and arrays may be deleted by
others after their oids were read (`ArrayDeleted`, `gone`). Queries are trees (`Connected`: every
node is an operand), and operators on arrays have arrays (`Typed`), as the dispatch of `execute()`
requires before such an operator gets as far as its tables.

### DbSource

An expression is a tree, given as a sequence with children first. `Returned` is
what `setupDbSource()` of each class returns; `Setup` what a call of it *stores*,
which is less: `QtTrimOperation` stores nothing, and some classes do not go on
to their children. `Start` and `Finish` are the two halves of `execute()` around
the execution of the children; `ExecuteLeaf` is where a column finds its table.
`IsArray` is what a node's value really is, independent of `db_source`. `IsExpr` says what an
expression is, of any size, with `Arity` operands for each class.

### Session

The input is a sequence of pieces, each given by what becomes of it and by how often the scanner
calls `yyerror()` for it (`scanErrors`): rules that do so go on with their token (lexer.ll:679, 691,
706, 809), so that `SELECT "" FROM t;` is executed and counted as an error. `Execute`
is one reduction of `stmt`; `SyntaxError` ends `yyparse()`; `Loop` is the loop
of `main()`, `EndOfInput` the empty query. `NoFromCrashes` is a SELECT without
FROM. `StartFails` is the constructor of `IqlApp` that throws; `Restart` is
`exitProgram()` in its handler, which asks for the instance again, outside of any `try`:
the program is aborted, or starts only to exit. `Signal` is `signalHandler()` at any moment, also
before there is an instance. `NoFormat` is the empty string of the encoding format. `StatusMod`
stands for 256.

### ColumnNames

A query is a FROM list and one reference of the SELECT list. `Loaded` is the
relation of one `QtDataSource`, with its columns named `table__column` and
`iqlinternalid` first; `CrossJoin`, `NaturalJoin`, `UsingJoin` and `ThetaJoin`
are the ways of `QtJoin`, which finds the columns to compare in a map from
unqualified names; `Multiply` is the cartesian product of `QtList`. `SelectAll`,
`SelectTable`, `SelectQualified` and `SelectUnqualified` are the branches of
`QtColumn::execute()`. A name is a sequence of *atoms* with widths, so that
`find()`, `rfind()` and `substr()` are modelled by what they do, with `npos` and
the differences that become `npos`. A column remembers its table and its name
there (`of`, `col`), which the code does not: the properties compare what was
found with what was meant.

### Lexer

One action is one rule, and its guard says that it has the longest match and
comes first among equals. `mode` is the start condition, `inside` what each
character was taken for. `CutComment` and `StripSigns` are the two loops of the
rule for operators, `Grown` the growth of the literal buffer, whose first size is a
constant. `Number` stands for the five rules of numbers, of which two throw an `e` and a sign
back; `DollarInside` for the rules in a dollar quote, of which one throws back the dollar that
may start the right delimiter. In `LexerProps`, `Meaning` is how a reader takes the same text,
character by character and with no look at rules: comments nest, escapes and
doubled quotes stand for one character, literals go on after a newline, a number is the
longest numeral that starts there, a dollar quote ends where its delimiter stands for the first
time again. The reader takes most characters one at a time, in one of a few states (`ReadAt`,
`StateAt`); numbers, parameters, continuations and dollar quotes it takes in one go, by what
they are: the longest part of the text that `IsNumber`, the first place where the delimiter is repeated. Of
the scanner's patterns it shares `RunEnd` and, for a continuation, `Continues`. Names of the module
start with `Scan` where `Session` has the plain ones, so that one proof module extends both.

### KeywordLookup

One comparison is one action: `Found`, `GoRight`, `GoLeft`; `TooLong` and
`NotInTable` go on to the next table, `AskPostGis` is the end. `low` and `high` are
the pointers of the code as indices. A word is its rank among all names in the order
of `strcmp()`, which is all the search looks at.

## 3. Runs

| Run | Instance | Shows |
|---|---|---|
| `postgres_calls` | 3 tables, statements refused, links lost without a bound | transactions closed at rest, truthful returns, atomic removal, nothing forgotten silently; calls return; refinement of `TempStore` |
| `rasdaman_calls` | 3 collections, 2 session losses, statements and commits refused | nothing pending at rest but changes whose commit was refused, truthful returns, independent drops and nothing forgotten without a warning, recovery; calls return, no deadlock |
| `query_execution` | 7 plans, 12 ids, 2 runs of the program, 2 faults, row loops with and without rows (680856 states) | registry against server, causes of a failure, orphans, truth of "ok", clean exit; queries and exits end |
| `row_numbers` | 7 queries of the README and the tests, up to 3 rows, every outcome of WHERE, every order of a join, any arrays deleted (523884 states) | every row of the answer belongs together, and is there; why a query fails |
| `clients` | 2 processes, 8 ids each, 3 menus of queries (relational, theta join, arrays), 1 fault, row loops with and without rows (283496 states) | whose rows an answer has, who removes whose tables, privacy of turns; every query ends |
| `dbsource_choice` | all 2204 expressions of two levels | no wrong system without an error, plain expressions work, evaluation ends |
| `session_input` | all inputs of up to 4 pieces of 10 kinds, two of them with an error of the scanner, a start-up that fails once or twice, signals at any moment | the session ends and every piece is answered, exit status, cause of a refused encoder |
| `column_names` | 9 tables whose names contain, start or end with each other; all FROM lists of one or two, some of three; 44 references (146960 states) | what is selected is what was named; what is named once is found; `table.*`; joins compare equal names |
| `scanner` | all 117197 texts of up to 4 to 8 characters over nine alphabets; the two real keyword tables with their 456 names and the 457 words between and around them (625476 states) | scanner and reader agree on every character (so that operators stop where a comment starts) and every literal, and on where numbers end; the end is reached; only misplaced keywords are missed, an answer is right, and the search ends |

Why the bounds are enough: three tables give the removal loop a first, a middle
and a last DROP, which are its cases. A call uses one table, so that more tables
add only independent copies; the proofs hold for every number. Two faults are
one more than each handler expects: the second can hit the recovery from the
first. Twelve ids hold a longest plan and a shortest, in either order, or
a second run that meets the ids of the first. Two levels of operators contain every pair of a
class and a child class, on which the choice depends. With `StatusMod` 3, four
pieces wrap the exit status around. Three rows are the fewest with a gap before, between and
after rows that are kept, and the queries of `row_numbers` have every class of nodes below,
beside and above others; the theorems have no bound. In `clients`, two processes with eight ids
hold one query of every menu, and a second one of the shorter kind; every clash is between
two processes, and the theorems hold for any number. The catalogue of `column_names` has a
table for every way in which the string searches can go wrong (a prefix of another, a name with the separator in it, a
name one character short of a suffix, a relation that has an array's columns, an array collection
and a relation with the names of columns that the program adds);
a third source is needed for the product of a join. In `scanner` eight
characters over slash, star and minus hold a comment that goes on after a
nested one and ends; five hold every pair of operator, sign and comment start;
six hold a literal with an escape that goes on after a newline; with a first
buffer of two characters the buffer grows twice; eight over a dollar and two letters hold
a dollar quote whose delimiter overlaps another; six over a digit, a point, an e and a sign hold
every way in which a number can break off. The lookup of keywords is not
bounded in its tables: they are the program's. It shares no state with the rules, so that one run
checks both, one of them at rest (`MCScanner`).

`CHECK_DEADLOCK FALSE` is said where the system stops: a process that died of the
NULL transaction, a program that is over, an expression, a text or a word that is
dealt with, ids or runs at their bound. `rasdaman_calls` checks deadlock.

The type invariants (`TypeOK`) are proved; no run spends time on them.

### Disagreements

Three more runs check what a document or a comment of the sources says and the code
does not do; TLC finds each of them violated.

| Run | Statement | Code |
|---|---|---|
| `dbsource_scalars_work` | README:16, README:21, sample queries | an unqualified column has no system when the operator chooses |
| `list_sizes` | QtList.hpp:34-35 "All tables must have the same number of elements, otherwise an exception is thrown" | the tables are joined by their numbers, whatever their sizes: after a WHERE with a gap, a SELECT list that mixes columns of relations with arrays loses rows, and the query is answered |
| `keyword_every` | rqlkwlist.h:13 "This list must be sorted by ASCII name" | `log`, `sin` and `tan` stand behind longer names and are never recognised |

Smaller ones, which the models contain and no run singles out:
PostgresDS.cpp:50, of a failed DROP, "do not react on this error": the refused
statement has already aborted the transaction, and the next DROP uses a NULL one;
`FaultOnlyAfterRefusedDrop` says that this is the only way to it.
DataSourceInterface.hpp:47 ("Drop tables that have been created during a query
execution"): both `removeTempTables()` may empty the registry and leave the
relations, which `ForgottenOnlyAfterCaught` and `RemovalIndependent` delimit.
QtNode.hpp:43-44: `QtTrimOperation` does not store its system. driver.cpp:77 ("Returns 0 on
successful execution"): a query that fails does not make the exit status non-zero, and a query that is
executed may, if the scanner has complained of it (`RejectionShows`). driver.cpp:100: `--unique`
limits the calls of the parser, not the queries. driver.cpp:117: a SELECT without
FROM is a segmentation fault, and the rest of the input is not executed.
QtColumn.cpp:57 ("Only select the columns from the referenced table"): the test is on the
start of the qualified name, so `emp.*` takes the columns of `emps` too;
`StarIsTable` excepts that. QtColumn.cpp:101: an unqualified name of 12 characters
also matches `iqlinternalid`, and is refused as ambiguous; a relation with a column `filename`
is taken for an array collection; an array collection named `oid` or `filename` has two matches for
that name; and a column whose name is one character too short for the suffix, and is the
name of a table, would be taken for that table. `AnswerIsMeant` and `UniqueIsFound` except these.
QtJoin.cpp:121 ("exactly one match"): the count in a map is never more than one.
lexer.ll:791-796 (the cut operator is returned "the same way that the "self" rule
would have"): here that rule returns named tokens, and the character code means
nothing to the grammar, so that `a=-1` is a syntax error. lexer.ll:438 and its
like: an unclosed comment or literal at the end of the input is reported without
end (`ReachesEnd`); the inputs of `Session` have none. QtNode.hpp:55 ("the unique ID
of this node"): unique in a process, but the name of relations on servers that outlive it: a killed program's relations meet those of the next
(`FailureHasCause` counts the kill as the cause). `TurnsArePrivate` excepts the array
functions of one argument: QtRasqlFunction.cpp:107-120 makes a collection and never registers
it, against DataSourceInterface.hpp:47, so that nobody drops it and the next program's node of
that id adds to it; the plans of `query_execution` leave it out, and `CleanExit` fails with a plan
that has it.
QueryTree.cpp:163: the format is never reset, so that the second query of a session with one
encoder is refused and one without any may be encoded; `RefusalHasCause` says when.
driver.cpp:114: a start-up that fails is tried a second time from within the handler of
the first, which may end in SIGABRT. parser.yy:620-637: UNION,
INTERSECT and EXCEPT execute their first query only.

## 4. Fairness

All liveness properties assume weak fairness of the client's own steps
(`WF(Step)`, or `WF(Next)` where the client is all there is): a single-threaded
program that is not waiting keeps running. In `Clients` every process has this for itself,
and strong fairness of `Numbers`: whoever waits for the sequence `hqlid` waits in
PostgreSQL's queue for that lock, which is served in turn. Nothing is assumed of the
environment: new calls, queries, faults, signals and restarts need never happen,
and where no bound says otherwise faults may happen again and again. A round trip to a server
returns or throws; libpqxx and the rasdaman library have no timeouts that the
client sets, so a server that neither answers nor closes the connection would
hang the client, and is left out. `QueryExecution` assumes that a query has
finitely many rows (`RmAddsArray` eventually advances); in `Clients`, adding an array once more
changes nothing, so that a row loop that is not over yet comes to `LoopIsOver`.

## 5. Proofs

`PostgresDS_proofs`, for every `NTables` and every set `Faults`:

| Theorem | States |
|---|---|
| `TypeCorrect` | `[]TypeOK` |
| `Invariance` | `[]IInv`, the inductive invariant |
| `AtRestClosed` | `[]RestClosed` |
| `SuccessReal` | `[]SuccessIsReal` |
| `FaultCause` | `[]FaultOnlyAfterRefusedDrop` |
| `RemovalIsAtomic` | `RemovalAtomic` |
| `ForgottenAfterCaught` | `ForgottenOnlyAfterCaught` |
| `Refinement` | `Spec => ImplementsStore` |

None of the safety properties is inductive. "A normal return is true" needs to
know what the open transaction would commit at that moment. `IInv` says it:
`ArgInv` (the calls on a table have one), `ConnInv` (an open transaction implies
a connection that was opened), `FlowInv` (which round trips, and which
continuations of `connect()`, belong to which call), `TransInv` (where a
transaction may be open), `WorkInv` (with the link up, `work` is `db` changed by
exactly the statements of the call so far; without a transaction it is `db`),
`RemoveInv` (the tables visited by the removal are gone from `work`, unless a
DROP was refused, and then no transaction is open), `LoadInv` (how far
`insertData()` has got, and that an old table survives only if an exception was
swallowed). The type invariant and `ArgInv` are proved first; the step from
`IInv` to `IInv'` has one case for each action. `CommitTaOutcome` is the lemma
about `commitTa()` that most cases use. The refinement maps `stored` to `db` and
`temps` to `tempTables`; all round trips but those that commit, and the end of
loading and removal, are stutters.

The assumptions are `NTables \in Nat` and `Faults \subseteq {"link", "reject"}`.

`RasdamanDS_proofs`, for any number of collections and of lost sessions:

| Theorem | States |
|---|---|
| `TypeCorrect` | `[]TypeOK` |
| `Invariance` | `[]IInv`, the inductive invariant |
| `OnlyRefusedIsPending` | `[]OnlyRefusedPending` |
| `SuccessReal` | `[]SuccessIsReal` |
| `LossIsBounded` | `[]LossCostsTwo` |
| `RemovalsAreIndependent` | `RemovalIndependent` |

`queryByOid()` and an error leave a transaction open. `WorkInv` says of every round trip what that
transaction holds: the one collection of the call, and those of earlier calls whose commit was
refused (`refused`), so that an abort, a lost session and the next call's `connect()` undo or commit
nothing else. `LossInv` counts what a lost session can still cost
(`Pending`) by the state of the client's belief in it; without that `LossCostsTwo` is not
inductive. `RemoveInv` says which collections the loop has already dropped or warned about.

`QueryExecution_proofs`, for every set of plans that form trees (`IsPlan`, `FormsTree`), any number
of ids, runs and faults:

| Theorem | States |
|---|---|
| `TypeCorrect` | `[]TypeOK` |
| `RegisteredAlwaysExists` | `[]RegisteredExists` |
| `OkReal` | `[]OkIsReal` |
| `FailuresHaveCause` | `[]FailureHasCause` |
| `ExitsClean` | without `function1` in a plan, `[]CleanExit` |
| `OrphansBounded` | without `function1` in a plan, `[]OneOrphanPerFault` |
| `Invariance` | `[]IInv`, the conjunction of the parts below |

The parts are proved one after the other, each with the help of those before it. `FlowInv`: where
in its script a node may be. `RegistryInv`: the registries name relations of this run only, and
that of the current node from the call on that registers it. `ExistsInv`: what is registered exists,
and so does the own table of the node from its creation on, up to a lost commit. `ReadInv`: what
the nodes before have read is still there; with it a query that ends well has all its tables,
although `commitTa()` may have swallowed the failure of one. `FirstRunInv`: the servers hold nothing
above the current id, so that a name is never in use. `OrphanInv` counts the relations in no
registry against the faults, less those that the current node is about to register. `CleanInv`:
without faults the servers hold exactly what the nodes so far have made, no more and no less, hence
no call is illegal, unless a row loop has found no row; what such a query leaves open is the `tmp` of a
theta join. The last needs that plans are trees: `function1` makes a collection
without registering it, and the two theorems about what remains are for plans without it.

`FrontEnd_proofs`, about the session, for inputs of any length:

| Theorem | States |
|---|---|
| `TypeCorrect` | `[]TypeOK` |
| `RejectionsShow` | with `StatusMod = 256`, `[]RejectionShows` |
| `RefusalsHaveCause` | `[]RefusalHasCause` |
| `Invariance` | `[]IInv` |

`CountInv` makes `errorCount` the number of errors reported so far (`Reported`: one for every piece that was
given up, and those of the scanner), `EndInv` gives the exit
status of every way to end: the count, or one of the `Codes` of signals, crashes and aborts.
`CodesVisible`, that none of these is 0 after the modulus, is true of 256 (`ShellSees`) and of the 3
of the run, but not of every number (with 2, SIGABRT would be taken for success), which is why the
theorem is for the modulus of the shell. `EncodeInv` says where the format came from.

`FrontEnd_proofs`, about the keyword lookup, for all tables (`Tables \in Seq(Seq(Nat))`, sorted or not)
and all words:

| Theorem | States |
|---|---|
| `LookupInvariance` | `[]LookupIInv` |
| `NeverMissed` | `[]MissedOnlyIfMisplaced` |
| `ReturnedIsRight` | `[]KeywordIsRight` |
| `SortedSuffices` | if the tables are sorted, `[]EveryKeywordFound` |

A missed keyword shows only when a table has been left, so `LookupIInv` adds
`BetweenInv`: an entry that is the word, and stands after all smaller and before
all greater entries, lies between `low` and `high`. `WordIsAhead` is the lemma
that a comparison with the middle keeps it there; when the bounds cross there is no such
entry. `BoundsInv`, `FoundInv` and `OtherInv` keep the indices in the table, and tie the
answer to the table it came from. `SortedSuffices` together with the run
`keyword_every` says that the order of the table is the whole reason.

`FrontEnd_proofs`, about the scanner, for all texts (`Texts \subseteq Seq(Chars)`) and any first size of
the literal buffer:

| Theorem | States |
|---|---|
| `MeaningsAreRight` | `[]MeaningIsRight` |
| `LiteralsAreRight` | `[]LiteralIsRight` |
| `ScanTypes` | `[]ScanTypeOK` |
| `ScanInvariance` | `[]ScanInv` |

`MeaningIsRight` says that what was consumed so far was taken for the right thing; it is not
inductive, because it does not say that the scanner goes on from where the reader would. `Places` adds
this: `ReadsTo(i, s)` says that a piece of the reader ends before position `i` and leaves it in
state `s`, and the scanner is always at such a position, in the start condition that stands for that
state (a comment `xcdepth + 1` deep, for example, because the code counts from zero).
The exception is a dollar quote, which the scanner takes in parts and the reader in one piece: there the
scanner is between the first delimiter and `DollarEnd`. `Collects` says that the literal buffer is
`Gathered`, what the characters since the start of the literal add to it, and `Room` that the null fits.
There is one lemma for each action (`CommentStopStep`, `LiteralStopStep`, ...).

Below these are three groups of lemmas. `ReadingIs`, `ReadOnce`, `ReadOn` and `ReadRun` say that the
reader makes progress with every piece and does not change what it has read, and what a piece, or a run of
pieces, means; `FlattenIs` and `FlattenSnoc` say the same of what is put together. `LongestNumber` shows that the
number the rules find by runs of digits and a look at what follows is the longest that satisfies `IsNumber`
(`{realfail1}` and `{realfail2}` throw back what they must); `DelimiterLengthAt` and `StopsIs`
show that a name between dollars ends the only delimiter that can start there, and that the
scanner stops at it exactly where the reader does. `OperatorAt` shows that what is left of a run of operator
characters has no comment and is not empty, so that scanning advances. `GrownIs` is about the doubling of the buffer.
Recursive functions have their equations from `Recursion`, as in the other modules.

`DbSource_proofs`, for expressions of any size:

| Theorem | States |
|---|---|
| `TypeCorrect` | `[]TypeOK` |
| `NeverWrong` | `[]NoWrongSystem` |
| `PlainNeverFails` | `[]PlainWorks` |

`Returned` and `IsArray` are recursive functions over the nodes; children stand before their
parents, so that a least counterexample takes the place of induction over expressions. What
`setupDbSource()` returned and what is stored differ, and `execute()` of a child comes between the
two uses: `ScalarsInv` and `StoredInv` say that, where an operator is running, what it chose
by is still true of its operands.

`RowNumbers_proofs`, for all sets of well-formed, connected and typed queries and any number of rows:

| Theorem | States |
|---|---|
| `AnswersAreAligned` | `[]AnswerIsAligned` |
| `FailuresExplained` | `[]FailsForLackOfArrays` |
| `RowsAreLost` | `[]GapLosesRows`: what `list_sizes` shows of one query, of all |
| `TypeCorrect` | `[]TypeOK` |

That an answer is right follows from the tables of
all nodes, so `IInv` gives them: as long as joins came in order and no array was deleted,
every table of the condition is the whole product (`WhereInv`), and every table of the
SELECT list has exactly the rows that WHERE left, in their order, each computed from itself
(`SelectInv`). Its numbers are those of the product if no node of the list numbers anew, and
ranks otherwise; the two are the same where there is no gap. `NumberedTab` (numbering a
table gives every row its rank), `JoinedTab` (joining two tables with one numbering joins each
row with itself) and `RankInjective` are the lemmas about the operators; `TablesAgree` says
that a node's operands have the numbering its own table gets.

Failures and losses happen where that order is gone, and need a second invariant, `NInv`, about
numbers alone. `TablesInv`: in every table the numbers differ, and so do the places (`Keyed`, which
joins, filters and renumbering keep). `RulesInv`: the set of a table's numbers follows from those of
its operands by the class of its node: the same, their intersection, or 1 to their count. From this
an empty join is traced down to its reason. That a gap *always* loses rows is a count: if the
answer had all rows, no node of the list could have lost any, all tables would have the numbers
of the last, those of the relation have the gap and those of the array have none (`SmallTables`,
`SameNumbers`, `ArrayTables`). Both need that every node is an operand of another. The proof
found that `FailsForLackOfArrays` was too strong as it was stated first: where a join of the condition is delivered out of
order, WHERE keeps the wrong rows, and the SELECT list may fail without an array deleted. The
property now says so, and the query `OperationTwice` was added to the run, where it happens.

`Clients_proofs`, for any set of clients, any menus of trees, bounds and faults:

| Theorem | States |
|---|---|
| `RelationalPrivate` | `[]RelationalIsPrivate` |
| `MakerRemoves` | `OnlyMakerRemoves` |
| `TypeCorrect` | `[]TypeOK` |
| `TurnsPrivate` | `[]TurnsArePrivate` |

Two clients give out the same ids, so that "what I read is mine" needs to know that every
table of the query so far is still the client's own. `Private` says it (`Underway`: the tables of the
nodes that are done, and of the current one after its SELECT INTO, have this client as
`maker`), together with: registries name own tables only, and a table holds rows of its maker.
SELECT INTO fails on a name in use, which is what makes it inductive; the mutation that replaces the
table breaks both theorems' properties. A swallowed commit ends this, for the client's next tables
are made from, and registered as, tables that may be another's; `IInv` is about the time before it, and
`SwallowedKeeps` shows of the time after it that relational queries still replace nothing.

With theta joins and arrays that argument is gone: `tmp` is nobody's own, and rasdaman adds
to a collection that exists. Programs that take turns are private because each of them removes all it has
made, and that is the invariant `Turns`: at most one client is active (`OneTurn`); when
none is, there is no table and no collection (`Nothing`); and everything on the servers is the
active client's and in its registry, or its next call is the one that registers it (`TablesOf`,
`CollsOf`, with `Fresh` and `PhaseInv` for where in a call the client is). Removal then finds every table that it
names, so that it is complete and the process lives to end its turn.

`ColumnNames_proofs`, for every catalogue, all widths of the atoms and all queries:

| Theorem | States |
|---|---|
| `JoinsAreOnNames` | `[]JoinIsOnNames` |
| `AnswersAreMeant` | `[]AnswerIsMeant` |
| `UniquesAreFound` | `[]UniqueIsFound` |
| `StarsAreTables` | `[]StarIsTable` |
| `Invariance` | `[]IInv` |

The state is simple: `IInv` says that every relation holds columns `table__column` of the
sources so far, each with its table and its column remembered, besides those that the program adds. The
work is in the strings. `SuffixIs`, `PrefixIs`, `OccursIs`, `SizeIs` and `RfindIs` say at which positions the
operators on sequences look; `Recursion` gives the recursive function `Size` its equation (a
least counterexample takes the place of induction), from which `SizeConcat` follows by another.
On these rests `OneSeparator`, that in a qualified name made of plain names the separator occurs
once, and `TakenApart`, that such a name is taken apart where it was put together. `MatchIs` says
when a name of the product passes the test for an unqualified name: if it is that column's, or if it is
one character too short, in which case `rfind()` returns `npos` and the difference of the sizes is
the same number. `FlattenIs` is about the list of matches, a sum of lists of none, one or two;
`FoundIs`, `HitIs` and `MeansIs` compare it with what the reference means.

The proofs found three exceptions that the catalogue of the run had hidden. A table for two of them was added to it, so
that TLC reaches them: the name of the condition's column may start with the name of a table, and is then
selected by `table.*`; the name of an array collection may be that of one of its own
columns. The third is that a name too short for the suffix is harmless only if no table is called so.

Only model-checked:

- the liveness properties, which need ENABLED (`ReachesEnd` among them: that the scanner comes to
  the end of every text).

## 6. What the models assume of their surroundings

- libpqxx: a new transaction on a connection that died unnoticed reconnects
  (BEGIN is retried); a statement on a broken connection throws
  `broken_connection`, which is not an `sql_error`; a connection that threw it
  says it is not open.
- PostgreSQL: transactions are atomic; a lost connection rolls back; SELECT INTO
  needs a new name.
- rasdaman: a refused commit leaves the change in the transaction or undoes it, and the server says
  neither; SELECT INTO adds to a collection that exists, as the row loops of
  the node classes rely on; `abort()` and `close()` do not throw; a statement on
  a lost session throws, and only `open()` makes a new one.
- flex: the longest match wins, the first rule among equals; the order of
  `strcmp()` is total.
- A collection is read back in the order in which arrays were added to it. A join is
  delivered in the order of its left operand, unless `shuffled` says that it was not.
- All clients use one database user and one schema. PostgreSQL keeps a lock until the end of the
  transaction and breaks a deadlock of locks by failing a call, which is a fault of `Clients`.
- User tables are not named `id<n>` or `tmp`.

## 7. Not modelled

The implementation has some 66000 lines of C and C++, of which about 55000 are headers of
PostgreSQL and rasdaman (`src/postgres/include`, `src/rasdaman/include`): declarations and
catalogue data that the program includes for a few types and never executes. There is
nothing in them to model but the keyword lists, which are modelled. Of the program's own 11000
lines a third is the grammar, tables for Bison without state of their own, and the rest of what is
missing here is:

- values in rows, cells of arrays, files on disk, printing (`IqlTable::print*`, `saveRasdamanMddToFile()`);
- the table dictionary of `IqlApp`: it is filled once and only looked up, and a name that is
  missing in it is a failed call;
- of the FROM list, `setupDbSource()` of `QtJoin` and `QtDataSource`, whose answer
  is only logged;
- of the lexer: numeric escapes, integers too large for `strtol()`, and literals with Unicode
  escapes, whose text the code throws away (lexer.ll:550-565 returns one character for every one of them);
- the grammar's productions and the texts that `str.c` puts together for messages;
- a signal inside a call of a data source, between two of its round trips; `QueryExecution` has
  signals between calls;
- the logger, the build system, `src/datasources/test.cpp` (a scratch program).

Components that the manifest gives as "partly" stay so for these reasons.

## 8. What could come next

1. A second refinement: `QueryExecution` implements a specification of queries as
   single steps. `ExistsInv` and `CleanInv` are most of what it needs.
2. Privacy of clients that overlap but use different ids, which is how the programs could be
   made safe.
3. Signals between the round trips of a `PostgresDS` call.
