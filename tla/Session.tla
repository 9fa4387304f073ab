-------------------------------- MODULE Session --------------------------------
(***************************************************************************)
(* One run of the program: start-up, main() and readQuery() (driver.cpp),          *)
(* the statement loop of the grammar (parser.yy), what yyerror() counts, and    *)
(* the encoding format that QueryTree keeps for the files it writes.            *)
(*                                                                         *)
(* The input is a sequence of pieces, each given by what becomes of it: a query,  *)
(* with its encoders, that a database error stops, whose product has no row, or   *)
(* that runs; a SELECT without FROM; or the text up to a token at which the        *)
(* parser gives up.  One call of yyparse() executes queries until the input ends   *)
(* or it gives up.  Any of them may hold names of no characters and operators that  *)
(* are too long: the scanner calls yyerror() and goes on with the token.            *)
(***************************************************************************)
EXTENDS Naturals, Sequences

CONSTANTS Inputs,      \* the inputs
          StatusMod    \* the exit status is what is left of errorCount modulo this: 256

Formats == {"png", "jpeg"}
NoFormat == "none"     \* in the code the empty string

(* encoders: the formats in the order in which the nodes are executed;              *)
(* scanErrors: how often the scanner calls yyerror() for the piece.                *)
Statements ==
  [kind : {"syntaxError", "noFrom"}, encoders : {<<>>}, scanErrors : Nat]
    \cup [kind : {"query", "failingQuery", "emptyQuery"},
          encoders : UNION {[1..n -> Formats] : n \in 0..2}, scanErrors : Nat]

ASSUME InputsAssumption == Inputs \subseteq Seq(Statements)
ASSUME StatusModAssumption == StatusMod \in Nat \ {0}

VARIABLES
  input,      \* the statements of the input
  onlyOne,    \* onlyOneQuery: the program was called with --unique
  next,       \* the next statement to be read
  proc,       \* main() starts, or its handler does so again, yyparse() runs, it has returned,
              \* the program is over
  encode,     \* QueryTree::encode
  answers,    \* for every piece the status printed and the format of the files written
  errorCount, \* the number of calls of yyerror()
  ending,     \* how the program ended: why exitProgram() was called, or that it aborted
  exitStatus  \* what the shell sees

vars == <<input, onlyOne, next, proc, encode, answers, errorCount, ending, exitStatus>>

TypeOK ==
  /\ input \in Inputs /\ onlyOne \in {"no", "yes"}
  /\ next \in 1..(Len(input) + 1)
  /\ proc \in {"starting", "restarting", "parsing", "returned", "over"}
  /\ encode \in Formats \cup {NoFormat}
  /\ Len(answers) = next - 1
  /\ errorCount \in Nat
  /\ ending \in {"none", "exited", "crashed", "signalled", "notStarted", "aborted"}
  /\ exitStatus \in 0..(StatusMod - 1)

Init ==
  /\ input \in Inputs /\ onlyOne \in {"no", "yes"}
  /\ next = 1
  /\ proc = "starting"
  /\ encode = NoFormat
  /\ answers = <<>>
  /\ errorCount = 0
  /\ ending = "none" /\ exitStatus = 0

-----------------------------------------------------------------------------
Started ==
  /\ proc = "starting"
  /\ proc' = "parsing"
  /\ UNCHANGED <<input, onlyOne, next, encode, answers, errorCount, ending, exitStatus>>

ExitProgram(how, code) ==
  /\ proc' = "over" /\ ending' = how
  /\ exitStatus' = code % StatusMod

(* A server cannot be reached: the constructor of IqlApp throws, and instance stays    *)
(* NULL.  The handler calls exitProgram(-1), which asks for the instance.           *)
StartFails ==
  /\ proc = "starting"
  /\ proc' = "restarting"
  /\ UNCHANGED <<input, onlyOne, next, encode, answers, errorCount, ending, exitStatus>>

(* Mutation of main(): the handler exits with the number of errors.               *)
RestartIsExit ==
  /\ proc = "restarting"
  /\ ExitProgram("notStarted", errorCount)
  /\ UNCHANGED <<input, onlyOne, next, encode, answers, errorCount>>

(* The constructor runs again, now outside of any try block: it throws again, and       *)
(* the program is aborted by SIGABRT; or it succeeds, only for the program to exit.      *)
Restart ==
  /\ proc = "restarting"
  /\ ExitProgram("aborted", 128 + 6) \/ ExitProgram("notStarted", StatusMod - 1)
  /\ UNCHANGED <<input, onlyOne, next, encode, answers, errorCount>>

Answer(status, format) ==
  /\ answers' = Append(answers, [status |-> status, format |-> format])
  /\ next' = next + 1

(* What the scanner complains of in the next piece, before the parser has it.      *)
Scanned == errorCount + input[next].scanErrors

SyntaxError ==
  /\ proc = "parsing" /\ next <= Len(input)
  /\ input[next].kind = "syntaxError"
  /\ errorCount' = Scanned + 1
  /\ Answer("syntaxError", NoFormat)
  /\ proc' = "returned"
  /\ UNCHANGED <<input, onlyOne, encode, ending, exitStatus>>

(* setEncodingFormat() throws when there is a format already; otherwise it stays  *)
(* set, also for the queries to come.                                         *)
Encoded(e, s) ==
  IF e = NoFormat /\ s # <<>> THEN s[1] ELSE e

(* Mutation of setEncodingFormat(): it is called for every query.                  *)
RefusedAfterFormat(s) == encode # NoFormat \/ Len(s) > 1

Refused(s) == \/ encode # NoFormat /\ s # <<>>
              \/ Len(s) > 1

Execute ==
  /\ proc = "parsing" /\ next <= Len(input)
  /\ LET s == input[next].encoders
     IN \/ /\ Refused(s) /\ input[next].kind = "query"
           /\ encode' = Encoded(encode, s)
           /\ Answer("failed", NoFormat)
        \/ /\ ~Refused(s) /\ input[next].kind = "query"
           /\ encode' = Encoded(encode, s)
           /\ Answer("ok", encode')
        \/ /\ input[next].kind = "failingQuery"
           /\ encode' \in {encode, Encoded(encode, s)}
           /\ \E f \in {NoFormat, encode'} : Answer("failed", f)
        \/ /\ input[next].kind = "emptyQuery"
           /\ encode' = encode
           /\ Answer("ok", NoFormat)
  /\ errorCount' = Scanned
  /\ UNCHANGED <<input, onlyOne, proc, ending, exitStatus>>

(* QueryTree::execute() calls setupDbSource() of a list that is NULL; the handler   *)
(* of SIGSEGV calls exitProgram(11).                                           *)
NoFromCrashes ==
  /\ proc = "parsing" /\ next <= Len(input)
  /\ input[next].kind = "noFrom"
  /\ errorCount' = Scanned
  /\ ExitProgram("crashed", 11)
  /\ UNCHANGED <<input, onlyOne, next, encode, answers>>

AtEndOfInput == proc = "parsing" /\ next > Len(input)

(* readQuery() finds nothing in yytext and returns EMPTY_QUERY.                  *)
EndOfInput ==
  /\ AtEndOfInput
  /\ ExitProgram("exited", errorCount)
  /\ UNCHANGED <<input, onlyOne, next, encode, answers, errorCount>>

(* Mutation of main(): the loop ends with the first query that is not parsed.      *)
LoopStopsOnError ==
  /\ proc = "returned"
  /\ ExitProgram("exited", errorCount)
  /\ UNCHANGED <<input, onlyOne, next, encode, answers, errorCount>>

(* Back in the loop of main() after a syntax error.                             *)
Loop ==
  /\ proc = "returned"
  /\ \/ onlyOne = "yes" /\ ExitProgram("exited", errorCount)
     \/ onlyOne = "no" /\ proc' = "parsing" /\ UNCHANGED <<ending, exitStatus>>
  /\ UNCHANGED <<input, onlyOne, next, encode, answers, errorCount>>

(* SIGINT, SIGSEGV, SIGPIPE and SIGTSTP.                                       *)
Signals == {2, 11, 13, 20}

(* signalHandler() calls exitProgram().  While the program starts there is no           *)
(* instance, so that the handler starts it a second time: when that fails, the           *)
(* exception leaves the handler, for abort() or for the handler of main().              *)
Signal ==
  /\ proc # "over"
  /\ \/ \E s \in Signals : ExitProgram("signalled", s)
     \/ proc \in {"starting", "restarting"} /\ ExitProgram("aborted", 128 + 6)
     \/ proc = "starting" /\ proc' = "restarting" /\ UNCHANGED <<ending, exitStatus>>
  /\ UNCHANGED <<input, onlyOne, next, encode, answers, errorCount>>

-----------------------------------------------------------------------------
Step ==
  \/ Started \/ StartFails \/ Restart
  \/ SyntaxError \/ Execute \/ NoFromCrashes \/ EndOfInput \/ Loop

Next == Step \/ Signal

(* The program keeps running while there is input; signals need not come.             *)
Spec == Init /\ [][Next]_vars /\ WF_vars(Step)
=============================================================================
