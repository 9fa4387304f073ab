------------------------------ MODULE SessionProps ------------------------------
(***************************************************************************)
(* What a session promises the user and the scripts that call the program.       *)
(***************************************************************************)
EXTENDS Session, FiniteSets

(* The messages about piece s, and all that the user has seen about what was answered.   *)
Messages(s) == input[s].scanErrors + (IF answers[s].status = "syntaxError" THEN 1 ELSE 0)
Reported == UNION {{s} \X (1..Messages(s)) : s \in 1..Len(answers)}

(* The program ends, and a syntax error costs the piece of input it is in and nothing    *)
(* else: what comes after it is read and answered, in the order of the input, but for     *)
(* a SELECT without FROM.                                                       *)
AllAnswered ==
  <>(proc = "over" /\ (ending = "exited" /\ onlyOne = "no" => next = Len(input) + 1))

(* runtests.sh judges a run by its exit status: it is 0 if and only if the program has    *)
(* started, was not stopped, and the number of errors it has reported is a multiple of   *)
(* the modulus, those of the scanner in queries that were executed as well as those of   *)
(* the parser; a start that fails is shown also when the second attempt succeeds, and    *)
(* so is a signal, whenever it comes.                                           *)
RejectionShows ==
  proc = "over" =>
    (exitStatus = 0 <=> ending = "exited" /\ Cardinality(Reported) % StatusMod = 0)

(* setEncodingFormat() is to refuse queries with several encoders.  A query that nothing   *)
(* else stops and that has at most one is refused only if it has one and a query before    *)
(* it, failed or not, has reached an encoder; a query without any is never refused.       *)
RefusalHasCause ==
  \A s \in 1..Len(answers) :
    input[s].kind = "query" /\ Len(input[s].encoders) <= 1 /\ answers[s].status = "failed" =>
      /\ Len(input[s].encoders) = 1
      /\ \E t \in 1..(s - 1) : input[t].kind \in {"query", "failingQuery"} /\ input[t].encoders # <<>>
=============================================================================
