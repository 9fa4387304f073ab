--------------------------- MODULE FrontEnd_proofs ---------------------------
(***************************************************************************)
(* Proofs about the way of a statement into the program: the session that    *)
(* reads it, the scanner's keyword lookup, and the scanner.                  *)
(*                                                                         *)
(* First one run of the program: type correctness, what the exit status      *)
(* tells and why a query is refused, for inputs of any length.  Then the     *)
(* keyword searches, for all tables, sorted or not: a keyword that is        *)
(* returned is the word, and a keyword in its place is never missed.  Last   *)
(* the scanner, for texts of any length: comments, literals and code are     *)
(* told apart as a reader of the whole text does it, a literal has the       *)
(* characters that its text means, operators and numbers end where they      *)
(* should.                                                                 *)
(***************************************************************************)
EXTENDS SessionProps, KeywordLookupProps, LexerProps, FiniteSetTheorems, SequenceTheorems,
        WellFoundedInduction, TLAPS

Results == [status : {"ok", "failed", "syntaxError"}, format : Formats \cup {NoFormat}]
Shape == TypeOK /\ answers \in Seq(Results)

(* errorCount counts the messages, but for those about the piece that crashed.          *)
CountInv == IsFiniteSet(Reported) /\ (ending # "crashed" => errorCount = Cardinality(Reported))

(* What is not the number of errors is seen by the shell, as the exit status of a      *)
(* program: 11, the numbers of the signals, 128 + 6 and -1.                         *)
Codes == Signals \cup {11, 128 + 6, StatusMod - 1}
CodesVisible == \A c \in Codes : c % StatusMod # 0

EndInv ==
  /\ proc # "over" => ending = "none"
  /\ proc = "over" => \/ ending = "exited" /\ exitStatus = errorCount % StatusMod
                      \/ ending # "exited" /\ \E c \in Codes : exitStatus = c % StatusMod

(* The format is that of a query before, one that had an encoder.                  *)
EncodeInv ==
  encode # NoFormat => \E t \in 1..(next - 1) :
    input[t].kind \in {"query", "failingQuery"} /\ input[t].encoders # <<>>

IInv == Shape /\ CountInv /\ EndInv /\ EncodeInv /\ RefusalHasCause

-----------------------------------------------------------------------------
(* Sizes and positions are numbers.                                            *)
LEMMA Sizes ==
  ASSUME Shape
  PROVE  /\ input \in Seq(Statements) /\ Len(input) \in Nat
         /\ next \in Nat \ {0} /\ next <= Len(input) + 1 /\ Len(answers) = next - 1
         /\ errorCount \in Nat /\ StatusMod \in Nat \ {0}
<1>1. input \in Seq(Statements)
  BY InputsAssumption DEF Shape, TypeOK
<1>2. Len(input) \in Nat
  BY <1>1
<1>3. next \in 1..(Len(input) + 1) /\ Len(answers) = next - 1 /\ errorCount \in Nat
  BY DEF Shape, TypeOK
<1> QED BY <1>1, <1>2, <1>3, StatusModAssumption DEF Shape

LEMMA Piece ==
  ASSUME Shape, next <= Len(input)
  PROVE  /\ input[next].kind \in {"syntaxError", "noFrom", "query", "failingQuery", "emptyQuery"}
         /\ input[next].encoders \in Seq(Formats) /\ input[next].scanErrors \in Nat
<1>1. input[next] \in Statements
  BY Sizes
<1>2. ASSUME NEW n \in 0..2, NEW f \in [1..n -> Formats] PROVE f \in Seq(Formats)
  OBVIOUS
<1>3. <<>> \in Seq(Formats)
  OBVIOUS
<1>4. input[next].encoders \in {<<>>} \cup UNION {[1..n -> Formats] : n \in 0..2}
  BY <1>1 DEF Statements
<1>5. input[next].encoders \in Seq(Formats)
  BY <1>2, <1>3, <1>4
<1> QED
  BY <1>1, <1>5 DEF Statements

LEMMA Residue ==
  ASSUME NEW c \in Nat
  PROVE  c % StatusMod \in 0..(StatusMod - 1)
BY StatusModAssumption

(* What a step does to the answers: it gives none, or one to the next piece.             *)
Answers ==
  \/ answers' = answers /\ next' = next
  \/ \E r \in Results : /\ next <= Len(input)
                        /\ answers' = Append(answers, r) /\ next' = next + 1

LEMMA Extend ==
  ASSUME Shape, Answers, input' = input
  PROVE  /\ answers' \in Seq(Results) /\ Len(answers') = next' - 1
         /\ next' \in 1..(Len(input') + 1) /\ next' \in Nat /\ next' >= next
<1>1. CASE answers' = answers /\ next' = next
  BY <1>1, Sizes DEF Shape
<1>2. CASE ~(answers' = answers /\ next' = next)
  <2>1. PICK r \in Results : /\ next <= Len(input)
                             /\ answers' = Append(answers, r) /\ next' = next + 1
    BY <1>2 DEF Answers
  <2>2. answers \in Seq(Results)
    BY DEF Shape
  <2>3. answers' \in Seq(Results) /\ Len(answers') = Len(answers) + 1
    BY <2>1, <2>2
  <2>4. /\ Len(input) \in Nat /\ next \in Nat \ {0} /\ Len(answers) = next - 1
        /\ next <= Len(input) /\ next' = next + 1 /\ input' = input
    BY <2>1, Sizes
  <2>5. Len(answers') = next' - 1
    BY <2>3, <2>4
  <2>6. next' \in 1..(Len(input) + 1) /\ next' \in Nat /\ next' >= next
    BY <2>4
  <2> QED BY <2>3, <2>4, <2>5, <2>6
<1> QED BY <1>1, <1>2

(* The kinds of steps, as far as the answers and the count of errors go.                *)
LEMMA Executed ==
  ASSUME Shape, Execute
  PROVE  /\ Answers /\ encode' \in Formats \cup {NoFormat}
         /\ next <= Len(input) /\ input[next].kind \in {"query", "failingQuery", "emptyQuery"}
         /\ \E st \in {"ok", "failed"}, f \in Formats \cup {NoFormat} :
              /\ answers' = Append(answers, [status |-> st, format |-> f])
              /\ st = "failed" /\ input[next].kind = "query" => Refused(input[next].encoders)
         /\ encode' # encode => /\ input[next].kind \in {"query", "failingQuery"}
                               /\ input[next].encoders # <<>>
<1> DEFINE s == input[next].encoders
<1>1. next <= Len(input)
  BY DEF Execute
<1>2. s \in Seq(Formats) /\ encode \in Formats \cup {NoFormat}
  BY <1>1, Piece DEF Shape, TypeOK
<1> HIDE DEF s
<1>3. /\ Encoded(encode, s) \in Formats \cup {NoFormat}
      /\ Encoded(encode, s) # encode => s # <<>>
  <2>1. s # <<>> => s[1] \in Formats
    <3>1. s # <<>> => Len(s) \in Nat \ {0}
      BY <1>2, EmptySeq
    <3>2. s # <<>> => 1 \in 1..Len(s)
      BY <3>1
    <3> QED BY <1>2, <3>2, ElementOfSeq
  <2> QED BY <1>2, <2>1 DEF Encoded
<1>4. \E st \in {"ok", "failed"}, f \in Formats \cup {NoFormat} :
        /\ answers' = Append(answers, [status |-> st, format |-> f]) /\ next' = next + 1
        /\ st = "failed" /\ input[next].kind = "query" => Refused(s)
        /\ encode' \in Formats \cup {NoFormat}
        /\ encode' # encode => input[next].kind \in {"query", "failingQuery"} /\ s # <<>>
        /\ input[next].kind \in {"query", "failingQuery", "emptyQuery"}
  <2>1. CASE input[next].kind = "query"
    BY <1>2, <1>3, <2>1 DEF Execute, Answer, s
  <2>2. CASE input[next].kind = "failingQuery"
    BY <1>2, <1>3, <2>2 DEF Execute, Answer, s
  <2>3. CASE input[next].kind = "emptyQuery"
    BY <1>2, <1>3, <2>3 DEF Execute, Answer, s
  <2> QED BY <2>1, <2>2, <2>3 DEF Execute
<1>5. \A st \in {"ok", "failed"}, f \in Formats \cup {NoFormat} :
        [status |-> st, format |-> f] \in Results
  BY DEF Results, NoFormat, Formats
<1> QED BY <1>1, <1>4, <1>5 DEF Answers, s

LEMMA Rejected ==
  ASSUME Shape, SyntaxError
  PROVE  /\ Answers /\ next <= Len(input) /\ input[next].kind = "syntaxError"
         /\ answers' = Append(answers, [status |-> "syntaxError", format |-> NoFormat])
BY DEF SyntaxError, Answer, Answers, Results

(* The steps that answer nothing.                                             *)
Silent ==
  /\ UNCHANGED <<input, onlyOne, next, encode, answers>>
  /\ errorCount' = errorCount \/ NoFromCrashes
  /\ \/ /\ proc # "over" /\ proc' = "over"
        /\ \E how \in {"crashed", "signalled", "notStarted", "aborted"}, c \in Codes :
             ending' = how /\ exitStatus' = c % StatusMod
     \/ /\ proc # "over" /\ proc' = "over"
        /\ ending' = "exited" /\ exitStatus' = errorCount % StatusMod
     \/ /\ proc # "over" /\ proc' \in {"restarting", "parsing"}
        /\ UNCHANGED <<ending, exitStatus>>
     \/ UNCHANGED vars

LEMMA Others ==
  ASSUME [Next]_vars, ~SyntaxError, ~Execute
  PROVE  Silent
<1>1. CASE Started \/ StartFails
  BY <1>1 DEF Started, StartFails, Silent
<1>2. CASE Restart
  BY <1>2 DEF Restart, ExitProgram, Silent, Codes
<1>3. CASE NoFromCrashes
  BY <1>3 DEF NoFromCrashes, ExitProgram, Silent, Codes
<1>4. CASE EndOfInput
  BY <1>4 DEF EndOfInput, AtEndOfInput, ExitProgram, Silent
<1>5. CASE Loop
  BY <1>5 DEF Loop, ExitProgram, Silent
<1>6. CASE Signal
  BY <1>6 DEF Signal, Signals, ExitProgram, Silent, Codes
<1>7. CASE UNCHANGED vars
  BY <1>7 DEF vars, Silent
<1> QED BY <1>1, <1>2, <1>3, <1>4, <1>5, <1>6, <1>7 DEF Next, Step

-----------------------------------------------------------------------------
LEMMA Typing == Spec => []Shape
<1>1. Init => Shape
  <2> SUFFICES ASSUME Init PROVE Shape
    OBVIOUS
  <2>0. input \in Seq(Statements) /\ input \in Inputs
    BY InputsAssumption DEF Init
  <2>1. Len(input) \in Nat
    BY <2>0
  <2>2. 1 \in 1..(Len(input) + 1) /\ 0 \in 0..(StatusMod - 1)
    BY <2>1, StatusModAssumption
  <2>3. answers = <<>> /\ answers \in Seq(Results) /\ Len(answers) = 0
    BY EmptySeq DEF Init
  <2>4. next = 1 /\ next \in 1..(Len(input) + 1) /\ errorCount \in Nat
    BY <2>2 DEF Init
  <2>5. Len(answers) = next - 1
    BY <2>3, <2>4
  <2> QED BY <2>0, <2>2, <2>3, <2>4, <2>5 DEF Init, Shape, TypeOK
<1>2. Shape /\ [Next]_vars => Shape'
  <2> SUFFICES ASSUME Shape, [Next]_vars PROVE Shape'
    OBVIOUS
  <2>0. Answers /\ input' = input
        => /\ answers' \in Seq(Results) /\ Len(answers') = next' - 1
           /\ next' \in 1..(Len(input') + 1) /\ next' \in Nat /\ next' >= next
    BY Extend
  <2>1. CASE SyntaxError
    <3>1. Answers /\ input' = input
      BY <2>1, Rejected DEF SyntaxError
    <3>2. errorCount' \in Nat
      BY <2>1, Piece, Sizes DEF SyntaxError, Scanned
    <3> QED BY <2>0, <2>1, <3>1, <3>2 DEF SyntaxError, Shape, TypeOK
  <2>2. CASE Execute
    <3>1. Answers /\ encode' \in Formats \cup {NoFormat}
          /\ UNCHANGED <<input, onlyOne, proc, ending, exitStatus>>
      BY <2>2, Executed DEF Execute
    <3>2. errorCount' \in Nat
      BY <2>2, Piece, Sizes DEF Execute, Scanned
    <3> QED BY <2>0, <3>1, <3>2 DEF Shape, TypeOK
  <2>3. CASE Silent
    <3>1. exitStatus' \in 0..(StatusMod - 1)
      <4>1. \A c \in Codes : c \in Nat
        BY StatusModAssumption DEF Codes, Signals
      <4>2. errorCount \in Nat
        BY Sizes
      <4> QED BY <2>3, <4>1, <4>2, Residue DEF Silent, vars, Shape, TypeOK
    <3>2. ending' \in {"none", "exited", "crashed", "signalled", "notStarted", "aborted"}
          /\ proc' \in {"starting", "restarting", "parsing", "returned", "over"}
      BY <2>3 DEF Silent, vars, Shape, TypeOK
    <3>3. errorCount' \in Nat
      BY <2>3, Piece, Sizes DEF Silent, NoFromCrashes, Scanned
    <3> QED BY <2>3, <3>1, <3>2, <3>3 DEF Silent, Shape, TypeOK
  <2> QED BY <2>1, <2>2, <2>3, Others
<1> QED
  BY <1>1, <1>2, PTL DEF Spec

(* Type correctness: the status stays below the modulus, and there is one answer to each   *)
(* piece that has been read, and to no other.                                    *)
THEOREM TypeCorrect == Spec => []TypeOK
<1>1. Shape => TypeOK
  BY DEF Shape
<1> QED
  BY <1>1, Typing, PTL

(* One answer more.                                                         *)
LEMMA OneMore ==
  ASSUME Shape, NEW r \in Results, answers' = Append(answers, r)
  PROVE  /\ Len(answers) = next - 1 /\ Len(answers') = next
         /\ answers'[next] = r /\ \A s \in 1..Len(answers) : answers'[s] = answers[s]
         /\ \A s \in 1..Len(answers') : s = next \/ s \in 1..Len(answers)
         /\ next \in 1..Len(answers') /\ \A s \in 1..Len(answers) : s \in 1..Len(answers')
         /\ next \notin 1..Len(answers)
<1>1. answers \in Seq(Results) /\ next \in Nat \ {0} /\ Len(answers) = next - 1
  BY Sizes DEF Shape
<1>2. /\ Len(answers') = next /\ answers'[next] = r
      /\ \A s \in 1..(next - 1) : answers'[s] = answers[s]
  BY <1>1
<1>3. /\ \A s \in 1..next : s = next \/ s \in 1..(next - 1)
      /\ next \in 1..next /\ \A s \in 1..(next - 1) : s \in 1..next
      /\ next \notin 1..(next - 1)
  BY <1>1
<1> QED BY <1>1, <1>2, <1>3

LEMMA Ending == Spec => []EndInv
<1>1. Init => EndInv
  BY DEF Init, EndInv
<1>2. EndInv /\ [Next]_vars => EndInv'
  <2> SUFFICES ASSUME EndInv, [Next]_vars PROVE EndInv'
    OBVIOUS
  <2>1. CASE SyntaxError \/ Execute
    BY <2>1 DEF SyntaxError, Execute, EndInv
  <2>2. CASE Silent
    BY <2>2 DEF Silent, NoFromCrashes, ExitProgram, vars, EndInv, Codes
  <2> QED BY <2>1, <2>2, Others
<1> QED
  BY <1>1, <1>2, PTL DEF Spec

(* The messages about one piece are as many as it has, and none is about another.         *)
LEMMA MoreMessages ==
  ASSUME NEW S, IsFiniteSet(S), NEW k, NEW n \in Nat, \A m \in 1..n : <<k, m>> \notin S
  PROVE  /\ IsFiniteSet(S \cup ({k} \X (1..n)))
         /\ Cardinality(S \cup ({k} \X (1..n))) = Cardinality(S) + n
<1> DEFINE T == {k} \X (1..n)
<1>1. IsFiniteSet({k}) /\ Cardinality({k}) = 1
  BY FS_Singleton
<1>2. IsFiniteSet(1..n) /\ Cardinality(1..n) = n
  <2>1. IsFiniteSet(1..n) /\ Cardinality(1..n) = IF 1 > n THEN 0 ELSE n - 1 + 1
    BY FS_Interval
  <2> QED BY <2>1
<1>3. IsFiniteSet(T) /\ Cardinality(T) = n
  <2> DEFINE A == {k}
             B == 1..n
  <2>1. IsFiniteSet(A) /\ IsFiniteSet(B) /\ Cardinality(A) = 1 /\ Cardinality(B) = n
    BY <1>1, <1>2
  <2> HIDE DEF A, B
  <2>2. IsFiniteSet(A \X B) /\ Cardinality(A \X B) = Cardinality(A) * Cardinality(B)
    BY <2>1, FS_Product
  <2>3. Cardinality(A \X B) = n
    BY <2>1, <2>2
  <2> QED BY <2>2, <2>3 DEF A, B
<1>4. S \cap T = {}
  OBVIOUS
<1> HIDE DEF T
<1>5. /\ IsFiniteSet(S \cup T)
      /\ Cardinality(S \cup T) = Cardinality(S) + Cardinality(T) - Cardinality(S \cap T)
  BY <1>3, FS_Union
<1>6. Cardinality(S) \in Nat /\ Cardinality({}) = 0
  BY FS_CardinalityType, FS_EmptySet
<1>7. Cardinality(S \cup T) = Cardinality(S) + n
  <2>1. Cardinality(S \cup T) = Cardinality(S) + n - 0
    BY <1>3, <1>4, <1>5, <1>6, Zenon
  <2>2. \A c \in Nat : c + n - 0 = c + n
    OBVIOUS
  <2> QED BY <1>6, <2>1, <2>2, Zenon
<1> QED BY <1>5, <1>7 DEF T

(* An answer adds the messages about its piece.                                    *)
LEMMA Counted ==
  ASSUME Shape, CountInv, ending # "crashed", ending' = ending, input' = input, next <= Len(input),
         NEW r \in Results, answers' = Append(answers, r),
         NEW k \in Nat, k = (IF r.status = "syntaxError" THEN 1 ELSE 0),
         errorCount' = Scanned + k
  PROVE  CountInv'
<1> DEFINE n == input[next].scanErrors + k
<1>1. n \in Nat /\ errorCount \in Nat /\ input[next].scanErrors \in Nat
  BY Piece, Sizes
<1>2. errorCount' = errorCount + n
  <2>1. errorCount' = (errorCount + input[next].scanErrors) + k
    BY DEF Scanned
  <2>2. \A a, b, c \in Nat : (a + b) + c = a + (b + c)
    OBVIOUS
  <2> QED BY <1>1, <2>1, <2>2
<1>3. /\ input'[next].scanErrors + (IF answers'[next].status = "syntaxError" THEN 1 ELSE 0) = n
      /\ \A s \in 1..Len(answers) :
           input'[s].scanErrors + (IF answers'[s].status = "syntaxError" THEN 1 ELSE 0) = Messages(s)
  <2>1. answers'[next] = r /\ \A s \in 1..Len(answers) : answers'[s] = answers[s]
    BY OneMore
  <2> QED BY <2>1, Zenon DEF Messages
<1> HIDE DEF n
<1>4. Reported' = Reported \cup ({next} \X (1..n))
  <2> DEFINE After(s) ==
        input'[s].scanErrors + (IF answers'[s].status = "syntaxError" THEN 1 ELSE 0)
  <2>0. After(next) = n /\ \A s \in 1..Len(answers) : After(s) = Messages(s)
    BY <1>3
  <2>1. Reported' = UNION {{s} \X (1..After(s)) : s \in 1..Len(answers')}
    BY DEF Reported, Messages
  <2>2. \A s \in 1..Len(answers') : s = next \/ s \in 1..Len(answers)
    BY OneMore
  <2>3. next \in 1..Len(answers') /\ \A s \in 1..Len(answers) : s \in 1..Len(answers')
    BY OneMore
  <2>4. Reported = UNION {{s} \X (1..Messages(s)) : s \in 1..Len(answers)}
    BY DEF Reported
  <2> HIDE DEF After
  <2>5. ASSUME NEW x \in Reported' PROVE x \in Reported \cup ({next} \X (1..n))
    <3>1. PICK s \in 1..Len(answers') : x \in {s} \X (1..After(s))
      BY <2>1, <2>5
    <3> QED BY <2>0, <2>2, <2>4, <3>1
  <2>6. {next} \X (1..n) \subseteq Reported'
    BY <2>0, <2>1, <2>3
  <2>7. Reported \subseteq Reported'
    BY <2>0, <2>1, <2>3, <2>4
  <2> QED BY <2>5, <2>6, <2>7
<1>5. \A m \in 1..n : <<next, m>> \notin Reported
  BY OneMore DEF Reported
<1>6. /\ IsFiniteSet(Reported \cup ({next} \X (1..n)))
      /\ Cardinality(Reported \cup ({next} \X (1..n))) = Cardinality(Reported) + n
  BY <1>1, <1>5, MoreMessages DEF CountInv
<1> QED BY <1>2, <1>4, <1>6 DEF CountInv

LEMMA Counting == Spec => []CountInv
<1>1. Init => CountInv
  <2> SUFFICES ASSUME Init PROVE IsFiniteSet(Reported) /\ errorCount = Cardinality(Reported)
    BY DEF CountInv
  <2>1. Reported = {} /\ errorCount = 0
    BY EmptySeq DEF Init, Reported
  <2> QED BY <2>1, FS_EmptySet
<1>2. Shape /\ CountInv /\ EndInv /\ [Next]_vars => CountInv'
  <2> SUFFICES ASSUME Shape, CountInv, EndInv, [Next]_vars PROVE CountInv'
    OBVIOUS
  <2>1. CASE SyntaxError
    <3> DEFINE r == [status |-> "syntaxError", format |-> NoFormat]
    <3>1. r \in Results /\ r.status = "syntaxError"
      BY DEF Results, NoFormat, Formats
    <3>2. /\ answers' = Append(answers, r) /\ next <= Len(input)
          /\ errorCount' = Scanned + 1 /\ input' = input /\ ending' = ending
          /\ ending # "crashed"
      BY <2>1, Rejected DEF SyntaxError, EndInv
    <3> HIDE DEF r
    <3> QED BY <3>1, <3>2, Counted
  <2>2. CASE Execute
    <3>1. PICK st \in {"ok", "failed"}, f \in Formats \cup {NoFormat} :
            answers' = Append(answers, [status |-> st, format |-> f])
      BY <2>2, Executed
    <3> DEFINE r == [status |-> st, format |-> f]
    <3>2. r \in Results /\ r.status # "syntaxError" /\ answers' = Append(answers, r)
      BY <3>1 DEF Results, NoFormat, Formats
    <3> HIDE DEF r
    <3>3. /\ next <= Len(input) /\ errorCount' = Scanned /\ input' = input /\ ending' = ending
          /\ ending # "crashed"
      BY <2>2 DEF Execute, EndInv
    <3>4. errorCount' = Scanned + 0
      BY <3>3, Piece, Sizes DEF Scanned
    <3> QED BY <3>2, <3>3, <3>4, Counted
  <2>3. CASE Silent
    <3>1. Reported' = Reported
      BY <2>3 DEF Silent, Reported, Messages
    <3>2. ending' # "crashed" => ending # "crashed" /\ errorCount' = errorCount
      <4>1. CASE NoFromCrashes
        BY <4>1 DEF NoFromCrashes, ExitProgram
      <4>2. CASE ~NoFromCrashes
        BY <2>3, <4>2 DEF Silent, EndInv, vars
      <4> QED BY <4>1, <4>2
    <3> QED BY <3>1, <3>2 DEF CountInv
  <2> QED BY <2>1, <2>2, <2>3, Others
<1> QED
  BY <1>1, <1>2, Typing, Ending, PTL DEF Spec

(* exit() keeps eight bits: the shell sees that the program was stopped.                *)
LEMMA ShellSees == StatusMod = 256 => CodesVisible
BY DEF CodesVisible, Codes, Signals

(* With the modulus of the shell, the exit status of a run is 0 if and only if the program  *)
(* has started, was not stopped, and reported a multiple of 256 errors.               *)
THEOREM RejectionsShow ==
  ASSUME StatusMod = 256
  PROVE  Spec => []RejectionShows
<1>1. CodesVisible
  BY ShellSees
<1>2. CountInv /\ EndInv => RejectionShows
  BY <1>1 DEF CodesVisible, CountInv, EndInv, RejectionShows
<1> QED
  BY <1>2, Counting, Ending, PTL

(* A query is refused for its own second encoder, or because a query before it had one.     *)
LEMMA Encoding == Spec => []EncodeInv
<1>1. Init => EncodeInv
  BY DEF Init, EncodeInv
<1>2. Shape /\ EncodeInv /\ [Next]_vars => EncodeInv'
  <2> SUFFICES ASSUME Shape, EncodeInv, [Next]_vars, encode' # NoFormat
               PROVE  \E t \in 1..(next' - 1) :
                        input'[t].kind \in {"query", "failingQuery"} /\ input'[t].encoders # <<>>
    BY DEF EncodeInv
  <2>0. next \in Nat \ {0}
    BY Sizes
  <2>1. encode # NoFormat => \E t \in 1..(next - 1) :
          input[t].kind \in {"query", "failingQuery"} /\ input[t].encoders # <<>>
    BY DEF EncodeInv
  <2>2. CASE SyntaxError \/ Execute
    <3>1. next' = next + 1 /\ input' = input
      BY <2>2 DEF SyntaxError, Execute, Answer
    <3>2. /\ \A t \in 1..(next - 1) : t \in 1..(next' - 1)
          /\ next \in 1..(next' - 1)
      BY <2>0, <3>1
    <3>3. encode' # encode => /\ input[next].kind \in {"query", "failingQuery"}
                              /\ input[next].encoders # <<>>
      BY <2>2, Executed DEF SyntaxError
    <3> QED BY <2>1, <3>1, <3>2, <3>3
  <2>3. CASE Silent
    BY <2>1, <2>3 DEF Silent
  <2> QED BY <2>2, <2>3, Others
<1> QED
  BY <1>1, <1>2, Typing, PTL DEF Spec

(* A query with at most one encoder that nothing else stops is refused only because a     *)
(* query before it, failed or not, has reached an encoder; one without any never.      *)
THEOREM RefusalsHaveCause == Spec => []RefusalHasCause
<1>1. Init => RefusalHasCause
  BY EmptySeq DEF Init, RefusalHasCause
<1>2. Shape /\ EncodeInv /\ RefusalHasCause /\ [Next]_vars => RefusalHasCause'
  <2> SUFFICES ASSUME Shape, EncodeInv, RefusalHasCause, [Next]_vars PROVE RefusalHasCause'
    OBVIOUS
  <2>1. CASE SyntaxError
    <3> DEFINE r == [status |-> "syntaxError", format |-> NoFormat]
    <3>1. r \in Results /\ r.status # "failed"
      BY DEF Results, NoFormat, Formats
    <3>2. answers' = Append(answers, r) /\ input' = input
      BY <2>1, Rejected DEF SyntaxError
    <3> HIDE DEF r
    <3> QED BY <3>1, <3>2, OneMore DEF RefusalHasCause
  <2>2. CASE Execute
    <3>1. PICK st \in {"ok", "failed"}, f \in Formats \cup {NoFormat} :
            /\ answers' = Append(answers, [status |-> st, format |-> f])
            /\ st = "failed" /\ input[next].kind = "query" => Refused(input[next].encoders)
      BY <2>2, Executed
    <3> DEFINE r == [status |-> st, format |-> f]
    <3>2. r \in Results /\ r.status = st /\ answers' = Append(answers, r) /\ input' = input
      BY <2>2, <3>1 DEF Results, Execute
    <3> HIDE DEF r
    <3>3. input[next].encoders \in Seq(Formats)
      BY <2>2, Executed, Piece
    <3>4. ASSUME st = "failed", input[next].kind = "query", Len(input[next].encoders) <= 1
          PROVE  /\ Len(input[next].encoders) = 1
                 /\ \E t \in 1..(next - 1) :
                      input[t].kind \in {"query", "failingQuery"} /\ input[t].encoders # <<>>
      <4>1. encode # NoFormat /\ input[next].encoders # <<>>
        <5>1. ~(Len(input[next].encoders) > 1)
          <6>1. Len(input[next].encoders) \in Nat
            BY <3>3
          <6> QED BY <3>4, <6>1
        <5> QED BY <3>1, <3>4, <5>1 DEF Refused
      <4>2. Len(input[next].encoders) = 1
        <5>1. Len(input[next].encoders) \in Nat
          BY <3>3
        <5>2. Len(input[next].encoders) # 0
          BY <3>3, <4>1, EmptySeq
        <5>3. \A n \in Nat : n # 0 /\ n <= 1 => n = 1
          OBVIOUS
        <5>4. Len(input[next].encoders) <= 1
          BY <3>4
        <5> QED BY <5>1, <5>2, <5>3, <5>4, Zenon
      <4> QED BY <4>1, <4>2 DEF EncodeInv
    <3> SUFFICES ASSUME NEW k \in 1..Len(answers'),
                        input[k].kind = "query", Len(input[k].encoders) <= 1,
                        answers'[k].status = "failed"
                 PROVE  /\ Len(input[k].encoders) = 1
                        /\ \E t \in 1..(k - 1) :
                             input[t].kind \in {"query", "failingQuery"} /\ input[t].encoders # <<>>
      BY <3>2 DEF RefusalHasCause
    <3>5. k = next \/ k \in 1..Len(answers)
      BY <3>2, OneMore
    <3>6. CASE k = next
      <4>1. answers'[next] = r
        BY <3>2, OneMore
      <4> QED BY <3>2, <3>4, <3>6, <4>1
    <3>7. CASE k \in 1..Len(answers)
      <4>1. answers'[k] = answers[k]
        BY <3>2, <3>7, OneMore
      <4> QED BY <3>7, <4>1 DEF RefusalHasCause
    <3> QED BY <3>5, <3>6, <3>7
  <2>3. CASE Silent
    BY <2>3 DEF Silent, RefusalHasCause
  <2> QED BY <2>1, <2>2, <2>3, Others
<1> QED
  BY <1>1, <1>2, Typing, Encoding, PTL DEF Spec

(* All of it together holds in every reachable state, whatever the modulus.              *)
THEOREM Invariance == Spec => []IInv
<1> QED
  BY Typing, Counting, Ending, Encoding, RefusalsHaveCause, PTL DEF IInv

-----------------------------------------------------------------------------
(* The keyword searches.                                                      *)

(* The bounds lie in the table, or next to its ends.                          *)
BoundsInv ==
  table <= Len(Tables) => /\ low \in 1..(Len(Tables[table]) + 1)
                          /\ high \in 0..Len(Tables[table])

(* An entry in its place that is the word is between the bounds.              *)
BetweenInv ==
  table <= Len(Tables) /\ yytext.len < NAMEDATALEN =>
    \A k \in 1..Len(Tables[table]) :
      InPlace(table, k) /\ Tables[table][k] = yytext.rank => low <= k /\ k <= high

(* The keyword was found in the table that is still the current one.           *)
FoundInv ==
  token.kind = "keyword" =>
    /\ token.table = table /\ table <= Len(Tables)
    /\ token.index \in 1..Len(Tables[table])
    /\ Tables[table][token.index] = yytext.rank
    /\ yytext.len < NAMEDATALEN

(* Another answer is given only when no table is left.                         *)
OtherInv == token.kind \in {"function", "identifier"} => table = Len(Tables) + 1

LookupIInv ==
  LookupTypeOK /\ BoundsInv /\ BetweenInv /\ FoundInv /\ OtherInv /\ MissedOnlyIfMisplaced

USE DEF NAMEDATALEN

(* The middle of a search that goes on is an entry between the bounds.         *)
LEMMA MiddleBetween ==
  ASSUME LookupIInv, Comparing
  PROVE  /\ table \in 1..Len(Tables)
         /\ Middle \in 1..Len(Tables[table])
         /\ low <= Middle /\ Middle <= high
         /\ Tables[table] \in Seq(Nat)
         /\ Entry \in Nat /\ Word \in Nat
         /\ token = None /\ yytext.len < NAMEDATALEN
<1>1. table \in 1..Len(Tables) /\ Tables[table] \in Seq(Nat)
  BY TablesAssumption DEF LookupIInv, LookupTypeOK, Comparing, Searching
<1>2. token = None /\ yytext.len < NAMEDATALEN /\ yytext.rank \in Nat /\ yytext.len \in Nat
  BY IdentifiersAssumption DEF LookupIInv, LookupTypeOK, Comparing, Searching, TooLong
<1>3. /\ low \in 1..(Len(Tables[table]) + 1) /\ high \in 0..Len(Tables[table])
      /\ low <= high
  BY <1>1 DEF LookupIInv, BoundsInv, Comparing
<1>4. Middle \in 1..Len(Tables[table]) /\ low <= Middle /\ Middle <= high
  BY <1>1, <1>3 DEF Middle
<1> QED BY <1>1, <1>2, <1>4 DEF Entry, Word

(* An entry in its place that is the word is the middle, or on the side to      *)
(* which the search goes.                                                   *)
LEMMA WordIsAhead ==
  ASSUME LookupIInv, Comparing,
         NEW k \in 1..Len(Tables[table]),
         InPlace(table, k), Tables[table][k] = yytext.rank
  PROVE  /\ low <= k /\ k <= high
         /\ Entry < Word => Middle < k
         /\ Entry > Word => k < Middle
<1>1. low <= k /\ k <= high
  BY MiddleBetween DEF LookupIInv, BetweenInv
<1>2. Word = Tables[table][k]
  BY DEF Word
<1>3. /\ Middle < k => Entry < Word
      /\ k < Middle => Entry > Word
  BY <1>2, MiddleBetween DEF InPlace, Entry
<1>4. Middle = k => Entry = Word
  BY <1>2 DEF Entry
<1> QED BY <1>1, <1>3, <1>4, MiddleBetween

-----------------------------------------------------------------------------
LEMMA LookupInitInv == LookupInit => LookupIInv
<1> SUFFICES ASSUME LookupInit PROVE LookupIInv
  OBVIOUS
<1>1. Len(Tables) \in Nat /\ \A t \in 1..Len(Tables) : Len(Tables[t]) \in Nat
  BY TablesAssumption
<1>2. LookupTypeOK
  BY <1>1 DEF LookupInit, LookupTypeOK, SizeOf
<1>3. BoundsInv /\ BetweenInv
  BY <1>1 DEF LookupInit, BoundsInv, BetweenInv, SizeOf
<1>4. FoundInv /\ OtherInv
  BY DEF LookupInit, FoundInv, OtherInv, None
<1>5. MissedOnlyIfMisplaced
  BY <1>1 DEF LookupInit, MissedOnlyIfMisplaced
<1> QED BY <1>2, <1>3, <1>4, <1>5 DEF LookupIInv

(* The steps of one search leave the tables that were asked before alone.      *)
LEMMA StepFound == LookupIInv /\ Found => LookupIInv'
<1> SUFFICES ASSUME LookupIInv, Found PROVE LookupIInv'
  OBVIOUS
<1>1. Comparing /\ Entry = Word /\ token' = Keyword(table, Middle)
      /\ UNCHANGED <<yytext, table, low, high>>
  BY DEF Found
<1>2. LookupTypeOK'
  BY <1>1, MiddleBetween DEF LookupIInv, LookupTypeOK
<1>3. BoundsInv' /\ BetweenInv' /\ MissedOnlyIfMisplaced'
  BY <1>1 DEF LookupIInv, BoundsInv, BetweenInv, MissedOnlyIfMisplaced, InPlace
<1>4. FoundInv' /\ OtherInv'
  BY <1>1, MiddleBetween DEF FoundInv, OtherInv, Keyword, Entry, Word
<1> QED BY <1>2, <1>3, <1>4 DEF LookupIInv

LEMMA StepGoRight == LookupIInv /\ GoRight => LookupIInv'
<1> SUFFICES ASSUME LookupIInv, GoRight PROVE LookupIInv'
  OBVIOUS
<1>1. Comparing /\ Entry < Word /\ low' = Middle + 1
      /\ UNCHANGED <<yytext, table, high, token>>
  BY DEF GoRight
<1>2. LookupTypeOK' /\ BoundsInv'
  <2>1. Middle + 1 \in 1..(Len(Tables[table]) + 1)
    BY <1>1, MiddleBetween
  <2>2. LookupTypeOK'
    BY <1>1, <2>1 DEF LookupIInv, LookupTypeOK
  <2>3. BoundsInv'
    BY <1>1, <2>1, MiddleBetween DEF LookupIInv, BoundsInv
  <2> QED BY <2>2, <2>3
<1>3. BetweenInv'
  <2> SUFFICES ASSUME NEW k \in 1..Len(Tables[table]),
                      InPlace(table, k), Tables[table][k] = yytext.rank
               PROVE  low' <= k /\ k <= high
    BY <1>1 DEF BetweenInv, InPlace
  <2> QED BY <1>1, WordIsAhead, MiddleBetween
<1>4. FoundInv' /\ OtherInv' /\ MissedOnlyIfMisplaced'
  BY <1>1 DEF LookupIInv, FoundInv, OtherInv, MissedOnlyIfMisplaced, InPlace
<1> QED BY <1>2, <1>3, <1>4 DEF LookupIInv

LEMMA StepGoLeft == LookupIInv /\ GoLeft => LookupIInv'
<1> SUFFICES ASSUME LookupIInv, GoLeft PROVE LookupIInv'
  OBVIOUS
<1>1. Comparing /\ Entry > Word /\ high' = Middle - 1
      /\ UNCHANGED <<yytext, table, low, token>>
  BY DEF GoLeft
<1>2. LookupTypeOK' /\ BoundsInv'
  <2>1. Middle - 1 \in 0..Len(Tables[table])
    BY <1>1, MiddleBetween
  <2>2. LookupTypeOK'
    BY <1>1, <2>1 DEF LookupIInv, LookupTypeOK
  <2>3. BoundsInv'
    BY <1>1, <2>1, MiddleBetween DEF LookupIInv, BoundsInv
  <2> QED BY <2>2, <2>3
<1>3. BetweenInv'
  <2> SUFFICES ASSUME NEW k \in 1..Len(Tables[table]),
                      InPlace(table, k), Tables[table][k] = yytext.rank
               PROVE  low <= k /\ k <= high'
    BY <1>1 DEF BetweenInv, InPlace
  <2> QED BY <1>1, WordIsAhead, MiddleBetween
<1>4. FoundInv' /\ OtherInv' /\ MissedOnlyIfMisplaced'
  BY <1>1 DEF LookupIInv, FoundInv, OtherInv, MissedOnlyIfMisplaced, InPlace
<1> QED BY <1>2, <1>3, <1>4 DEF LookupIInv

(* A search that ends without a keyword leaves no entry between the bounds.     *)
LEMMA StepNotInTable == LookupIInv /\ NotInTable => LookupIInv'
<1> SUFFICES ASSUME LookupIInv, NotInTable PROVE LookupIInv'
  OBVIOUS
<1>1. /\ token = None /\ table <= Len(Tables)
      /\ TooLong \/ low > high
      /\ table' = table + 1 /\ low' = 1 /\ high' = SizeOf(table + 1)
      /\ UNCHANGED <<yytext, token>>
  BY DEF NotInTable, Searching
<1>2. Len(Tables) \in Nat /\ \A t \in 1..Len(Tables) : Len(Tables[t]) \in Nat
  BY TablesAssumption
<1>3. table \in 1..Len(Tables) /\ yytext.len \in Nat
  BY <1>1, <1>2, IdentifiersAssumption DEF LookupIInv, LookupTypeOK
<1>4. LookupTypeOK'
  BY <1>1, <1>2, <1>3 DEF LookupIInv, LookupTypeOK, SizeOf
<1>5. BoundsInv' /\ BetweenInv'
  BY <1>1, <1>2, <1>3 DEF BoundsInv, BetweenInv, SizeOf
<1>6. FoundInv' /\ OtherInv'
  BY <1>1 DEF FoundInv, OtherInv, None
<1>7. ASSUME yytext.len < NAMEDATALEN, NEW k \in 1..Len(Tables[table]),
             Tables[table][k] = yytext.rank
      PROVE  ~InPlace(table, k)
  <2>1. low > high /\ low \in Int /\ high \in Int
    BY <1>1, <1>2, <1>3, <1>7 DEF TooLong, LookupIInv, BoundsInv
  <2> QED BY <1>1, <1>2, <1>3, <1>7, <2>1 DEF LookupIInv, BetweenInv
<1>8. MissedOnlyIfMisplaced'
  <2> SUFFICES ASSUME yytext.len < NAMEDATALEN, NEW t \in 1..Len(Tables), t < table + 1,
                      NEW k \in 1..Len(Tables[t]), Tables[t][k] = yytext.rank
               PROVE  ~InPlace(t, k)
    BY <1>1 DEF MissedOnlyIfMisplaced, InPlace
  <2>1. CASE t = table
    BY <2>1, <1>7
  <2>2. CASE t < table
    BY <2>2 DEF LookupIInv, MissedOnlyIfMisplaced
  <2> QED BY <2>1, <2>2, <1>2, <1>3
<1> QED BY <1>4, <1>5, <1>6, <1>8 DEF LookupIInv

LEMMA StepAskPostGis == LookupIInv /\ AskPostGis => LookupIInv'
<1> SUFFICES ASSUME LookupIInv, AskPostGis PROVE LookupIInv'
  OBVIOUS
<1>1. /\ token' \in {NotKeyword("function"), NotKeyword("identifier")}
      /\ table = Len(Tables) + 1
      /\ UNCHANGED <<yytext, table, low, high>>
  BY DEF AskPostGis
<1>2. Len(Tables) \in Nat
  BY TablesAssumption
<1>3. LookupTypeOK' /\ FoundInv' /\ OtherInv'
  BY <1>1 DEF LookupIInv, LookupTypeOK, FoundInv, OtherInv, NotKeyword
<1>4. BoundsInv' /\ BetweenInv'
  BY <1>1, <1>2 DEF BoundsInv, BetweenInv
<1>5. MissedOnlyIfMisplaced'
  BY <1>1 DEF LookupIInv, MissedOnlyIfMisplaced, InPlace
<1> QED BY <1>3, <1>4, <1>5 DEF LookupIInv

LEMMA LookupNextInv == LookupIInv /\ [LookupNext]_lookupVars => LookupIInv'
<1> SUFFICES ASSUME LookupIInv, [LookupNext]_lookupVars PROVE LookupIInv'
  OBVIOUS
<1>1. CASE LookupNext
  BY <1>1, StepFound, StepGoRight, StepGoLeft, StepNotInTable, StepAskPostGis DEF LookupNext
<1>2. CASE UNCHANGED lookupVars
  BY <1>2 DEF lookupVars, LookupIInv, LookupTypeOK, BoundsInv, BetweenInv, FoundInv, OtherInv,
              MissedOnlyIfMisplaced, InPlace
<1> QED BY <1>1, <1>2

THEOREM LookupInvariance == LookupSpec => []LookupIInv
<1> QED BY LookupInitInv, LookupNextInv, PTL DEF LookupSpec

-----------------------------------------------------------------------------
(* A keyword that stands in its place in its table is never missed by           *)
(* ScanKeywordLookup() or RasqlKeywordLookup(), whatever else the table holds.  *)
THEOREM NeverMissed == LookupSpec => []MissedOnlyIfMisplaced
<1>1. LookupIInv => MissedOnlyIfMisplaced
  BY DEF LookupIInv
<1> QED BY <1>1, LookupInvariance, PTL

(* A keyword that is returned is the word, of the first table that has it.      *)
THEOREM ReturnedIsRight == LookupSpec => []KeywordIsRight
<1>1. LookupIInv => KeywordIsRight
  <2> SUFFICES ASSUME LookupIInv, token.kind = "keyword"
               PROVE  /\ Tables[token.table][token.index] = yytext.rank
                      /\ \A t \in 1..(token.table - 1) :
                           \A k \in 1..Len(Tables[t]) :
                             Tables[t][k] = yytext.rank => ~InPlace(t, k)
    BY DEF KeywordIsRight
  <2>1. /\ token.table = table /\ table \in 1..Len(Tables) /\ yytext.len < NAMEDATALEN
        /\ Tables[token.table][token.index] = yytext.rank
    BY TablesAssumption DEF LookupIInv, FoundInv, LookupTypeOK
  <2>2. Len(Tables) \in Nat
    BY TablesAssumption
  <2>3. \A t \in 1..(table - 1) : t \in 1..Len(Tables) /\ t < table
    BY <2>1, <2>2
  <2> QED BY <2>1, <2>3 DEF LookupIInv, MissedOnlyIfMisplaced
<1> QED BY <1>1, LookupInvariance, PTL

(* In a run with sorted tables every keyword is recognised.                    *)
Sorted(s) == \A i, j \in 1..Len(s) : i < j => s[i] < s[j]

THEOREM SortedSuffices ==
  ASSUME \A t \in 1..Len(Tables) : Sorted(Tables[t])
  PROVE  LookupSpec => []EveryKeywordFound
<1>1. ASSUME NEW t \in 1..Len(Tables), NEW k \in 1..Len(Tables[t])
      PROVE  InPlace(t, k)
  BY <1>1 DEF Sorted, InPlace
<1>2. LookupIInv => EveryKeywordFound
  <2>1. SUFFICES ASSUME LookupIInv, token.kind \in {"function", "identifier"},
                        yytext.len < NAMEDATALEN,
                        NEW t \in 1..Len(Tables), NEW k \in 1..Len(Tables[t]),
                        Tables[t][k] = yytext.rank
                 PROVE  FALSE
    BY DEF EveryKeywordFound
  <2>2. t < table
    BY <2>1, TablesAssumption DEF LookupIInv, OtherInv
  <2>3. ~InPlace(t, k)
    BY <2>1, <2>2 DEF LookupIInv, MissedOnlyIfMisplaced
  <2> QED BY <1>1, <2>3
<1> QED BY <1>2, LookupInvariance, PTL

-----------------------------------------------------------------------------
(* The scanner.  Induction and recursion over a set whose elements have a rank.                 *)

(* A set of numbers that is not empty has a least element.                         *)
LEMMA Lowest ==
  ASSUME NEW T \in SUBSET Nat, T # {}
  PROVE  \E m \in T : \A k \in T : m <= k
<1> DEFINE R == OpToRel(<, Nat)
<1>1. PICK m \in T : \A k \in T : ~(<<k, m>> \in R)
  <2>1. IsWellFoundedOn(R, Nat)
    BY NatLessThanWellFounded
  <2> HIDE DEF R
  <2> QED BY <2>1, WFMin
<1>2. \A k \in T : ~(k < m) /\ k \in Nat /\ m \in Nat
  BY <1>1 DEF OpToRel
<1> QED BY <1>2

Lower(D, r, x) == {y \in D : r[y] < r[x]}

(* What holds for an element whenever it holds for those of lower rank holds for all.   *)
LEMMA ByRank ==
  ASSUME NEW D, NEW r \in [D -> Nat], NEW P \in SUBSET D,
         \A x \in D : Lower(D, r, x) \subseteq P => x \in P
  PROVE  P = D
<1> SUFFICES ASSUME NEW z \in D, z \notin P PROVE FALSE
  OBVIOUS
<1> DEFINE T == {r[x] : x \in D \ P}
<1>1. T \in SUBSET Nat /\ T # {}
  OBVIOUS
<1>2. PICK m \in T : \A k \in T : m <= k
  <2> HIDE DEF T
  <2> QED BY <1>1, Lowest
<1>3. PICK x \in D \ P : m = r[x]
  OBVIOUS
<1>4. ASSUME NEW y \in D, r[y] < r[x] PROVE y \in P
  <2>1. r[y] \in Nat /\ r[x] \in Nat /\ ~(r[x] <= r[y])
    BY <1>4
  <2> QED BY <1>2, <1>3, <2>1
<1> QED BY <1>3, <1>4 DEF Lower

(* What holds for 1, and for each number after one it holds for, holds for all.     *)
LEMMA Upwards ==
  ASSUME NEW m \in Nat, NEW P \in SUBSET (1..m), \A k \in 1..m : k = 1 \/ k - 1 \in P => k \in P
  PROVE  P = 1..m
<1> SUFFICES ASSUME NEW z \in 1..m, z \notin P PROVE FALSE
  OBVIOUS
<1> DEFINE T == (1..m) \ P
<1>1. T \in SUBSET Nat /\ T # {}
  OBVIOUS
<1>2. PICK k \in T : \A j \in T : k <= j
  <2> HIDE DEF T
  <2> QED BY <1>1, Lowest
<1>3. k \in 1..m /\ (k # 1 => k - 1 \in 1..m /\ ~(k <= k - 1))
  OBVIOUS
<1>4. k # 1 => k - 1 \in P
  BY <1>2, <1>3
<1> QED BY <1>3, <1>4

(* A body of a recursive definition: its value depends on what is lower only.          *)
Same(f, g, D) == \A y \in D : f[y] = g[y]
IsBody(B, D, r, V) ==
  /\ B \in [[D -> V] \X D -> V]
  /\ \A f, g \in [D -> V], x \in D : Same(f, g, Lower(D, r, x)) => B[<<f, x>>] = B[<<g, x>>]

Defines(B, D, V) == \E f \in [D -> V] : f = [x \in D |-> B[<<f, x>>]]

(* A function that is described by its values at lower arguments exists.            *)
LEMMA Recursion ==
  ASSUME NEW D, NEW M \in Nat, NEW r \in [D -> 0..M], NEW V, V # {}, NEW B, IsBody(B, D, r, V)
  PROVE  Defines(B, D, V)
<1> DEFINE Good(f, m) == \A x \in D : r[x] < m => f[x] = B[<<f, x>>]
           P == {m \in 0..(M + 1) : \E f \in [D -> V] : Good(f, m)}
           id == [m \in 0..(M + 1) |-> m]
<1>1. ASSUME NEW m \in 0..(M + 1), Lower(0..(M + 1), id, m) \subseteq P PROVE m \in P
  <2>1. CASE m = 0
    <3>1. PICK v \in V : TRUE
      OBVIOUS
    <3>2. [x \in D |-> v] \in [D -> V] /\ \A x \in D : ~(r[x] < 0)
      OBVIOUS
    <3> QED BY <2>1, <3>2
  <2>2. CASE m # 0
    <3>1. m - 1 \in Lower(0..(M + 1), id, m)
      BY <2>2 DEF Lower
    <3>2. PICK f \in [D -> V] : Good(f, m - 1)
      BY <1>1, <3>1
    <3> DEFINE g == [x \in D |-> IF r[x] < m - 1 THEN f[x] ELSE B[<<f, x>>]]
    <3>3. ASSUME NEW x \in D PROVE B[<<f, x>>] \in V
      BY DEF IsBody
    <3>4. g \in [D -> V]
      BY <3>3
    <3>5. ASSUME NEW x \in D, r[x] < m PROVE g[x] = B[<<g, x>>]
      <4>1. g[x] = B[<<f, x>>]
        BY <3>2
      <4>2. \A y \in Lower(D, r, x) : r[y] < m - 1
        <5>1. \A y \in D : r[y] \in Nat /\ r[x] \in Nat /\ m \in Nat
          OBVIOUS
        <5> QED BY <5>1, <3>5 DEF Lower
      <4>3. Same(f, g, Lower(D, r, x))
        BY <4>2 DEF Same, Lower
      <4> HIDE DEF g
      <4> QED BY <4>1, <4>3, <3>4 DEF IsBody
    <3> HIDE DEF g
    <3> QED BY <3>4, <3>5
  <2> QED BY <2>1, <2>2
<1>2. M + 1 \in P
  <2>1. P \in SUBSET (0..(M + 1)) /\ id \in [0..(M + 1) -> Nat] /\ M + 1 \in 0..(M + 1)
    OBVIOUS
  <2> HIDE DEF P, id
  <2> QED BY <1>1, <2>1, ByRank
<1>3. PICK f \in [D -> V] : Good(f, M + 1)
  BY <1>2
<1>4. \A x \in D : r[x] < M + 1
  OBVIOUS
<1>5. f = [x \in D |-> f[x]] /\ \A x \in D : f[x] = B[<<f, x>>]
  BY <1>3, <1>4
<1> QED BY <1>5 DEF Defines

-----------------------------------------------------------------------------
(* The characters of the text, and runs of them.                                *)

(* The least of a set of positions.                                                 *)
LEMMA LowestIs ==
  ASSUME NEW T \in SUBSET Nat, T # {}
  PROVE  Min(T) \in T /\ \A k \in T : Min(T) <= k
<1>1. \E m \in T : \A k \in T : m <= k
  BY Lowest
<1> QED BY <1>1, Zenon DEF Min

(* The greatest of a set of positions.                                              *)
LEMMA HighestIs ==
  ASSUME NEW n \in Nat, NEW T \in SUBSET (0..n), T # {}
  PROVE  Max(T) \in T /\ \A k \in T : k <= Max(T)
<1> DEFINE R == {n - k : k \in T}
<1>1. R \in SUBSET Nat /\ R # {}
  <2>1. \A k \in T : n - k \in Nat
    OBVIOUS
  <2> QED BY <2>1
<1>2. PICK m \in R : \A k \in R : m <= k
  <2> HIDE DEF R
  <2> QED BY <1>1, Lowest
<1>3. PICK x \in T : m = n - x
  BY <1>2
<1>4. \A k \in T : x >= k
  BY <1>2, <1>3
<1>5. Max(T) \in T /\ \A k \in T : Max(T) >= k
  BY <1>4, Zenon DEF Max
<1> QED BY <1>5

(* A position is in the text, or has the end of the input.                          *)
LEMMA AtIs ==
  ASSUME text \in Seq(Chars)
  PROVE  /\ Len(text) \in Nat
         /\ \A i : i \in 1..Len(text) => At(i) = text[i] /\ At(i) \in Chars /\ At(i) # "EOF"
         /\ \A i : i \notin 1..Len(text) => At(i) = "EOF" /\ At(i) \notin Chars
<1>1. "EOF" \notin Chars
  BY DEF Chars, Space, OpChars, Special, IdentCont, InTag, Letters, Digits, Dollar, Quote,
         DQuote, Backslash
<1>2. Len(text) \in Nat /\ DOMAIN text = 1..Len(text) /\ \A i \in 1..Len(text) : text[i] \in Chars
  BY LenProperties
<1> QED BY <1>1, <1>2 DEF At

LEMMA SeenIs ==
  \A i \in Int : \A a, b : Seen(i, <<a, b>>) <=> At(i) = a /\ At(i + 1) = b
<1> SUFFICES ASSUME NEW i \in Int, NEW a, NEW b
             PROVE  Seen(i, <<a, b>>) <=> At(i) = a /\ At(i + 1) = b
  OBVIOUS
<1>1. DOMAIN <<a, b>> = {1, 2} /\ <<a, b>>[1] = a /\ <<a, b>>[2] = b
  OBVIOUS
<1>2. Seen(i, <<a, b>>) <=> At(i + 1 - 1) = a /\ At(i + 2 - 1) = b
  <2> DEFINE s == <<a, b>>
  <2>1. DOMAIN s = {1, 2} /\ s[1] = a /\ s[2] = b
    BY <1>1
  <2> HIDE DEF s
  <2>2. Seen(i, s) <=> At(i + 1 - 1) = s[1] /\ At(i + 2 - 1) = s[2]
    BY <2>1, Zenon DEF Seen
  <2> QED BY <2>1, <2>2 DEF s
<1>3. i + 1 - 1 = i /\ i + 2 - 1 = i + 1
  OBVIOUS
<1> QED BY <1>2, <1>3

(* A run ends at the first character that is not one of it, or with the text.       *)
LEMMA RunEndIs ==
  ASSUME text \in Seq(Chars), NEW i \in 1..(Len(text) + 1), NEW S \in SUBSET Chars
  PROVE  /\ RunEnd(i, S) \in i..(Len(text) + 1)
         /\ \A j \in i..(RunEnd(i, S) - 1) : At(j) \in S /\ j \in 1..Len(text)
         /\ At(RunEnd(i, S)) \notin S
<1> DEFINE n == Len(text)
           T == {j \in i..(n + 1) : At(j) \notin S}
           e == RunEnd(i, S)
<1>1. n \in Nat /\ At(n + 1) \notin S
  BY AtIs
<1> HIDE DEF n
<1>2. T \in SUBSET Nat /\ T # {}
  <2>1. n + 1 \in i..(n + 1) /\ \A j \in i..(n + 1) : j \in Nat
    BY <1>1 DEF n
  <2> QED BY <1>1, <2>1
<1>3. e \in T /\ \A k \in T : e <= k
  <2>1. e = Min(T)
    BY DEF RunEnd, n
  <2> HIDE DEF T, e
  <2> QED BY <1>2, <2>1, LowestIs
<1>4. e \in i..(n + 1) /\ At(e) \notin S
  BY <1>3
<1> HIDE DEF e
<1>5. ASSUME NEW j \in i..(e - 1) PROVE At(j) \in S /\ j \in 1..n
  BY <1>1, <1>3, <1>4
<1> QED BY <1>4, <1>5 DEF e, n

(* A run that starts here, and goes on for as long as it can.                        *)
LEMMA RunEndAt ==
  ASSUME text \in Seq(Chars), NEW i \in 1..(Len(text) + 1), NEW S \in SUBSET Chars,
         NEW e \in i..(Len(text) + 1), At(e) \notin S, \A j \in i..(e - 1) : At(j) \in S
  PROVE  RunEnd(i, S) = e
<1> DEFINE r == RunEnd(i, S)
<1>1. r \in i..(Len(text) + 1) /\ At(r) \notin S /\ \A j \in i..(r - 1) : At(j) \in S
  BY RunEndIs
<1>2. Len(text) \in Nat
  BY AtIs
<1> HIDE DEF r
<1>3. ~(r < e) /\ ~(e < r)
  BY <1>1, <1>2
<1> QED BY <1>1, <1>2, <1>3 DEF r

(* A line comment ends before the newline, or with the text.                        *)
LEMMA LineEndIs ==
  ASSUME text \in Seq(Chars), NEW i \in 1..(Len(text) + 1)
  PROVE  /\ LineEnd(i) \in i..(Len(text) + 1)
         /\ \A j \in i..(LineEnd(i) - 1) : At(j) \notin {Newline, "EOF"} /\ j \in 1..Len(text)
         /\ At(LineEnd(i)) \in {Newline, "EOF"}
<1> DEFINE e == LineEnd(i)
<1>1. /\ e \in i..(Len(text) + 1) /\ At(e) \notin Chars \ {Newline}
      /\ \A j \in i..(e - 1) : At(j) \in Chars \ {Newline} /\ j \in 1..Len(text)
  BY RunEndIs DEF LineEnd
<1>2. At(e) \in Chars \/ At(e) = "EOF"
  BY AtIs
<1>3. \A j \in 1..Len(text) : At(j) # "EOF"
  BY AtIs
<1> HIDE DEF e
<1> QED BY <1>1, <1>2, <1>3 DEF e

(* Blanks between the parts of a literal; a quote is none.                          *)
LEMMA BlanksEndIs ==
  ASSUME text \in Seq(Chars), NEW i \in 1..(Len(text) + 1)
  PROVE  /\ BlanksEnd(i) \in i..(Len(text) + 1)
         /\ At(i) = Quote => BlanksEnd(i) = i
<1> DEFINE n == Len(text)
           D == 1..(n + 1)
           F == [D -> D]
           Goes(f, j) == IF At(j) \in Space THEN f[j + 1]
                         ELSE IF Seen(j, <<"-", "-">>) THEN f[LineEnd(j)] ELSE j
           B == [p \in F \X D |-> Goes(p[1], p[2])]
           r == [j \in D |-> n + 1 - j]
<1>1. n \in Nat /\ D \subseteq Nat /\ n + 1 \in D
  BY AtIs
<1>2. ASSUME NEW j \in D
      PROVE  /\ At(j) \in Space => j + 1 \in D
             /\ Seen(j, <<"-", "-">>) => LineEnd(j) \in D /\ LineEnd(j) > j
  <2>1. At(j) # "EOF" => j + 1 \in D
    BY <1>1, AtIs
  <2>2. ASSUME Seen(j, <<"-", "-">>) PROVE LineEnd(j) \in D /\ LineEnd(j) > j
    <3>1. At(j) = "-"
      BY <2>2, SeenIs
    <3>2. LineEnd(j) \in j..(n + 1) /\ At(LineEnd(j)) \in {Newline, "EOF"}
      BY LineEndIs
    <3>3. LineEnd(j) # j
      BY <3>1, <3>2 DEF Newline
    <3> QED BY <3>2, <3>3
  <2> QED BY <2>1, <2>2 DEF Space
<1>3. \A f \in F, j \in D : Goes(f, j) \in D
  BY <1>2
<1>4. IsBody(B, D, r, D)
  <2>1. B \in [F \X D -> D]
    BY <1>3
  <2>2. ASSUME NEW f \in F, NEW g \in F, NEW j \in D, Same(f, g, Lower(D, r, j))
        PROVE  Goes(f, j) = Goes(g, j)
    <3>1. ASSUME NEW k \in D, k > j PROVE f[k] = g[k]
      <4>1. r[k] < r[j]
        BY <3>1, <1>1
      <4> QED BY <2>2, <4>1 DEF Same, Lower
    <3> QED BY <3>1, <1>2
  <2>3. ASSUME NEW f \in F, NEW g \in F, NEW j \in D, Same(f, g, Lower(D, r, j))
        PROVE  B[<<f, j>>] = B[<<g, j>>]
    <3>1. B[<<f, j>>] = Goes(f, j) /\ B[<<g, j>>] = Goes(g, j)
      OBVIOUS
    <3> QED BY <2>2, <2>3, <3>1
  <2> HIDE DEF B
  <2> QED BY <2>1, <2>3 DEF IsBody
<1>5. PICK f \in F : f = [j \in D |-> Goes(f, j)]
  <2>1. r \in [D -> 0..n] /\ D # {}
    BY <1>1
  <2>2. Defines(B, D, D)
    <3> HIDE DEF B, D, r, n
    <3> QED BY <1>1, <1>4, <2>1, Recursion
  <2>3. PICK f \in F : f = [j \in D |-> B[<<f, j>>]]
    BY <2>2 DEF Defines
  <2>4. \A j \in D : B[<<f, j>>] = Goes(f, j)
    OBVIOUS
  <2>5. f = [j \in D |-> Goes(f, j)]
    <3> HIDE DEF B, Goes
    <3> QED BY <2>3, <2>4
  <2> QED BY <2>5
<1> DEFINE Good(g) == g = [j \in D |-> Goes(g, j)]
           end == CHOOSE g : Good(g)
<1>6. Good(end)
  <2> HIDE DEF Good
  <2> SUFFICES \E g : Good(g)
    BY Zenon
  <2> QED BY <1>5 DEF Good
<1>7. BlanksEnd(i) = end[i]
  BY DEF BlanksEnd
<1>8. \A j \in D : end[j] = Goes(end, j)
  <2> HIDE DEF end
  <2>1. end = [j \in D |-> Goes(end, j)]
    BY <1>6
  <2> HIDE DEF Goes
  <2> QED BY <2>1, Zenon
<1> HIDE DEF end
<1> DEFINE P == {j \in D : end[j] \in j..(n + 1)}
<1>9. ASSUME NEW j \in D, Lower(D, r, j) \subseteq P PROVE j \in P
  <2>1. ASSUME NEW k \in D, k > j PROVE end[k] \in j..(n + 1)
    <3>1. r[k] < r[j]
      BY <2>1, <1>1
    <3>2. k \in P
      BY <1>9, <3>1 DEF Lower
    <3> QED BY <3>2, <2>1, <1>1
  <2>2. Goes(end, j) \in j..(n + 1)
    BY <2>1, <1>1, <1>2
  <2> QED BY <2>2, <1>8
<1>10. P = D
  <2>1. P \in SUBSET D /\ r \in [D -> Nat]
    BY <1>1
  <2> HIDE DEF P, D, r
  <2> QED BY <1>9, <2>1, ByRank
<1>11. i \in P
  BY <1>10
<1>12. At(i) = Quote => Goes(end, i) = i
  <2>1. At(i) = Quote => At(i) \notin Space /\ At(i) # "-"
    BY DEF Quote, Space
  <2> QED BY <2>1, SeenIs
<1> QED BY <1>7, <1>8, <1>11, <1>12

(* A literal is continued after at least one blank, at a position of the text.      *)
LEMMA ContinuesIs ==
  ASSUME text \in Seq(Chars), NEW i \in 1..Len(text), Continues(i)
  PROVE  BlanksEnd(i + 1) \in (i + 1)..Len(text) /\ At(i + 1) # Quote
<1> DEFINE e == BlanksEnd(i + 1)
<1>1. Len(text) \in Nat /\ i + 1 \in 1..(Len(text) + 1)
  BY AtIs
<1>2. e \in (i + 1)..(Len(text) + 1) /\ (At(i + 1) = Quote => e = i + 1)
  BY <1>1, BlanksEndIs
<1>3. At(e) = Quote /\ \E j \in (i + 1)..(e - 1) : At(j) = Newline
  BY DEF Continues
<1>4. e \in 1..Len(text)
  BY <1>3, AtIs DEF Quote
<1> HIDE DEF e
<1>5. e # i + 1
  BY <1>2, <1>3
<1> QED BY <1>1, <1>2, <1>4, <1>5 DEF e

(* The buffer has room for the null, however long the literal gets.                   *)
LEMMA GrownIs ==
  ASSUME NEW alloc \in Nat \ {0}, NEW len \in Nat
  PROVE  Grown(alloc, len) \in Nat /\ len < Grown(alloc, len)
<1> DEFINE D == 0..len
           F == [D -> Nat]
           Goes(f, k) == IF k = 0 THEN alloc ELSE IF len < f[k - 1] THEN f[k - 1] ELSE 2 * f[k - 1]
           B == [p \in F \X D |-> Goes(p[1], p[2])]
           r == [k \in D |-> k]
<1>1. \A k \in D : k = 0 \/ k - 1 \in D
  OBVIOUS
<1>2. \A f \in F, k \in D : Goes(f, k) \in Nat
  BY <1>1
<1>3. IsBody(B, D, r, Nat)
  <2>1. B \in [F \X D -> Nat]
    BY <1>2
  <2>2. ASSUME NEW f \in F, NEW g \in F, NEW k \in D, Same(f, g, Lower(D, r, k))
        PROVE  B[<<f, k>>] = B[<<g, k>>]
    <3>1. k = 0 \/ (k - 1 \in D /\ r[k - 1] < r[k])
      OBVIOUS
    <3>2. k = 0 \/ f[k - 1] = g[k - 1]
      BY <2>2, <3>1 DEF Same, Lower
    <3>3. B[<<f, k>>] = Goes(f, k) /\ B[<<g, k>>] = Goes(g, k)
      OBVIOUS
    <3> QED BY <3>2, <3>3
  <2> HIDE DEF B
  <2> QED BY <2>1, <2>2 DEF IsBody
<1>4. PICK f \in F : f = [k \in D |-> Goes(f, k)]
  <2>1. r \in [D -> 0..len] /\ Nat # {}
    OBVIOUS
  <2>2. Defines(B, D, Nat)
    <3> HIDE DEF B, D, r
    <3> QED BY <1>3, <2>1, Recursion
  <2>3. PICK f \in F : f = [k \in D |-> B[<<f, k>>]]
    BY <2>2 DEF Defines
  <2>4. \A k \in D : B[<<f, k>>] = Goes(f, k)
    OBVIOUS
  <2>5. f = [k \in D |-> Goes(f, k)]
    <3> HIDE DEF B, Goes
    <3> QED BY <2>3, <2>4
  <2> QED BY <2>5
<1> DEFINE Good(g) == g = [k \in D |-> Goes(g, k)]
           size == CHOOSE g : Good(g)
<1>5. Good(size)
  <2> HIDE DEF Good
  <2> SUFFICES \E g : Good(g)
    BY Zenon
  <2> QED BY <1>4 DEF Good
<1>6. Grown(alloc, len) = size[len]
  BY DEF Grown
<1>7. \A k \in D : size[k] = Goes(size, k)
  <2> HIDE DEF size
  <2>1. size = [k \in D |-> Goes(size, k)]
    BY <1>5
  <2> HIDE DEF Goes
  <2> QED BY <2>1, Zenon
<1> HIDE DEF size
<1> DEFINE P == {k \in D : size[k] \in Nat /\ (k < size[k] \/ len < size[k])}
<1>8. ASSUME NEW k \in D, Lower(D, r, k) \subseteq P PROVE k \in P
  <2>1. CASE k = 0
    BY <2>1, <1>7
  <2>2. CASE k # 0
    <3>1. k - 1 \in Lower(D, r, k)
      BY <2>2 DEF Lower
    <3>2. k - 1 \in P
      BY <1>8, <3>1
    <3> QED BY <2>2, <3>2, <1>7
  <2> QED BY <2>1, <2>2
<1>9. P = D
  <2>1. P \in SUBSET D /\ r \in [D -> Nat]
    OBVIOUS
  <2> HIDE DEF P, D, r
  <2> QED BY <1>8, <2>1, ByRank
<1> QED BY <1>6, <1>9

-----------------------------------------------------------------------------
(* A text that does not change is read in the same way.                           *)
LEMMA SameAt ==
  ASSUME text' = text
  PROVE  \A i : At(i)' = At(i) /\ \A s : Seen(i, s)' = Seen(i, s)
BY Zenon DEF Seen, At

(* What is looked up in the text is the same after a step that keeps the text.      *)
LEMMA SameRun == ASSUME text' = text PROVE \A i, S : RunEnd(i, S)' = RunEnd(i, S)
BY Zenon DEF At, RunEnd

LEMMA SameBlanks == ASSUME text' = text PROVE \A i : BlanksEnd(i)' = BlanksEnd(i)
BY SMTT(60) DEF Seen, At, RunEnd, LineEnd, BlanksEnd

LEMMA SameContinues == ASSUME text' = text PROVE \A i : Continues(i)' = Continues(i)
BY SameAt, SameBlanks DEF Continues

LEMMA SameNumber == ASSUME text' = text PROVE \A i : NumberLength(i)' = NumberLength(i)
BY Zenon DEF NumberLength

LEMMA SameDelimiter ==
  ASSUME text' = text
  PROVE  \A i : DelimiterLength(i)' = DelimiterLength(i) /\ DollarEnd(i)' = DollarEnd(i)
<1>1. \A i : DelimiterLength(i)' = DelimiterLength(i)
  BY Zenon DEF DelimiterLength
<1>2. \A i : DollarEnd(i)' = DollarEnd(i)
  BY Zenon DEF DollarEnd, DelimiterLength
<1> QED BY <1>1, <1>2, Zenon

LEMMA SameCode == ASSUME text' = text PROVE \A i : CodeAt(i)' = CodeAt(i)
<1>1. \A i : DollarQuoteAt(i)' = DollarQuoteAt(i)
  BY SameDelimiter DEF DollarQuoteAt
<1>2. \A i : DollarAt(i)' = DollarAt(i)
  BY <1>1, SameAt, SameRun, SameDelimiter DEF DollarAt
<1>3. \A i : LetterAt(i)' = LetterAt(i)
  BY SameAt DEF LetterAt
<1> QED BY <1>2, <1>3, SameAt, SameNumber DEF CodeAt

LEMMA SameLiteralAt == ASSUME text' = text PROVE \A i, n : LiteralAt(i, n)' = LiteralAt(i, n)
<1>1. \A i, n : QuoteAt(i, n)' = QuoteAt(i, n)
  BY SameAt, SameBlanks, SameContinues DEF QuoteAt
<1> QED BY <1>1, SameAt DEF LiteralAt

LEMMA SameRead ==
  ASSUME text' = text
  PROVE \A i, n : ReadAt(i, n)' = ReadAt(i, n) /\ StateAt(i, n)' = StateAt(i, n)
<1>1. \A i, n : CommentAt(i, n)' = CommentAt(i, n)
  BY SameAt, Zenon DEF CommentAt
<1>2. \A i, n : ReadAt(i, n)' = ReadAt(i, n)
  BY <1>1, SameCode, SameLiteralAt, Zenon DEF ReadAt
<1>3. \A i, n : StateAt(i, n)' = StateAt(i, n)
  BY SameAt DEF StateAt
<1> QED BY <1>2, <1>3

LEMMA SameMeaning == ASSUME text' = text PROVE Reading' = Reading /\ Meaning' = Meaning
<1>1. \A x : Onward(x)' = Onward(x)
  BY SameRead DEF Onward
<1>2. Reading' = Reading
  BY <1>1 DEF Reading
<1> QED BY <1>2, SameRead DEF Meaning

-----------------------------------------------------------------------------
(* The pieces that the reader takes.                                          *)

(* The longest number that starts here, if any does.                                *)
LEMMA NumberLengthIs ==
  ASSUME text \in Seq(Chars), NEW i \in 1..Len(text)
  PROVE  /\ NumberLength(i) \in 0..(Len(text) + 1 - i)
         /\ NumberLength(i) # 0 => IsNumber(SubSeq(text, i, i + NumberLength(i) - 1))
         /\ \A k \in 1..(Len(text) + 1 - i) : IsNumber(SubSeq(text, i, i + k - 1))
              => k <= NumberLength(i)
<1> DEFINE n == Len(text) + 1 - i
           S == {k \in 1..n : IsNumber(SubSeq(text, i, i + k - 1))}
           T == {0} \cup S
<1>1. n \in Nat
  BY AtIs
<1>2. T \in SUBSET (0..n) /\ T # {}
  <2> HIDE DEF n
  <2>1. \A k \in 1..n : k \in 0..n
    BY <1>1
  <2> QED BY <2>1, <1>1
<1>3. Max(T) \in T /\ \A k \in T : k <= Max(T)
  <2> HIDE DEF T, n
  <2> QED BY <1>1, <1>2, HighestIs
<1>4. NumberLength(i) = Max(T)
  BY DEF NumberLength
<1> QED BY <1>2, <1>3, <1>4

(* The delimiter of a dollar quote that starts here, if any does.                   *)
LEMMA DelimiterLengthIs ==
  ASSUME text \in Seq(Chars), NEW i \in 1..Len(text)
  PROVE  /\ DelimiterLength(i) \in 0..(Len(text) + 1 - i)
         /\ DelimiterLength(i) # 0 => IsDelimiter(SubSeq(text, i, i + DelimiterLength(i) - 1))
         /\ \A k \in 1..(Len(text) + 1 - i) :
              IsDelimiter(SubSeq(text, i, i + k - 1)) => k <= DelimiterLength(i)
<1> DEFINE n == Len(text) + 1 - i
           S == {k \in 1..n : IsDelimiter(SubSeq(text, i, i + k - 1))}
           T == {0} \cup S
<1>1. n \in Nat
  BY AtIs
<1>2. T \in SUBSET (0..n) /\ T # {}
  <2> HIDE DEF n
  <2>1. \A k \in 1..n : k \in 0..n
    BY <1>1
  <2> QED BY <2>1, <1>1
<1>3. Max(T) \in T /\ \A k \in T : k <= Max(T)
  <2> HIDE DEF T, n
  <2> QED BY <1>1, <1>2, HighestIs
<1>4. DelimiterLength(i) = Max(T)
  BY DEF DelimiterLength
<1> QED BY <1>2, <1>3, <1>4

Repeats(i, j) ==
  SubSeq(text, j, j + DelimiterLength(i) - 1) = SubSeq(text, i, i + DelimiterLength(i) - 1)

(* A dollar quote ends where its delimiter is repeated first, or with the text.     *)
LEMMA DollarEndIs ==
  ASSUME text \in Seq(Chars), NEW i \in 1..Len(text)
  PROVE  /\ DollarEnd(i) \in (i + DelimiterLength(i))..(Len(text) + 1)
         /\ DollarEnd(i) <= Len(text) =>
              DollarEnd(i) + DelimiterLength(i) <= Len(text) + 1 /\ Repeats(i, DollarEnd(i))
         /\ \A j \in (i + DelimiterLength(i))..(DollarEnd(i) - 1) :
              j + DelimiterLength(i) <= Len(text) + 1 => ~Repeats(i, j)
<1> DEFINE n == Len(text)
           len == DelimiterLength(i)
           e == DollarEnd(i)
           T == {j \in (i + len)..(n + 1 - len) : Repeats(i, j)}
<1>1. n \in Nat /\ len \in 0..(n + 1 - i)
  BY AtIs, DelimiterLengthIs
<1>2. e = IF T = {} THEN n + 1 ELSE Min(T)
  BY DEF DollarEnd, Repeats
<1> HIDE DEF n, len, e
<1>3. CASE T = {}
  <2>1. e = n + 1 /\ \A j \in (i + len)..(n + 1 - len) : ~Repeats(i, j)
    BY <1>2, <1>3
  <2> HIDE DEF T
  <2> QED BY <1>1, <2>1 DEF n, len, e
<1>4. CASE T # {}
  <2>1. T \in SUBSET Nat
    <3>1. \A j \in (i + len)..(n + 1 - len) : j \in Nat
      BY <1>1
    <3> QED BY <3>1
  <2>2. e \in T /\ \A k \in T : e <= k
    <3> HIDE DEF T
    <3> QED BY <1>2, <1>4, <2>1, LowestIs
  <2> QED BY <1>1, <2>2 DEF n, len, e
<1> QED BY <1>3, <1>4

Known == {"code", "comment", "literal"}
Meanings == [is : Known, adds : Seq(Chars \cup {"BS"})]
IsPiece(i, p) == /\ p.chars \in Seq(Meanings) /\ Len(p.chars) \in 1..(Len(text) + 1 - i)
                 /\ p.state \in Int

LEMMA ReadsIs == ASSUME NEW c, NEW s PROVE Reads(c, s).chars = c /\ Reads(c, s).state = s
BY DEF Reads

(* The reader knows characters of code, comments and literals.                      *)
LEMMA MeaningsAre ==
  /\ Comment \in Meanings /\ Code \in Meanings /\ Mark \in Meanings
  /\ \A c \in Chars \cup {"BS"} : Adds(c) \in Meanings
<1>1. <<>> \in Seq(Chars \cup {"BS"})
  OBVIOUS
<1>2. \A c \in Chars \cup {"BS"} : <<c>> \in Seq(Chars \cup {"BS"})
  OBVIOUS
<1> QED BY <1>1, <1>2 DEF Comment, Code, Mark, Adds, Is, Meanings, Known

LEMMA TupleIs ==
  ASSUME NEW S, NEW a \in S, NEW b \in S
  PROVE  /\ <<a>> \in Seq(S) /\ Len(<<a>>) = 1 /\ <<a>>[1] = a
         /\ <<a, b>> \in Seq(S) /\ Len(<<a, b>>) = 2 /\ <<a, b>>[1] = a /\ <<a, b>>[2] = b
OBVIOUS

(* Many characters with one meaning, and a text that stands for itself.             *)
LEMMA TimesIs ==
  ASSUME NEW S, NEW len \in Nat, NEW c \in S
  PROVE  /\ Times(len, c) \in Seq(S) /\ Len(Times(len, c)) = len
         /\ \A k \in 1..len : Times(len, c)[k] = c
BY DEF Times

LEMMA EachIs ==
  ASSUME NEW s \in Seq(Chars)
  PROVE  /\ Each(s) \in Seq(Meanings) /\ Len(Each(s)) = Len(s)
         /\ \A k \in 1..Len(s) : Each(s)[k] = Adds(s[k])
<1>1. Len(s) \in Nat /\ DOMAIN s = 1..Len(s) /\ \A k \in 1..Len(s) : s[k] \in Chars
  BY LenProperties
<1>2. \A k \in 1..Len(s) : Adds(s[k]) \in Meanings
  BY <1>1, MeaningsAre
<1>3. Each(s) = [k \in 1..Len(s) |-> Adds(s[k])]
  BY <1>1 DEF Each
<1>4. Each(s) \in [1..Len(s) -> Meanings]
  BY <1>2, <1>3
<1>5. Each(s) \in Seq(Meanings) /\ Len(Each(s)) = Len(s)
  <2>1. PICK m \in Nat : m = Len(s)
    BY <1>1
  <2>2. PICK e \in [1..m -> Meanings] : e = Each(s)
    BY <1>4, <2>1
  <2>3. e \in Seq(Meanings) /\ Len(e) = m
    OBVIOUS
  <2> QED BY <2>1, <2>2, <2>3
<1> QED BY <1>3, <1>5

(* A part of the text has its characters, in their order.                           *)
LEMMA PartOf ==
  ASSUME text \in Seq(Chars), NEW i \in 1..(Len(text) + 1), NEW j \in (i - 1)..Len(text)
  PROVE  /\ SubSeq(text, i, j) \in Seq(Chars) /\ Len(SubSeq(text, i, j)) = j + 1 - i
         /\ \A k \in 1..(j + 1 - i) : SubSeq(text, i, j)[k] = At(i + k - 1)
<1>1. \A k \in i..j : text[k] \in Chars /\ At(k) = text[k]
  BY AtIs
<1>2. /\ SubSeq(text, i, j) \in Seq(Chars)
      /\ Len(SubSeq(text, i, j)) = IF i <= j THEN j - i + 1 ELSE 0
      /\ \A k \in 1..(j - i + 1) : SubSeq(text, i, j)[k] = text[i + k - 1]
  <2>1. i \in Int /\ j \in Int
    BY AtIs
  <2> QED BY <1>1, <2>1, SubSeqProperties
<1>3. j + 1 - i = IF i <= j THEN j - i + 1 ELSE 0
  BY AtIs
<1>4. ASSUME NEW k \in 1..(j + 1 - i) PROVE SubSeq(text, i, j)[k] = At(i + k - 1)
  <2>1. k \in 1..(j - i + 1) /\ i + k - 1 \in i..j
    BY AtIs
  <2> QED BY <2>1, <1>1, <1>2
<1> DEFINE s == SubSeq(text, i, j)
<1>5. s \in Seq(Chars) /\ Len(s) = j + 1 - i /\ \A k \in 1..(j + 1 - i) : s[k] = At(i + k - 1)
  <2>1. s \in Seq(Chars) /\ Len(s) = j + 1 - i
    BY <1>2, <1>3
  <2> HIDE DEF s
  <2> QED BY <2>1, <1>4 DEF s
<1> QED BY <1>5

(* A dollar quote: its delimiters are marks, all between them stands for itself.    *)
LEMMA DollarQuoteIs ==
  ASSUME text \in Seq(Chars), NEW i \in 1..Len(text), DelimiterLength(i) > 0
  PROVE  LET len == DelimiterLength(i)
             end == DollarEnd(i)
             p == DollarQuoteAt(i)
         IN  /\ IsPiece(i, p)
             /\ \A k \in 1..len : p.chars[k] = Mark
             /\ \A k \in (len + 1)..(end - i) : p.chars[k] = Adds(At(i + k - 1))
             /\ end > Len(text) => p.state = InDollar /\ Len(p.chars) = end - i
             /\ end <= Len(text) =>
                  /\ p.state = InCode /\ Len(p.chars) = end + len - i
                  /\ \A k \in (end - i + 1)..(end - i + len) : p.chars[k] = Mark
<1> DEFINE n == Len(text)
           len == DelimiterLength(i)
           end == DollarEnd(i)
           p == DollarQuoteAt(i)
           mark == Times(len, Mark)
           rest == SubSeq(text, i + len, end - 1)
           inner == Each(rest)
<1>1. /\ n \in Nat /\ len \in 1..(n + 1 - i) /\ end \in (i + len)..(n + 1)
      /\ end <= n => end + len <= n + 1
  BY AtIs, DelimiterLengthIs, DollarEndIs
<1>2. mark \in Seq(Meanings) /\ Len(mark) = len /\ \A k \in 1..len : mark[k] = Mark
  <2>1. len \in Nat
    BY <1>1
  <2> QED BY <2>1, TimesIs, MeaningsAre
<1>3. rest \in Seq(Chars) /\ Len(rest) = end - i - len
        /\ \A k \in 1..(end - i - len) : rest[k] = At(i + len + k - 1)
  <2>1. i + len \in 1..(n + 1) /\ end - 1 \in (i + len - 1)..n
    BY <1>1
  <2>2. PICK x \in 1..(Len(text) + 1) : x = i + len
    BY <2>1
  <2>3. PICK y \in (x - 1)..Len(text) : y = end - 1
    BY <1>1, <2>1, <2>2
  <2>4. /\ SubSeq(text, x, y) \in Seq(Chars) /\ Len(SubSeq(text, x, y)) = y + 1 - x
        /\ \A k \in 1..(y + 1 - x) : SubSeq(text, x, y)[k] = At(x + k - 1)
    BY PartOf
  <2>5. rest = SubSeq(text, x, y)
    BY <2>2, <2>3
  <2>6. y + 1 - x = end - i - len
    <3>1. n \in Nat /\ len \in Int /\ end \in Int /\ i \in Int
      BY <1>1
    <3> HIDE DEF n, len, end
    <3> QED BY <2>2, <2>3, <3>1
  <2> HIDE DEF rest, len, end
  <2> QED BY <2>2, <2>4, <2>5, <2>6
<1> HIDE DEF rest
<1>4. /\ inner \in Seq(Meanings) /\ Len(inner) = end - i - len
      /\ \A k \in 1..(end - i - len) : inner[k] = Adds(At(i + len + k - 1))
  BY <1>3, EachIs
<1>5. p = IF end > n THEN Reads(mark \o inner, InDollar) ELSE Reads(mark \o inner \o mark, InCode)
  BY DEF DollarQuoteAt, rest
<1> HIDE DEF n, len, end, p, mark, inner
<1>6. PICK a \in Seq(Meanings), b \in Seq(Meanings) : a = mark /\ b = inner
  BY <1>2, <1>4
<1> DEFINE c == a \o b
<1>7. c \in Seq(Meanings) /\ Len(c) = end - i
      /\ \A k \in 1..(end - i) : c[k] = IF k <= len THEN Mark ELSE Adds(At(i + k - 1))
  <2>1. /\ c \in Seq(Meanings) /\ Len(c) = Len(a) + Len(b)
        /\ \A k \in 1..(Len(a) + Len(b)) : c[k] = IF k <= Len(a) THEN a[k] ELSE b[k - Len(a)]
    BY ConcatProperties
  <2>2. Len(a) = len /\ Len(b) = end - i - len
    BY <1>2, <1>4, <1>6
  <2> HIDE DEF c
  <2>3. Len(c) = end - i /\ \A k \in 1..(end - i) : c[k] = IF k <= len THEN a[k] ELSE b[k - len]
    <3>1. Len(a) + Len(b) = end - i
      BY <1>1, <2>2
    <3> QED BY ONLY <2>1, <2>2, <3>1
  <2>4. ASSUME NEW k \in 1..(end - i), k > len PROVE b[k - len] = Adds(At(i + k - 1))
    <3>1. k - len \in 1..(end - i - len) /\ i + len + (k - len) - 1 = i + k - 1
      BY <2>4, <1>1
    <3> QED BY <3>1, <1>4, <1>6
  <2>5. ASSUME NEW k \in 1..(end - i), k <= len PROVE a[k] = Mark
    BY <2>5, <1>1, <1>2, <1>6
  <2>6. ASSUME NEW k \in 1..(end - i)
        PROVE  c[k] = IF k <= len THEN Mark ELSE Adds(At(i + k - 1))
    <3>1. c[k] = IF k <= len THEN a[k] ELSE b[k - len]
      BY <2>3
    <3>2. k <= len \/ k > len
      BY <1>1
    <3> QED BY <3>1, <3>2, <2>4, <2>5
  <2> QED BY <2>1, <2>3, <2>6
<1>8. CASE end > n
  <2>1. p.chars = c /\ p.state = InDollar
    BY <1>5, <1>6, <1>8, ReadsIs
  <2> HIDE DEF c
  <2>2. IsPiece(i, p)
    BY <2>1, <1>1, <1>7 DEF IsPiece, InDollar, n
  <2> QED BY <2>1, <2>2, <1>1, <1>7, <1>8 DEF n, len, end, p
<1>9. CASE end <= n
  <2> DEFINE d == c \o a
  <2>1. p.chars = d /\ p.state = InCode
    <3>1. ~(end > n)
      BY <1>9, <1>1
    <3>2. p = Reads(d, InCode)
      BY <3>1, <1>5, <1>6
    <3> QED BY <3>2, ReadsIs
  <2> HIDE DEF c
  <2>2. /\ d \in Seq(Meanings) /\ Len(d) = Len(c) + Len(a)
        /\ \A k \in 1..(Len(c) + Len(a)) : d[k] = IF k <= Len(c) THEN c[k] ELSE a[k - Len(c)]
    BY <1>7, ConcatProperties
  <2>3. Len(a) = len /\ Len(c) = end - i
    BY <1>2, <1>6, <1>7
  <2> HIDE DEF d
  <2>4. /\ Len(d) = end + len - i /\ \A k \in 1..(end - i) : d[k] = c[k]
        /\ \A k \in (end - i + 1)..(end - i + len) : d[k] = Mark
    <3>1. Len(d) = end + len - i /\ \A k \in 1..(end - i) : d[k] = c[k]
      BY <2>2, <2>3, <1>1
    <3>2. ASSUME NEW k \in (end - i + 1)..(end - i + len) PROVE d[k] = Mark
      <4>1. k - (end - i) \in 1..len /\ k \in 1..((end - i) + len) /\ ~(k <= end - i)
        BY <1>1
      <4>2. d[k] = a[k - (end - i)]
        BY <4>1, <2>2, <2>3
      <4> QED BY <4>1, <4>2, <1>2, <1>6
    <3> QED BY <3>1, <3>2
  <2>5. IsPiece(i, p)
    BY <2>1, <2>2, <2>4, <1>1, <1>9 DEF IsPiece, InCode, n
  <2>6. \A k \in 1..(end - i) : d[k] = IF k <= len THEN Mark ELSE Adds(At(i + k - 1))
    BY <2>4, <1>7
  <2>7. (\A k \in 1..len : d[k] = Mark)
          /\ \A k \in (len + 1)..(end - i) : d[k] = Adds(At(i + k - 1))
    BY <2>6, <1>1
  <2> QED BY <2>1, <2>4, <2>5, <2>7, <1>1, <1>9 DEF n, len, end, p
<1>10. end > n \/ end <= n
  BY <1>1
<1> QED BY <1>8, <1>9, <1>10

(* One character, two, or many of a kind, are a piece of the text.                  *)
LEMMA Ones ==
  ASSUME text \in Seq(Chars), NEW i \in 1..Len(text), NEW c \in Meanings, NEW d \in Meanings,
         NEW s \in Int
  PROVE  /\ IsPiece(i, Reads(<<c>>, s))
         /\ i + 1 \in 1..Len(text) => IsPiece(i, Reads(<<c, d>>, s))
         /\ \A len \in 1..(Len(text) + 1 - i) : IsPiece(i, Reads(Times(len, c), s))
<1>1. Len(text) \in Nat
  BY AtIs
<1>2. IsPiece(i, Reads(<<c>>, s))
  <2>1. 1 \in 1..(Len(text) + 1 - i)
    BY <1>1
  <2>2. <<c>> \in Seq(Meanings) /\ Len(<<c>>) = 1
    BY TupleIs, Zenon
  <2> QED BY <2>1, <2>2, ReadsIs, Zenon DEF IsPiece
<1>3. i + 1 \in 1..Len(text) => IsPiece(i, Reads(<<c, d>>, s))
  <2> HAVE i + 1 \in 1..Len(text)
  <2>1. 2 \in 1..(Len(text) + 1 - i)
    BY <1>1
  <2>2. <<c, d>> \in Seq(Meanings) /\ Len(<<c, d>>) = 2
    BY TupleIs, Zenon
  <2>3. Reads(<<c, d>>, s).chars = <<c, d>> /\ Reads(<<c, d>>, s).state = s
    BY ReadsIs, Zenon
  <2> QED BY <2>1, <2>2, <2>3, Zenon DEF IsPiece
<1>4. ASSUME NEW len \in 1..(Len(text) + 1 - i) PROVE IsPiece(i, Reads(Times(len, c), s))
  <2>1. len \in Nat
    BY <1>1
  <2>2. Times(len, c) \in Seq(Meanings) /\ Len(Times(len, c)) = len
    BY <2>1, TimesIs
  <2> QED BY <2>2, ReadsIs DEF IsPiece
<1> QED BY <1>2, <1>3, <1>4

(* What the reader takes in code is a piece of the text, and not empty.             *)
LEMMA CodeIsPiece ==
  ASSUME text \in Seq(Chars), NEW i \in 1..Len(text)
  PROVE  IsPiece(i, CodeAt(i))
<1>1. /\ Len(text) \in Nat /\ i + 1 \in 1..(Len(text) + 1)
      /\ \A j : At(j) # "EOF" => j \in 1..Len(text)
      /\ At(i) \in Chars
  BY AtIs
<1>2. \A a, b : b # "EOF" /\ Seen(i, <<a, b>>) => i + 1 \in 1..Len(text)
  BY <1>1, SeenIs
<1>3. /\ Comment \in Meanings /\ Code \in Meanings /\ Mark \in Meanings /\ Adds(At(i)) \in Meanings
      /\ InLine \in Int /\ InQuotes \in Int /\ InName \in Int /\ InWord \in Int
           /\ InBits \in Int /\ InCode \in Int
  BY <1>1, MeaningsAre DEF InLine, InQuotes, InName, InWord, InBits, InCode
<1>4. IsPiece(i, DollarAt(i))
  <2>1. CASE At(i + 1) \in Digits
    <3>1. RunEnd(i + 1, Digits) \in (i + 1)..(Len(text) + 1)
      BY <1>1, RunEndIs DEF Chars, IdentCont, InTag
    <3>2. RunEnd(i + 1, Digits) - i \in 1..(Len(text) + 1 - i)
      BY <3>1, <1>1
    <3> QED BY <2>1, <3>2, <1>3, Ones DEF DollarAt
  <2>2. CASE At(i + 1) \notin Digits /\ DelimiterLength(i) > 0
    BY <2>2, DollarQuoteIs DEF DollarAt
  <2>3. CASE At(i + 1) \notin Digits /\ ~(DelimiterLength(i) > 0)
    BY <2>3, <1>3, Ones DEF DollarAt
  <2> QED BY <2>1, <2>2, <2>3
<1>5. IsPiece(i, LetterAt(i))
  <2>1. "EOF" # Quote
    BY DEF Quote
  <2>2. CASE Seen(i, <<"e", Quote>>)
    BY <2>1, <2>2, <1>2, <1>3, Ones DEF LetterAt
  <2>3. CASE ~Seen(i, <<"e", Quote>>) /\ (Seen(i, <<"b", Quote>>) \/ Seen(i, <<"x", Quote>>))
    BY <2>1, <2>3, <1>2, <1>3, Ones DEF LetterAt
  <2>4. CASE ~Seen(i, <<"e", Quote>>) /\ ~Seen(i, <<"b", Quote>>) /\ ~Seen(i, <<"x", Quote>>)
    BY <2>4, <1>3, Ones DEF LetterAt
  <2> QED BY <2>2, <2>3, <2>4
<1>6. NumberLength(i) > 0 => IsPiece(i, Reads(Times(NumberLength(i), Code), InCode))
  <2>1. NumberLength(i) > 0 => NumberLength(i) \in 1..(Len(text) + 1 - i)
    BY <1>1, NumberLengthIs
  <2> QED BY <2>1, <1>3, Ones
<1>7. /\ \A s \in Int : Seen(i, <<"/", "*">>) \/ Seen(i, <<"-", "-">>)
           => IsPiece(i, Reads(<<Comment, Comment>>, s))
      /\ \A s \in Int : IsPiece(i, Reads(<<Mark>>, s)) /\ IsPiece(i, Reads(<<Code>>, s))
  BY <1>2, <1>3, Ones
<1>8. 1 \in Int
  OBVIOUS
<1> QED BY <1>3, <1>4, <1>5, <1>6, <1>7, <1>8, Zenon DEF CodeAt

(* What the reader takes in any state is a piece of the text, and not empty.        *)
LEMMA PieceIs ==
  ASSUME text \in Seq(Chars), NEW i \in 1..Len(text), NEW s \in Int
  PROVE  IsPiece(i, ReadAt(i, s))
<1>1. /\ Len(text) \in Nat /\ i + 1 \in 1..(Len(text) + 1)
      /\ \A j : At(j) # "EOF" => j \in 1..Len(text)
      /\ \A j \in 1..Len(text) : At(j) \in Chars
  BY AtIs
<1>2. \A a, b : b # "EOF" /\ Seen(i, <<a, b>>) => i + 1 \in 1..Len(text)
  BY <1>1, SeenIs
<1>3. /\ Comment \in Meanings /\ Code \in Meanings /\ Mark \in Meanings /\ Adds(At(i)) \in Meanings
      /\ InCode \in Int /\ s + 1 \in Int /\ s - 1 \in Int
  BY <1>1, MeaningsAre DEF InCode
<1>4. IsPiece(i, CommentAt(i, s))
  <2>1. \A t \in Int : Seen(i, <<"/", "*">>) \/ Seen(i, <<"*", "/">>)
          => IsPiece(i, Reads(<<Comment, Comment>>, t))
    BY <1>2, <1>3, Ones
  <2>2. \A t \in Int : IsPiece(i, Reads(<<Comment>>, t))
    BY <1>3, Ones
  <2> QED BY <1>3, <2>1, <2>2, Zenon DEF CommentAt
<1>5. IsPiece(i, LiteralAt(i, s))
  <2>1. At(i) = QuoteOf(s) => At(i) \in {Quote, DQuote}
    BY DEF QuoteOf
  <2>2. At(i) # "EOF"
    BY AtIs
  <2>3. At(i + 1) = At(i) => IsPiece(i, Reads(<<Mark, Adds(At(i))>>, s))
    BY <1>1, <1>3, <2>2, Ones
  <2>4. Continues(i) => IsPiece(i, Reads(Times(BlanksEnd(i + 1) + 1 - i, Mark), s))
    <3>1. Continues(i) => BlanksEnd(i + 1) + 1 - i \in 1..(Len(text) + 1 - i)
      BY <1>1, ContinuesIs
    <3> QED BY <3>1, <1>3, Ones
  <2>5. IsPiece(i, Reads(<<Mark>>, InCode)) /\ IsPiece(i, Reads(<<Adds(At(i))>>, s))
    BY <1>3, Ones
  <2>6. IsPiece(i, QuoteAt(i, s))
    BY <2>3, <2>4, <2>5, Zenon DEF QuoteAt
  <2>7. i < Len(text) => IsPiece(i, Reads(<<Mark, Adds(EscapeOf(At(i + 1)))>>, s))
    <3>1. SUFFICES ASSUME i < Len(text)
                   PROVE  IsPiece(i, Reads(<<Mark, Adds(EscapeOf(At(i + 1)))>>, s))
      OBVIOUS
    <3>2. i + 1 \in 1..Len(text) /\ At(i + 1) \in Chars
      BY <1>1, <3>1
    <3>3. EscapeOf(At(i + 1)) \in Chars \cup {"BS"}
      <4>1. DOMAIN Control = {"b", "n"} /\ Control["b"] = "BS" /\ Control["n"] = "\n"
              /\ "\n" \in Chars
        BY DEF Control, Chars, Space
      <4> QED BY <3>2, <4>1 DEF EscapeOf
    <3> QED BY <3>2, <3>3, <1>3, MeaningsAre, Ones
  <2> QED BY <2>5, <2>6, <2>7, Zenon DEF LiteralAt
<1>6. IsPiece(i, Reads(<<Code>>, s)) /\ IsPiece(i, Reads(<<Comment>>, s))
  BY <1>3, Ones
<1> QED BY <1>4, <1>5, <1>6, CodeIsPiece, Zenon DEF ReadAt

-----------------------------------------------------------------------------
(* What the reader has read after each piece.                                    *)
Progress == [chars : Seq(Meanings), state : Int]
IsRead(x) == x \in Progress /\ Len(x.chars) \in 0..Len(text)

LEMMA StateIsInt == \A i, s : s \in Int => StateAt(i, s) \in Int
BY DEF StateAt, InCode

(* The reader appends a piece to what it has read, or is at the end.                *)
LEMMA OnwardIs ==
  ASSUME text \in Seq(Chars), NEW x, IsRead(x)
  PROVE  LET i == Len(x.chars) + 1
             p == ReadAt(i, StateAt(i, x.state))
         IN  /\ IsRead(Onward(x))
             /\ i > Len(text) => Onward(x) = x
             /\ i <= Len(text) =>
                  /\ IsPiece(i, p)
                  /\ Onward(x) = Reads(x.chars \o p.chars, p.state)
                  /\ Len(Onward(x).chars) = Len(x.chars) + Len(p.chars)
                  /\ \A j \in 1..Len(x.chars) : Onward(x).chars[j] = x.chars[j]
                  /\ \A j \in 1..Len(p.chars) : Onward(x).chars[Len(x.chars) + j] = p.chars[j]
<1> DEFINE n == Len(text)
           l == Len(x.chars)
           i == l + 1
           p == ReadAt(i, StateAt(i, x.state))
           y == x.chars \o p.chars
<1>1. n \in Nat /\ l \in 0..n /\ x.chars \in Seq(Meanings) /\ x.state \in Int
  BY AtIs DEF IsRead, Progress
<1>2. Onward(x) = IF i > n THEN x ELSE Reads(y, p.state)
  BY DEF Onward
<1>3. CASE i > n
  <2>1. ~(i <= n)
    <3> HIDE DEF l
    <3> QED BY <1>1, <1>3
  <2>2. Onward(x) = x
    <3> HIDE DEF i, n, p, y
    <3> QED BY <1>2, <1>3
  <2> HIDE DEF i, p, y
  <2> QED BY <2>1, <2>2 DEF i
<1>4. CASE i <= n
  <2>1. IsPiece(i, p)
    <3>1. i \in 1..Len(text) /\ StateAt(i, x.state) \in Int
      <4> HIDE DEF l
      <4> QED BY <1>1, <1>4, StateIsInt
    <3> HIDE DEF i
    <3> QED BY <3>1, PieceIs
  <2>2. Onward(x) = Reads(y, p.state)
    <3>1. ~(i > n)
      <4> HIDE DEF l
      <4> QED BY <1>1, <1>4
    <3> HIDE DEF i, n, y, p
    <3> QED BY <1>2, <3>1
  <2> HIDE DEF p
  <2>3. p.chars \in Seq(Meanings) /\ Len(p.chars) \in 1..(n + 1 - i) /\ p.state \in Int
    BY <2>1 DEF IsPiece
  <2>4. PICK a \in Seq(Meanings), b \in Seq(Meanings) : a = x.chars /\ b = p.chars
    BY <1>1, <2>3
  <2>5. /\ y \in Seq(Meanings) /\ Len(y) = l + Len(p.chars)
        /\ \A j \in 1..l : y[j] = x.chars[j]
        /\ \A j \in 1..Len(p.chars) : y[l + j] = p.chars[j]
    <3> DEFINE c == a \o b
               la == Len(a)
               lb == Len(b)
    <3>1. /\ c \in Seq(Meanings) /\ Len(c) = la + lb /\ la \in Nat /\ lb \in Nat
          /\ \A j \in 1..(la + lb) : c[j] = IF j <= la THEN a[j] ELSE b[j - la]
      BY ConcatProperties, LenProperties
    <3> HIDE DEF c, la, lb
    <3>2. \A j \in 1..la : c[j] = a[j]
      BY <3>1
    <3>3. \A j \in 1..lb : c[la + j] = b[j]
      <4> TAKE j \in 1..lb
      <4>1. la + j \in 1..(la + lb) /\ ~(la + j <= la) /\ (la + j) - la = j
        BY <3>1
      <4> QED BY <3>1, <4>1
    <3>4. y = c /\ l = la /\ Len(p.chars) = lb
      BY <2>4 DEF c, la, lb
    <3> HIDE DEF y, l
    <3> QED BY <3>1, <3>2, <3>3, <3>4, <2>4
  <2>6. Onward(x).chars = y /\ Onward(x).state = p.state
    <3> HIDE DEF y
    <3> QED BY <2>2, ReadsIs
  <2> HIDE DEF y, l
  <2>7. IsRead(Onward(x))
    <3>1. Onward(x) \in Progress
      BY <2>2, <2>3, <2>5 DEF Reads, Progress
    <3>2. Len(Onward(x).chars) \in 0..n
      BY <2>3, <2>5, <2>6, <1>1
    <3> QED BY <3>1, <3>2 DEF IsRead
  <2> HIDE DEF n
  <2>8. ~(i > n)
    BY <1>1, <1>4
  <2> QED BY <2>1, <2>2, <2>5, <2>6, <2>7, <2>8 DEF n, l, p, y
<1>5. i > n \/ i <= n
  <2> HIDE DEF l
  <2> QED BY <1>1
<1> QED BY <1>3, <1>4, <1>5

(* The reader has read all of the text after as many pieces as it has characters.   *)
LEMMA ReadingIs ==
  ASSUME text \in Seq(Chars)
  PROVE  /\ Reading[0] = Reads(<<>>, InCode)
         /\ \A k \in 1..Len(text) : Reading[k] = Onward(Reading[k - 1])
         /\ \A k \in 0..Len(text) : IsRead(Reading[k]) /\ Len(Reading[k].chars) >= k
<1> DEFINE n == Len(text)
           D == 0..n
           V == {x \in Progress : IsRead(x)}
           F == [D -> V]
           Goes(f, k) == IF k = 0 THEN Reads(<<>>, InCode) ELSE Onward(f[k - 1])
           B == [p \in F \X D |-> Goes(p[1], p[2])]
           r == [k \in D |-> k]
<1>1. n \in Nat
  BY AtIs
<1>2. Reads(<<>>, InCode) \in V /\ IsRead(Reads(<<>>, InCode))
  <2>1. <<>> \in Seq(Meanings) /\ Len(<<>>) = 0 /\ InCode \in Int
    BY DEF InCode
  <2>2. Reads(<<>>, InCode) \in Progress
    BY <2>1 DEF Reads, Progress
  <2>3. Reads(<<>>, InCode).chars = <<>>
    BY ReadsIs
  <2>4. Len(Reads(<<>>, InCode).chars) \in 0..Len(text)
    BY <1>1, <2>1, <2>3
  <2> QED BY <2>2, <2>4 DEF IsRead
<1>3. \A x \in V : Onward(x) \in V
  <2> TAKE x \in V
  <2>1. IsRead(x)
    OBVIOUS
  <2>2. IsRead(Onward(x))
    BY <2>1, OnwardIs
  <2> QED BY <2>2 DEF IsRead
<1> HIDE DEF V
<1>4. \A k \in D : k = 0 \/ k - 1 \in D
  BY <1>1
<1>5. \A f \in F, k \in D : Goes(f, k) \in V
  BY <1>2, <1>3, <1>4
<1>6. IsBody(B, D, r, V)
  <2>1. B \in [F \X D -> V]
    BY <1>5
  <2>2. ASSUME NEW f \in F, NEW g \in F, NEW k \in D, Same(f, g, Lower(D, r, k))
        PROVE  B[<<f, k>>] = B[<<g, k>>]
    <3>1. k = 0 \/ (k - 1 \in D /\ r[k - 1] < r[k])
      BY <1>1
    <3>2. k = 0 \/ f[k - 1] = g[k - 1]
      BY <2>2, <3>1 DEF Same, Lower
    <3>3. B[<<f, k>>] = Goes(f, k) /\ B[<<g, k>>] = Goes(g, k)
      OBVIOUS
    <3> QED BY <3>2, <3>3
  <2> HIDE DEF B
  <2> QED BY <2>1, <2>2 DEF IsBody
<1>7. PICK f \in F : f = [k \in D |-> Goes(f, k)]
  <2>1. r \in [D -> 0..n] /\ V # {}
    BY <1>1, <1>2
  <2>2. Defines(B, D, V)
    <3> HIDE DEF B, D, r, n
    <3> QED BY <1>1, <1>6, <2>1, Recursion
  <2>3. PICK f \in F : f = [k \in D |-> B[<<f, k>>]]
    BY <2>2 DEF Defines
  <2>4. \A k \in D : B[<<f, k>>] = Goes(f, k)
    OBVIOUS
  <2>5. f = [k \in D |-> Goes(f, k)]
    <3> HIDE DEF B, Goes
    <3> QED BY <2>3, <2>4
  <2> QED BY <2>5
<1> DEFINE Good(g) == g = [k \in D |-> Goes(g, k)]
           read == CHOOSE g : Good(g)
<1>8. Good(read)
  <2> HIDE DEF Good
  <2> SUFFICES \E g : Good(g)
    BY Zenon
  <2> QED BY <1>7 DEF Good
<1>9. Reading = read
  BY DEF Reading
<1>10. \A k \in D : read[k] = Goes(read, k)
  <2> HIDE DEF read
  <2>1. read = [k \in D |-> Goes(read, k)]
    BY <1>8
  <2> HIDE DEF Goes
  <2> QED BY <2>1, Zenon
<1> HIDE DEF read
<1> DEFINE P == {k \in D : IsRead(read[k]) /\ Len(read[k].chars) >= k}
<1>11. ASSUME NEW k \in D, Lower(D, r, k) \subseteq P PROVE k \in P
  <2>1. CASE k = 0
    <3>1. read[k] = Reads(<<>>, InCode)
      BY <2>1, <1>10
    <3>2. read[k].chars = <<>> /\ Len(<<>>) = 0
      BY <3>1, ReadsIs
    <3> QED BY <2>1, <3>1, <3>2, <1>2
  <2>2. CASE k # 0
    <3>1. k - 1 \in Lower(D, r, k)
      BY <1>1, <2>2 DEF Lower
    <3>2. IsRead(read[k - 1]) /\ Len(read[k - 1].chars) >= k - 1
      BY <1>11, <3>1
    <3> DEFINE x == read[k - 1]
               l == Len(x.chars)
               i == l + 1
               p == ReadAt(i, StateAt(i, x.state))
    <3>3. read[k] = Onward(x)
      BY <2>2, <1>10
    <3> HIDE DEF x
    <3>4. /\ IsRead(Onward(x)) /\ i > n => Onward(x) = x
          /\ i <= n => Len(Onward(x).chars) = l + Len(p.chars) /\ IsPiece(i, p)
      BY <3>2, OnwardIs DEF x
    <3>5. l \in 0..n /\ l >= k - 1
      BY <3>2 DEF x, IsRead
    <3>6. Len(Onward(x).chars) >= k
      <4>1. CASE l = n
        <5>1. Onward(x) = x
          <6>1. i > n
            <7> HIDE DEF l
            <7> QED BY <4>1, <1>1
          <6> HIDE DEF i, p
          <6> QED BY <3>4, <6>1
        <5>2. Len(Onward(x).chars) = l
          BY <5>1
        <5> HIDE DEF l
        <5> QED BY <5>2, <4>1, <1>1
      <4>2. CASE l # n
        <5>1. i <= n
          <6> HIDE DEF l
          <6> QED BY <3>5, <4>2, <1>1
        <5>2. Len(Onward(x).chars) = l + Len(p.chars) /\ IsPiece(i, p)
          BY <3>4, <5>1
        <5>3. Len(p.chars) \in 1..(n + 1 - i)
          BY <5>2 DEF IsPiece
        <5> HIDE DEF l, p
        <5> QED BY <3>5, <5>2, <5>3, <1>1
      <4> QED BY <4>1, <4>2
    <3> QED BY <3>3, <3>4, <3>6
  <2> QED BY <2>1, <2>2
<1>12. P = D
  <2>1. P \in SUBSET D /\ r \in [D -> Nat]
    BY <1>1
  <2> HIDE DEF P, D, r
  <2> QED BY <1>11, <2>1, ByRank
<1>13. read[0] = Reads(<<>>, InCode) /\ \A k \in 1..n : read[k] = Onward(read[k - 1])
  <2>1. 0 \in D /\ \A k \in 1..n : k \in D /\ k # 0
    BY <1>1
  <2> HIDE DEF D
  <2> QED BY <2>1, <1>10
<1>14. \A k \in 0..n : IsRead(read[k]) /\ Len(read[k].chars) >= k
  BY <1>12
<1> HIDE DEF n
<1> QED BY <1>9, <1>13, <1>14 DEF n

(* What has been read is not changed.                                            *)
LEMMA ReadOnce ==
  ASSUME text \in Seq(Chars), NEW k \in 0..Len(text), NEW m \in k..Len(text)
  PROVE  \A j \in 1..Len(Reading[k].chars) : Reading[m].chars[j] = Reading[k].chars[j]
<1> DEFINE n == Len(text)
           D == k..n
           c(h) == Reading[h].chars
           P == {h \in D : Len(c(k)) <= Len(c(h)) /\ \A j \in 1..Len(c(k)) : c(h)[j] = c(k)[j]}
           r == [h \in D |-> h]
<1>1. n \in Nat /\ \A h \in 0..n : IsRead(Reading[h])
  BY AtIs, ReadingIs
<1>2. \A h \in 0..n : Len(c(h)) \in 0..n
  BY <1>1 DEF IsRead
<1>3. ASSUME NEW h \in D, Lower(D, r, h) \subseteq P PROVE h \in P
  <2>1. CASE h = k
    BY <1>2, <2>1
  <2>2. CASE h # k
    <3>1. h - 1 \in Lower(D, r, h)
      BY <1>1, <2>2 DEF Lower
    <3>2. h - 1 \in P
      BY <1>3, <3>1
    <3> DEFINE x == Reading[h - 1]
               l == Len(x.chars)
               i == l + 1
               p == ReadAt(i, StateAt(i, x.state))
    <3>3. Reading[h] = Onward(x)
      <4>1. h \in 1..n
        BY <1>1, <2>2
      <4> QED BY <4>1, ReadingIs
    <3>4. h - 1 \in 0..n
      BY <1>1, <2>2
    <3>5. IsRead(x)
      BY <3>4, <1>1
    <3> HIDE DEF x
    <3>6. /\ i > n => Onward(x) = x
          /\ i <= n => /\ Len(Onward(x).chars) = l + Len(p.chars) /\ IsPiece(i, p)
                       /\ \A j \in 1..l : Onward(x).chars[j] = x.chars[j]
      BY <3>5, OnwardIs
    <3>7. l \in 0..n
      BY <3>5 DEF IsRead
    <3>8. l <= Len(c(h)) /\ \A j \in 1..l : c(h)[j] = x.chars[j]
      <4>1. CASE i > n
        <5>1. Onward(x) = x
          <6> HIDE DEF i, p
          <6> QED BY <3>6, <4>1
        <5>2. c(h) = x.chars
          BY <5>1, <3>3
        <5> HIDE DEF c
        <5>3. l = Len(c(h))
          BY <5>2
        <5> QED BY <5>2, <5>3, <3>7
      <4>2. CASE i <= n
        <5>1. /\ Len(Onward(x).chars) = l + Len(p.chars) /\ IsPiece(i, p)
              /\ \A j \in 1..l : Onward(x).chars[j] = x.chars[j]
          <6> HIDE DEF i, p, l
          <6> QED BY <3>6, <4>2 DEF l
        <5>2. Len(p.chars) \in 1..(n + 1 - i)
          BY <5>1 DEF IsPiece
        <5>3. c(h) = Onward(x).chars
          BY <3>3
        <5> HIDE DEF c, p, l
        <5>4. l <= Len(c(h))
          BY <5>1, <5>2, <5>3, <3>7, <1>1
        <5> QED BY <5>1, <5>3, <5>4 DEF l
      <4>3. i > n \/ i <= n
        <5> HIDE DEF l
        <5> QED BY <3>7, <1>1
      <4> QED BY <4>1, <4>2, <4>3
    <3>9. Len(c(k)) <= l /\ \A j \in 1..Len(c(k)) : x.chars[j] = c(k)[j]
      BY <3>2 DEF x
    <3>10. Len(c(k)) \in 0..n /\ Len(c(h)) \in 0..n
      BY <1>1, <1>2
    <3> DEFINE lk == Len(c(k))
               lh == Len(c(h))
    <3> HIDE DEF lk, lh, l
    <3>11. lk <= lh /\ \A j \in 1..lk : j \in 1..l
      <4>1. lk \in 0..n /\ lh \in 0..n /\ lk <= l /\ l <= lh
        BY <3>8, <3>9, <3>10 DEF lk, lh
      <4> QED BY <4>1, <3>7, <1>1
    <3>12. \A j \in 1..lk : c(h)[j] = c(k)[j]
      BY <3>8, <3>9, <3>11 DEF lk
    <3> QED BY <3>11, <3>12 DEF lk, lh
  <2> QED BY <2>1, <2>2
<1>4. P = D
  <2>1. P \in SUBSET D /\ r \in [D -> Nat]
    BY <1>1
  <2> HIDE DEF P, D, r
  <2> QED BY <1>3, <2>1, ByRank
<1>5. m \in P
  BY <1>4
<1> QED BY <1>5

(* The reader comes to position i in state s.                                     *)
ReadsTo(i, s) ==
  /\ i \in 1..(Len(text) + 1)
  /\ \E k \in 0..Len(text) : Len(Reading[k].chars) = i - 1 /\ StateAt(i, Reading[k].state) = s

(* It starts with the first character, in code.                                     *)
LEMMA ReadsFrom == ASSUME text \in Seq(Chars) PROVE ReadsTo(1, InCode)
<1>1. Len(text) \in Nat /\ 0 \in 0..Len(text) /\ 1 \in 1..(Len(text) + 1)
  BY AtIs
<1>2. Reading[0].chars = <<>> /\ Reading[0].state = InCode
  BY ReadingIs, ReadsIs
<1>3. Len(Reading[0].chars) = 1 - 1
  BY <1>2
<1>4. StateAt(1, Reading[0].state) = InCode
  BY <1>2 DEF StateAt
<1> QED BY <1>1, <1>3, <1>4 DEF ReadsTo

(* A piece that is read where the reader comes to gives its characters their meaning.*)
LEMMA ReadOn ==
  ASSUME text \in Seq(Chars), NEW i \in 1..Len(text), NEW s, ReadsTo(i, s)
  PROVE  LET p == ReadAt(i, s)
         IN  /\ IsPiece(i, p)
             /\ ReadsTo(i + Len(p.chars), StateAt(i + Len(p.chars), p.state))
             /\ \A j \in 1..Len(p.chars) : Meaning[i + j - 1] = p.chars[j]
<1> DEFINE n == Len(text)
           p == ReadAt(i, s)
<1>1. n \in Nat
  BY AtIs
<1>2. PICK k \in 0..n : Len(Reading[k].chars) = i - 1 /\ StateAt(i, Reading[k].state) = s
  BY DEF ReadsTo
<1> DEFINE x == Reading[k]
           y == Reading[k + 1]
<1>3. IsRead(x) /\ Len(x.chars) >= k
  BY ReadingIs
<1>4. k + 1 \in 1..n /\ k + 1 \in 0..n
  BY <1>1, <1>2, <1>3
<1>5. y = Onward(x)
  <2>1. (k + 1) - 1 = k
    OBVIOUS
  <2> QED BY <1>4, <2>1, ReadingIs
<1> HIDE DEF x, y
<1>6. Len(x.chars) + 1 = i /\ Len(x.chars) = i - 1 /\ StateAt(i, x.state) = s
  BY <1>2 DEF x
<1>7. /\ IsPiece(i, p) /\ y = Reads(x.chars \o p.chars, p.state)
      /\ Len(y.chars) = Len(x.chars) + Len(p.chars)
      /\ \A j \in 1..Len(p.chars) : y.chars[Len(x.chars) + j] = p.chars[j]
  <2> DEFINE h == Len(x.chars) + 1
             q == ReadAt(h, StateAt(h, x.state))
  <2>1. h <= n
    BY <1>6, <1>1
  <2>2. h <= n =>
          /\ IsPiece(h, q) /\ Onward(x) = Reads(x.chars \o q.chars, q.state)
          /\ Len(Onward(x).chars) = Len(x.chars) + Len(q.chars)
          /\ \A j \in 1..Len(q.chars) : Onward(x).chars[Len(x.chars) + j] = q.chars[j]
    BY <1>3, OnwardIs
  <2>3. h = i /\ q = p
    BY <1>6
  <2> HIDE DEF h, q, p
  <2> QED BY <1>5, <2>1, <2>2, <2>3
<1> DEFINE l == Len(p.chars)
<1>8. l \in 1..(n + 1 - i)
  BY <1>7 DEF IsPiece
<1>9. ReadsTo(i + l, StateAt(i + l, p.state))
  <2>1. y.state = p.state
    BY <1>7, ReadsIs
  <2> HIDE DEF l
  <2>2. Len(y.chars) = (i + l) - 1 /\ i + l \in 1..(n + 1)
    BY <1>1, <1>6, <1>7, <1>8 DEF l
  <2> QED BY <1>4, <2>1, <2>2 DEF ReadsTo, y
<1>10. ASSUME NEW j \in 1..l PROVE Meaning[i + j - 1] = p.chars[j]
  <2> DEFINE z == Reading[n]
  <2>1. IsRead(z) /\ Len(z.chars) >= n
    <3>1. n \in 0..n
      BY <1>1
    <3> QED BY <3>1, ReadingIs
  <2>2. z.chars \in Seq(Meanings) /\ Len(z.chars) = n
    <3>1. z.chars \in Seq(Meanings) /\ Len(z.chars) \in 0..n
      BY <2>1 DEF IsRead, Progress
    <3> QED BY <2>1, <3>1, <1>1
  <2>3. \A h \in 1..n : Meaning[h] = z.chars[h]
    <3> DEFINE e == IF StateAt(n + 1, z.state) = InCode THEN Complete ELSE Unfinished
               S == Meanings \cup {e}
    <3>1. z.chars \in Seq(S) /\ e \in S
      BY <2>2, SeqMonotonic
    <3>2. Meaning = Append(z.chars, e)
      BY DEF Meaning
    <3> HIDE DEF z, e, S
    <3>3. \A h \in 1..Len(z.chars) : Append(z.chars, e)[h] = z.chars[h]
      BY <3>1, AppendProperties
    <3> QED BY <2>2, <3>2, <3>3
  <2>4. \A h \in 1..Len(y.chars) : z.chars[h] = y.chars[h]
    <3>1. n \in (k + 1)..n
      BY <1>1, <1>4
    <3> QED BY <1>4, <3>1, ReadOnce DEF y
  <2> HIDE DEF z, l
  <2>5. i + j - 1 \in 1..n /\ i + j - 1 \in 1..Len(y.chars) /\ i + j - 1 = Len(x.chars) + j
    BY <1>1, <1>6, <1>7, <1>8 DEF l
  <2>6. y.chars[Len(x.chars) + j] = p.chars[j]
    BY <1>7 DEF l
  <2> QED BY <2>3, <2>4, <2>5, <2>6
<1> QED BY <1>7, <1>9, <1>10

(* Pieces of one character, of two, and of many of a kind.                          *)
LEMMA ReadOne ==
  ASSUME text \in Seq(Chars), NEW i \in 1..Len(text), NEW s, ReadsTo(i, s),
         NEW c, NEW t, ReadAt(i, s) = Reads(<<c>>, t)
  PROVE  ReadsTo(i + 1, StateAt(i + 1, t)) /\ Meaning[i] = c
<1> DEFINE p == Reads(<<c>>, t)
<1>1. /\ ReadsTo(i + Len(p.chars), StateAt(i + Len(p.chars), p.state))
      /\ \A j \in 1..Len(p.chars) : Meaning[i + j - 1] = p.chars[j]
  BY ReadOn
<1>2. p.chars = <<c>> /\ p.state = t
  BY ReadsIs
<1>3. Len(<<c>>) = 1 /\ <<c>>[1] = c /\ i + 1 - 1 = i /\ 1 \in 1..1
  OBVIOUS
<1> HIDE DEF p
<1> QED BY <1>1, <1>2, <1>3

LEMMA ReadTwo ==
  ASSUME text \in Seq(Chars), NEW i \in 1..Len(text), NEW s, ReadsTo(i, s),
         NEW c, NEW d, NEW t, ReadAt(i, s) = Reads(<<c, d>>, t)
  PROVE  ReadsTo(i + 2, StateAt(i + 2, t)) /\ Meaning[i] = c /\ Meaning[i + 1] = d
<1> DEFINE p == Reads(<<c, d>>, t)
<1>1. /\ ReadsTo(i + Len(p.chars), StateAt(i + Len(p.chars), p.state))
      /\ \A j \in 1..Len(p.chars) : Meaning[i + j - 1] = p.chars[j]
  BY ReadOn
<1>2. p.chars = <<c, d>> /\ p.state = t
  BY ReadsIs
<1>3. /\ Len(<<c, d>>) = 2 /\ <<c, d>>[1] = c /\ <<c, d>>[2] = d
      /\ i + 1 - 1 = i /\ i + 2 - 1 = i + 1 /\ 1 \in 1..2 /\ 2 \in 1..2
  OBVIOUS
<1> DEFINE q == <<c, d>>
<1>4. Len(q) = 2 /\ q[1] = c /\ q[2] = d
  BY <1>3
<1> HIDE DEF p, q
<1>5. /\ ReadsTo(i + 2, StateAt(i + 2, t))
      /\ \A j \in 1..2 : Meaning[i + j - 1] = q[j]
  BY <1>1, <1>2, <1>4 DEF q
<1>6. Meaning[i + 1 - 1] = q[1] /\ Meaning[i + 2 - 1] = q[2]
  BY <1>3, <1>5
<1> QED BY <1>3, <1>4, <1>5, <1>6

LEMMA ReadTimes ==
  ASSUME text \in Seq(Chars), NEW i \in 1..Len(text), NEW s, ReadsTo(i, s),
         NEW len \in Nat, NEW c \in Meanings, NEW t, ReadAt(i, s) = Reads(Times(len, c), t)
  PROVE  /\ i + len \in 1..(Len(text) + 1) /\ ReadsTo(i + len, StateAt(i + len, t))
         /\ \A j \in i..(i + len - 1) : Meaning[j] = c
<1> DEFINE p == Reads(Times(len, c), t)
           q == Times(len, c)
<1>1. /\ ReadsTo(i + Len(p.chars), StateAt(i + Len(p.chars), p.state))
      /\ \A j \in 1..Len(p.chars) : Meaning[i + j - 1] = p.chars[j]
  BY ReadOn
<1>2. p.chars = q /\ p.state = t
  BY ReadsIs
<1>3. Len(q) = len /\ \A j \in 1..len : q[j] = c
  BY TimesIs
<1> HIDE DEF p, q
<1>4. ReadsTo(i + len, StateAt(i + len, t)) /\ \A j \in 1..len : Meaning[i + j - 1] = c
  BY <1>1, <1>2, <1>3
<1>5. ASSUME NEW j \in i..(i + len - 1) PROVE Meaning[j] = c
  <2>1. j + 1 - i \in 1..len /\ i + (j + 1 - i) - 1 = j
    OBVIOUS
  <2>2. Meaning[i + (j + 1 - i) - 1] = c
    BY <1>4, <2>1
  <2> QED BY <2>1, <2>2
<1> QED BY <1>4, <1>5 DEF ReadsTo

(* A run of characters, each of which is read as one piece.                        *)
LEMMA ReadRun ==
  ASSUME text \in Seq(Chars), NEW i \in 1..(Len(text) + 1), NEW e \in i..(Len(text) + 1),
         NEW s, ReadsTo(i, s), NEW c,
         \A j \in i..(e - 1) : ReadAt(j, s) = Reads(<<c[j]>>, s),
         \A j \in (i + 1)..(e - 1) : StateAt(j, s) = s
  PROVE  /\ ReadsTo(e, IF e = i THEN s ELSE StateAt(e, s))
         /\ \A j \in i..(e - 1) : Meaning[j] = c[j]
<1> DEFINE D == i..e
           St(h) == IF h = i THEN s ELSE StateAt(h, s)
           P == {h \in D : ReadsTo(h, St(h)) /\ \A j \in i..(h - 1) : Meaning[j] = c[j]}
           r == [h \in D |-> h]
<1>1. Len(text) \in Nat
  BY AtIs
<1>2. ASSUME NEW h \in D, Lower(D, r, h) \subseteq P PROVE h \in P
  <2>1. CASE h = i
    <3>1. i..(i - 1) = {}
      BY <1>1
    <3> QED BY <2>1, <3>1
  <2>2. CASE h # i
    <3> DEFINE g == h - 1
    <3>1. g \in Lower(D, r, h)
      BY <1>1, <2>2 DEF Lower
    <3>2. ReadsTo(g, St(g)) /\ \A j \in i..(g - 1) : Meaning[j] = c[j]
      BY <1>2, <3>1
    <3>3. g \in i..(e - 1) /\ g \in 1..Len(text) /\ g + 1 = h /\ g # h
          /\ \A j \in i..(h - 1) : j = g \/ j \in i..(g - 1)
      BY <1>1, <2>2
    <3>4. St(g) = s
      BY <3>3
    <3> HIDE DEF g
    <3>5. ReadsTo(g + 1, StateAt(g + 1, s)) /\ Meaning[g] = c[g]
      BY <3>2, <3>3, <3>4, ReadOne
    <3>6. ReadsTo(h, St(h))
      BY <2>2, <3>3, <3>5
    <3> HIDE DEF St
    <3> QED BY <3>2, <3>3, <3>5, <3>6
  <2> QED BY <2>1, <2>2
<1>3. P = D
  <2>1. P \in SUBSET D /\ r \in [D -> Nat]
    BY <1>1
  <2> HIDE DEF P, D, r
  <2> QED BY <1>2, <2>1, ByRank
<1>4. e \in P
  BY <1>1, <1>3
<1> QED BY <1>4

-----------------------------------------------------------------------------
(* What the characters of a literal add to it, put together.                       *)

(* Function f has what the first i sequences make together.                         *)
IsFlattened(f, ss, m, W) ==
  /\ f \in [1..m -> W] /\ FlattenSeq(ss) = f[m]
  /\ \A i \in 1..m : f[i] = IF i = 1 THEN ss[i] ELSE f[i - 1] \o ss[i]

(* A flattened sequence is put together from the left.                              *)
LEMMA FlattenIs ==
  ASSUME NEW V, NEW m \in Nat \ {0}, NEW ss \in [1..m -> Seq(V)]
  PROVE  \E f : IsFlattened(f, ss, m, Seq(V))
<1> DEFINE D == 1..m
           W == Seq(V)
           F == [D -> W]
           Goes(f, i) == IF i = 1 THEN ss[i] ELSE f[i - 1] \o ss[i]
           B == [p \in F \X D |-> Goes(p[1], p[2])]
           r == [i \in D |-> i]
<1>1. /\ Len(ss) = m /\ m \in D /\ \A i \in D : i = 1 \/ i - 1 \in D
      /\ \A a, b \in W : a \o b \in W
  <2>1. Len(ss) = m
    BY LenProperties
  <2>2. \A a, b \in W : a \o b \in W
    BY ConcatProperties
  <2> QED BY <2>1, <2>2
<1> HIDE DEF W
<1>2. \A f \in F, i \in D : Goes(f, i) \in W
  BY <1>1 DEF W
<1>3. IsBody(B, D, r, W)
  <2>1. B \in [F \X D -> W]
    BY <1>2
  <2>2. ASSUME NEW f \in F, NEW g \in F, NEW i \in D, Same(f, g, Lower(D, r, i))
        PROVE  B[<<f, i>>] = B[<<g, i>>]
    <3>1. i = 1 \/ (i - 1 \in D /\ r[i - 1] < r[i])
      BY <1>1
    <3>2. i = 1 \/ f[i - 1] = g[i - 1]
      BY <2>2, <3>1 DEF Same, Lower
    <3>3. B[<<f, i>>] = Goes(f, i) /\ B[<<g, i>>] = Goes(g, i)
      OBVIOUS
    <3> QED BY <3>2, <3>3
  <2> HIDE DEF B
  <2> QED BY <2>1, <2>2 DEF IsBody
<1>4. PICK f \in F : f = [i \in D |-> Goes(f, i)]
  <2>1. r \in [D -> 0..m] /\ W # {}
    <3>1. <<>> \in W
      BY DEF W
    <3> QED BY <3>1
  <2>2. Defines(B, D, W)
    <3> HIDE DEF B, D, r
    <3> QED BY <1>3, <2>1, Recursion
  <2>3. PICK f \in F : f = [i \in D |-> B[<<f, i>>]]
    BY <2>2 DEF Defines
  <2>4. \A i \in D : B[<<f, i>>] = Goes(f, i)
    OBVIOUS
  <2>5. f = [i \in D |-> Goes(f, i)]
    <3> HIDE DEF B, Goes
    <3> QED BY <2>3, <2>4
  <2> QED BY <2>5
<1> DEFINE Good(g) == g = [i \in D |-> Goes(g, i)]
           flatten == CHOOSE g : Good(g)
<1>5. Good(flatten)
  <2> HIDE DEF Good
  <2> SUFFICES \E g : Good(g)
    BY Zenon
  <2> QED BY <1>4 DEF Good
<1>6. FlattenSeq(ss) = flatten[m]
  <2>1. ~(Len(ss) = 0)
    BY <1>1
  <2> QED BY <1>1, <2>1 DEF FlattenSeq
<1>7. \A i \in D : flatten[i] = Goes(flatten, i)
  <2> HIDE DEF flatten
  <2>1. flatten = [i \in D |-> Goes(flatten, i)]
    BY <1>5
  <2> HIDE DEF Goes
  <2> QED BY <2>1, Zenon
<1>8. flatten = [i \in D |-> flatten[i]]
  <2> HIDE DEF flatten
  <2> QED BY <1>5
<1> HIDE DEF flatten
<1> DEFINE P == {i \in D : flatten[i] \in W}
<1>9. \A i \in D : i = 1 \/ i - 1 \in P => i \in P
  <2> SUFFICES ASSUME NEW i \in D, i = 1 \/ i - 1 \in P
               PROVE  flatten[i] \in W
    OBVIOUS
  <2>1. ss[i] \in W
    BY DEF W
  <2>2. flatten[i] = Goes(flatten, i)
    BY <1>7
  <2> HIDE DEF D
  <2>3. CASE i = 1
    BY <2>1, <2>2, <2>3
  <2>4. CASE i # 1
    <3>1. flatten[i - 1] \in W
      BY <2>4
    <3>2. flatten[i] = flatten[i - 1] \o ss[i]
      BY <2>2, <2>4
    <3> HIDE DEF P
    <3> QED BY <1>1, <2>1, <3>1, <3>2
  <2> QED BY <2>3, <2>4
<1>10. P = D
  <2>1. P \in SUBSET D
    OBVIOUS
  <2> HIDE DEF P
  <2> QED BY <1>9, <2>1, Upwards
<1>11. flatten \in [1..m -> Seq(V)]
  <2>1. \A i \in D : flatten[i] \in W
    BY <1>10
  <2> HIDE DEF D, P
  <2>2. flatten \in [D -> W]
    BY <1>8, <2>1
  <2> QED BY <2>2 DEF D, W
<1>12. IsFlattened(flatten, ss, m, Seq(V))
  BY <1>6, <1>7, <1>11 DEF IsFlattened
<1> QED BY <1>12

(* What one sequence more adds to a flattened one.                                  *)
LEMMA FlattenSnoc ==
  ASSUME NEW V, NEW m \in Nat, NEW ss \in [1..(m + 1) -> Seq(V)]
  PROVE  /\ FlattenSeq([k \in 1..m |-> ss[k]]) \in Seq(V)
         /\ FlattenSeq(ss) = FlattenSeq([k \in 1..m |-> ss[k]]) \o ss[m + 1]
<1> DEFINE tt == [k \in 1..m |-> ss[k]]
<1>0. PICK f : IsFlattened(f, ss, m + 1, Seq(V))
  <2>1. m + 1 \in Nat \ {0}
    OBVIOUS
  <2> QED BY <2>1, FlattenIs, Zenon
<1>1. /\ FlattenSeq(ss) = f[m + 1] /\ \A i \in 1..(m + 1) : f[i] \in Seq(V)
      /\ \A i \in 1..(m + 1) : f[i] = IF i = 1 THEN ss[i] ELSE f[i - 1] \o ss[i]
  BY <1>0, Zenon DEF IsFlattened
<1>2. CASE m = 0
  <2>1. tt = <<>>
    BY <1>2
  <2>2. FlattenSeq(<<>>) = <<>>
    <3>1. Len(<<>>) = 0
      OBVIOUS
    <3> QED BY <3>1, Zenon DEF FlattenSeq
  <2>3. ss[1] \in Seq(V) /\ FlattenSeq(ss) = ss[1]
    BY <1>1, <1>2
  <2>4. <<>> \o ss[1] = ss[1] /\ <<>> \in Seq(V)
    BY <2>3, ConcatEmptySeq
  <2>5. ss[m + 1] = ss[1]
    BY <1>2
  <2> HIDE DEF tt
  <2>6. FlattenSeq(tt) = <<>>
    BY <2>1, <2>2
  <2>7. FlattenSeq(ss) = FlattenSeq(tt) \o ss[m + 1]
    BY <2>3, <2>4, <2>5, <2>6, Zenon
  <2> QED BY <2>4, <2>6, <2>7, Zenon DEF tt
<1>3. CASE m # 0
  <2>1. tt \in [1..m -> Seq(V)] /\ \A k \in 1..m : tt[k] = ss[k]
    OBVIOUS
  <2>0. PICK g : IsFlattened(g, tt, m, Seq(V))
    <3>1. m \in Nat \ {0}
      BY <1>3
    <3> HIDE DEF tt
    <3> QED BY <2>1, <3>1, FlattenIs, Zenon
  <2>2. /\ FlattenSeq(tt) = g[m] /\ \A i \in 1..m : g[i] \in Seq(V)
        /\ \A i \in 1..m : g[i] = IF i = 1 THEN tt[i] ELSE g[i - 1] \o tt[i]
    <3> HIDE DEF tt
    <3> QED BY <2>0, Zenon DEF IsFlattened
  <2> HIDE DEF tt
  <2> DEFINE D == 1..m
             P == {i \in D : f[i] = g[i]}
  <2>3. \A i \in D : i = 1 \/ i - 1 \in P => i \in P
    <3> SUFFICES ASSUME NEW i \in D, i = 1 \/ f[i - 1] = g[i - 1] PROVE f[i] = g[i]
      OBVIOUS
    <3>1. i \in 1..(m + 1)
      OBVIOUS
    <3>2. f[i] = IF i = 1 THEN ss[i] ELSE f[i - 1] \o ss[i]
      BY <1>1, <3>1
    <3>3. g[i] = IF i = 1 THEN ss[i] ELSE g[i - 1] \o ss[i]
      BY <2>1, <2>2
    <3> QED BY <3>2, <3>3
  <2>4. P = D
    <3>1. P \in SUBSET D
      OBVIOUS
    <3> HIDE DEF P
    <3> QED BY <2>3, <3>1, Upwards
  <2>5. m \in P
    <3>1. m \in D
      BY <1>3
    <3> HIDE DEF P
    <3> QED BY <2>4, <3>1
  <2>6. f[m] = g[m] /\ g[m] \in Seq(V)
    <3>1. m \in 1..m
      BY <1>3
    <3> QED BY <2>2, <2>5, <3>1, Zenon
  <2>7. f[m + 1] = f[m] \o ss[m + 1]
    <3>1. m + 1 \in 1..(m + 1) /\ m + 1 # 1 /\ (m + 1) - 1 = m
      BY <1>3
    <3> QED BY <1>1, <3>1
  <2> QED BY <1>1, <2>2, <2>6, <2>7 DEF tt
<1> QED BY <1>2, <1>3

Added == Seq(Chars \cup {"BS"})

(* Every character has one meaning.                                                 *)
LEMMA MeaningIs ==
  ASSUME text \in Seq(Chars), NEW j \in 1..Len(text)
  PROVE  Meaning[j] \in Meanings /\ Meaning[j].adds \in Added
<1> DEFINE n == Len(text)
           z == Reading[n]
           e == IF StateAt(n + 1, z.state) = InCode THEN Complete ELSE Unfinished
           S == Meanings \cup {e}
<1>1. n \in Nat /\ n \in 0..n
  BY AtIs
<1>2. IsRead(z) /\ Len(z.chars) >= n
  BY <1>1, ReadingIs
<1>3. z.chars \in Seq(Meanings) /\ Len(z.chars) = n
  <2>1. z.chars \in Seq(Meanings) /\ Len(z.chars) \in 0..n
    BY <1>2 DEF IsRead, Progress
  <2> QED BY <1>1, <1>2, <2>1
<1>4. Meaning = Append(z.chars, e)
  BY DEF Meaning
<1>5. z.chars \in Seq(S) /\ e \in S
  BY <1>3, SeqMonotonic
<1> HIDE DEF z, e, S
<1>6. Append(z.chars, e)[j] = z.chars[j]
  BY <1>3, <1>5, AppendProperties
<1>7. z.chars[j] \in Meanings
  BY <1>3, ElementOfSeq
<1>8. Meaning[j] \in Meanings
  BY <1>4, <1>6, <1>7
<1> QED BY <1>8 DEF Meanings, Added

Gathered(i, e) == FlattenSeq([k \in 1..(e - i) |-> Meaning[i + k - 1].adds])

(* What the characters from i on add to a literal: one more.                        *)
LEMMA GatherOne ==
  ASSUME text \in Seq(Chars), NEW i \in 1..(Len(text) + 1), NEW e \in i..Len(text)
  PROVE  /\ Gathered(i, e) \in Added
         /\ Gathered(i, e + 1) = Gathered(i, e) \o Meaning[e].adds
<1> DEFINE m == e - i
           ss == [k \in 1..(m + 1) |-> Meaning[i + k - 1].adds]
           tt == [k \in 1..m |-> Meaning[i + k - 1].adds]
<1>1. m \in Nat /\ (e + 1) - i = m + 1 /\ i + (m + 1) - 1 = e /\ m + 1 \in 1..(m + 1)
  BY AtIs
<1>2. ss \in [1..(m + 1) -> Added]
  <2>1. ASSUME NEW k \in 1..(m + 1) PROVE Meaning[i + k - 1].adds \in Added
    <3>1. i + k - 1 \in 1..Len(text)
      BY AtIs
    <3> QED BY <3>1, MeaningIs
  <2> HIDE DEF m
  <2> QED BY <2>1
<1>3. tt = [k \in 1..m |-> ss[k]]
  <2>1. \A k \in 1..m : k \in 1..(m + 1)
    BY <1>1
  <2> HIDE DEF m
  <2> QED BY <2>1
<1>4. ss[m + 1] = Meaning[e].adds
  <2>1. ss[m + 1] = Meaning[i + (m + 1) - 1].adds
    <3> HIDE DEF m
    <3> QED BY <1>1
  <2> HIDE DEF ss, m
  <2> QED BY <1>1, <2>1
<1>5. FlattenSeq([k \in 1..m |-> ss[k]]) \in Added
      /\ FlattenSeq(ss) = FlattenSeq([k \in 1..m |-> ss[k]]) \o ss[m + 1]
  <2> HIDE DEF ss, m
  <2> QED BY <1>1, <1>2, FlattenSnoc DEF Added
<1>6. Gathered(i, e) = FlattenSeq(tt) /\ Gathered(i, e + 1) = FlattenSeq(ss)
  <2>1. Gathered(i, e) = FlattenSeq(tt)
    BY DEF Gathered
  <2>2. Gathered(i, e + 1) = FlattenSeq([k \in 1..((e + 1) - i) |-> Meaning[i + k - 1].adds])
    BY DEF Gathered
  <2>3. [k \in 1..((e + 1) - i) |-> Meaning[i + k - 1].adds] = ss
    BY <1>1
  <2> QED BY <2>1, <2>2, <2>3
<1> HIDE DEF ss, tt, m
<1> QED BY <1>3, <1>4, <1>5, <1>6

(* None yet.                                                                        *)
LEMMA GatherStart == ASSUME NEW i \in Int PROVE Gathered(i, i) = <<>>
<1>1. [k \in 1..(i - i) |-> Meaning[i + k - 1].adds] = <<>>
  OBVIOUS
<1>2. FlattenSeq(<<>>) = <<>>
  <2>1. Len(<<>>) = 0
    OBVIOUS
  <2> QED BY <2>1, Zenon DEF FlattenSeq
<1> QED BY <1>1, <1>2 DEF Gathered

(* Characters that add nothing.                                                     *)
LEMMA GatherNone ==
  ASSUME text \in Seq(Chars), NEW i \in 1..(Len(text) + 1), NEW e \in i..(Len(text) + 1),
         NEW h \in e..(Len(text) + 1), \A j \in e..(h - 1) : Meaning[j].adds = <<>>
  PROVE  Gathered(i, h) = Gathered(i, e)
<1> DEFINE m == h - e
           P == {k \in 1..m : Gathered(i, e + k) = Gathered(i, e)}
<1>1. m \in Nat /\ e + m = h /\ (m = 0 => h = e)
  BY AtIs
<1>2. ASSUME NEW k \in 1..m, k = 1 \/ k - 1 \in P PROVE k \in P
  <2> DEFINE g == e + (k - 1)
  <2>1. g \in i..Len(text) /\ g \in e..(h - 1) /\ g + 1 = e + k /\ (k = 1 => g = e)
    BY AtIs
  <2>2. Gathered(i, g) = Gathered(i, e)
    BY <1>2, <2>1
  <2> HIDE DEF g
  <2>3. Gathered(i, g) \in Added /\ Gathered(i, g + 1) = Gathered(i, g) \o <<>>
    BY <2>1, GatherOne
  <2>4. Gathered(i, g) \o <<>> = Gathered(i, g)
    BY <2>3, ConcatEmptySeq DEF Added
  <2> QED BY <2>1, <2>2, <2>3, <2>4
<1>3. P = 1..m
  <2>1. P \in SUBSET (1..m)
    OBVIOUS
  <2> HIDE DEF P, m
  <2> QED BY <1>1, <1>2, <2>1, Upwards
<1>4. m # 0 => m \in P
  <2> HIDE DEF P
  <2> QED BY <1>1, <1>3
<1> HIDE DEF m
<1> QED BY <1>1, <1>4

(* Adding in turn.                                                                   *)
LEMMA AddedInTurn == \A x, y, z \in Added : (x \o y) \o z = x \o (y \o z)
BY ConcatAssociative DEF Added

(* Characters that stand for themselves.                                            *)
LEMMA GatherText ==
  ASSUME text \in Seq(Chars), NEW i \in 1..(Len(text) + 1), NEW e \in i..Len(text),
         NEW h \in e..(Len(text) + 1), \A j \in e..(h - 1) : Meaning[j].adds = <<At(j)>>
  PROVE  Gathered(i, h) = Gathered(i, e) \o SubSeq(text, e, h - 1)
<1> DEFINE m == h - e
           base == Gathered(i, e)
           cut(k) == SubSeq(text, e, e + k - 1)
           P == {k \in 1..m : Gathered(i, e + k) = base \o cut(k)}
<1>1. m \in Nat /\ e + m = h /\ (m = 0 => h = e) /\ e + m - 1 = h - 1
  BY AtIs
<1>2. base \in Added
  BY GatherOne
<1>3. Chars \subseteq Chars \cup {"BS"}
  OBVIOUS
<1> HIDE DEF base
<1>4. ASSUME NEW k \in 1..m, k = 1 \/ k - 1 \in P PROVE k \in P
  <2> DEFINE g == e + (k - 1)
             a == cut(k - 1)
  <2>1. /\ g \in i..Len(text) /\ g \in e..(h - 1) /\ g + 1 = e + k /\ (k = 1 => g = e)
        /\ g \in 1..Len(text) /\ e \in 1..Len(text) /\ g \in e..Len(text) /\ e + k - 1 = g
        /\ e + (k - 1) - 1 = g - 1
    BY AtIs
  <2>2. a \in Added /\ (k = 1 => a = <<>>)
    <3>1. a = SubSeq(text, e, g - 1)
      BY <2>1
    <3>2. e \in 1..(Len(text) + 1) /\ g - 1 \in (e - 1)..Len(text)
      BY <2>1, AtIs
    <3> HIDE DEF g
    <3>3. PICK y \in (e - 1)..Len(text) : y = g - 1
      BY <3>2
    <3>4. SubSeq(text, e, y) \in Seq(Chars)
      BY <3>2, PartOf
    <3>5. SubSeq(text, e, y) \in Added
      BY <1>3, <3>4, SeqMonotonic DEF Added
    <3>6. k = 1 => SubSeq(text, e, g - 1) = <<>>
      <4>1. k = 1 => g - 1 < e /\ e \in Int /\ g - 1 \in Int
        BY <2>1
      <4> QED BY <4>1, SubSeqEmpty
    <3> HIDE DEF a
    <3> QED BY <3>1, <3>3, <3>5, <3>6
  <2>3. Gathered(i, g) = base \o a
    <3>1. CASE k = 1
      BY <2>1, <2>2, <3>1, <1>2, ConcatEmptySeq DEF Added, base
    <3>2. CASE k # 1
      BY <1>4, <3>2
    <3> QED BY <3>1, <3>2
  <2>4. cut(k) = a \o <<At(g)>>
    <3>1. SubSeq(text, e, g) = SubSeq(text, e, g - 1) \o <<text[g]>>
      <4> HIDE DEF g
      <4> QED BY <2>1, SubSeqRecursiveSecond
    <3>2. text[g] = At(g)
      <4> HIDE DEF g
      <4> QED BY <2>1, AtIs
    <3> QED BY <2>1, <3>1, <3>2
  <2>5. Gathered(i, g + 1) = (base \o a) \o <<At(g)>>
    <3>1. Gathered(i, g + 1) = Gathered(i, g) \o Meaning[g].adds
      <4> HIDE DEF g
      <4> QED BY <2>1, GatherOne
    <3>2. Meaning[g].adds = <<At(g)>>
      <4> HIDE DEF g
      <4> QED BY <2>1
    <3> QED BY <2>3, <3>1, <3>2
  <2>6. (base \o a) \o <<At(g)>> = base \o (a \o <<At(g)>>)
    <3>1. <<At(g)>> \in Added
      <4>1. At(g) \in Chars \cup {"BS"}
        BY <2>1, AtIs
      <4> HIDE DEF g
      <4> QED BY <4>1 DEF Added
    <3> HIDE DEF g, a
    <3>2. base \in Added /\ a \in Added
      BY <1>2, <2>2
    <3> QED BY <3>1, <3>2, AddedInTurn, Zenon
  <2> HIDE DEF g, a, cut
  <2> QED BY <2>1, <2>4, <2>5, <2>6
<1>5. P = 1..m
  <2>1. P \in SUBSET (1..m)
    OBVIOUS
  <2> HIDE DEF P, m
  <2> QED BY <1>1, <1>4, <2>1, Upwards
<1>6. CASE m = 0
  <2>1. SubSeq(text, e, h - 1) = <<>>
    <3>1. h - 1 < e /\ e \in Int /\ h - 1 \in Int
      BY <1>6
    <3> QED BY <3>1, SubSeqEmpty
  <2>2. base \o <<>> = base
    BY <1>2, ConcatEmptySeq DEF Added
  <2> HIDE DEF m
  <2> QED BY <1>1, <1>6, <2>1, <2>2 DEF base
<1>7. CASE m # 0
  <2>1. m \in P
    <3> HIDE DEF P
    <3> QED BY <1>1, <1>5, <1>7
  <2>2. Gathered(i, e + m) = base \o SubSeq(text, e, e + m - 1)
    BY <2>1
  <2> HIDE DEF m
  <2> QED BY <1>1, <2>2 DEF base
<1> QED BY <1>6, <1>7

-----------------------------------------------------------------------------
(* Numbers: the same by positions, and the longest.                              *)
Decimal(i, e) ==
  /\ \A j \in i..(e - 1) : At(j) \in Digits \cup {"."}
  /\ \E j \in i..(e - 1) : At(j) \in Digits
  /\ \A j, k \in i..(e - 1) : At(j) = "." /\ At(k) = "." => j = k
AllDigits(i, e) == i < e /\ \A j \in i..(e - 1) : At(j) \in Digits
Exponent(i, e) == AllDigits(i, e) \/ (At(i) \in {"+", "-"} /\ AllDigits(i + 1, e))

LEMMA ToSetIs == ASSUME NEW S, NEW s \in Seq(S) PROVE ToSet(s) = {s[k] : k \in 1..Len(s)}
<1>1. DOMAIN s = 1..Len(s)
  BY LenProperties
<1> QED BY <1>1 DEF ToSet

(* A part of a text and its positions.                                              *)
LEMMA ByPosition ==
  ASSUME text \in Seq(Chars), NEW i \in 1..(Len(text) + 1), NEW e \in i..(Len(text) + 1)
  PROVE  LET s == SubSeq(text, i, e - 1)
         IN  /\ s \in Seq(Chars) /\ Len(s) = e - i /\ DOMAIN s = 1..(e - i)
             /\ \A k \in 1..(e - i) : s[k] = At(i + k - 1) /\ i + k - 1 \in i..(e - 1)
             /\ \A j \in i..(e - 1) : At(j) = s[j + 1 - i] /\ j + 1 - i \in 1..(e - i)
<1> DEFINE s == SubSeq(text, i, e - 1)
<1>1. PICK y \in (i - 1)..Len(text) : y = e - 1
  <2>1. e - 1 \in (i - 1)..Len(text)
    BY AtIs
  <2> QED BY <2>1
<1>2. /\ SubSeq(text, i, y) \in Seq(Chars) /\ Len(SubSeq(text, i, y)) = y + 1 - i
      /\ \A k \in 1..(y + 1 - i) : SubSeq(text, i, y)[k] = At(i + k - 1)
  BY PartOf
<1>3. s \in Seq(Chars) /\ Len(s) = e - i /\ \A k \in 1..(e - i) : s[k] = At(i + k - 1)
  <2>1. y + 1 - i = e - i /\ s = SubSeq(text, i, y)
    BY <1>1, AtIs
  <2> HIDE DEF s
  <2> QED BY <1>2, <2>1
<1> HIDE DEF s
<1>4. DOMAIN s = 1..(e - i)
  BY <1>3, LenProperties
<1>5. ASSUME NEW j \in i..(e - 1) PROVE At(j) = s[j + 1 - i] /\ j + 1 - i \in 1..(e - i)
  <2>1. j + 1 - i \in 1..(e - i) /\ i + (j + 1 - i) - 1 = j
    BY AtIs
  <2> QED BY <1>3, <2>1
<1>6. \A k \in 1..(e - i) : i + k - 1 \in i..(e - 1)
  BY AtIs
<1> QED BY <1>3, <1>4, <1>5, <1>6 DEF s

(* Integers, decimals, exponents and numbers, by the positions they are at.         *)
LEMMA IntegerIs ==
  ASSUME text \in Seq(Chars), NEW i \in 1..(Len(text) + 1), NEW e \in i..(Len(text) + 1)
  PROVE  IsInteger(SubSeq(text, i, e - 1)) <=> AllDigits(i, e)
<1> DEFINE s == SubSeq(text, i, e - 1)
<1>1. /\ s \in Seq(Chars) /\ Len(s) = e - i /\ DOMAIN s = 1..(e - i)
      /\ \A k \in 1..(e - i) : s[k] = At(i + k - 1) /\ i + k - 1 \in i..(e - 1)
      /\ \A j \in i..(e - 1) : At(j) = s[j + 1 - i] /\ j + 1 - i \in 1..(e - i)
  BY ByPosition
<1> HIDE DEF s
<1>2. s # <<>> <=> i < e
  <2>1. s = <<>> <=> Len(s) = 0
    BY <1>1, EmptySeq
  <2> QED BY <1>1, <2>1
<1>3. ToSet(s) = {s[k] : k \in 1..(e - i)}
  BY <1>1, ToSetIs
<1>4. ToSet(s) \subseteq Digits <=> \A j \in i..(e - 1) : At(j) \in Digits
  BY <1>1, <1>3
<1> QED BY <1>2, <1>4 DEF IsInteger, AllDigits, s

LEMMA DecimalIs ==
  ASSUME text \in Seq(Chars), NEW i \in 1..(Len(text) + 1), NEW e \in i..(Len(text) + 1)
  PROVE  IsDecimal(SubSeq(text, i, e - 1)) <=> Decimal(i, e)
<1> DEFINE s == SubSeq(text, i, e - 1)
<1>1. /\ s \in Seq(Chars) /\ Len(s) = e - i /\ DOMAIN s = 1..(e - i)
      /\ \A k \in 1..(e - i) : s[k] = At(i + k - 1) /\ i + k - 1 \in i..(e - 1)
      /\ \A j \in i..(e - 1) : At(j) = s[j + 1 - i] /\ j + 1 - i \in 1..(e - i)
  BY ByPosition
<1> HIDE DEF s
<1>2. ToSet(s) = {s[k] : k \in 1..(e - i)}
  BY <1>1, ToSetIs
<1>3. /\ ToSet(s) \subseteq Digits \cup {"."} <=> \A j \in i..(e - 1) : At(j) \in Digits \cup {"."}
      /\ ToSet(s) \cap Digits # {} <=> \E j \in i..(e - 1) : At(j) \in Digits
  <2>1. ToSet(s) \subseteq Digits \cup {"."} <=> \A j \in i..(e - 1) : At(j) \in Digits \cup {"."}
    BY <1>1, <1>2
  <2>2. ToSet(s) \cap Digits # {} <=> \E j \in i..(e - 1) : At(j) \in Digits
    BY <1>1, <1>2
  <2> QED BY <2>1, <2>2
<1>4. (\A j, k \in DOMAIN s : s[j] = "." /\ s[k] = "." => j = k)
        <=> \A j, k \in i..(e - 1) : At(j) = "." /\ At(k) = "." => j = k
  <2>1. ASSUME \A j, k \in DOMAIN s : s[j] = "." /\ s[k] = "." => j = k,
               NEW j \in i..(e - 1), NEW k \in i..(e - 1), At(j) = ".", At(k) = "."
        PROVE  j = k
    <3>1. j + 1 - i = k + 1 - i
      BY <1>1, <2>1
    <3> QED BY <3>1, AtIs
  <2>2. ASSUME \A j, k \in i..(e - 1) : At(j) = "." /\ At(k) = "." => j = k,
               NEW j \in 1..(e - i), NEW k \in 1..(e - i), s[j] = ".", s[k] = "."
        PROVE  j = k
    <3>1. i + j - 1 = i + k - 1
      BY <1>1, <2>2
    <3> QED BY <3>1, AtIs
  <2> QED BY <1>1, <2>1, <2>2
<1> QED BY <1>3, <1>4 DEF IsDecimal, Decimal, s

LEMMA ExponentIs ==
  ASSUME text \in Seq(Chars), NEW i \in 1..(Len(text) + 1), NEW e \in i..(Len(text) + 1)
  PROVE  IsExponent(SubSeq(text, i, e - 1)) <=> Exponent(i, e)
<1> DEFINE s == SubSeq(text, i, e - 1)
<1>1. /\ s \in Seq(Chars) /\ Len(s) = e - i
      /\ \A k \in 1..(e - i) : s[k] = At(i + k - 1)
  BY ByPosition
<1>2. IsInteger(s) <=> AllDigits(i, e)
  BY IntegerIs
<1>3. CASE i = e
  <2>1. s = <<>>
    <3>1. e - 1 < i /\ i \in Int /\ e - 1 \in Int
      BY <1>3, AtIs
    <3> QED BY <3>1, SubSeqEmpty
  <2>2. ~AllDigits(i, e) /\ ~AllDigits(i + 1, e)
    BY <1>3, AtIs DEF AllDigits
  <2> HIDE DEF s
  <2> QED BY <2>1, <2>2 DEF IsExponent, Exponent, s
<1>4. CASE i # e
  <2>1. i \in 1..Len(text) /\ e - 1 \in i..Len(text) /\ i + 1 \in 1..(Len(text) + 1)
        /\ e \in (i + 1)..(Len(text) + 1) /\ i + 1 - 1 = i /\ 1 \in 1..(e - i)
    BY <1>4, AtIs
  <2>2. Tail(s) = SubSeq(text, i + 1, e - 1)
    <3>1. PICK m \in 1..Len(text) : m = i
      BY <2>1
    <3>2. PICK h \in m..Len(text) : h = e - 1
      BY <2>1, <3>1
    <3>3. Tail(SubSeq(text, m, h)) = SubSeq(text, m + 1, h)
      BY HeadTailOfSubSeq
    <3> QED BY <3>1, <3>2, <3>3
  <2>3. IsInteger(Tail(s)) <=> AllDigits(i + 1, e)
    <3>1. PICK m \in 1..(Len(text) + 1) : m = i + 1
      BY <2>1
    <3>2. e \in m..(Len(text) + 1)
      BY <2>1, <3>1
    <3>3. IsInteger(SubSeq(text, m, e - 1)) <=> AllDigits(m, e)
      BY <3>2, IntegerIs
    <3> QED BY <2>2, <3>1, <3>3
  <2> HIDE DEF s
  <2>4. s # <<>> /\ Head(s) = At(i)
    <3>1. s # <<>>
      <4>1. s = <<>> <=> Len(s) = 0
        BY <1>1, EmptySeq
      <4> QED BY <1>1, <2>1, <4>1
    <3>2. Head(s) = s[1]
      BY <1>1, <3>1
    <3>3. s[1] = At(i + 1 - 1)
      BY <1>1, <2>1
    <3> QED BY <2>1, <3>1, <3>2, <3>3
  <2>5. IsExponent(s) <=> Exponent(i, e)
    BY <1>2, <2>3, <2>4, Zenon DEF IsExponent, Exponent
  <2> QED BY <2>5 DEF s
<1> QED BY <1>3, <1>4

LEMMA NumberIs ==
  ASSUME text \in Seq(Chars), NEW i \in 1..(Len(text) + 1), NEW e \in i..(Len(text) + 1)
  PROVE  IsNumber(SubSeq(text, i, e - 1)) <=>
           \/ Decimal(i, e)
           \/ \E x \in (i + 1)..(e - 1) : At(x) = "e" /\ Decimal(i, x) /\ Exponent(x + 1, e)
<1> DEFINE s == SubSeq(text, i, e - 1)
<1>1. /\ s \in Seq(Chars) /\ Len(s) = e - i
      /\ \A k \in 1..(e - i) : s[k] = At(i + k - 1) /\ i + k - 1 \in i..(e - 1)
      /\ \A j \in i..(e - 1) : At(j) = s[j + 1 - i] /\ j + 1 - i \in 1..(e - i)
  BY ByPosition
<1>2. IsDecimal(s) <=> Decimal(i, e)
  BY DecimalIs
<1>3. ASSUME NEW k \in 2..(e - i)
      PROVE  /\ IsDecimal(SubSeq(s, 1, k - 1)) <=> Decimal(i, i + k - 1)
             /\ IsExponent(SubSeq(s, k + 1, Len(s))) <=> Exponent(i + k, e)
  <2>1. PICK x \in (i + 1)..(e - 1) : x = i + k - 1
    <3>1. i + k - 1 \in (i + 1)..(e - 1)
      BY AtIs
    <3> QED BY <3>1
  <2>2. /\ i \in 1..Len(text) /\ e - 1 \in 1..Len(text) /\ x \in i..(Len(text) + 1)
        /\ x + 1 \in 1..(Len(text) + 1) /\ e \in (x + 1)..(Len(text) + 1)
        /\ 1 \in 1..((e - 1) - i + 1) /\ k - 1 \in 1..((e - 1) - i + 1) /\ i + 1 - 1 = i
        /\ i + (k - 1) - 1 = x - 1 /\ i + k = x + 1
    BY <2>1, AtIs
  <2>3. PICK h \in 1..Len(text) : h = e - 1
    BY <2>2
  <2>4. SubSeq(s, 1, k - 1) = SubSeq(text, i, x - 1)
    <3>1. PICK m \in 1..(h - i + 1) : m = k - 1
      BY <2>2, <2>3
    <3>2. 1 \in 1..(h - i + 1)
      BY <2>2, <2>3
    <3>3. SubSeq(SubSeq(text, i, h), 1, m) = SubSeq(text, i + 1 - 1, i + m - 1)
      BY <2>2, <3>2, SubSeqOfSubSeq
    <3> QED BY <2>2, <2>3, <3>1, <3>3
  <2>5. SubSeq(s, k + 1, Len(s)) = SubSeq(text, x + 1, e - 1)
    <3>1. CASE k = e - i
      <4>1. Len(s) < k + 1 /\ k + 1 \in Int /\ Len(s) \in Int
        BY <1>1, <3>1
      <4>2. SubSeq(s, k + 1, Len(s)) = <<>>
        BY <4>1, SubSeqEmpty
      <4>3. e - 1 < x + 1 /\ x + 1 \in Int /\ e - 1 \in Int
        BY <2>1, <3>1, AtIs
      <4>4. SubSeq(text, x + 1, e - 1) = <<>>
        BY <4>3, SubSeqEmpty
      <4> QED BY <4>2, <4>4
    <3>2. CASE k # e - i
      <4>1. PICK m \in 1..(h - i + 1), g \in 1..(h - i + 1) : m = k + 1 /\ g = e - i
        <5>1. k + 1 \in 1..(h - i + 1) /\ e - i \in 1..(h - i + 1)
          BY <2>2, <2>3, <3>2
        <5> QED BY <5>1
      <4>2. SubSeq(SubSeq(text, i, h), m, g) = SubSeq(text, i + m - 1, i + g - 1)
        BY <2>2, SubSeqOfSubSeq
      <4>3. i + m - 1 = x + 1 /\ i + g - 1 = e - 1
        BY <2>1, <4>1, AtIs
      <4>4. Len(s) = g
        BY <1>1, <4>1
      <4>5. s = SubSeq(text, i, h)
        BY <2>3
      <4> HIDE DEF s
      <4> QED BY <4>1, <4>2, <4>3, <4>4, <4>5
    <3> QED BY <3>1, <3>2
  <2>6. IsDecimal(SubSeq(text, i, x - 1)) <=> Decimal(i, x)
    BY <2>2, DecimalIs
  <2>7. IsExponent(SubSeq(text, x + 1, e - 1)) <=> Exponent(x + 1, e)
    <3>1. PICK m \in 1..(Len(text) + 1) : m = x + 1
      BY <2>2
    <3>2. e \in m..(Len(text) + 1)
      BY <2>2, <3>1
    <3>3. IsExponent(SubSeq(text, m, e - 1)) <=> Exponent(m, e)
      BY <3>2, ExponentIs
    <3> QED BY <3>1, <3>3
  <2> HIDE DEF s
  <2> QED BY <2>1, <2>2, <2>4, <2>5, <2>6, <2>7
<1> HIDE DEF s
<1>4. (\E k \in 2..Len(s) : /\ s[k] = "e" /\ IsDecimal(SubSeq(s, 1, k - 1))
                           /\ IsExponent(SubSeq(s, k + 1, Len(s))))
        <=> \E x \in (i + 1)..(e - 1) : At(x) = "e" /\ Decimal(i, x) /\ Exponent(x + 1, e)
  <2>1. ASSUME NEW k \in 2..Len(s), s[k] = "e", IsDecimal(SubSeq(s, 1, k - 1)),
               IsExponent(SubSeq(s, k + 1, Len(s)))
        PROVE  \E x \in (i + 1)..(e - 1) : At(x) = "e" /\ Decimal(i, x) /\ Exponent(x + 1, e)
    <3>1. k \in 2..(e - i) /\ k \in 1..(e - i)
      BY <1>1
    <3>2. i + k - 1 \in (i + 1)..(e - 1) /\ i + k = (i + k - 1) + 1
      BY <3>1, AtIs
    <3>3. At(i + k - 1) = "e"
      BY <1>1, <2>1, <3>1
    <3>4. Decimal(i, i + k - 1) /\ Exponent((i + k - 1) + 1, e)
      BY <1>3, <2>1, <3>1, <3>2
    <3> QED BY <3>2, <3>3, <3>4
  <2>2. ASSUME NEW x \in (i + 1)..(e - 1), At(x) = "e", Decimal(i, x), Exponent(x + 1, e)
        PROVE  \E k \in 2..Len(s) : /\ s[k] = "e" /\ IsDecimal(SubSeq(s, 1, k - 1))
                                   /\ IsExponent(SubSeq(s, k + 1, Len(s)))
    <3>1. PICK k \in 2..(e - i) : k = x + 1 - i
      <4>1. x + 1 - i \in 2..(e - i)
        BY AtIs
      <4> QED BY <4>1
    <3>2. k \in 2..Len(s) /\ x \in i..(e - 1) /\ i + k - 1 = x /\ i + k = x + 1
      BY <1>1, <3>1, AtIs
    <3>3. s[k] = "e"
      BY <1>1, <2>2, <3>1, <3>2
    <3> QED BY <1>3, <2>2, <3>2, <3>3
  <2> QED BY <2>1, <2>2
<1> QED BY <1>2, <1>4 DEF IsNumber, s

StartsNumber(i) == At(i) \in Digits \/ (At(i) = "." /\ At(i + 1) \in Digits)

LEMMA DigitsAre ==
  /\ Digits \in SUBSET Chars /\ "." \notin Digits /\ "e" \notin Digits /\ "+" \notin Digits
       /\ "-" \notin Digits
  /\ "EOF" \notin Digits
BY DEF Digits, Chars, IdentCont, InTag

(* No number starts but with a digit, or a point and a digit.                       *)
LEMMA NoNumber ==
  ASSUME text \in Seq(Chars), NEW i \in 1..Len(text), ~StartsNumber(i)
  PROVE  NumberLength(i) = 0
<1>1. ASSUME NEW e \in i..(Len(text) + 1), Decimal(i, e) PROVE FALSE
  <2>1. PICK d \in i..(e - 1) : At(d) \in Digits
    BY <1>1 DEF Decimal
  <2>2. i \in i..(e - 1) /\ At(i) = "." /\ d # i
    <3>1. i \in i..(e - 1)
      BY <2>1, AtIs
    <3>2. At(i) \in Digits \cup {"."}
      BY <1>1, <3>1 DEF Decimal
    <3> QED BY <2>1, <3>1, <3>2, DigitsAre DEF StartsNumber
  <2>3. i + 1 \in i..(e - 1) /\ i + 1 # i
    BY <2>1, <2>2, AtIs
  <2>4. At(i + 1) \in Digits \cup {"."} /\ (At(i + 1) = "." => i + 1 = i)
    BY <1>1, <2>2, <2>3 DEF Decimal
  <2> QED BY <2>2, <2>3, <2>4 DEF StartsNumber
<1>2. ASSUME NumberLength(i) # 0 PROVE FALSE
  <2>1. NumberLength(i) \in 1..(Len(text) + 1 - i)
          /\ IsNumber(SubSeq(text, i, i + NumberLength(i) - 1))
    BY <1>2, AtIs, NumberLengthIs
  <2>2. PICK e \in i..(Len(text) + 1) : e = i + NumberLength(i)
    <3>1. i + NumberLength(i) \in i..(Len(text) + 1)
      BY <2>1, AtIs
    <3> QED BY <3>1
  <2>3. IsNumber(SubSeq(text, i, e - 1)) /\ i \in 1..(Len(text) + 1)
    BY <2>1, <2>2, AtIs
  <2>4. Decimal(i, e) \/ \E x \in (i + 1)..(e - 1) : Decimal(i, x)
    BY <2>3, NumberIs
  <2>5. \A x \in (i + 1)..(e - 1) : x \in i..(Len(text) + 1)
    BY AtIs
  <2> QED BY <1>1, <2>4, <2>5
<1> QED BY <1>2

(* The longest decimal, as the scanner takes it.                                    *)
LEMMA DecimalEndIs ==
  ASSUME text \in Seq(Chars), NEW i \in 1..Len(text), StartsNumber(i)
  PROVE  /\ DecimalEnd(i) \in (i + 1)..(Len(text) + 1) /\ Decimal(i, DecimalEnd(i))
         /\ \A e \in i..(Len(text) + 1) : Decimal(i, e) => e <= DecimalEnd(i)
         /\ At(DecimalEnd(i)) \notin Digits
         /\ DecimalEnd(i) = RunEnd(i, Digits) => AllDigits(i, DecimalEnd(i))
<1> DEFINE n == Len(text)
           r == RunEnd(i, Digits)
           dec == DecimalEnd(i)
<1>1. /\ n \in Nat /\ i \in 1..(n + 1) /\ \A j : At(j) # "EOF" => j \in 1..n
  BY AtIs
<1>2. r \in i..(n + 1) /\ (\A j \in i..(r - 1) : At(j) \in Digits) /\ At(r) \notin Digits
  BY <1>1, RunEndIs, DigitsAre
<1>3. dec = IF At(r) = "." THEN RunEnd(r + 1, Digits) ELSE r
  BY DEF DecimalEnd
<1> HIDE DEF n, r, dec
<1>4. CASE At(r) = "."
  <2>1. r \in 1..n /\ r + 1 \in 1..(n + 1)
    BY <1>1, <1>2, <1>4
  <2>2. /\ dec \in (r + 1)..(n + 1) /\ At(dec) \notin Digits
        /\ \A j \in (r + 1)..(dec - 1) : At(j) \in Digits
    <3>1. PICK m \in 1..(Len(text) + 1) : m = r + 1
      BY <2>1 DEF n
    <3>2. /\ RunEnd(m, Digits) \in m..(Len(text) + 1)
          /\ \A j \in m..(RunEnd(m, Digits) - 1) : At(j) \in Digits
          /\ At(RunEnd(m, Digits)) \notin Digits
      BY RunEndIs, DigitsAre
    <3> QED BY <1>3, <1>4, <3>1, <3>2 DEF n
  <2>3. Decimal(i, dec)
    <3>1. ASSUME NEW j \in i..(dec - 1)
          PROVE  At(j) \in Digits \cup {"."} /\ (At(j) = "." => j = r)
      <4>1. j \in i..(r - 1) \/ j = r \/ j \in (r + 1)..(dec - 1)
        BY <1>1, <1>2, <2>2
      <4> QED BY <4>1, <1>2, <1>4, <2>2, DigitsAre
    <3>2. \E j \in i..(dec - 1) : At(j) \in Digits
      <4>1. CASE r = i
        <5>1. At(i + 1) \in Digits
          BY <4>1, <1>2 DEF StartsNumber
        <5>2. i + 1 # dec
          BY <5>1, <2>2
        <5>3. i + 1 \in i..(dec - 1)
          BY <5>2, <4>1, <2>2, <1>1
        <5> QED BY <5>1, <5>3
      <4>2. CASE r # i
        <5>1. i \in i..(r - 1) /\ i \in i..(dec - 1)
          BY <4>2, <1>1, <1>2, <2>2
        <5> QED BY <5>1, <1>2
      <4> QED BY <4>1, <4>2
    <3>3. \A j, k \in i..(dec - 1) : At(j) = "." /\ At(k) = "." => j = k
      BY <3>1
    <3> QED BY <3>1, <3>2, <3>3 DEF Decimal
  <2>4. ASSUME NEW e \in i..(n + 1), Decimal(i, e) PROVE e <= dec
    <3> SUFFICES ASSUME ~(e <= dec) PROVE FALSE
      OBVIOUS
    <3>1. dec \in i..(e - 1) /\ r \in i..(e - 1) /\ r # dec
      BY <1>1, <1>2, <2>2
    <3>2. At(dec) = "."
      BY <2>2, <2>4, <3>1 DEF Decimal
    <3> QED BY <1>4, <2>4, <3>1, <3>2 DEF Decimal
  <2>5. dec # r /\ dec \in (i + 1)..(n + 1)
    BY <1>1, <1>2, <2>2
  <2> QED BY <2>2, <2>3, <2>4, <2>5 DEF n, dec, r
<1>5. CASE At(r) # "."
  <2>1. dec = r
    BY <1>3, <1>5
  <2>2. r # i
    BY <1>2, <1>5 DEF StartsNumber
  <2>3. i \in i..(dec - 1) /\ dec \in (i + 1)..(n + 1)
    BY <2>1, <2>2, <1>1, <1>2
  <2>4. Decimal(i, dec) /\ AllDigits(i, dec)
    <3>1. \A j \in i..(dec - 1) : At(j) \in Digits /\ At(j) # "."
      BY <1>2, <2>1, DigitsAre
    <3> QED BY <2>3, <3>1, <1>1 DEF Decimal, AllDigits
  <2>5. ASSUME NEW e \in i..(n + 1), Decimal(i, e) PROVE e <= dec
    <3> SUFFICES ASSUME ~(e <= dec) PROVE FALSE
      OBVIOUS
    <3>1. dec \in i..(e - 1)
      BY <1>1, <2>3
    <3> QED BY <1>2, <1>5, <2>1, <2>5, <3>1 DEF Decimal
  <2> QED BY <1>2, <2>1, <2>3, <2>4, <2>5 DEF n, dec, r
<1> QED BY <1>4, <1>5

(* The longest exponent, as the scanner takes it.                                   *)
LEMMA ExponentEndIs ==
  ASSUME text \in Seq(Chars), NEW i \in 1..Len(text), At(i) = "e"
  PROVE  /\ ExponentEnd(i) \in (i + 1)..(Len(text) + 1)
         /\ At(ExponentEnd(i) - 1) \in Digits => Exponent(i + 1, ExponentEnd(i))
         /\ \A e \in (i + 1)..(Len(text) + 1) :
              Exponent(i + 1, e) => e <= ExponentEnd(i) /\ At(ExponentEnd(i) - 1) \in Digits
<1> DEFINE n == Len(text)
           real == ExponentEnd(i)
           d == IF At(i + 1) \in {"+", "-"} THEN i + 2 ELSE i + 1
<1>1. /\ n \in Nat /\ i + 1 \in 1..(n + 1) /\ \A j : At(j) # "EOF" => j \in 1..n
  BY AtIs
<1>2. d \in (i + 1)..(n + 1) /\ (d = i + 1 \/ (d = i + 2 /\ At(i + 1) \in {"+", "-"}))
  <2>1. At(i + 1) \in {"+", "-"} => i + 1 \in 1..n
    BY <1>1
  <2> QED BY <1>1, <2>1
<1>3. At(i + 1) \in {"+", "-"} => d = i + 2
  OBVIOUS
<1>4. real = RunEnd(d, Digits)
  BY DEF ExponentEnd
<1> HIDE DEF n, real, d
<1>5. real \in d..(n + 1) /\ (\A j \in d..(real - 1) : At(j) \in Digits) /\ At(real) \notin Digits
  <2>1. d \in 1..(Len(text) + 1)
    BY <1>1, <1>2 DEF n
  <2> QED BY <1>4, <2>1, RunEndIs, DigitsAre DEF n
<1>6. ASSUME At(real - 1) \in Digits PROVE Exponent(i + 1, real)
  <2>1. At(d - 1) \notin Digits
    <3>1. CASE d = i + 1
      <4>1. d - 1 = i
        BY <3>1
      <4> QED BY <4>1, DigitsAre
    <3>2. CASE d = i + 2 /\ At(i + 1) \in {"+", "-"}
      <4>1. d - 1 = i + 1
        BY <3>2
      <4> QED BY <4>1, <3>2, DigitsAre
    <3> QED BY <1>2, <3>1, <3>2
  <2>2. AllDigits(d, real)
    <3>1. real # d
      BY <1>6, <2>1
    <3>2. d < real
      BY <3>1, <1>1, <1>2, <1>5
    <3> QED BY <3>2, <1>5 DEF AllDigits
  <2>3. i + 2 = (i + 1) + 1
    OBVIOUS
  <2> QED BY <1>2, <2>2, <2>3 DEF Exponent
<1>7. ASSUME NEW e \in (i + 1)..(n + 1), Exponent(i + 1, e)
      PROVE  e <= real /\ At(real - 1) \in Digits
  <2>1. AllDigits(d, e)
    <3>1. CASE AllDigits(i + 1, e)
      <4>1. At(i + 1) \in Digits
        <5>1. i + 1 \in (i + 1)..(e - 1)
          BY <3>1 DEF AllDigits
        <5> QED BY <3>1, <5>1 DEF AllDigits
      <4>2. d = i + 1
        BY <1>2, <4>1, DigitsAre
      <4> QED BY <3>1, <4>2
    <3>2. CASE At(i + 1) \in {"+", "-"} /\ AllDigits((i + 1) + 1, e)
      <4>1. (i + 1) + 1 = d
        BY <1>3, <3>2
      <4> QED BY <3>2, <4>1
    <3> QED BY <1>7, <3>1, <3>2 DEF Exponent
  <2>2. d < e /\ \A j \in d..(e - 1) : At(j) \in Digits
    BY <2>1 DEF AllDigits
  <2>3. e <= real
    <3> SUFFICES ASSUME ~(e <= real) PROVE FALSE
      OBVIOUS
    <3>1. real \in d..(e - 1)
      BY <1>1, <1>2, <1>5
    <3> QED BY <1>5, <2>2, <3>1
  <2>4. real - 1 \in d..(real - 1)
    BY <1>1, <1>2, <1>5, <2>2, <2>3
  <2> QED BY <1>5, <2>3, <2>4
<1>8. real \in (i + 1)..(n + 1)
  BY <1>1, <1>2, <1>5
<1> QED BY <1>6, <1>7, <1>8 DEF n, real

(* The number that the scanner takes is the longest there is.                       *)
LEMMA LongestNumber ==
  ASSUME text \in Seq(Chars), NEW i \in 1..Len(text), StartsNumber(i)
  PROVE  LET dec == DecimalEnd(i)
             real == ExponentEnd(dec)
             end == IF At(dec) = "e" /\ At(real - 1) \in Digits THEN real ELSE dec
         IN  /\ end \in (i + 1)..(Len(text) + 1) /\ NumberLength(i) = end - i
             /\ end = RunEnd(i, Digits) /\ At(end) # "e" => IsInteger(SubSeq(text, i, end - 1))
<1> DEFINE n == Len(text)
           dec == DecimalEnd(i)
           real == ExponentEnd(dec)
           end == IF At(dec) = "e" /\ At(real - 1) \in Digits THEN real ELSE dec
<1>1. n \in Nat /\ i \in 1..(n + 1) /\ \A j : At(j) # "EOF" => j \in 1..n
  BY AtIs
<1>2. /\ dec \in (i + 1)..(n + 1) /\ Decimal(i, dec)
      /\ \A e \in i..(n + 1) : Decimal(i, e) => e <= dec
      /\ At(dec) \notin Digits
      /\ dec = RunEnd(i, Digits) => AllDigits(i, dec)
  BY DecimalEndIs
<1> HIDE DEF dec
<1>3. At(dec) = "e" =>
        /\ real \in (dec + 1)..(n + 1)
        /\ At(real - 1) \in Digits => Exponent(dec + 1, real)
        /\ \A e \in (dec + 1)..(n + 1) : Exponent(dec + 1, e) => e <= real
             /\ At(real - 1) \in Digits
  <2> HAVE At(dec) = "e"
  <2>1. dec \in 1..Len(text)
    BY <1>1 DEF n
  <2> QED BY <2>1, ExponentEndIs
<1> HIDE DEF n, real
<1>4. end \in (i + 1)..(n + 1) /\ dec <= end
  BY <1>1, <1>2, <1>3
<1>5. \A e \in i..(n + 1) : IsNumber(SubSeq(text, i, e - 1)) <=>
        \/ Decimal(i, e)
        \/ \E x \in (i + 1)..(e - 1) : At(x) = "e" /\ Decimal(i, x) /\ Exponent(x + 1, e)
  BY <1>1, NumberIs DEF n
<1>6. IsNumber(SubSeq(text, i, end - 1))
  <2>1. end \in i..(n + 1)
    <3> HIDE DEF end
    <3> QED BY <1>1, <1>4
  <2>2. CASE end = dec
    BY <1>2, <1>5, <2>1, <2>2
  <2>3. CASE end # dec
    <3>1. At(dec) = "e" /\ end = real /\ Exponent(dec + 1, real)
      BY <1>3, <2>3
    <3>2. dec \in (i + 1)..(end - 1)
      BY <1>1, <1>2, <1>3, <3>1
    <3> HIDE DEF end
    <3>3. \E x \in (i + 1)..(end - 1) : At(x) = "e" /\ Decimal(i, x) /\ Exponent(x + 1, end)
      BY <1>2, <3>1, <3>2
    <3> QED BY <1>5, <2>1, <3>3
  <2> QED BY <2>2, <2>3
<1>7. ASSUME NEW e \in i..(n + 1), IsNumber(SubSeq(text, i, e - 1)) PROVE e <= end
  <2>1. CASE Decimal(i, e)
    <3>1. e <= dec
      BY <1>2, <2>1
    <3> HIDE DEF end
    <3> QED BY <3>1, <1>1, <1>2, <1>4
  <2>2. CASE \E x \in (i + 1)..(e - 1) : At(x) = "e" /\ Decimal(i, x) /\ Exponent(x + 1, e)
    <3>1. PICK x \in (i + 1)..(e - 1) : At(x) = "e" /\ Decimal(i, x) /\ Exponent(x + 1, e)
      BY <2>2
    <3>2. x = dec
      <4>1. x \in i..(n + 1)
        BY <1>1
      <4>2. x <= dec
        BY <1>2, <3>1, <4>1
      <4>3. x < dec => x \in i..(dec - 1)
        BY <1>1, <1>2
      <4>4. ~(x < dec)
        BY <1>2, <3>1, <4>3, DigitsAre DEF Decimal
      <4> QED BY <4>2, <4>4, <1>1, <1>2
    <3>3. e \in (dec + 1)..(n + 1)
      BY <1>1, <1>2, <3>2
    <3>4. e <= real /\ At(real - 1) \in Digits
      BY <1>3, <3>1, <3>2, <3>3
    <3>5. end = real
      BY <3>1, <3>2, <3>4
    <3> QED BY <3>4, <3>5
  <2> QED BY <1>5, <1>7, <2>1, <2>2
<1> HIDE DEF end
<1>8. NumberLength(i) = end - i
  <2>1. /\ NumberLength(i) \in 0..(n + 1 - i)
        /\ NumberLength(i) # 0 => IsNumber(SubSeq(text, i, i + NumberLength(i) - 1))
        /\ \A k \in 1..(n + 1 - i) : IsNumber(SubSeq(text, i, i + k - 1)) => k <= NumberLength(i)
    BY NumberLengthIs DEF n
  <2>2. end - i \in 1..(n + 1 - i) /\ i + (end - i) - 1 = end - 1
    BY <1>1, <1>4
  <2>3. IsNumber(SubSeq(text, i, i + (end - i) - 1))
    BY <1>6, <2>2
  <2>4. end - i <= NumberLength(i)
    BY <2>1, <2>2, <2>3
  <2>5. NumberLength(i) # 0
    BY <2>1, <2>2, <2>4
  <2>6. i + NumberLength(i) \in i..(n + 1)
    BY <2>1, <1>1
  <2>7. i + NumberLength(i) <= end
    BY <1>7, <2>1, <2>5, <2>6
  <2> QED BY <1>1, <1>4, <2>1, <2>4, <2>7
<1>9. ASSUME end = RunEnd(i, Digits), At(end) # "e" PROVE IsInteger(SubSeq(text, i, end - 1))
  <2>1. end = dec
    <3>1. CASE end = dec
      BY <3>1
    <3>2. CASE end # dec
      <4>1. At(dec) = "e" /\ dec \in i..(end - 1)
        BY <3>2, <1>1, <1>2, <1>3, <1>4 DEF end
      <4>2. \A j \in i..(end - 1) : At(j) \in Digits
        BY <1>1, <1>9, RunEndIs, DigitsAre DEF n
      <4> QED BY <4>1, <4>2, DigitsAre
    <3> QED BY <3>1, <3>2
  <2>2. AllDigits(i, end)
    BY <1>2, <1>9, <2>1
  <2>3. end \in i..(n + 1)
    BY <1>1, <1>4
  <2> QED BY <1>1, <2>2, <2>3, IntegerIs DEF n
<1> QED BY <1>4, <1>8, <1>9 DEF n, end, real, dec

-----------------------------------------------------------------------------
(* Dollar quotes: where a delimiter is, and where it is again.                     *)
Delimiter(i, e) ==
  /\ i + 1 < e /\ At(i) = Dollar /\ At(e - 1) = Dollar
  /\ \A j \in (i + 1)..(e - 2) : At(j) \in InTag
  /\ e = i + 2 \/ At(i + 1) \in Letters

LEMMA DollarIs ==
  /\ Dollar \notin Letters /\ Dollar \notin InTag /\ Dollar \notin Digits /\ Dollar # "EOF"
       /\ Dollar \in Chars
  /\ Letters \in SUBSET InTag /\ Digits \in SUBSET InTag /\ InTag \in SUBSET Chars
  /\ Letters \cap Digits = {}
BY DEF Dollar, Letters, Digits, InTag, IdentCont, Chars

(* Delimiters, by the positions they are at.                                        *)
LEMMA DelimiterIs ==
  ASSUME text \in Seq(Chars), NEW i \in 1..(Len(text) + 1), NEW e \in i..(Len(text) + 1)
  PROVE  IsDelimiter(SubSeq(text, i, e - 1)) <=> Delimiter(i, e)
<1> DEFINE s == SubSeq(text, i, e - 1)
           tag == SubSeq(s, 2, Len(s) - 1)
<1>1. /\ s \in Seq(Chars) /\ Len(s) = e - i /\ DOMAIN s = 1..(e - i)
      /\ \A k \in 1..(e - i) : s[k] = At(i + k - 1) /\ i + k - 1 \in i..(e - 1)
      /\ \A j \in i..(e - 1) : At(j) = s[j + 1 - i] /\ j + 1 - i \in 1..(e - i)
  BY ByPosition
<1> HIDE DEF s
<1>2. CASE ~(i + 1 < e)
  <2>1. ~(Len(s) > 1)
    BY <1>1, <1>2, AtIs
  <2> QED BY <1>2, <2>1 DEF IsDelimiter, Delimiter, s
<1>3. CASE i + 1 < e
  <2>1. /\ 1 \in 1..(e - i) /\ e - i \in 1..(e - i) /\ i + 1 - 1 = i /\ i + (e - i) - 1 = e - 1
        /\ 2 \in 1..(e - i) /\ i + 2 - 1 = i + 1 /\ Len(s) > 1
    BY <1>1, <1>3, AtIs
  <2>2. Head(s) = At(i) /\ Last(s) = At(e - 1) /\ s[2] = At(i + 1)
    <3>1. s[1] = At(i) /\ s[e - i] = At(e - 1) /\ s[2] = At(i + 1)
      BY <1>1, <2>1
    <3>2. Head(s) = s[1] /\ Last(s) = s[Len(s)]
      BY DEF Last
    <3> QED BY <1>1, <3>1, <3>2
  <2>3. /\ tag \in Seq(Chars) /\ Len(tag) = e - i - 2
        /\ \A k \in 1..(e - i - 2) : tag[k] = At(i + k) /\ i + k \in (i + 1)..(e - 2)
        /\ \A j \in (i + 1)..(e - 2) : At(j) = tag[j - i] /\ j - i \in 1..(e - i - 2)
    <3>1. PICK m \in Int : m = Len(s) - 1
      BY <1>1, AtIs
    <3>2. m = e - i - 1 /\ \A k \in 2..m : k \in 1..(e - i)
      BY <1>1, <3>1, AtIs
    <3>3. \A k \in 2..m : s[k] \in Chars
      BY <1>1, <3>2
    <3>4. /\ SubSeq(s, 2, m) \in Seq(Chars)
               /\ Len(SubSeq(s, 2, m)) = IF 2 <= m THEN m - 2 + 1 ELSE 0
          /\ \A k \in 1..(m - 2 + 1) : SubSeq(s, 2, m)[k] = s[2 + k - 1]
      BY <3>3, SubSeqProperties
    <3>5. tag = SubSeq(s, 2, m)
      BY <3>1
    <3> HIDE DEF tag
    <3>6. tag \in Seq(Chars) /\ Len(tag) = e - i - 2
      <4>1. (IF 2 <= m THEN m - 2 + 1 ELSE 0) = e - i - 2
        BY <3>2, <1>3, AtIs
      <4> QED BY <3>4, <3>5, <4>1
    <3>7. ASSUME NEW k \in 1..(e - i - 2) PROVE tag[k] = At(i + k) /\ i + k \in (i + 1)..(e - 2)
      <4>1. k \in 1..(m - 2 + 1) /\ 2 + k - 1 \in 1..(e - i) /\ i + (2 + k - 1) - 1 = i + k
            /\ i + k \in (i + 1)..(e - 2)
        BY <3>2, <1>3, AtIs
      <4> QED BY <1>1, <3>4, <3>5, <4>1
    <3>8. ASSUME NEW j \in (i + 1)..(e - 2) PROVE At(j) = tag[j - i] /\ j - i \in 1..(e - i - 2)
      <4>1. j - i \in 1..(e - i - 2) /\ i + (j - i) = j
        BY <1>3, AtIs
      <4> QED BY <3>7, <4>1
    <3> QED BY <3>6, <3>7, <3>8
  <2> HIDE DEF tag
  <2>4. ToSet(tag) = {tag[k] : k \in 1..(e - i - 2)}
    BY <2>3, ToSetIs
  <2>5. ToSet(tag) \subseteq InTag <=> \A j \in (i + 1)..(e - 2) : At(j) \in InTag
    BY <2>3, <2>4
  <2>6. tag = <<>> <=> e = i + 2
    <3>1. tag = <<>> <=> Len(tag) = 0
      BY <2>3, EmptySeq
    <3> QED BY <2>3, <3>1, AtIs
  <2>7. tag # <<>> => Head(tag) = At(i + 1)
    <3> HAVE tag # <<>>
    <3>1. 1 \in 1..(e - i - 2)
      BY <2>6, <1>3, AtIs
    <3>2. Head(tag) = tag[1]
      OBVIOUS
    <3> QED BY <2>3, <3>1, <3>2
  <2>8. IsDelimiter(s) <=> Delimiter(i, e)
    BY <1>3, <2>1, <2>2, <2>5, <2>6, <2>7 DEF IsDelimiter, Delimiter, tag
  <2> QED BY <2>8 DEF s
<1> QED BY <1>2, <1>3

(* The tag that the scanner takes ends the only delimiter that can start here.      *)
LEMMA TagEndIs ==
  ASSUME text \in Seq(Chars), NEW i \in 1..Len(text)
  PROVE  /\ TagEnd(i) \in (i + 1)..(Len(text) + 1)
         /\ \A j \in (i + 1)..(TagEnd(i) - 1) : At(j) \in InTag
         /\ \A e \in i..(Len(text) + 1) : Delimiter(i, e) => e = TagEnd(i) + 1 /\ Delimits(i)
         /\ Delimits(i) => TagEnd(i) + 1 \in i..(Len(text) + 1) /\ Delimiter(i, TagEnd(i) + 1)
<1> DEFINE n == Len(text)
           t == TagEnd(i)
           r == RunEnd(i + 1, InTag)
<1>1. /\ n \in Nat /\ i + 1 \in 1..(n + 1) /\ \A j : At(j) # "EOF" => j \in 1..n
  BY AtIs
<1>2. r \in (i + 1)..(n + 1) /\ (\A j \in (i + 1)..(r - 1) : At(j) \in InTag) /\ At(r) \notin InTag
  BY <1>1, RunEndIs, DollarIs
<1>3. t = IF At(i + 1) \in Letters THEN r ELSE i + 1
  BY DEF TagEnd
<1> HIDE DEF n, r, t
<1>4. t \in (i + 1)..(n + 1) /\ \A j \in (i + 1)..(t - 1) : At(j) \in InTag
  BY <1>1, <1>2, <1>3
<1>5. ASSUME NEW e \in i..(n + 1), Delimiter(i, e) PROVE e = t + 1 /\ Delimits(i)
  <2>1. e = t + 1
    <3>1. CASE e = i + 2
      <4>1. e - 1 = i + 1
        BY <3>1
      <4>2. At(i + 1) \notin Letters
        BY <1>5, <4>1, DollarIs DEF Delimiter
      <4> QED BY <1>3, <3>1, <4>2
    <3>2. CASE e # i + 2 /\ At(i + 1) \in Letters
      <4>1. PICK h \in Int : h = e - 1
        BY <1>1
      <4>2. PICK m \in 1..(Len(text) + 1) : m = i + 1
        BY <1>1 DEF n
      <4>3. h \in m..(Len(text) + 1) /\ At(h) \notin InTag
        BY <1>1, <1>5, <3>2, <4>1, <4>2, DollarIs DEF Delimiter, n
      <4>4. \A j \in m..(h - 1) : At(j) \in InTag
        BY <1>1, <1>5, <4>1, <4>2 DEF Delimiter
      <4>5. RunEnd(m, InTag) = h
        BY <4>3, <4>4, RunEndAt, DollarIs
      <4> QED BY <1>1, <1>3, <3>2, <4>1, <4>2, <4>5 DEF r
    <3> QED BY <1>5, <3>1, <3>2 DEF Delimiter
  <2>2. At(i) = Dollar /\ At(t) = Dollar
    <3>1. e - 1 = t
      BY <2>1, <1>4, <1>1
    <3> QED BY <1>5, <3>1 DEF Delimiter
  <2> QED BY <2>1, <2>2 DEF Delimits, t
<1>6. ASSUME Delimits(i) PROVE t + 1 \in i..(n + 1) /\ Delimiter(i, t + 1)
  <2>1. At(i) = Dollar /\ At(t) = Dollar
    BY <1>6 DEF Delimits, t
  <2>2. t \in 1..n
    BY <1>1, <2>1, DollarIs
  <2>3. t + 1 \in i..(n + 1) /\ i + 1 < t + 1 /\ (t + 1) - 1 = t /\ (t + 1) - 2 = t - 1
    BY <1>1, <1>4, <2>2
  <2>4. t + 1 = i + 2 \/ At(i + 1) \in Letters
    BY <1>3
  <2> QED BY <1>4, <2>1, <2>3, <2>4 DEF Delimiter
<1> QED BY <1>4, <1>5, <1>6 DEF n, t

(* The scanner and the reader find the same delimiter.                              *)
LEMMA DelimiterLengthAt ==
  ASSUME text \in Seq(Chars), NEW i \in 1..Len(text)
  PROVE  DelimiterLength(i) = IF Delimits(i) THEN TagEnd(i) + 1 - i ELSE 0
<1> DEFINE n == Len(text)
           len == DelimiterLength(i)
           t == TagEnd(i)
<1>1. /\ n \in Nat /\ i \in 1..(n + 1)
  BY AtIs
<1>2. /\ len \in 0..(n + 1 - i)
      /\ len # 0 => IsDelimiter(SubSeq(text, i, i + len - 1))
      /\ \A k \in 1..(n + 1 - i) : IsDelimiter(SubSeq(text, i, i + k - 1)) => k <= len
  BY DelimiterLengthIs
<1>3. \A e \in i..(n + 1) : IsDelimiter(SubSeq(text, i, e - 1)) <=> Delimiter(i, e)
  BY <1>1, DelimiterIs
<1>4. /\ t \in (i + 1)..(n + 1)
      /\ \A e \in i..(n + 1) : Delimiter(i, e) => e = t + 1 /\ Delimits(i)
      /\ Delimits(i) => t + 1 \in i..(n + 1) /\ Delimiter(i, t + 1)
  BY TagEndIs
<1> HIDE DEF n, len, t
<1>5. len # 0 => len = t + 1 - i /\ Delimits(i)
  <2> HAVE len # 0
  <2>1. i + len \in i..(n + 1)
    BY <1>1, <1>2
  <2>2. Delimiter(i, i + len)
    BY <1>2, <1>3, <2>1
  <2>3. i + len = t + 1 /\ Delimits(i)
    BY <1>4, <2>1, <2>2
  <2> QED BY <1>1, <1>2, <1>4, <2>3
<1>6. Delimits(i) => len # 0
  <2> HAVE Delimits(i)
  <2>1. PICK k \in 1..(n + 1 - i) : k = t + 1 - i
    BY <1>1, <1>4
  <2>2. i + k = t + 1 /\ i + k \in i..(n + 1)
    BY <1>1, <1>4, <2>1
  <2>3. IsDelimiter(SubSeq(text, i, i + k - 1))
    BY <1>3, <1>4, <2>2
  <2>4. k <= len
    BY <1>2, <2>3
  <2> QED BY <2>4
<1> QED BY <1>5, <1>6 DEF len, t

(* What stops a dollar quote is what the reader looks for.                          *)
LEMMA StopsIs ==
  ASSUME text \in Seq(Chars), NEW f \in 1..Len(text), Delimits(f), NEW j \in 1..Len(text)
  PROVE  LET len == DelimiterLength(f)
             same == Delimits(j) /\ SubSeq(text, j, TagEnd(j)) = SubSeq(text, f, TagEnd(f))
         IN  /\ len \in 2..(Len(text) + 1 - f) /\ len = TagEnd(f) + 1 - f
             /\ same => j + len <= Len(text) + 1 /\ Repeats(f, j) /\ TagEnd(j) = j + len - 1
             /\ j + len <= Len(text) + 1 /\ Repeats(f, j) => same
PROOF
<1> DEFINE len == DelimiterLength(f)
           same == Delimits(j) /\ SubSeq(text, j, TagEnd(j)) = SubSeq(text, f, TagEnd(f))
<1>1. Len(text) \in Nat
  BY AtIs
<1>2. /\ len = TagEnd(f) + 1 - f /\ TagEnd(f) + 1 \in f..(Len(text) + 1)
      /\ TagEnd(f) \in (f + 1)..(Len(text) + 1)
  BY DelimiterLengthAt, TagEndIs
<1>3. len \in 2..(Len(text) + 1 - f) /\ f + len - 1 = TagEnd(f)
  BY <1>1, <1>2
<1>4. ASSUME same PROVE j + len <= Len(text) + 1 /\ Repeats(f, j) /\ TagEnd(j) = j + len - 1
  <2>1. TagEnd(j) + 1 \in j..(Len(text) + 1) /\ TagEnd(j) \in (j + 1)..(Len(text) + 1)
    BY <1>4, TagEndIs
  <2>2. Len(SubSeq(text, j, TagEnd(j))) = TagEnd(j) + 1 - j
    <3> HIDE DEF same
    <3>1. j \in 1..(Len(text) + 1) /\ TagEnd(j) \in (j - 1)..Len(text)
      BY <1>1, <2>1
    <3> QED BY <3>1, PartOf
  <2>3. Len(SubSeq(text, f, TagEnd(f))) = TagEnd(f) + 1 - f
    <3>1. f \in 1..(Len(text) + 1) /\ TagEnd(f) \in (f - 1)..Len(text)
      BY <1>1, <1>2
    <3> QED BY <3>1, PartOf
  <2>4. TagEnd(j) + 1 - j = TagEnd(f) + 1 - f
    BY <1>4, <2>2, <2>3
  <2>5. TagEnd(j) = j + len - 1
    <3>1. PICK t \in Int, u \in Int, l \in Int : t = TagEnd(j) /\ u = TagEnd(f) /\ l = len
      BY <1>2, <1>3, <2>1
    <3>2. t + 1 - j = u + 1 - f /\ l = u + 1 - f
      BY <1>2, <2>4, <3>1
    <3>3. t = j + l - 1
      BY <3>2
    <3> QED BY <3>1, <3>3
  <2>6. Repeats(f, j)
    BY <1>3, <1>4, <2>5 DEF Repeats
  <2>7. j + len <= Len(text) + 1
    <3>1. PICK t \in Int, l \in Int : t = TagEnd(j) /\ l = len
      BY <1>3, <2>1
    <3> HIDE DEF len
    <3> QED BY <1>1, <2>1, <2>5, <3>1
  <2> QED BY <2>5, <2>6, <2>7
<1>5. ASSUME j + len <= Len(text) + 1, Repeats(f, j) PROVE same
  <2>1. PICK e \in j..(Len(text) + 1) : e = j + len
    <3> HIDE DEF len
    <3> QED BY <1>1, <1>3, <1>5
  <2>2. PICK g \in f..(Len(text) + 1) : g = f + len
    <3> HIDE DEF len
    <3> QED BY <1>1, <1>3
  <2>3. SubSeq(text, j, e - 1) = SubSeq(text, f, g - 1)
    <3>1. SubSeq(text, j, j + len - 1) = SubSeq(text, f, f + len - 1)
      BY <1>5 DEF Repeats
    <3>2. j + len - 1 = e - 1 /\ f + len - 1 = g - 1
      <4>1. PICK l \in Int : l = len
        BY <1>3
      <4> HIDE DEF len
      <4> QED BY <1>1, <2>1, <2>2, <4>1
    <3> QED BY ONLY <3>1, <3>2, Zenon
  <2>4. g = TagEnd(f) + 1
    <3> HIDE DEF len
    <3> QED BY <1>1, <1>2, <2>2
  <2>5. IsDelimiter(SubSeq(text, f, g - 1))
    <3>1. Delimiter(f, g)
      BY <2>4, TagEndIs
    <3>2. f \in 1..(Len(text) + 1)
      BY <1>1
    <3> QED BY <3>1, <3>2, DelimiterIs
  <2>6. j \in 1..(Len(text) + 1)
    BY <1>1
  <2>7. Delimiter(j, e)
    BY <2>3, <2>5, <2>6, DelimiterIs
  <2>8. e = TagEnd(j) + 1 /\ Delimits(j)
    BY <2>7, TagEndIs
  <2>9. e - 1 = TagEnd(j) /\ g - 1 = TagEnd(f)
    <3>1. TagEnd(j) \in Int /\ TagEnd(f) \in Int
      BY TagEndIs
    <3> QED BY <2>4, <2>8, <3>1
  <2> QED BY <2>3, <2>8, <2>9
<1> QED BY <1>2, <1>3, <1>4, <1>5

-----------------------------------------------------------------------------
(* Operators: what is left of a run of their characters.                           *)
Pair(s, k) == (s[k] = "/" /\ s[k + 1] = "*") \/ (s[k] = "-" /\ s[k + 1] = "-")

LEMMA PairIs ==
  ASSUME NEW s \in Seq(Chars), NEW k \in 1..(Len(s) - 1)
  PROVE  SubSeq(s, k, k + 1) \in {<<"/", "*">>, <<"-", "-">>} <=> Pair(s, k)
PROOF
<1>1. /\ SubSeq(s, k, k + 1) \in Seq(Chars) /\ Len(SubSeq(s, k, k + 1)) = 2
      /\ SubSeq(s, k, k + 1)[1] = s[k] /\ SubSeq(s, k, k + 1)[2] = s[k + 1]
  <2>1. Len(s) \in Nat
    OBVIOUS
  <2>2. k \in 1..Len(s) /\ k + 1 \in k..Len(s)
    BY <2>1
  <2>3. SubSeq(s, k, k + 1) \in Seq(Chars) /\ Len(SubSeq(s, k, k + 1)) = k + 1 - k + 1
    BY <2>1, <2>2, SubSeqProperties
  <2>4. \A j \in 1..(k + 1 - k + 1) : SubSeq(s, k, k + 1)[j] = s[k + j - 1]
    BY <2>1, <2>2, SubSeqProperties
  <2>5. k + 1 - k + 1 = 2 /\ k + 1 - 1 = k /\ k + 2 - 1 = k + 1 /\ 1 \in 1..2 /\ 2 \in 1..2
    BY <2>2
  <2> QED BY <2>3, <2>4, <2>5
<1>2. PICK p \in Seq(Chars) : p = SubSeq(s, k, k + 1)
  BY <1>1
<1>3. Len(p) = 2 /\ p[1] = s[k] /\ p[2] = s[k + 1]
  BY <1>1, <1>2
<1>4. p = <<s[k], s[k + 1]>>
  BY <1>3
<1>5. \A a, b : p = <<a, b>> <=> s[k] = a /\ s[k + 1] = b
  BY <1>4
<1> QED BY <1>2, <1>5 DEF Pair

(* An operator is cut before the first comment in it, and what is left is not empty.*)
LEMMA CutIs ==
  ASSUME NEW s \in Seq(Chars)
  PROVE  /\ CutComment(s) \in 0..Len(s)
         /\ \A k \in 1..(Len(s) - 1) : Pair(s, k) => CutComment(s) < k
         /\ (\A k \in 1..(Len(s) - 1) : ~Pair(s, k)) => CutComment(s) = Len(s)
         /\ Len(s) > 0 /\ ~(Len(s) > 1 /\ Pair(s, 1)) => CutComment(s) > 0
PROOF
<1> DEFINE starts == {k \in 1..(Len(s) - 1) : SubSeq(s, k, k + 1) \in {<<"/", "*">>, <<"-", "-">>}}
<1>1. Len(s) \in Nat
  OBVIOUS
<1>2. CutComment(s) = IF starts = {} THEN Len(s) ELSE Min(starts) - 1
  BY DEF CutComment
<1>3. \A k : k \in starts <=> k \in 1..(Len(s) - 1) /\ Pair(s, k)
  BY PairIs
<1>4. starts \in SUBSET Nat
  OBVIOUS
<1> HIDE DEF starts
<1>5. CASE starts = {}
  BY <1>1, <1>2, <1>3, <1>5
<1>6. CASE starts # {}
  <2>1. Min(starts) \in starts /\ \A k \in starts : Min(starts) <= k
    BY <1>4, <1>6, LowestIs
  <2>2. PICK m \in 1..(Len(s) - 1) : m = Min(starts) /\ Pair(s, m)
    BY <1>3, <2>1
  <2>3. CutComment(s) = m - 1 /\ \A k \in starts : m <= k
    BY <1>2, <1>6, <2>1, <2>2
  <2>4. CutComment(s) \in 0..Len(s)
    BY <1>1, <2>2, <2>3
  <2>5. \A k \in 1..(Len(s) - 1) : Pair(s, k) => CutComment(s) < k
    BY <1>1, <1>3, <2>3
  <2>6. ASSUME ~(Len(s) > 1 /\ Pair(s, 1)) PROVE CutComment(s) > 0
    BY <1>1, <2>2, <2>3, <2>6
  <2> QED BY <2>2, <2>4, <2>5, <2>6
<1> QED BY <1>5, <1>6

(* A character that an operator of k characters may end with.                       *)
MayEnd(s, k) ==
  k = 1 \/ s[k] \notin {"+", "-"} \/ \E j \in 1..(k - 1) : s[j] \in Special

(* What is left without trailing signs may end with the character it ends with.     *)
LEMMA StripIs ==
  ASSUME NEW s \in Seq(Chars), NEW n \in 1..Len(s)
  PROVE  StripSigns(s, n) \in 1..n /\ MayEnd(s, StripSigns(s, n))
PROOF
<1> DEFINE ends == {k \in 1..n : MayEnd(s, k)}
<1>1. StripSigns(s, n) = Max(ends)
  BY DEF StripSigns, MayEnd
<1>2. n \in Nat /\ ends \in SUBSET (0..n) /\ 1 \in ends
  BY DEF MayEnd
<1>3. \A k : k \in ends <=> k \in 1..n /\ MayEnd(s, k)
  OBVIOUS
<1> HIDE DEF ends
<1>4. Max(ends) \in ends
  <2>1. ends # {}
    BY <1>2
  <2> QED BY <1>2, <2>1, HighestIs
<1> QED BY <1>1, <1>3, <1>4

-----------------------------------------------------------------------------
(* How the reader takes what starts in code.                                     *)
LEMMA InCodeIs == \A i : ReadAt(i, InCode) = CodeAt(i)
PROOF
<1>1. InCode # InWord /\ InCode # InLine
  BY DEF InCode, InWord, InLine
<1> QED BY <1>1 DEF ReadAt

(* A character that starts nothing is read as code.                                 *)
LEMMA PlainIs ==
  ASSUME text \in Seq(Chars), NEW i \in 1..Len(text),
         At(i) \notin {Quote, DQuote, Dollar}, At(i) \notin Letters, ~StartsNumber(i),
         ~Seen(i, <<"/", "*">>), ~Seen(i, <<"-", "-">>)
  PROVE  ReadAt(i, InCode) = Reads(<<Code>>, InCode)
PROOF
<1>1. NumberLength(i) = 0
  BY NoNumber
<1>2. ~(NumberLength(i) > 0)
  BY <1>1
<1>3. At(i) # Quote /\ At(i) # DQuote /\ At(i) # Dollar
  OBVIOUS
<1>4. CodeAt(i) = Reads(<<Code>>, InCode)
  BY <1>2, <1>3, Zenon DEF CodeAt
<1> QED BY <1>4, InCodeIs

(* The characters of operators start nothing else.                                 *)
LEMMA OpCharIs ==
  \A c \in OpChars : /\ c \in Chars /\ c \notin {Quote, DQuote, Dollar, ".", "EOF"}
                     /\ c \notin Letters /\ c \notin Digits /\ c \notin Space
PROOF
BY DEF OpChars, Chars, Letters, Digits, Space, Quote, DQuote, Dollar, Special

(* The operator that the scanner takes is code, and has neither a comment nor a sign to strip.*)
LEMMA OperatorAt ==
  ASSUME text \in Seq(Chars), NEW i \in 1..Len(text), At(i) \in OpChars,
         ~Seen(i, <<"/", "*">>), ~Seen(i, <<"-", "-">>)
  PROVE  LET run == SubSeq(text, i, RunEnd(i, OpChars) - 1)
             n == StripSigns(run, CutComment(run))
             op == SubSeq(run, 1, n)
         IN  /\ n \in 1..(Len(text) + 1 - i)
             /\ \A j \in i..(i + n - 1) : ReadAt(j, InCode) = Reads(<<Code>>, InCode)
             /\ op \in Seq(Chars) /\ CutComment(op) = Len(op)
             /\ Len(op) > 1 /\ Last(op) \in {"+", "-"} => ToSet(op) \cap Special # {}
PROOF
<1> DEFINE end == RunEnd(i, OpChars)
<1>1. Len(text) \in Nat /\ OpChars \in SUBSET Chars
  BY AtIs DEF Chars
<1>2. i \in 1..(Len(text) + 1)
  BY <1>1
<1>3. PICK e \in i..(Len(text) + 1) :
        e = end /\ (\A j \in i..(e - 1) : At(j) \in OpChars /\ j \in 1..Len(text))
          /\ At(e) \notin OpChars
  BY <1>1, <1>2, RunEndIs
<1>4. e > i
  BY <1>1, <1>3
<1> HIDE DEF end
<1>5. PICK run \in Seq(Chars) :
        /\ run = SubSeq(text, i, e - 1) /\ Len(run) = e - i
        /\ \A k \in 1..(e - i) : run[k] = At(i + k - 1)
  <2>1. e - 1 \in (i - 1)..Len(text)
    BY <1>1, <1>3
  <2>2. PICK h \in (i - 1)..Len(text) : h = e - 1
    BY <2>1
  <2>3. /\ SubSeq(text, i, h) \in Seq(Chars) /\ Len(SubSeq(text, i, h)) = h + 1 - i
        /\ \A k \in 1..(h + 1 - i) : SubSeq(text, i, h)[k] = At(i + k - 1)
    BY <1>2, PartOf
  <2>4. h + 1 - i = e - i
    BY <1>1, <1>3, <2>2
  <2> QED BY <2>2, <2>3, <2>4
<1>6. PICK cut \in 1..(e - i) : /\ cut = CutComment(run)
                               /\ \A k \in 1..(e - i - 1) : Pair(run, k) => cut < k
  <2>1. CutComment(run) \in 0..(e - i) /\ \A k \in 1..(e - i - 1) : Pair(run, k)
          => CutComment(run) < k
    BY <1>5, CutIs
  <2>2. ASSUME e - i > 1, Pair(run, 1) PROVE FALSE
    <3>1. run[1] = At(i) /\ run[1 + 1] = At(i + 1)
      <4>1. 1 \in 1..(e - i) /\ 1 + 1 \in 1..(e - i) /\ i + 1 - 1 = i /\ i + (1 + 1) - 1 = i + 1
        BY <1>3, <2>2
      <4> QED BY <1>5, <4>1
    <3>2. (At(i) = "/" /\ At(i + 1) = "*") \/ (At(i) = "-" /\ At(i + 1) = "-")
      BY <2>2, <3>1 DEF Pair
    <3> QED BY <3>2, SeenIs
  <2>3. CutComment(run) > 0
    <3>1. Len(run) > 0 /\ ~(Len(run) > 1 /\ Pair(run, 1))
      BY <1>3, <1>4, <1>5, <2>2
    <3> QED BY <3>1, CutIs
  <2>4. CutComment(run) \in 1..(e - i)
    BY <1>3, <2>1, <2>3
  <2> QED BY <2>1, <2>4
<1>7. PICK n \in 1..(e - i) : n = StripSigns(run, cut) /\ n <= cut /\ MayEnd(run, n)
  <2>1. cut \in 1..Len(run)
    BY <1>5
  <2>2. StripSigns(run, cut) \in 1..cut /\ MayEnd(run, StripSigns(run, cut))
    BY <2>1, StripIs
  <2> QED BY <1>3, <2>2
<1>8. \A k \in 1..(e - i - 1) : k <= n => ~Pair(run, k)
  BY <1>3, <1>6, <1>7
<1>9. ASSUME NEW j \in i..(i + n - 1) PROVE ReadAt(j, InCode) = Reads(<<Code>>, InCode)
  <2>1. j \in i..(e - 1) /\ j \in 1..Len(text) /\ At(j) \in OpChars
    BY <1>1, <1>3
  <2>2. PICK k \in 1..(e - i) : k = j - i + 1 /\ k <= n /\ run[k] = At(j)
    <3>1. j - i + 1 \in 1..(e - i) /\ j - i + 1 <= n /\ i + (j - i + 1) - 1 = j
      BY <1>1, <1>3
    <3> QED BY <1>5, <3>1
  <2>3. ~((At(j) = "/" /\ At(j + 1) = "*") \/ (At(j) = "-" /\ At(j + 1) = "-"))
    <3>1. CASE k = e - i
      <4>1. j + 1 = e
        BY <1>1, <1>3, <2>2, <3>1
      <4>2. At(j + 1) \notin OpChars
        BY <1>3, <4>1
      <4>3. "*" \in OpChars /\ "-" \in OpChars
        BY DEF OpChars
      <4> QED BY <4>2, <4>3
    <3>2. CASE k # e - i
      <4>1. k \in 1..(e - i - 1) /\ k + 1 \in 1..(e - i) /\ i + (k + 1) - 1 = j + 1
        BY <1>3, <2>2, <3>2
      <4>2. run[k + 1] = At(j + 1)
        BY <1>5, <4>1
      <4> QED BY <1>8, <2>2, <4>1, <4>2 DEF Pair
    <3> QED BY <3>1, <3>2
  <2>4. ~Seen(j, <<"/", "*">>) /\ ~Seen(j, <<"-", "-">>)
    BY <2>1, <2>3, SeenIs
  <2>5. At(j) \notin {Quote, DQuote, Dollar} /\ At(j) \notin Letters /\ ~StartsNumber(j)
    BY <2>1, OpCharIs DEF StartsNumber
  <2> QED BY <2>1, <2>4, <2>5, PlainIs
<1>10. PICK op \in Seq(Chars) :
         op = SubSeq(run, 1, n) /\ Len(op) = n /\ \A k \in 1..n : op[k] = run[k]
  <2>1. n \in 1..Len(run) /\ n \in Nat
    BY <1>5
  <2>2. \A k \in 1..n : run[k] \in Chars
    BY <2>1
  <2>3. /\ SubSeq(run, 1, n) \in Seq(Chars) /\ Len(SubSeq(run, 1, n)) = n - 1 + 1
        /\ \A k \in 1..(n - 1 + 1) : SubSeq(run, 1, n)[k] = run[1 + k - 1]
    BY <2>1, <2>2, SubSeqProperties
  <2>4. n - 1 + 1 = n /\ \A k \in 1..n : 1 + k - 1 = k
    BY <2>1
  <2> QED BY <2>3, <2>4
<1>11. CutComment(op) = Len(op)
  <2>1. ASSUME NEW k \in 1..(Len(op) - 1) PROVE ~Pair(op, k)
    <3>1. k \in 1..n /\ k + 1 \in 1..n /\ k \in 1..(e - i - 1) /\ k <= n
      BY <1>3, <1>7, <1>10
    <3>2. op[k] = run[k] /\ op[k + 1] = run[k + 1]
      BY <1>10, <3>1
    <3> QED BY <1>8, <3>1, <3>2 DEF Pair
  <2> QED BY <2>1, CutIs
<1>12. ASSUME Len(op) > 1, Last(op) \in {"+", "-"} PROVE ToSet(op) \cap Special # {}
  <2>1. Last(op) = op[n]
    BY <1>10 DEF Last
  <2>2. run[n] \in {"+", "-"} /\ n # 1
    BY <1>10, <1>12, <2>1
  <2>3. PICK k \in 1..(n - 1) : run[k] \in Special
    BY <1>7, <2>2 DEF MayEnd
  <2>4. k \in 1..n /\ op[k] \in Special
    BY <1>10, <2>3
  <2>5. op[k] \in ToSet(op)
    BY <1>10, <2>4, ToSetIs
  <2> QED BY <2>4, <2>5
<1>13. n \in 1..(Len(text) + 1 - i)
  BY <1>1, <1>3
<1> QED BY <1>3, <1>5, <1>6, <1>7, <1>9, <1>10, <1>11, <1>12, <1>13 DEF end

-----------------------------------------------------------------------------
(* The inductive invariant of the scanner.                                       *)

(* Every character scanned was taken for what the reader takes it for.               *)
Agrees ==
  /\ Len(inside) = pos - 1
  /\ \A j \in 1..(pos - 1) : inside[j] = Meaning[j].is

(* The scanner is where a piece of the reader ends, in the condition that is the         *)

(* reader's state; in a dollar quote it is in the one piece that the reader takes.      *)
StateOf == [xe |-> InQuotes, xb |-> InBits, xh |-> InBits, xd |-> InName]
InDollarQuote ==
  LET f == lastToken.from
  IN  /\ f \in 1..Len(text) /\ ReadsTo(f, InCode) /\ Delimits(f)
      /\ pos \in (f + DelimiterLength(f))..DollarEnd(f)
Places ==
  /\ mode \in {"INITIAL", "over"} => ReadsTo(pos, InCode)
  /\ mode = "xc" => ReadsTo(pos, xcdepth + 1)
  /\ mode \in DOMAIN StateOf => ReadsTo(pos, StateOf[mode])
  /\ mode = "xdolq" => InDollarQuote

(* What is collected of a literal is what the reader has of it.                       *)
Collects ==
  mode \in DOMAIN Ends =>
    lastToken.from \in 1..pos /\ literal = Gathered(lastToken.from, pos)
Room == Len(literal) < literalalloc

(* The last token, if it is a literal, has what the reader has.                       *)
LiteralIsMeant ==
  lastToken.kind \in DOMAIN Ends =>
    lastToken.value = Gathered(lastToken.from, lastToken.to + 1)
Tokens == OperatorIsClean /\ NumberIsLongest /\ LiteralIsMeant

ScanInv == ScanTypeOK /\ Agrees /\ Places /\ Collects /\ Room /\ Tokens

LEMMA SameReadsTo ==
  ASSUME text' = text
  PROVE  \A i, s : ReadsTo(i, s)' <=> ReadsTo(i, s)
PROOF
BY SameRead, SameMeaning DEF ReadsTo

LEMMA SameGathered ==
  ASSUME text' = text
  PROVE  \A i, e : Gathered(i, e)' = Gathered(i, e)
PROOF
BY SameMeaning DEF Gathered

LEMMA TextIs == ASSUME ScanTypeOK PROVE text \in Seq(Chars) /\ Len(text) \in Nat
PROOF
BY TextsAssumption DEF ScanTypeOK

LEMMA EndsAre == DOMAIN Ends = {"xe", "xb", "xh", "xd", "xdolq"}
PROOF
BY DEF Ends

LEMMA StatesAre ==
  /\ DOMAIN StateOf = {"xe", "xb", "xh", "xd"}
  /\ StateOf["xe"] = InQuotes /\ StateOf["xb"] = InBits /\ StateOf["xh"] = InBits
       /\ StateOf["xd"] = InName
PROOF
BY DEF StateOf

(* The second part of what is put together.                                          *)
LEMMA ConcatSecond ==
  ASSUME NEW S, NEW a \in Seq(S), NEW b \in Seq(S), NEW k \in 1..Len(b)
  PROVE  (a \o b)[Len(a) + k] = b[k]
PROOF
<1>1. PICK m \in Nat, n \in Nat : m = Len(a) /\ n = Len(b)
  BY LenProperties
<1>2. \A j \in 1..(m + n) : (a \o b)[j] = IF j <= m THEN a[j] ELSE b[j - m]
  BY <1>1, ConcatProperties
<1>3. k \in 1..n
  BY <1>1
<1>4. m + k \in 1..(m + n) /\ ~(m + k <= m) /\ (m + k) - m = k
  BY <1>3
<1>5. (a \o b)[m + k] = b[(m + k) - m]
  BY ONLY <1>2, <1>4
<1> QED BY <1>1, <1>4, <1>5

(* What is scanned agrees with the reader, if all of it is of the class it is taken for.  *)
LEMMA TakeIs ==
  ASSUME ScanTypeOK, Agrees, NEW i \in pos..(Len(text) + 1), NEW c \in Known, Take(i, c),
         \A j \in pos..(i - 1) : Meaning[j].is = c
  PROVE  /\ text' = text /\ pos' = i /\ i \in 1..(Len(text) + 1)
         /\ inside' \in Seq(Known) /\ Agrees'
PROOF
<1>1. text' = text /\ pos' = i /\ inside' = inside \o [k \in 1..(i - pos) |-> c]
  BY DEF Take
<1>2. Len(text) \in Nat /\ pos \in 1..(Len(text) + 1) /\ inside \in Seq(Known)
  BY TextIs DEF ScanTypeOK, Known
<1>3. i \in 1..(Len(text) + 1)
  BY <1>2
<1>4. PICK more \in Seq(Known) : /\ more = [k \in 1..(i - pos) |-> c] /\ Len(more) = i - pos
                                /\ \A k \in 1..(i - pos) : more[k] = c
  <2>1. PICK m \in Nat : m = i - pos
    BY <1>2
  <2>2. [k \in 1..m |-> c] \in Seq(Known) /\ Len([k \in 1..m |-> c]) = m
    BY <2>1
  <2> QED BY <2>1, <2>2
<1>5. Len(inside) = pos - 1
  BY DEF Agrees
<1>6. inside' \in Seq(Known) /\ Len(inside') = i - 1
  <2>1. inside \o more \in Seq(Known) /\ Len(inside \o more) = Len(inside) + Len(more)
    BY <1>2, <1>4
  <2>2. (pos - 1) + (i - pos) = i - 1
    BY <1>2
  <2> QED BY <1>1, <1>4, <1>5, <2>1, <2>2
<1>7. ASSUME NEW j \in 1..(i - 1) PROVE inside'[j] = Meaning[j].is
  <2>1. CASE j < pos
    <3>1. j \in 1..(pos - 1)
      BY <1>2, <2>1
    <3>2. (inside \o more)[j] = inside[j]
      BY <1>2, <1>4, <1>5, <3>1
    <3> QED BY <1>1, <1>4, <3>1, <3>2 DEF Agrees
  <2>2. CASE ~(j < pos)
    <3>1. j \in pos..(i - 1) /\ j - (pos - 1) \in 1..(i - pos)
      BY <1>2, <2>2
    <3>2. (inside \o more)[j] = more[j - (pos - 1)]
      <4>1. PICK k \in 1..Len(more) : k = j - (pos - 1)
        BY <1>4, <3>1
      <4>2. (inside \o more)[Len(inside) + k] = more[k]
        BY <1>2, <4>1, ConcatSecond
      <4>3. Len(inside) + k = j
        BY <1>2, <1>5, <4>1
      <4> QED BY <4>1, <4>2, <4>3
    <3> QED BY <1>1, <1>4, <3>1, <3>2
  <2> QED BY <2>1, <2>2
<1>8. Agrees'
  BY <1>1, <1>6, <1>7, SameMeaning DEF Agrees
<1> QED BY <1>1, <1>3, <1>6, <1>8

-----------------------------------------------------------------------------
(* What all the steps of a kind have in common.                                  *)
TokenSet == [kind : Kinds, from : 1..(Len(text) + 1), to : 0..Len(text), value : Added]
IsClean(op) ==
  /\ CutComment(op) = Len(op)
  /\ Len(op) > 1 /\ Last(op) \in {"+", "-"} => ToSet(op) \cap Special # {}

(* The type invariant in other words.                                               *)
LEMMA TypeIs ==
  ScanTypeOK <=>
    /\ text \in Texts /\ pos \in 1..(Len(text) + 1)
    /\ mode \in {"INITIAL", "xc", "xe", "xb", "xh", "xd", "xdolq", "over"}
    /\ xcdepth \in Nat /\ literal \in Added /\ literalalloc \in Nat \ {0}
    /\ lastToken \in TokenSet /\ inside \in Seq(Known)
PROOF
BY DEF ScanTypeOK, TokenSet, Added, Known

LEMMA TypeIsNext ==
  ASSUME /\ text' = text /\ text \in Texts /\ pos' \in 1..(Len(text) + 1)
         /\ mode' \in {"INITIAL", "xc", "xe", "xb", "xh", "xd", "xdolq", "over"}
         /\ xcdepth' \in Nat /\ literal' \in Added /\ literalalloc' \in Nat \ {0}
         /\ lastToken' \in TokenSet' /\ inside' \in Seq(Known)
  PROVE  ScanTypeOK'
PROOF
BY DEF ScanTypeOK, TokenSet, Added, Known

(* The last token stays what it was.                                                *)
LEMMA TokenKept ==
  ASSUME text' = text, lastToken' = lastToken, lastToken \in TokenSet, Tokens
  PROVE  lastToken' \in TokenSet' /\ Tokens'
PROOF
<1>1. lastToken' \in TokenSet'
  BY DEF TokenSet
<1>2. OperatorIsClean'
  BY DEF Tokens, OperatorIsClean
<1>3. NumberIsLongest'
  BY SameNumber DEF Tokens, NumberIsLongest
<1>4. LiteralIsMeant'
  BY SameGathered DEF Tokens, LiteralIsMeant
<1> QED BY <1>1, <1>2, <1>3, <1>4 DEF Tokens

(* A token from pos up to i that is not a literal.                                *)
LEMMA TokenMade ==
  ASSUME ScanTypeOK, NEW i \in (pos + 1)..(Len(text) + 1), NEW k \in Kinds \ DOMAIN Ends,
         NEW v \in Added, Token(k, i, v), text' = text,
         k \in {"named", "character", "Op"} /\ v[1] \in OpChars => IsClean(v),
         k \in {"ICONST", "FCONST"} => i - pos = NumberLength(pos),
         k = "ICONST" => IsInteger(v)
  PROVE  lastToken' \in TokenSet' /\ Tokens'
PROOF
<1>1. lastToken' = [kind |-> k, from |-> pos, to |-> i - 1, value |-> v]
  BY DEF Token
<1>2. Len(text) \in Nat /\ pos \in 1..(Len(text) + 1)
  BY TextIs DEF ScanTypeOK
<1>3. i - 1 \in 0..Len(text) /\ (i - 1) - pos + 1 = i - pos
  BY <1>2
<1>4. lastToken' \in TokenSet'
  BY <1>1, <1>2, <1>3 DEF TokenSet
<1>5. /\ lastToken'.kind = k /\ lastToken'.from = pos /\ lastToken'.to = i - 1
           /\ lastToken'.value = v
  BY <1>1
<1>6. OperatorIsClean'
  BY <1>5 DEF OperatorIsClean, IsClean
<1>7. NumberIsLongest'
  BY <1>3, <1>5, SameNumber DEF NumberIsLongest
<1>8. LiteralIsMeant'
  BY <1>5, EndsAre DEF LiteralIsMeant
<1> QED BY <1>4, <1>6, <1>7, <1>8 DEF Tokens

(* A step between tokens that takes what the reader takes up to i.                    *)
LEMMA CodeStep ==
  ASSUME ScanInv, mode = "INITIAL", NEW i \in pos..(Len(text) + 1), NEW c \in Known,
         Take(i, c), \A j \in pos..(i - 1) : Meaning[j].is = c, ReadsTo(i, InCode),
         mode' = mode, xcdepth' = xcdepth, SameLiteral, lastToken' \in TokenSet', Tokens'
  PROVE  ScanInv'
PROOF
<1>1. ScanTypeOK /\ Agrees /\ Room
  BY DEF ScanInv
<1>2. /\ text' = text /\ pos' = i /\ i \in 1..(Len(text) + 1)
      /\ inside' \in Seq(Known) /\ Agrees'
  BY <1>1, TakeIs
<1>3. ScanTypeOK'
  BY <1>1, <1>2, TypeIs, TypeIsNext DEF SameLiteral
<1>4. Places'
  BY <1>2, SameReadsTo, StatesAre DEF Places
<1>5. Collects' /\ Room'
  BY <1>1, EndsAre DEF Collects, Room, SameLiteral
<1> QED BY <1>2, <1>3, <1>4, <1>5 DEF ScanInv

(* A step to or within a comment, or out of it.                                    *)
LEMMA CommentStep ==
  ASSUME ScanInv, NEW i \in pos..(Len(text) + 1), Take(i, "comment"),
         \A j \in pos..(i - 1) : Meaning[j].is = "comment",
         \/ mode' = "xc" /\ xcdepth' \in Nat /\ ReadsTo(i, xcdepth' + 1)
         \/ mode' = "INITIAL" /\ xcdepth' \in Nat /\ ReadsTo(i, InCode),
         UNCHANGED lastToken, SameLiteral
  PROVE  ScanInv'
PROOF
<1>1. ScanTypeOK /\ Agrees /\ Room /\ Tokens
  BY DEF ScanInv
<1>2. /\ text' = text /\ pos' = i /\ i \in 1..(Len(text) + 1)
      /\ inside' \in Seq(Known) /\ Agrees'
  <2>1. "comment" \in Known
    BY DEF Known
  <2> QED BY <1>1, <2>1, TakeIs
<1>3. lastToken' \in TokenSet' /\ Tokens'
  BY <1>1, <1>2, TypeIs, TokenKept
<1>4. ScanTypeOK'
  BY <1>1, <1>2, <1>3, TypeIs, TypeIsNext DEF SameLiteral
<1>5. Places'
  BY <1>2, SameReadsTo, StatesAre DEF Places
<1>6. Collects' /\ Room'
  BY <1>1, EndsAre DEF Collects, Room, SameLiteral
<1> QED BY <1>2, <1>3, <1>4, <1>5, <1>6 DEF ScanInv

LEMMA AddedIs ==
  /\ <<>> \in Added /\ \A s, t \in Added : s \o t \in Added /\ Len(s \o t) = Len(s) + Len(t)
  /\ \A s \in Added : Len(s) \in Nat
  /\ \A c \in Chars \cup {"BS"} : <<c>> \in Added
PROOF
BY DEF Added

(* A literal starts: the text from pos up to i adds s to it.                          *)
LEMMA StartStep ==
  ASSUME ScanInv, NEW m \in DOMAIN Ends, NEW i \in (pos + 1)..(Len(text) + 1), NEW s \in Added,
         StartLit(m, i, s), \A j \in pos..(i - 1) : Meaning[j].is = "literal",
         m \in DOMAIN StateOf => ReadsTo(i, StateOf[m]),
         m = "xdolq" => /\ ReadsTo(pos, InCode) /\ Delimits(pos)
                        /\ i \in (pos + DelimiterLength(pos))..DollarEnd(pos),
         s = Gathered(pos, i)
  PROVE  ScanInv'
PROOF
<1>1. ScanTypeOK /\ Agrees
  BY DEF ScanInv
<1>2. Len(text) \in Nat /\ pos \in 1..(Len(text) + 1)
  BY <1>1, TextIs DEF ScanTypeOK
<1>3. /\ Take(i, "literal") /\ mode' = m /\ literal' = s
           /\ literalalloc' = Grown(literalalloc, Len(s))
      /\ lastToken' = [NoToken EXCEPT !.from = pos] /\ xcdepth' = xcdepth
  BY DEF StartLit
<1>4. /\ text' = text /\ pos' = i /\ i \in 1..(Len(text) + 1)
      /\ inside' \in Seq(Known) /\ Agrees'
  <2>1. "literal" \in Known /\ i \in pos..(Len(text) + 1)
    BY <1>2 DEF Known
  <2> QED BY <1>1, <1>3, <2>1, TakeIs
<1>5. lastToken' = [kind |-> "none", from |-> pos, to |-> 0, value |-> <<>>]
  BY <1>3 DEF NoToken
<1>6. lastToken'.kind = "none" /\ lastToken'.from = pos
  BY <1>5
<1>7. lastToken' \in TokenSet'
  <2>1. <<>> \in Added /\ "none" \in Kinds /\ 0 \in 0..Len(text)
    BY <1>2, AddedIs DEF Kinds
  <2> QED BY <1>2, <1>4, <1>5, <2>1 DEF TokenSet
<1>8. Tokens'
  BY <1>6, EndsAre DEF Tokens, OperatorIsClean, NumberIsLongest, LiteralIsMeant
<1>9. literalalloc' \in Nat \ {0} /\ Room'
  <2>1. literalalloc \in Nat \ {0} /\ Len(s) \in Nat
    BY <1>1, AddedIs DEF ScanTypeOK
  <2>2. Grown(literalalloc, Len(s)) \in Nat /\ Len(s) < Grown(literalalloc, Len(s))
    BY <2>1, GrownIs
  <2> QED BY <1>3, <2>1, <2>2 DEF Room
<1>10. ScanTypeOK'
  BY <1>1, <1>3, <1>4, <1>7, <1>9, TypeIs, TypeIsNext, EndsAre
<1>11. Places'
  <2>1. mode' \notin {"INITIAL", "over", "xc"}
    BY <1>3, EndsAre
  <2>2. mode' \in DOMAIN StateOf => ReadsTo(pos, StateOf[mode])'
    BY <1>3, <1>4, SameReadsTo DEF StateOf
  <2>3. mode' = "xdolq" => InDollarQuote'
    <3>1. SUFFICES ASSUME m = "xdolq" PROVE InDollarQuote'
      BY <1>3
    <3>2. /\ Delimits(pos)' = Delimits(pos)' /\ pos \in 1..Len(text)
      BY <1>2
    <3>3. \A f : Delimits(f)' <=> Delimits(f)
      BY <1>4, SameAt, SameRun DEF Delimits, TagEnd
    <3> QED BY <1>4, <1>6, <3>1, <3>2, <3>3, SameReadsTo, SameDelimiter DEF InDollarQuote
  <2> QED BY <2>1, <2>2, <2>3 DEF Places, StateOf
<1>12. Collects'
  <2>1. pos \in 1..i
    BY <1>2
  <2> QED BY <1>3, <1>4, <1>6, <2>1, SameGathered DEF Collects
<1> QED BY <1>4, <1>8, <1>9, <1>10, <1>11, <1>12 DEF ScanInv

(* A part of a literal up to i, that adds s to it.                                  *)
LEMMA PartStep ==
  ASSUME ScanInv, mode \in DOMAIN Ends, NEW i \in (pos + 1)..(Len(text) + 1), NEW s \in Added,
         Part(i, s), \A j \in pos..(i - 1) : Meaning[j].is = "literal",
         mode \in DOMAIN StateOf => ReadsTo(i, StateOf[mode]),
         mode = "xdolq" => i <= DollarEnd(lastToken.from),
         Gathered(lastToken.from, i) = Gathered(lastToken.from, pos) \o s
  PROVE  ScanInv'
PROOF
<1>1. ScanTypeOK /\ Agrees /\ Room /\ Tokens /\ Collects /\ Places
  BY DEF ScanInv
<1>2. Len(text) \in Nat /\ pos \in 1..(Len(text) + 1) /\ literal \in Added
  BY <1>1, TextIs, TypeIs
<1>3. /\ Take(i, "literal") /\ literal' = literal \o s
      /\ literalalloc' = Grown(literalalloc, Len(literal) + Len(s))
      /\ mode' = mode /\ xcdepth' = xcdepth /\ lastToken' = lastToken
  BY DEF Part, AddLit
<1>4. /\ text' = text /\ pos' = i /\ i \in 1..(Len(text) + 1)
      /\ inside' \in Seq(Known) /\ Agrees'
  <2>1. "literal" \in Known /\ i \in pos..(Len(text) + 1)
    BY <1>2 DEF Known
  <2> QED BY <1>1, <1>3, <2>1, TakeIs
<1>5. lastToken' \in TokenSet' /\ Tokens'
  BY <1>1, <1>3, <1>4, TypeIs, TokenKept
<1>6. literal' \in Added /\ literalalloc' \in Nat \ {0} /\ Room'
  <2>1. literalalloc \in Nat \ {0} /\ Len(literal) + Len(s) \in Nat
    BY <1>1, <1>2, AddedIs DEF ScanTypeOK
  <2>2. PICK n \in Nat : n = Len(literal) + Len(s)
    BY <2>1
  <2>3. Grown(literalalloc, n) \in Nat /\ n < Grown(literalalloc, n)
    BY <2>1, GrownIs
  <2>4. literal' \in Added /\ Len(literal') = n
    BY <1>2, <1>3, <2>2, AddedIs
  <2> QED BY <1>3, <2>2, <2>3, <2>4 DEF Room
<1>7. ScanTypeOK'
  BY <1>1, <1>3, <1>4, <1>5, <1>6, TypeIs, TypeIsNext
<1>8. Places'
  <2>1. mode' \notin {"INITIAL", "over", "xc"}
    BY <1>3, EndsAre
  <2>2. mode' \in DOMAIN StateOf => ReadsTo(pos, StateOf[mode])'
    BY <1>3, <1>4, SameReadsTo DEF StateOf
  <2>3. mode' = "xdolq" => InDollarQuote'
    <3>1. SUFFICES ASSUME mode = "xdolq" PROVE InDollarQuote'
      BY <1>3
    <3>2. InDollarQuote
      BY <1>1, <3>1 DEF Places
    <3>3. \A f : Delimits(f)' <=> Delimits(f)
      BY <1>4, SameAt, SameRun DEF Delimits, TagEnd
    <3>4. PICK f \in 1..Len(text) : f = lastToken.from
      BY <3>2 DEF InDollarQuote
    <3>5. ReadsTo(f, InCode) /\ Delimits(f) /\ pos \in (f + DelimiterLength(f))..DollarEnd(f)
      BY <3>2, <3>4 DEF InDollarQuote
    <3>6. DelimiterLength(f) \in Nat /\ DollarEnd(f) \in Int
      <4>1. text \in Seq(Chars)
        BY <1>1, TextIs
      <4>2. PICK len \in Nat : len = DelimiterLength(f)
        BY <1>2, <4>1, DelimiterLengthIs
      <4>3. DollarEnd(f) \in (f + len)..(Len(text) + 1)
        BY <4>1, <4>2, DollarEndIs
      <4> QED BY <4>2, <4>3
    <3>7. i \in (f + DelimiterLength(f))..DollarEnd(f)
      BY <1>2, <3>1, <3>4, <3>5, <3>6
    <3> QED BY <1>3, <1>4, <3>3, <3>4, <3>5, <3>7, SameReadsTo, SameDelimiter DEF InDollarQuote
  <2> QED BY <2>1, <2>2, <2>3 DEF Places, StateOf
<1>9. Collects'
  <2>1. lastToken.from \in 1..pos /\ literal = Gathered(lastToken.from, pos)
    BY <1>1 DEF Collects
  <2>2. lastToken.from \in 1..i
    BY <1>2, <2>1
  <2> QED BY <1>3, <1>4, <2>1, <2>2, SameGathered DEF Collects
<1> QED BY <1>4, <1>5, <1>6, <1>7, <1>8, <1>9 DEF ScanInv

(* The end of a literal.                                                     *)
LEMMA StopStep ==
  ASSUME ScanInv, mode \in DOMAIN Ends, NEW i \in (pos + 1)..(Len(text) + 1),
         Take(i, "literal"), \A j \in pos..(i - 1) : Meaning[j].is = "literal",
         mode' = "INITIAL", xcdepth' = xcdepth, SameLiteral, ReadsTo(i, InCode),
         lastToken' = [kind |-> mode, from |-> lastToken.from, to |-> i - 1, value |-> literal],
         Gathered(lastToken.from, i) = Gathered(lastToken.from, pos)
  PROVE  ScanInv'
PROOF
<1>1. ScanTypeOK /\ Agrees /\ Room /\ Tokens /\ Collects /\ Places
  BY DEF ScanInv
<1>2. /\ Len(text) \in Nat /\ pos \in 1..(Len(text) + 1) /\ literal \in Added
      /\ lastToken \in TokenSet
  BY <1>1, TextIs, TypeIs
<1>3. /\ text' = text /\ pos' = i /\ i \in 1..(Len(text) + 1)
      /\ inside' \in Seq(Known) /\ Agrees'
  <2>1. "literal" \in Known /\ i \in pos..(Len(text) + 1)
    BY <1>2 DEF Known
  <2> QED BY <1>1, <2>1, TakeIs
<1>4. /\ lastToken'.kind = mode /\ lastToken'.from = lastToken.from /\ lastToken'.to = i - 1
      /\ lastToken'.value = literal
  OBVIOUS
<1>5. lastToken' \in TokenSet'
  <2>1. lastToken.from \in 1..(Len(text) + 1) /\ i - 1 \in 0..Len(text) /\ mode \in Kinds
    BY <1>2, <1>3, EndsAre DEF TokenSet, Kinds
  <2>2. [kind |-> mode, from |-> lastToken.from, to |-> i - 1, value |-> literal] \in TokenSet
    BY <1>2, <2>1 DEF TokenSet
  <2>3. TokenSet' = TokenSet
    BY <1>3 DEF TokenSet
  <2> QED BY <2>2, <2>3
<1>6. Tokens'
  <2>1. literal = Gathered(lastToken.from, i)
    BY <1>1 DEF Collects
  <2>2. i - 1 + 1 = i
    BY <1>3
  <2>3. LiteralIsMeant'
    BY <1>3, <1>4, <2>1, <2>2, SameGathered DEF LiteralIsMeant
  <2>4. OperatorIsClean' /\ NumberIsLongest'
    BY <1>4, EndsAre DEF OperatorIsClean, NumberIsLongest
  <2> QED BY <2>3, <2>4 DEF Tokens
<1>7. ScanTypeOK'
  BY <1>1, <1>3, <1>5, TypeIs, TypeIsNext DEF SameLiteral
<1>8. Places'
  BY <1>3, SameReadsTo, StatesAre DEF Places
<1>9. Collects' /\ Room'
  BY <1>1, EndsAre DEF Collects, Room, SameLiteral
<1> QED BY <1>3, <1>6, <1>7, <1>8, <1>9 DEF ScanInv

-----------------------------------------------------------------------------
(* What the reader makes of each thing that the scanner takes between tokens.           *)
LEMMA StatesDiffer ==
  /\ InCode = 0 /\ InLine = -1 /\ InQuotes = -2 /\ InBits = -3 /\ InName = -4 /\ InWord = -5
  /\ InDollar = -6
PROOF
BY DEF InCode, InLine, InQuotes, InBits, InName, InWord, InDollar

LEMMA StateStays == \A i, s : s # InWord /\ s # InLine => StateAt(i, s) = s
PROOF
BY DEF StateAt

LEMMA CodeStays == \A i : StateAt(i, InCode) = InCode
PROOF
BY StatesDiffer, StateStays

LEMMA PartsAre ==
  /\ Code.is = "code" /\ Code.adds = <<>> /\ Comment.is = "comment"
  /\ Mark.is = "literal" /\ Mark.adds = <<>>
  /\ \A c : Adds(c).is = "literal" /\ Adds(c).adds = <<c>>
  /\ Code \in Meanings /\ Comment \in Meanings /\ Mark \in Meanings
PROOF
BY MeaningsAre DEF Code, Comment, Mark, Adds, Is

(* A run of characters that all mean the same, and one of code.                     *)
LEMMA RunOf ==
  ASSUME text \in Seq(Chars), NEW i \in 1..(Len(text) + 1), NEW e \in i..(Len(text) + 1),
         NEW s, ReadsTo(i, s), NEW d, \A j \in i..(e - 1) : ReadAt(j, s) = Reads(<<d>>, s),
         \A j \in (i + 1)..(e - 1) : StateAt(j, s) = s
  PROVE  /\ ReadsTo(e, IF e = i THEN s ELSE StateAt(e, s))
         /\ \A j \in i..(e - 1) : Meaning[j] = d
PROOF
<1>1. PICK c : c = [j \in i..(e - 1) |-> d]
  OBVIOUS
<1>2. \A j \in i..(e - 1) : c[j] = d
  BY <1>1
<1>3. \A j \in i..(e - 1) : ReadAt(j, s) = Reads(<<c[j]>>, s)
  BY <1>2
<1>4. /\ ReadsTo(e, IF e = i THEN s ELSE StateAt(e, s))
      /\ \A j \in i..(e - 1) : Meaning[j] = c[j]
  <2>1. /\ text \in Seq(Chars) /\ i \in 1..(Len(text) + 1) /\ e \in i..(Len(text) + 1)
        /\ ReadsTo(i, s) /\ \A j \in (i + 1)..(e - 1) : StateAt(j, s) = s
    OBVIOUS
  <2> QED BY ONLY <1>3, <2>1, ReadRun
<1> QED BY <1>2, <1>4

LEMMA CodeRun ==
  ASSUME text \in Seq(Chars), NEW i \in 1..(Len(text) + 1), NEW e \in i..(Len(text) + 1),
         ReadsTo(i, InCode), \A j \in i..(e - 1) : ReadAt(j, InCode) = Reads(<<Code>>, InCode)
  PROVE  ReadsTo(e, InCode) /\ \A j \in i..(e - 1) : Meaning[j] = Code
PROOF
<1>1. \A j \in (i + 1)..(e - 1) : StateAt(j, InCode) = InCode
  BY CodeStays
<1>2. /\ ReadsTo(e, IF e = i THEN InCode ELSE StateAt(e, InCode))
      /\ \A j \in i..(e - 1) : Meaning[j] = Code
  BY <1>1, RunOf
<1> QED BY <1>2, CodeStays

(* A run in a state that a character not of the run ends.                            *)
LEMMA EndedRun ==
  ASSUME text \in Seq(Chars), NEW i \in 1..(Len(text) + 1), NEW e \in i..(Len(text) + 1),
         NEW s, ReadsTo(i, StateAt(i, s)), NEW d, StateAt(e, s) = InCode,
         \A j \in i..(e - 1) : StateAt(j, s) = s /\ ReadAt(j, s) = Reads(<<d>>, s)
  PROVE  ReadsTo(e, InCode) /\ \A j \in i..(e - 1) : Meaning[j] = d
PROOF
<1>1. CASE e = i
  BY <1>1
<1>2. CASE e # i
  <2>1. Len(text) \in Nat
    BY AtIs
  <2>2. i \in i..(e - 1)
    BY <1>2, <2>1
  <2>3. ReadsTo(i, s)
    BY <2>2
  <2>4. \A j \in (i + 1)..(e - 1) : StateAt(j, s) = s
    BY <2>1
  <2>5. \A j \in i..(e - 1) : ReadAt(j, s) = Reads(<<d>>, s)
    OBVIOUS
  <2>6. /\ ReadsTo(e, IF e = i THEN s ELSE StateAt(e, s))
        /\ \A j \in i..(e - 1) : Meaning[j] = d
    BY ONLY text \in Seq(Chars), i \in 1..(Len(text) + 1), e \in i..(Len(text) + 1),
            <2>3, <2>4, <2>5, RunOf
  <2> QED BY <1>2, <2>6
<1> QED BY <1>1, <1>2

(* Space, a line comment, and a word, are read as the scanner takes them.           *)
LEMMA SpacesAre ==
  ASSUME text \in Seq(Chars), NEW i \in 1..Len(text), ReadsTo(i, InCode), At(i) \in Space
  PROVE  LET e == RunEnd(i, Space)
         IN  /\ e \in i..(Len(text) + 1) /\ ReadsTo(e, InCode)
             /\ \A j \in i..(e - 1) : Meaning[j] = Code
PROOF
<1>1. Len(text) \in Nat /\ Space \in SUBSET Chars
  BY AtIs DEF Chars
<1>2. PICK e \in i..(Len(text) + 1) :
        e = RunEnd(i, Space) /\ \A j \in i..(e - 1) : At(j) \in Space /\ j \in 1..Len(text)
  <2>1. i \in 1..(Len(text) + 1)
    BY <1>1
  <2> QED BY <1>1, <2>1, RunEndIs
<1>3. ASSUME NEW j \in i..(e - 1) PROVE ReadAt(j, InCode) = Reads(<<Code>>, InCode)
  <2>1. At(j) \in Space /\ j \in 1..Len(text) /\ j \in Int
    BY <1>2
  <2>2. /\ At(j) \notin {Quote, DQuote, Dollar} /\ At(j) \notin Letters
        /\ At(j) \notin Digits /\ At(j) \notin {".", "/", "-"}
    BY <2>1 DEF Space, Quote, DQuote, Dollar, Letters, Digits
  <2>3. ~StartsNumber(j) /\ ~Seen(j, <<"/", "*">>) /\ ~Seen(j, <<"-", "-">>)
    BY <2>1, <2>2, SeenIs DEF StartsNumber
  <2> QED BY <2>1, <2>2, <2>3, PlainIs
<1>4. i \in 1..(Len(text) + 1)
  BY <1>1
<1> QED BY <1>2, <1>3, <1>4, CodeRun

LEMMA LineIs ==
  ASSUME text \in Seq(Chars), NEW i \in 1..Len(text), ReadsTo(i, InCode), Seen(i, <<"-", "-">>)
  PROVE  LET e == LineEnd(i)
         IN  /\ e \in i..(Len(text) + 1) /\ ReadsTo(e, InCode)
             /\ \A j \in i..(e - 1) : Meaning[j] = Comment
PROOF
<1>1. Len(text) \in Nat /\ i \in 1..(Len(text) + 1) /\ i \in Int
  BY AtIs
<1>2. PICK e \in i..(Len(text) + 1) :
        /\ e = LineEnd(i)
        /\ \A j \in i..(e - 1) : At(j) \notin {Newline, "EOF"} /\ j \in 1..Len(text)
        /\ At(e) \in {Newline, "EOF"}
  BY <1>1, LineEndIs
<1>3. At(i) = "-" /\ At(i + 1) = "-"
  BY <1>1, SeenIs
<1>4. "-" \notin {Newline, "EOF"}
  BY DEF Newline
<1>5. e # i /\ e # i + 1
  BY <1>2, <1>3, <1>4
<1>6. e >= i + 2 /\ i + 2 \in 1..(Len(text) + 1) /\ e \in (i + 2)..(Len(text) + 1)
  BY <1>1, <1>2, <1>5
<1>7. ReadAt(i, InCode) = Reads(<<Comment, Comment>>, InLine)
  <2>1. ~Seen(i, <<"/", "*">>)
    BY <1>1, <1>3, SeenIs
  <2> QED BY <2>1, InCodeIs, Zenon DEF CodeAt
<1>8. /\ ReadsTo(i + 2, StateAt(i + 2, InLine))
      /\ Meaning[i] = Comment /\ Meaning[i + 1] = Comment
  BY <1>7, ReadTwo
<1>9. StateAt(e, InLine) = InCode
  BY <1>2 DEF StateAt
<1>10. \A j \in (i + 2)..(e - 1) : StateAt(j, InLine) = InLine
         /\ ReadAt(j, InLine) = Reads(<<Comment>>, InLine)
  <2>1. InLine # InWord
    BY StatesDiffer
  <2>2. \A j \in (i + 2)..(e - 1) : At(j) \notin {Newline, "EOF"}
    BY <1>1, <1>2
  <2> QED BY <2>1, <2>2 DEF StateAt, ReadAt
<1>11. ReadsTo(e, InCode) /\ \A j \in (i + 2)..(e - 1) : Meaning[j] = Comment
  <2>1. PICK h \in 1..(Len(text) + 1) : h = i + 2
    BY <1>6
  <2>2. e \in h..(Len(text) + 1) /\ ReadsTo(h, StateAt(h, InLine))
    BY <1>6, <1>8, <2>1
  <2>3. \A j \in h..(e - 1) : StateAt(j, InLine) = InLine
          /\ ReadAt(j, InLine) = Reads(<<Comment>>, InLine)
    BY <1>10, <2>1
  <2>4. ReadsTo(e, InCode) /\ \A j \in h..(e - 1) : Meaning[j] = Comment
    BY <1>9, <2>2, <2>3, EndedRun
  <2> QED BY <2>1, <2>4
<1>12. \A j \in i..(e - 1) : j = i \/ j = i + 1 \/ j \in (i + 2)..(e - 1)
  BY <1>1
<1>13. \A j \in i..(e - 1) : Meaning[j] = Comment
  BY <1>8, <1>11, <1>12
<1> QED BY <1>2, <1>11, <1>13

LEMMA LettersAre ==
  \A c \in Letters : /\ c \in Chars /\ c \in IdentCont
                     /\ c \notin {Quote, DQuote, Dollar, "/", "-", ".", "EOF"} /\ c \notin Digits
PROOF
BY DEF Letters, Chars, IdentCont, InTag, Digits, Quote, DQuote, Dollar

LEMMA QuotesAre ==
  /\ Quote \notin IdentCont /\ Quote \notin Letters /\ Quote \notin Digits /\ Quote # DQuote
  /\ DQuote \notin Letters /\ DQuote \notin Digits /\ Quote # Dollar /\ DQuote # Dollar
  /\ Quote \notin {"/", "-", "EOF", "."} /\ DQuote \notin {"/", "-", "EOF", "."}
  /\ Quote \in Chars /\ DQuote \in Chars /\ Dollar \notin {"/", "-", "EOF", "."}
  /\ Backslash # Quote /\ Backslash # DQuote /\ Backslash \in Chars
PROOF
BY DEF IdentCont, InTag, Letters, Digits, Quote, DQuote, Dollar, Chars, Backslash

LEMMA LetterIs ==
  ASSUME text \in Seq(Chars), NEW i \in 1..Len(text), At(i) \in Letters,
         ~(At(i) \in {"b", "e", "x"} /\ At(i + 1) = Quote)
  PROVE  ReadAt(i, InCode) = Reads(<<Code>>, InWord)
PROOF
<1>1. i \in Int
  BY AtIs
<1>2. ~Seen(i, <<"e", Quote>>) /\ ~Seen(i, <<"b", Quote>>) /\ ~Seen(i, <<"x", Quote>>)
  BY <1>1, SeenIs
<1>3. LetterAt(i) = Reads(<<Code>>, InWord)
  BY <1>2, Zenon DEF LetterAt
<1>4. At(i) \notin {Quote, DQuote, Dollar, "/", "-"}
  BY LettersAre
<1>5. ~Seen(i, <<"/", "*">>) /\ ~Seen(i, <<"-", "-">>)
  BY <1>1, <1>4, SeenIs
<1>6. At(i) # Quote /\ At(i) # DQuote /\ At(i) # Dollar
  BY <1>4
<1>7. CodeAt(i) = LetterAt(i)
  BY <1>5, <1>6, Zenon DEF CodeAt
<1> QED BY <1>3, <1>7, InCodeIs

LEMMA WordIs ==
  ASSUME text \in Seq(Chars), NEW i \in 1..Len(text), ReadsTo(i, InCode), At(i) \in Letters,
         ~(At(i) \in {"b", "e", "x"} /\ At(i + 1) = Quote)
  PROVE  LET e == RunEnd(i, IdentCont)
         IN  /\ e \in (i + 1)..(Len(text) + 1) /\ ReadsTo(e, InCode)
             /\ \A j \in i..(e - 1) : Meaning[j] = Code
PROOF
<1>1. Len(text) \in Nat /\ i \in 1..(Len(text) + 1) /\ IdentCont \in SUBSET Chars
  <2>1. Len(text) \in Nat
    BY AtIs
  <2>2. IdentCont \in SUBSET Chars
    BY DEF Chars
  <2> QED BY <2>1, <2>2
<1>2. PICK e \in i..(Len(text) + 1) :
        /\ e = RunEnd(i, IdentCont)
        /\ \A j \in i..(e - 1) : At(j) \in IdentCont /\ j \in 1..Len(text)
        /\ At(e) \notin IdentCont
  BY <1>1, RunEndIs
<1>3. e # i
  BY <1>2, LettersAre
<1>4. PICK h \in 1..(Len(text) + 1) : h = i + 1 /\ e \in h..(Len(text) + 1)
  BY <1>1, <1>2, <1>3
<1>5. ReadsTo(i + 1, StateAt(i + 1, InWord)) /\ Meaning[i] = Code
  BY LetterIs, ReadOne
<1>6. ReadsTo(h, StateAt(h, InWord))
  BY <1>4, <1>5
<1>7. StateAt(e, InWord) = InCode
  BY <1>2 DEF StateAt
<1>8. \A j \in h..(e - 1) : StateAt(j, InWord) = InWord
        /\ ReadAt(j, InWord) = Reads(<<Code>>, InWord)
  <2>1. InLine # InWord
    BY StatesDiffer
  <2>2. \A j \in h..(e - 1) : At(j) \in IdentCont
    BY <1>1, <1>2, <1>4
  <2> QED BY <2>1, <2>2 DEF StateAt, ReadAt
<1>9. ReadsTo(e, InCode) /\ \A j \in h..(e - 1) : Meaning[j] = Code
  BY <1>4, <1>6, <1>7, <1>8, EndedRun
<1>10. \A j \in i..(e - 1) : j = i \/ j \in h..(e - 1)
  BY <1>1, <1>4
<1>11. e \in (i + 1)..(Len(text) + 1)
  BY <1>4
<1> QED BY <1>2, <1>5, <1>9, <1>10, <1>11

(* The keyword before the quote of a national literal.                              *)
LEMMA NationalIs ==
  ASSUME text \in Seq(Chars), NEW i \in 1..Len(text), ReadsTo(i, InCode), Seen(i, <<"n", Quote>>)
  PROVE  ReadsTo(i + 1, InCode) /\ Meaning[i] = Code
PROOF
<1>1. i \in Int /\ At(i) = "n" /\ At(i + 1) = Quote
  BY AtIs, SeenIs
<1>2. "n" \in Letters /\ "n" \notin {"b", "e", "x"}
  BY DEF Letters
<1>3. ReadAt(i, InCode) = Reads(<<Code>>, InWord)
  BY <1>1, <1>2, LetterIs
<1>4. ReadsTo(i + 1, StateAt(i + 1, InWord)) /\ Meaning[i] = Code
  BY <1>3, ReadOne
<1>5. StateAt(i + 1, InWord) = InCode
  BY <1>1, QuotesAre DEF StateAt
<1> QED BY <1>4, <1>5

(* So are a number and a parameter.                                                 *)
LEMMA NumberReads ==
  ASSUME text \in Seq(Chars), NEW i \in 1..Len(text), ReadsTo(i, InCode), StartsNumber(i),
         NumberLength(i) > 0
  PROVE  /\ ReadsTo(i + NumberLength(i), InCode)
         /\ \A j \in i..(i + NumberLength(i) - 1) : Meaning[j] = Code
PROOF
<1>1. i \in Int /\ At(i) \in Digits \cup {"."}
  BY AtIs DEF StartsNumber
<1>2. At(i) \notin {Quote, DQuote, Dollar, "/", "-"} /\ At(i) \notin Letters
  BY <1>1 DEF Digits, Quote, DQuote, Dollar, Letters
<1>3. ~Seen(i, <<"/", "*">>) /\ ~Seen(i, <<"-", "-">>)
  BY <1>1, <1>2, SeenIs
<1>4. At(i) # Quote /\ At(i) # DQuote /\ At(i) # Dollar
  BY <1>2
<1>5. ReadAt(i, InCode) = Reads(Times(NumberLength(i), Code), InCode)
  BY <1>2, <1>3, <1>4, InCodeIs, Zenon DEF CodeAt
<1>6. NumberLength(i) \in Nat
  BY NumberLengthIs
<1> QED BY <1>5, <1>6, PartsAre, ReadTimes, CodeStays

LEMMA ParamReads ==
  ASSUME text \in Seq(Chars), NEW i \in 1..Len(text), ReadsTo(i, InCode), At(i) = Dollar,
         At(i + 1) \in Digits
  PROVE  LET e == RunEnd(i + 1, Digits)
         IN  /\ e \in (i + 1)..(Len(text) + 1) /\ ReadsTo(e, InCode)
             /\ \A j \in i..(e - 1) : Meaning[j] = Code
PROOF
<1>1. Len(text) \in Nat /\ i \in Int
  BY AtIs
<1>2. PICK h \in 1..(Len(text) + 1) : h = i + 1
  BY <1>1
<1>3. PICK e \in h..(Len(text) + 1) : e = RunEnd(h, Digits)
  BY DigitsAre, RunEndIs
<1>4. PICK len \in Nat : len = e - i
  BY <1>1, <1>2, <1>3
<1>5. ReadAt(i, InCode) = Reads(Times(len, Code), InCode)
  <2>1. ~Seen(i, <<"/", "*">>) /\ ~Seen(i, <<"-", "-">>) /\ At(i) # Quote /\ At(i) # DQuote
    BY <1>1, SeenIs, QuotesAre
  <2>2. CodeAt(i) = DollarAt(i)
    BY <2>1, Zenon DEF CodeAt
  <2>3. RunEnd(i + 1, Digits) - i = len
    BY <1>2, <1>3, <1>4
  <2>4. DollarAt(i) = Reads(Times(len, Code), InCode)
    BY <2>3, Zenon DEF DollarAt
  <2> QED BY <2>2, <2>4, InCodeIs
<1>6. /\ ReadsTo(i + len, StateAt(i + len, InCode))
      /\ \A j \in i..(i + len - 1) : Meaning[j] = Code
  BY <1>5, PartsAre, ReadTimes
<1>7. i + len = e
  BY <1>1, <1>3, <1>4
<1>8. ReadsTo(e, InCode) /\ \A j \in i..(e - 1) : Meaning[j] = Code
  <2>1. i + len - 1 = e - 1
    BY <1>1, <1>3, <1>4
  <2> QED BY <1>6, <1>7, <2>1, CodeStays
<1> QED BY <1>2, <1>3, <1>8

Separators == {",", Backslash}

LEMMA SeparatorsAre ==
  /\ \A c \in Separators : /\ c \in Chars /\ c \notin OpChars /\ c \notin Letters /\ c \notin Digits
                            /\ c \notin {Quote, DQuote, Dollar, "/", "-", ".", "EOF"}
  /\ "." \notin {Quote, DQuote, Dollar, "/", "-", "EOF"} /\ "." \notin Letters /\ "." \notin Digits
  /\ "." \notin OpChars /\ "." \in Chars
  /\ Dollar # "." /\ Dollar \notin OpChars /\ Dollar \in Chars
PROOF
<1>1. \A c \in Separators : c \in Chars
  BY Zenon DEF Separators, Chars
<1>2. \A c \in Separators : c \notin OpChars
  BY Zenon DEF Separators, OpChars, Special, Backslash
<1>3. \A c \in Separators : c \notin Letters /\ c \notin Digits
  BY Zenon DEF Separators, Letters, Digits, Backslash
<1>4. \A c \in Separators : c \notin {Quote, DQuote, Dollar, "/", "-", ".", "EOF"}
  BY Zenon DEF Separators, Quote, DQuote, Dollar, Backslash
<1>5. /\ "." \notin {Quote, DQuote, Dollar, "/", "-", "EOF"} /\ "." \notin Letters
      /\ "." \notin Digits /\ "." \notin OpChars
  BY DEF OpChars, Special, Letters, Digits, Quote, DQuote, Dollar
<1>6. Dollar # "." /\ Dollar \notin OpChars
  BY DEF OpChars, Special, Dollar
<1>7. "." \in Chars /\ Dollar \in Chars
  BY Zenon, DollarIs DEF Chars
<1> QED BY <1>1, <1>2, <1>3, <1>4, <1>5, <1>6, <1>7

(* So is a character that is a token.                                               *)
LEMMA OtherReads ==
  ASSUME text \in Seq(Chars), NEW i \in 1..Len(text), ReadsTo(i, InCode),
         \/ At(i) \in Separators
         \/ At(i) = "." /\ At(i + 1) \notin Digits
         \/ At(i) = Dollar /\ At(i + 1) \notin Digits /\ ~Delimits(i)
  PROVE  ReadsTo(i + 1, InCode) /\ Meaning[i] = Code
PROOF
<1>1. i \in Int
  <2>1. Len(text) \in Nat
    BY AtIs
  <2> QED BY <2>1
<1>2. ReadAt(i, InCode) = Reads(<<Code>>, InCode)
  <2>1. CASE At(i) # Dollar
    <3>1. At(i) \in Separators \/ At(i) = "."
      BY <2>1
    <3>2. /\ At(i) \notin {Quote, DQuote, Dollar, "/", "-"} /\ At(i) \notin Letters
               /\ At(i) \notin Digits
      BY <3>1, SeparatorsAre
    <3>3. ~Seen(i, <<"/", "*">>) /\ ~Seen(i, <<"-", "-">>)
      BY <1>1, <3>2, SeenIs
    <3>4. ~StartsNumber(i)
      <4>1. At(i) = "." => At(i + 1) \notin Digits
        BY <2>1, SeparatorsAre
      <4> QED BY <3>2, <4>1 DEF StartsNumber
    <3> QED BY <3>2, <3>3, <3>4, PlainIs
  <2>2. CASE At(i) = Dollar
    <3>1. ~Seen(i, <<"/", "*">>) /\ ~Seen(i, <<"-", "-">>) /\ At(i) # Quote /\ At(i) # DQuote
      BY <1>1, <2>2, SeenIs, QuotesAre
    <3>2. CodeAt(i) = DollarAt(i)
      BY <2>2, <3>1, Zenon DEF CodeAt
    <3>3. At(i + 1) \notin Digits /\ ~Delimits(i)
      BY <2>2, SeparatorsAre
    <3>4. ~(DelimiterLength(i) > 0)
      <4>1. DelimiterLength(i) = 0
        BY <3>3, DelimiterLengthAt
      <4> QED BY <4>1
    <3>5. DollarAt(i) = Reads(<<Code>>, InCode)
      BY <3>3, <3>4, Zenon DEF DollarAt
    <3> QED BY <3>2, <3>5, InCodeIs
  <2> QED BY <2>1, <2>2
<1>3. ReadsTo(i + 1, StateAt(i + 1, InCode)) /\ Meaning[i] = Code
  BY <1>2, ReadOne
<1> QED BY <1>3, CodeStays

-----------------------------------------------------------------------------
(* Every step keeps the invariant.  First those between tokens.                      *)
LEMMA InitialIs ==
  ASSUME ScanInv, Scanning("INITIAL")
  PROVE  /\ text \in Seq(Chars) /\ Len(text) \in Nat /\ pos \in 1..Len(text) /\ mode = "INITIAL"
         /\ ReadsTo(pos, InCode) /\ ScanTypeOK /\ lastToken \in TokenSet /\ Tokens
PROOF
<1>1. ScanTypeOK /\ Places /\ Tokens /\ mode = "INITIAL" /\ pos <= Len(text)
  BY DEF ScanInv, Scanning
<1>2. text \in Seq(Chars) /\ Len(text) \in Nat /\ pos \in 1..(Len(text) + 1)
        /\ lastToken \in TokenSet
  BY <1>1, TextIs, TypeIs
<1>3. pos \in 1..Len(text)
  BY <1>1, <1>2
<1> QED BY <1>1, <1>2, <1>3 DEF Places

LEMMA WhitespaceStep == ASSUME ScanInv, Whitespace PROVE ScanInv'
PROOF
<1>1. Scanning("INITIAL") /\ mode' = mode /\ xcdepth' = xcdepth /\ lastToken' = lastToken
        /\ SameLiteral
  BY DEF Whitespace
<1>2. /\ text \in Seq(Chars) /\ Len(text) \in Nat /\ pos \in 1..Len(text) /\ mode = "INITIAL"
      /\ ReadsTo(pos, InCode) /\ lastToken \in TokenSet /\ Tokens
  BY <1>1, InitialIs
<1>3. PICK e \in pos..(Len(text) + 1), c \in {"code", "comment"} :
        Take(e, c) /\ ReadsTo(e, InCode) /\ \A j \in pos..(e - 1) : Meaning[j].is = c
  <2>1. CASE At(pos) \in Space /\ Take(RunEnd(pos, Space), "code")
    <3>1. PICK e \in pos..(Len(text) + 1) :
            /\ e = RunEnd(pos, Space) /\ ReadsTo(e, InCode)
            /\ \A j \in pos..(e - 1) : Meaning[j] = Code
      BY <1>2, <2>1, SpacesAre
    <3> QED BY <2>1, <3>1, PartsAre
  <2>2. CASE Seen(pos, <<"-", "-">>) /\ Take(LineEnd(pos), "comment")
    <3>1. PICK e \in pos..(Len(text) + 1) :
            /\ e = LineEnd(pos) /\ ReadsTo(e, InCode)
            /\ \A j \in pos..(e - 1) : Meaning[j] = Comment
      BY <1>2, <2>2, LineIs
    <3> QED BY <2>2, <3>1, PartsAre
  <2> QED BY <2>1, <2>2 DEF Whitespace
<1>4. text' = text /\ c \in Known
  BY <1>3 DEF Take, Known
<1>5. lastToken' \in TokenSet' /\ Tokens'
  BY <1>1, <1>2, <1>4, TokenKept
<1> QED BY <1>1, <1>2, <1>3, <1>4, <1>5, CodeStep

(* A token that is taken from code, up to position i.                               *)
LEMMA TokenStep ==
  ASSUME ScanInv, Scanning("INITIAL"), NEW i \in (pos + 1)..(Len(text) + 1),
         NEW k \in Kinds \ DOMAIN Ends, NEW v \in Added,
         Take(i, "code"), Token(k, i, v), UNCHANGED <<mode, xcdepth>>, SameLiteral,
         ReadsTo(i, InCode), \A j \in pos..(i - 1) : Meaning[j] = Code,
         k \in {"named", "character", "Op"} /\ v[1] \in OpChars => IsClean(v),
         k \in {"ICONST", "FCONST"} => i - pos = NumberLength(pos),
         k = "ICONST" => IsInteger(v)
  PROVE  ScanInv'
PROOF
<1>1. /\ Len(text) \in Nat /\ pos \in 1..Len(text) /\ mode = "INITIAL" /\ ScanTypeOK
  BY InitialIs
<1>2. text' = text /\ "code" \in Known
  BY DEF Take, Known
<1>3. lastToken' \in TokenSet' /\ Tokens'
  BY <1>1, <1>2, TokenMade
<1>4. i \in pos..(Len(text) + 1) /\ \A j \in pos..(i - 1) : Meaning[j].is = "code"
  BY <1>1, PartsAre
<1> QED BY <1>1, <1>2, <1>3, <1>4, CodeStep

LEMMA PartAdds ==
  ASSUME text \in Seq(Chars), NEW i \in 1..Len(text), NEW e \in i..(Len(text) + 1)
  PROVE  SubSeq(text, i, e - 1) \in Added /\ SubSeq(text, i, e - 1) \in Seq(Chars)
PROOF
<1>1. Len(text) \in Nat /\ i \in 1..(Len(text) + 1)
  BY AtIs
<1>2. SubSeq(text, i, e - 1) \in Seq(Chars)
  <2>1. PICK h \in (i - 1)..Len(text) : h = e - 1
    BY <1>1
  <2> QED BY <1>1, <2>1, PartOf
<1>3. \A s : s \in Seq(Chars) => s \in Added
  BY DEF Added
<1> QED BY <1>2, <1>3

LEMMA OperatorStep == ASSUME ScanInv, Operator PROVE ScanInv'
PROOF
<1> DEFINE op == SubSeq(OpRun, 1, StripSigns(OpRun, CutComment(OpRun)))
           kind == IF OpRun \in Named THEN "named"
                   ELSE IF StripSigns(OpRun, CutComment(OpRun)) < Len(OpRun) /\ op \in Named
                        THEN "character" ELSE "Op"
<1>1. /\ Scanning("INITIAL") /\ At(pos) \in OpChars
      /\ ~Seen(pos, <<"/", "*">>) /\ ~Seen(pos, <<"-", "-">>)
      /\ UNCHANGED <<mode, xcdepth>> /\ SameLiteral
      /\ Take(pos + StripSigns(OpRun, CutComment(OpRun)), "code")
      /\ Token(kind, pos + StripSigns(OpRun, CutComment(OpRun)), op)
  BY Zenon DEF Operator
<1>2. /\ text \in Seq(Chars) /\ Len(text) \in Nat /\ pos \in 1..Len(text) /\ ReadsTo(pos, InCode)
  BY <1>1, InitialIs
<1>3. /\ StripSigns(OpRun, CutComment(OpRun)) \in 1..(Len(text) + 1 - pos)
      /\ \A j \in pos..(pos + StripSigns(OpRun, CutComment(OpRun)) - 1) :
           ReadAt(j, InCode) = Reads(<<Code>>, InCode)
      /\ op \in Seq(Chars) /\ IsClean(op)
  BY <1>1, <1>2, OperatorAt DEF OpRun, IsClean
<1>4. PICK n \in 1..(Len(text) + 1 - pos) : n = StripSigns(OpRun, CutComment(OpRun))
  BY <1>3
<1>5. PICK e \in (pos + 1)..(Len(text) + 1) : e = pos + n
  BY <1>2
<1>6. ReadsTo(e, InCode) /\ \A j \in pos..(e - 1) : Meaning[j] = Code
  <2>1. e \in pos..(Len(text) + 1) /\ pos \in 1..(Len(text) + 1)
    BY <1>2
  <2>2. pos + n - 1 = e - 1
    BY <1>2, <1>5
  <2>3. \A j \in pos..(e - 1) : ReadAt(j, InCode) = Reads(<<Code>>, InCode)
    BY <1>3, <1>4, <2>2
  <2> QED BY <1>2, <2>1, <2>3, CodeRun
<1>7. PICK k \in {"named", "character", "Op"} : k = kind
  OBVIOUS
<1>8. PICK v \in Added : v = op /\ IsClean(v)
  <2>1. \A s : s \in Seq(Chars) => s \in Added
    BY DEF Added
  <2> QED BY <1>3, <2>1
<1>9. k \in Kinds \ DOMAIN Ends /\ k \notin {"ICONST", "FCONST"}
  BY EndsAre DEF Kinds
<1>10. Take(e, "code") /\ Token(k, e, v)
  BY <1>1, <1>4, <1>5, <1>7, <1>8
<1> HIDE DEF op, kind
<1> QED BY <1>1, <1>6, <1>8, <1>9, <1>10, TokenStep

LEMMA KindsAre ==
  /\ \A k \in {"identifier", "nchar", "PARAM"} :
       k \in Kinds \ DOMAIN Ends /\ k \notin {"named", "character", "Op", "ICONST", "FCONST"}
  /\ \A k \in {"ICONST", "FCONST"} : k \in Kinds \ DOMAIN Ends
       /\ k \notin {"named", "character", "Op"}
  /\ \A k \in {"named", "character", "Op"} : k \in Kinds \ DOMAIN Ends
       /\ k \notin {"ICONST", "FCONST"}
PROOF
BY EndsAre DEF Kinds

LEMMA IdentifierStep == ASSUME ScanInv, Identifier PROVE ScanInv'
PROOF
<1>1. /\ Scanning("INITIAL") /\ At(pos) \in Letters
      /\ ~(At(pos) \in {"b", "e", "n", "x"} /\ At(pos + 1) = Quote)
      /\ UNCHANGED <<mode, xcdepth>> /\ SameLiteral
      /\ Take(RunEnd(pos, IdentCont), "code")
      /\ Token("identifier", RunEnd(pos, IdentCont), SubSeq(text, pos, RunEnd(pos, IdentCont) - 1))
  BY DEF Identifier
<1>2. /\ text \in Seq(Chars) /\ Len(text) \in Nat /\ pos \in 1..Len(text) /\ ReadsTo(pos, InCode)
  BY <1>1, InitialIs
<1>3. ~(At(pos) \in {"b", "e", "x"} /\ At(pos + 1) = Quote)
  BY <1>1
<1>4. PICK e \in (pos + 1)..(Len(text) + 1) :
        /\ e = RunEnd(pos, IdentCont) /\ ReadsTo(e, InCode)
        /\ \A j \in pos..(e - 1) : Meaning[j] = Code
  BY <1>1, <1>2, <1>3, WordIs
<1>5. PICK v \in Added : v = SubSeq(text, pos, e - 1)
  <2>1. e \in pos..(Len(text) + 1)
    BY <1>2
  <2> QED BY <1>2, <2>1, PartAdds
<1>6. Take(e, "code") /\ Token("identifier", e, v)
  BY <1>1, <1>4, <1>5
<1> QED BY <1>1, <1>4, <1>6, KindsAre, TokenStep

LEMMA NationalStep == ASSUME ScanInv, National PROVE ScanInv'
PROOF
<1>1. /\ Scanning("INITIAL") /\ Seen(pos, <<"n", Quote>>)
      /\ UNCHANGED <<mode, xcdepth>> /\ SameLiteral
      /\ Take(pos + 1, "code") /\ Token("nchar", pos + 1, <<"n">>)
  BY DEF National
<1>2. /\ text \in Seq(Chars) /\ Len(text) \in Nat /\ pos \in 1..Len(text) /\ ReadsTo(pos, InCode)
  BY <1>1, InitialIs
<1>3. ReadsTo(pos + 1, InCode) /\ Meaning[pos] = Code
  BY <1>1, <1>2, NationalIs
<1>4. PICK e \in (pos + 1)..(Len(text) + 1) : e = pos + 1
  BY <1>2
<1>5. \A j \in pos..(e - 1) : Meaning[j] = Code
  BY <1>2, <1>3, <1>4
<1>6. <<"n">> \in Added
  <2>1. "n" \in Letters
    BY DEF Letters
  <2> QED BY <2>1, LettersAre, AddedIs
<1>7. Take(e, "code") /\ Token("nchar", e, <<"n">>) /\ ReadsTo(e, InCode)
  BY <1>1, <1>3, <1>4
<1> QED BY <1>1, <1>5, <1>6, <1>7, KindsAre, TokenStep

LEMMA NumberStep == ASSUME ScanInv, Number PROVE ScanInv'
PROOF
<1> DEFINE dec == DecimalEnd(pos)
           real == ExponentEnd(dec)
           end == IF At(dec) = "e" /\ At(real - 1) \in Digits THEN real ELSE dec
           kind == IF end = RunEnd(pos, Digits) /\ At(end) # "e" THEN "ICONST" ELSE "FCONST"
<1>1. /\ Scanning("INITIAL") /\ At(IF At(pos) = "." THEN pos + 1 ELSE pos) \in Digits
      /\ UNCHANGED <<mode, xcdepth>> /\ SameLiteral
      /\ Take(end, "code") /\ Token(kind, end, SubSeq(text, pos, end - 1))
  BY Zenon DEF Number
<1>2. /\ text \in Seq(Chars) /\ Len(text) \in Nat /\ pos \in 1..Len(text) /\ ReadsTo(pos, InCode)
  BY <1>1, InitialIs
<1>3. StartsNumber(pos)
  BY <1>1, DigitsAre DEF StartsNumber
<1>4. /\ end \in (pos + 1)..(Len(text) + 1) /\ NumberLength(pos) = end - pos
      /\ end = RunEnd(pos, Digits) /\ At(end) # "e" => IsInteger(SubSeq(text, pos, end - 1))
  BY <1>2, <1>3, LongestNumber
<1>5. PICK e \in (pos + 1)..(Len(text) + 1) : e = end
  BY <1>4
<1>6. PICK k \in {"ICONST", "FCONST"} :
        k = kind /\ (k = "ICONST" => e = RunEnd(pos, Digits) /\ At(e) # "e")
  BY <1>5
<1> HIDE DEF end, kind
<1>7. e \in pos..(Len(text) + 1)
  BY <1>2
<1>8. PICK v \in Added : v = SubSeq(text, pos, e - 1) /\ (k = "ICONST" => IsInteger(v))
  <2>1. SubSeq(text, pos, e - 1) \in Added
    BY <1>2, <1>7, PartAdds
  <2> QED BY <1>4, <1>5, <1>6, <2>1
<1>9. e - pos = NumberLength(pos)
  BY <1>4, <1>5
<1>10. ReadsTo(e, InCode) /\ \A j \in pos..(e - 1) : Meaning[j] = Code
  <2>1. PICK len \in Nat : len = NumberLength(pos) /\ len > 0 /\ pos + len = e
               /\ pos + len - 1 = e - 1
    BY <1>2, <1>7, <1>9
  <2>2. /\ ReadsTo(pos + len, InCode) /\ \A j \in pos..(pos + len - 1) : Meaning[j] = Code
    BY <1>2, <1>3, <2>1, NumberReads
  <2> QED BY <2>1, <2>2
<1>11. Take(e, "code") /\ Token(k, e, v)
  BY <1>1, <1>5, <1>6, <1>8
<1> QED BY <1>1, <1>8, <1>9, <1>10, <1>11, KindsAre, TokenStep

LEMMA ParamStep == ASSUME ScanInv, Param PROVE ScanInv'
PROOF
<1>1. /\ Scanning("INITIAL") /\ At(pos) = Dollar /\ At(pos + 1) \in Digits
      /\ UNCHANGED <<mode, xcdepth>> /\ SameLiteral
      /\ Take(RunEnd(pos + 1, Digits), "code")
      /\ Token("PARAM", RunEnd(pos + 1, Digits), SubSeq(text, pos, RunEnd(pos + 1, Digits) - 1))
  BY DEF Param
<1>2. /\ text \in Seq(Chars) /\ Len(text) \in Nat /\ pos \in 1..Len(text) /\ ReadsTo(pos, InCode)
  BY <1>1, InitialIs
<1>3. PICK e \in (pos + 1)..(Len(text) + 1) :
        /\ e = RunEnd(pos + 1, Digits) /\ ReadsTo(e, InCode)
        /\ \A j \in pos..(e - 1) : Meaning[j] = Code
  BY <1>1, <1>2, ParamReads
<1>4. PICK v \in Added : v = SubSeq(text, pos, e - 1)
  <2>1. e \in pos..(Len(text) + 1)
    BY <1>2
  <2> QED BY <1>2, <2>1, PartAdds
<1>5. Take(e, "code") /\ Token("PARAM", e, v)
  BY <1>1, <1>3, <1>4
<1> QED BY <1>1, <1>3, <1>5, KindsAre, TokenStep

LEMMA OtherStep == ASSUME ScanInv, Other PROVE ScanInv'
PROOF
<1> DEFINE kind == IF At(pos) \in {",", "."} THEN "named" ELSE "character"
<1>1. /\ Scanning("INITIAL")
      /\ \/ At(pos) \in Separators
         \/ At(pos) = "." /\ At(pos + 1) \notin Digits
         \/ At(pos) = Dollar /\ At(pos + 1) \notin Digits /\ ~Delimits(pos)
      /\ UNCHANGED <<mode, xcdepth>> /\ SameLiteral
      /\ Take(pos + 1, "code") /\ Token(kind, pos + 1, <<At(pos)>>)
  BY Zenon DEF Other, Separators
<1>2. /\ text \in Seq(Chars) /\ Len(text) \in Nat /\ pos \in 1..Len(text) /\ ReadsTo(pos, InCode)
  BY <1>1, InitialIs
<1>3. ReadsTo(pos + 1, InCode) /\ Meaning[pos] = Code
  BY <1>1, <1>2, OtherReads
<1>4. PICK e \in (pos + 1)..(Len(text) + 1) : e = pos + 1
  BY <1>2
<1>5. \A j \in pos..(e - 1) : Meaning[j] = Code
  BY <1>2, <1>3, <1>4
<1>6. At(pos) \in Chars /\ At(pos) \notin OpChars
  BY <1>1, SeparatorsAre
<1>7. PICK v \in Added : v = <<At(pos)>> /\ v[1] \notin OpChars
  <2>1. <<At(pos)>> \in Added
    BY <1>6, AddedIs
  <2>2. <<At(pos)>>[1] = At(pos)
    OBVIOUS
  <2> QED BY <1>6, <2>1, <2>2
<1>8. PICK k \in {"named", "character"} : k = kind
  BY Zenon
<1> HIDE DEF kind
<1>9. Take(e, "code") /\ Token(k, e, v) /\ ReadsTo(e, InCode)
  BY <1>1, <1>3, <1>4, <1>7, <1>8
<1> QED BY <1>1, <1>5, <1>7, <1>9, KindsAre, TokenStep

(* In a comment n deep.                                                        *)
LEMMA InComment ==
  ASSUME NEW n \in Nat \ {0}
  PROVE  \A i : ReadAt(i, n) = CommentAt(i, n) /\ StateAt(i, n) = n
PROOF
<1>1. n # InWord /\ n # InLine /\ n # InCode /\ n > 0
  BY StatesDiffer
<1> QED BY <1>1 DEF ReadAt, StateAt

(* Within a comment, nothing but its starts and stops changes the depth.            *)
LEMMA CommentRun ==
  ASSUME text \in Seq(Chars), NEW i \in 1..(Len(text) + 1), NEW e \in i..(Len(text) + 1),
         NEW n \in Nat \ {0}, ReadsTo(i, n),
         \A j \in i..(e - 1) : ~Seen(j, <<"/", "*">>) /\ ~Seen(j, <<"*", "/">>)
  PROVE  ReadsTo(e, n) /\ \A j \in i..(e - 1) : Meaning[j] = Comment
PROOF
<1>1. \A j \in i..(e - 1) : ReadAt(j, n) = Reads(<<Comment>>, n)
  BY InComment, Zenon DEF CommentAt
<1>2. \A j \in (i + 1)..(e - 1) : StateAt(j, n) = n
  BY InComment
<1>3. /\ ReadsTo(e, IF e = i THEN n ELSE StateAt(e, n))
      /\ \A j \in i..(e - 1) : Meaning[j] = Comment
  BY ONLY text \in Seq(Chars), i \in 1..(Len(text) + 1), e \in i..(Len(text) + 1),
          ReadsTo(i, n), <1>1, <1>2, RunOf
<1> QED BY <1>3, InComment

(* A run of stars.                                                                  *)
LEMMA StarsAre ==
  ASSUME text \in Seq(Chars), NEW i \in 1..Len(text), At(i) = "*"
  PROVE  LET e == RunEnd(i, {"*"})
         IN  /\ e \in (i + 1)..(Len(text) + 1) /\ \A j \in i..(e - 1) : At(j) = "*"
             /\ At(e) # "*"
PROOF
<1>1. Len(text) \in Nat /\ i \in 1..(Len(text) + 1)
  <2>1. Len(text) \in Nat
    BY AtIs
  <2> QED BY <2>1
<1>2. {"*"} \in SUBSET Chars
  BY DEF Chars, OpChars
<1>3. PICK e \in i..(Len(text) + 1) :
        /\ e = RunEnd(i, {"*"}) /\ \A j \in i..(e - 1) : At(j) \in {"*"}
        /\ At(e) \notin {"*"}
  BY <1>1, <1>2, RunEndIs
<1>4. e # i
  BY <1>3
<1>5. e \in (i + 1)..(Len(text) + 1)
  BY <1>1, <1>3, <1>4
<1> QED BY <1>3, <1>5

(* Then those of comments.                                                          *)
LEMMA CommentStartStep == ASSUME ScanInv, CommentStart PROVE ScanInv'
PROOF
<1>1. /\ Scanning("INITIAL") /\ Seen(pos, <<"/", "*">>) /\ Take(pos + 2, "comment")
      /\ mode' = "xc" /\ xcdepth' = 0 /\ UNCHANGED lastToken /\ SameLiteral
  BY DEF CommentStart
<1>2. /\ text \in Seq(Chars) /\ Len(text) \in Nat /\ pos \in 1..Len(text) /\ ReadsTo(pos, InCode)
  BY <1>1, InitialIs
<1>3. ReadAt(pos, InCode) = Reads(<<Comment, Comment>>, 1)
  BY <1>1, InCodeIs, Zenon DEF CodeAt
<1>4. ReadsTo(pos + 2, StateAt(pos + 2, 1)) /\ Meaning[pos] = Comment /\ Meaning[pos + 1] = Comment
  BY <1>2, <1>3, ReadTwo
<1>5. ReadsTo(pos + 2, 1)
  BY <1>4, InComment
<1>6. PICK e \in pos..(Len(text) + 1) : e = pos + 2
  BY <1>2, <1>5 DEF ReadsTo
<1>7. \A j \in pos..(e - 1) : Meaning[j].is = "comment"
  <2>1. \A j \in pos..(e - 1) : j = pos \/ j = pos + 1
    BY <1>2, <1>6
  <2> QED BY <1>4, <2>1, PartsAre
<1>8. Take(e, "comment") /\ ReadsTo(e, xcdepth' + 1) /\ xcdepth' \in Nat
  BY <1>1, <1>5, <1>6
<1> QED BY <1>1, <1>7, <1>8, CommentStep

(* The scanner in a comment is where the reader is in one as deep.                  *)
LEMMA CommentIs ==
  ASSUME ScanInv, Scanning("xc")
  PROVE  /\ text \in Seq(Chars) /\ Len(text) \in Nat /\ pos \in 1..Len(text) /\ mode = "xc"
         /\ xcdepth \in Nat /\ xcdepth + 1 \in Nat \ {0} /\ ReadsTo(pos, xcdepth + 1)
PROOF
<1>1. ScanTypeOK /\ Places /\ mode = "xc" /\ pos <= Len(text)
  BY DEF ScanInv, Scanning
<1>2. text \in Seq(Chars) /\ Len(text) \in Nat /\ pos \in 1..(Len(text) + 1) /\ xcdepth \in Nat
  BY <1>1, TextIs, TypeIs
<1>3. pos \in 1..Len(text)
  BY <1>1, <1>2
<1> QED BY <1>1, <1>2, <1>3 DEF Places

LEMMA CommentNestedStep == ASSUME ScanInv, CommentNested PROVE ScanInv'
PROOF
<1>1. /\ Scanning("xc") /\ Seen(pos, <<"/", "*">>) /\ Take(pos + 2, "comment")
      /\ xcdepth' = xcdepth + 1 /\ UNCHANGED <<mode, lastToken>> /\ SameLiteral
  BY DEF CommentNested
<1>2. /\ text \in Seq(Chars) /\ Len(text) \in Nat /\ pos \in 1..Len(text) /\ mode = "xc"
      /\ xcdepth \in Nat /\ ReadsTo(pos, xcdepth + 1)
  BY <1>1, CommentIs
<1>3. PICK n \in Nat \ {0} : n = xcdepth + 1
  BY <1>2
<1>4. ReadAt(pos, n) = Reads(<<Comment, Comment>>, n + 1)
  BY <1>1, InComment, Zenon DEF CommentAt
<1>5. ReadsTo(pos, n)
  BY <1>2, <1>3
<1>6. ReadsTo(pos + 2, StateAt(pos + 2, n + 1)) /\ Meaning[pos] = Comment
        /\ Meaning[pos + 1] = Comment
  BY <1>2, <1>4, <1>5, ReadTwo
<1>7. ReadsTo(pos + 2, n + 1)
  <2>1. n + 1 \in Nat \ {0}
    OBVIOUS
  <2>2. StateAt(pos + 2, n + 1) = n + 1
    BY <2>1, InComment
  <2> QED BY <1>6, <2>2
<1>8. PICK e \in pos..(Len(text) + 1) : e = pos + 2
  BY <1>2, <1>7 DEF ReadsTo
<1>9. \A j \in pos..(e - 1) : Meaning[j].is = "comment"
  <2>1. \A j \in pos..(e - 1) : j = pos \/ j = pos + 1
    BY <1>2, <1>8
  <2> QED BY <1>6, <2>1, PartsAre
<1>10. Take(e, "comment") /\ ReadsTo(e, xcdepth' + 1) /\ xcdepth' \in Nat /\ mode' = "xc"
  BY <1>1, <1>2, <1>3, <1>7, <1>8
<1> QED BY <1>1, <1>9, <1>10, CommentStep

LEMMA CommentStopStep == ASSUME ScanInv, CommentStop PROVE ScanInv'
PROOF
<1>1. /\ Scanning("xc") /\ StopsComment(pos) /\ Take(RunEnd(pos, {"*"}) + 1, "comment")
      /\ IF xcdepth <= 0 THEN mode' = "INITIAL" /\ xcdepth' = xcdepth
                         ELSE xcdepth' = xcdepth - 1 /\ mode' = mode
      /\ UNCHANGED lastToken /\ SameLiteral
  BY DEF CommentStop
<1>2. /\ text \in Seq(Chars) /\ Len(text) \in Nat /\ pos \in 1..Len(text) /\ mode = "xc"
      /\ xcdepth \in Nat /\ ReadsTo(pos, xcdepth + 1)
  BY <1>1, CommentIs
<1>3. PICK n \in Nat \ {0} : n = xcdepth + 1
  BY <1>2
<1>4. PICK e \in (pos + 1)..(Len(text) + 1) :
        /\ e = RunEnd(pos, {"*"}) /\ At(e) = "/" /\ \A j \in pos..(e - 1) : At(j) = "*"
  BY <1>1, <1>2, StarsAre DEF StopsComment
<1>5. e \in 1..Len(text)
  <2>1. "/" # "EOF"
    OBVIOUS
  <2>2. e \in Int /\ (e \notin 1..Len(text) => At(e) = "EOF")
    BY <1>2, AtIs
  <2> QED BY <1>4, <2>1, <2>2
<1>6. PICK d \in pos..Len(text) : d = e - 1 /\ d + 1 = e
  BY <1>2, <1>4, <1>5
<1>7. d \in 1..Len(text) /\ d \in pos..(Len(text) + 1) /\ pos \in 1..(Len(text) + 1)
  BY <1>2
<1>8. ReadsTo(d, n) /\ \A j \in pos..(d - 1) : Meaning[j] = Comment
  <2>1. ASSUME NEW j \in pos..(d - 1) PROVE ~Seen(j, <<"/", "*">>) /\ ~Seen(j, <<"*", "/">>)
    <3>1. j \in Int /\ j \in pos..(e - 1) /\ j + 1 \in pos..(e - 1)
      BY <1>2, <1>4, <1>6
    <3>2. At(j) = "*" /\ At(j + 1) = "*"
      BY <1>4, <3>1
    <3> QED BY <3>1, <3>2, SeenIs
  <2>2. ReadsTo(pos, n)
    BY <1>2, <1>3
  <2> QED BY <1>2, <1>7, <2>1, <2>2, CommentRun
<1>9. ReadAt(d, n) = Reads(<<Comment, Comment>>, n - 1)
  <2>1. d \in Int /\ At(d) = "*" /\ At(d + 1) = "/"
    BY <1>2, <1>4, <1>6
  <2>2. ~Seen(d, <<"/", "*">>) /\ Seen(d, <<"*", "/">>)
    BY <2>1, SeenIs
  <2> QED BY <2>2, InComment, Zenon DEF CommentAt
<1>10. ReadsTo(d + 2, StateAt(d + 2, n - 1)) /\ Meaning[d] = Comment /\ Meaning[d + 1] = Comment
  BY <1>2, <1>7, <1>8, <1>9, ReadTwo
<1>11. ReadsTo(d + 2, xcdepth)
  <2>1. n - 1 = xcdepth
    BY <1>2, <1>3
  <2>2. xcdepth # InWord /\ xcdepth # InLine
    BY <1>2, StatesDiffer
  <2>3. StateAt(d + 2, xcdepth) = xcdepth
    BY <2>2, StateStays
  <2> QED BY <1>10, <2>1, <2>3
<1>12. PICK h \in pos..(Len(text) + 1) : h = d + 2 /\ h = e + 1
  BY <1>2, <1>5, <1>6
<1>13. \A j \in pos..(h - 1) : Meaning[j].is = "comment"
  <2>1. \A j \in pos..(h - 1) : j = d \/ j = d + 1 \/ j \in pos..(d - 1)
    BY <1>2, <1>6, <1>12
  <2> QED BY <1>8, <1>10, <2>1, PartsAre
<1>14. Take(h, "comment") /\ ReadsTo(h, xcdepth)
  BY <1>1, <1>4, <1>11, <1>12
<1>15. CASE xcdepth <= 0
  <2>1. xcdepth = InCode
    BY <1>2, <1>15, StatesDiffer
  <2> QED BY <1>1, <1>2, <1>13, <1>14, <1>15, <2>1, CommentStep
<1>16. CASE ~(xcdepth <= 0)
  <2>1. xcdepth' \in Nat /\ xcdepth' + 1 = xcdepth /\ mode' = "xc"
    BY <1>1, <1>2, <1>16
  <2> QED BY <1>1, <1>13, <1>14, <2>1, CommentStep
<1> QED BY <1>15, <1>16

LEMMA CommentInsideStep == ASSUME ScanInv, CommentInside PROVE ScanInv'
PROOF
<1>1. /\ Scanning("xc") /\ ~Seen(pos, <<"/", "*">>) /\ ~StopsComment(pos)
      /\ mode' = mode /\ xcdepth' = xcdepth /\ UNCHANGED lastToken /\ SameLiteral
  BY DEF CommentInside
<1>2. /\ text \in Seq(Chars) /\ Len(text) \in Nat /\ pos \in 1..Len(text) /\ mode = "xc"
      /\ xcdepth \in Nat /\ ReadsTo(pos, xcdepth + 1)
  BY <1>1, CommentIs
<1>3. PICK n \in Nat \ {0} : n = xcdepth + 1
  BY <1>2
<1>4. \E e \in pos..(Len(text) + 1) :
        /\ Take(e, "comment")
        /\ \A j \in pos..(e - 1) : ~Seen(j, <<"/", "*">>) /\ ~Seen(j, <<"*", "/">>)
  <2>1. CASE At(pos) = "*"
    <3>1. Take(RunEnd(pos, {"*"}), "comment")
      BY <2>1 DEF CommentInside
    <3>2. PICK e \in (pos + 1)..(Len(text) + 1) :
            e = RunEnd(pos, {"*"}) /\ At(e) # "*" /\ \A j \in pos..(e - 1) : At(j) = "*"
      BY <1>2, <2>1, StarsAre
    <3>3. At(e) # "/"
      BY <1>1, <2>1, <3>2 DEF StopsComment
    <3>4. ASSUME NEW j \in pos..(e - 1) PROVE ~Seen(j, <<"/", "*">>) /\ ~Seen(j, <<"*", "/">>)
      <4>1. j \in Int /\ At(j) = "*" /\ (j + 1 = e \/ j + 1 \in pos..(e - 1))
        BY <1>2, <3>2
      <4>2. At(j + 1) # "/"
        BY <3>2, <3>3, <4>1
      <4> QED BY <4>1, <4>2, SeenIs
    <3>5. e \in pos..(Len(text) + 1)
      BY <1>2
    <3> QED BY <3>1, <3>2, <3>4, <3>5
  <2>2. CASE At(pos) = "/"
    <3>1. Take(pos + 1, "comment")
      BY <2>2 DEF CommentInside
    <3>2. PICK e \in pos..(Len(text) + 1) : e = pos + 1
      BY <1>2
    <3>3. ~Seen(pos, <<"*", "/">>)
      BY <1>2, <2>2, SeenIs
    <3>4. \A j \in pos..(e - 1) : j = pos
      BY <1>2, <3>2
    <3> QED BY <1>1, <3>1, <3>2, <3>3, <3>4
  <2>3. CASE At(pos) # "*" /\ At(pos) # "/"
    <3>1. Take(RunEnd(pos, Chars \ {"*", "/"}), "comment")
      BY <2>3, Zenon DEF CommentInside
    <3>2. PICK e \in pos..(Len(text) + 1) :
            e = RunEnd(pos, Chars \ {"*", "/"})
              /\ \A j \in pos..(e - 1) : At(j) \in Chars \ {"*", "/"}
      <4>1. pos \in 1..(Len(text) + 1) /\ Chars \ {"*", "/"} \in SUBSET Chars
        BY <1>2
      <4> QED BY <1>2, <4>1, RunEndIs
    <3>3. ASSUME NEW j \in pos..(e - 1) PROVE ~Seen(j, <<"/", "*">>) /\ ~Seen(j, <<"*", "/">>)
      <4>1. j \in Int /\ At(j) # "*" /\ At(j) # "/"
        <5>1. At(j) \in Chars \ {"*", "/"}
          BY <3>2
        <5>2. j \in Int
          BY <1>2
        <5> QED BY <5>1, <5>2
      <4> QED BY <4>1, SeenIs
    <3> QED BY <3>1, <3>2, <3>3
  <2> QED BY <2>1, <2>2, <2>3
<1>5. PICK e \in pos..(Len(text) + 1) :
        /\ Take(e, "comment")
        /\ \A j \in pos..(e - 1) : ~Seen(j, <<"/", "*">>) /\ ~Seen(j, <<"*", "/">>)
  BY <1>4
<1>6. ReadsTo(e, n) /\ \A j \in pos..(e - 1) : Meaning[j] = Comment
  <2>1. ReadsTo(pos, n) /\ pos \in 1..(Len(text) + 1)
    BY <1>2, <1>3
  <2> QED BY <1>2, <1>5, <2>1, CommentRun
<1>7. \A j \in pos..(e - 1) : Meaning[j].is = "comment"
  BY <1>6, PartsAre
<1>8. mode' = "xc" /\ xcdepth' \in Nat /\ ReadsTo(e, xcdepth' + 1)
  BY <1>1, <1>2, <1>3, <1>6
<1> QED BY <1>1, <1>5, <1>7, <1>8, CommentStep

-----------------------------------------------------------------------------
(* Literals.                                                                 *)
Quoted == {InQuotes, InBits, InName}

LEMMA InLiteral ==
  \A n \in Quoted : \A i : ReadAt(i, n) = LiteralAt(i, n) /\ StateAt(i, n) = n
PROOF
<1>1. \A n \in Quoted : n # InWord /\ n # InLine /\ n # InCode /\ ~(n > 0)
  BY StatesDiffer DEF Quoted
<1> QED BY <1>1 DEF ReadAt, StateAt

(* The literals in quotes, as states of the reader.                                 *)
LEMMA QuotedIs ==
  /\ QuoteOf(InQuotes) = Quote /\ QuoteOf(InBits) = Quote /\ QuoteOf(InName) = DQuote
  /\ InQuotes \in Quoted /\ InBits \in Quoted /\ InName \in Quoted
  /\ InQuotes # InBits /\ InQuotes # InName /\ InBits # InName
PROOF
BY StatesDiffer DEF QuoteOf, Quoted

(* A literal that has just started adds what its first characters add.                 *)
LEMMA GatherFirst ==
  ASSUME text \in Seq(Chars), NEW i \in 1..Len(text), NEW e \in (i + 1)..(Len(text) + 1),
         \A j \in (i + 1)..(e - 1) : Meaning[j].adds = <<>>
  PROVE  Gathered(i, e) = Meaning[i].adds
PROOF
<1>1. Len(text) \in Nat /\ i \in 1..(Len(text) + 1) /\ i \in i..Len(text)
  BY AtIs
<1>2. Gathered(i, i + 1) = Gathered(i, i) \o Meaning[i].adds
  BY <1>1, GatherOne
<1>3. Gathered(i, i) = <<>>
  BY <1>1, GatherStart
<1>4. Meaning[i].adds \in Added
  BY MeaningIs
<1>5. <<>> \o Meaning[i].adds = Meaning[i].adds
  BY <1>4 DEF Added
<1>6. PICK h \in i..(Len(text) + 1) : h = i + 1 /\ e \in h..(Len(text) + 1)
  BY <1>1
<1>7. \A j \in h..(e - 1) : Meaning[j].adds = <<>>
  BY <1>6
<1>8. Gathered(i, e) = Gathered(i, h)
  BY <1>1, <1>6, <1>7, GatherNone
<1> QED BY <1>2, <1>3, <1>5, <1>6, <1>8

(* A literal that starts with one character, or two.                                *)
LEMMA OpensOne ==
  ASSUME text \in Seq(Chars), NEW i \in 1..Len(text), ReadsTo(i, InCode),
         NEW n \in Quoted, ReadAt(i, InCode) = Reads(<<Mark>>, n)
  PROVE  ReadsTo(i + 1, n) /\ Meaning[i] = Mark
PROOF
<1>1. ReadsTo(i + 1, StateAt(i + 1, n)) /\ Meaning[i] = Mark
  BY ReadOne
<1> QED BY <1>1, InLiteral

LEMMA OpensTwo ==
  ASSUME text \in Seq(Chars), NEW i \in 1..Len(text), ReadsTo(i, InCode),
         NEW n \in Quoted, NEW c, ReadAt(i, InCode) = Reads(<<c, Mark>>, n)
  PROVE  ReadsTo(i + 2, n) /\ Meaning[i] = c /\ Meaning[i + 1] = Mark
PROOF
<1>1. ReadsTo(i + 2, StateAt(i + 2, n)) /\ Meaning[i] = c /\ Meaning[i + 1] = Mark
  BY ReadTwo
<1> QED BY <1>1, InLiteral

(* How quotes and the letters before them are read.                                 *)
LEMMA QuoteOpens ==
  ASSUME text \in Seq(Chars), NEW i \in 1..Len(text)
  PROVE  /\ At(i) = Quote => ReadAt(i, InCode) = Reads(<<Mark>>, InQuotes)
         /\ At(i) = DQuote => ReadAt(i, InCode) = Reads(<<Mark>>, InName)
PROOF
<1>1. Len(text) \in Nat /\ i \in Int
  BY AtIs
<1>2. ASSUME At(i) \in {Quote, DQuote} PROVE ~Seen(i, <<"/", "*">>) /\ ~Seen(i, <<"-", "-">>)
  BY <1>1, <1>2, SeenIs, QuotesAre
<1>3. ASSUME At(i) = Quote PROVE ReadAt(i, InCode) = Reads(<<Mark>>, InQuotes)
  <2>1. ~Seen(i, <<"/", "*">>) /\ ~Seen(i, <<"-", "-">>)
    BY <1>2, <1>3
  <2> QED BY <1>3, <2>1, InCodeIs, Zenon DEF CodeAt
<1>4. ASSUME At(i) = DQuote PROVE ReadAt(i, InCode) = Reads(<<Mark>>, InName)
  <2>1. ~Seen(i, <<"/", "*">>) /\ ~Seen(i, <<"-", "-">>)
    BY <1>2, <1>4
  <2>2. At(i) # Quote
    BY <1>4, QuotesAre
  <2> QED BY <1>4, <2>1, <2>2, InCodeIs, Zenon DEF CodeAt
<1> QED BY <1>3, <1>4

LEMMA LetterOpens ==
  ASSUME text \in Seq(Chars), NEW i \in 1..Len(text)
  PROVE  /\ Seen(i, <<"e", Quote>>) => ReadAt(i, InCode) = Reads(<<Mark, Mark>>, InQuotes)
         /\ Seen(i, <<"b", Quote>>) => ReadAt(i, InCode) = Reads(<<Adds("b"), Mark>>, InBits)
         /\ Seen(i, <<"x", Quote>>) => ReadAt(i, InCode) = Reads(<<Adds("x"), Mark>>, InBits)
PROOF
<1>1. Len(text) \in Nat /\ i \in Int
  BY AtIs
<1>2. ASSUME At(i) \in {"b", "e", "x"} PROVE ReadAt(i, InCode) = LetterAt(i)
  <2>1. At(i) \in Letters
    BY <1>2 DEF Letters
  <2>2. At(i) \notin {Quote, DQuote, Dollar, "/", "-"}
    BY <2>1, LettersAre
  <2>3. /\ ~Seen(i, <<"/", "*">>) /\ ~Seen(i, <<"-", "-">>)
        /\ At(i) # Quote /\ At(i) # DQuote /\ At(i) # Dollar
    BY <1>1, <2>2, SeenIs
  <2> QED BY <2>1, <2>3, InCodeIs, Zenon DEF CodeAt
<1>3. ASSUME Seen(i, <<"e", Quote>>) PROVE ReadAt(i, InCode) = Reads(<<Mark, Mark>>, InQuotes)
  <2>1. At(i) = "e"
    BY <1>1, <1>3, SeenIs
  <2> QED BY <1>2, <1>3, <2>1, Zenon DEF LetterAt
<1>4. ASSUME Seen(i, <<"b", Quote>>) PROVE ReadAt(i, InCode) = Reads(<<Adds("b"), Mark>>, InBits)
  <2>1. At(i) = "b" /\ ~Seen(i, <<"e", Quote>>)
    BY <1>1, <1>4, SeenIs
  <2> QED BY <1>2, <1>4, <2>1, Zenon DEF LetterAt
<1>5. ASSUME Seen(i, <<"x", Quote>>) PROVE ReadAt(i, InCode) = Reads(<<Adds("x"), Mark>>, InBits)
  <2>1. At(i) = "x" /\ ~Seen(i, <<"e", Quote>>)
    BY <1>1, <1>5, SeenIs
  <2> QED BY <1>2, <1>5, <2>1, Zenon DEF LetterAt
<1> QED BY <1>3, <1>4, <1>5

(* A dollar quote, which the reader takes in one piece.                              *)
LEMMA DollarRead ==
  ASSUME text \in Seq(Chars), NEW f \in 1..Len(text), Delimits(f), ReadsTo(f, InCode)
  PROVE  LET len == DelimiterLength(f)
             end == DollarEnd(f)
         IN  /\ \A j \in f..(f + len - 1) : Meaning[j] = Mark
             /\ \A j \in (f + len)..(end - 1) : Meaning[j] = Adds(At(j))
             /\ end <= Len(text) => /\ ReadsTo(end + len, InCode)
                                    /\ \A j \in end..(end + len - 1) : Meaning[j] = Mark
PROOF
<1> DEFINE p == DollarQuoteAt(f)
<1>1. Len(text) \in Nat /\ f \in Int
  BY AtIs
<1>2. PICK len \in 2..(Len(text) + 1 - f) : len = DelimiterLength(f)
  BY StopsIs
<1>3. PICK end \in (f + len)..(Len(text) + 1) : end = DollarEnd(f)
  BY <1>2, DollarEndIs
<1>4. ReadAt(f, InCode) = p
  <2>1. At(f) = Dollar
    BY DEF Delimits
  <2>2. /\ ~Seen(f, <<"/", "*">>) /\ ~Seen(f, <<"-", "-">>)
        /\ At(f) # Quote /\ At(f) # DQuote
    BY <1>1, <2>1, SeenIs, QuotesAre
  <2>3. CodeAt(f) = DollarAt(f)
    BY <2>1, <2>2, Zenon DEF CodeAt
  <2>4. At(f + 1) \notin Digits
    BY DollarIs DEF Delimits, TagEnd
  <2>5. DelimiterLength(f) > 0
    BY <1>1, <1>2
  <2>6. DollarAt(f) = p
    BY <2>4, <2>5, Zenon DEF DollarAt
  <2> QED BY <2>3, <2>6, InCodeIs
<1>5. /\ \A k \in 1..len : p.chars[k] = Mark
      /\ \A k \in (len + 1)..(end - f) : p.chars[k] = Adds(At(f + k - 1))
      /\ end > Len(text) => Len(p.chars) = end - f
      /\ end <= Len(text) =>
           /\ p.state = InCode /\ Len(p.chars) = end + len - f
           /\ \A k \in (end - f + 1)..(end - f + len) : p.chars[k] = Mark
  <2>1. DelimiterLength(f) > 0
    BY <1>1, <1>2
  <2> HIDE DEF p
  <2> QED BY <1>2, <1>3, <2>1, DollarQuoteIs DEF p
<1>6. /\ ReadsTo(f + Len(p.chars), StateAt(f + Len(p.chars), p.state))
      /\ \A k \in 1..Len(p.chars) : Meaning[f + k - 1] = p.chars[k]
  BY <1>4, ReadOn
<1> HIDE DEF p
<1>7. PICK m \in Nat : m = Len(p.chars) /\ m >= end - f /\ (end <= Len(text) => m = end + len - f)
  BY <1>1, <1>2, <1>3, <1>5
<1> DEFINE n == Len(text)
<1>14. /\ f \in Nat /\ len \in Nat /\ end \in Nat /\ m \in Nat /\ n \in Nat
      /\ f + len <= end /\ m >= end - f /\ (end <= n => m = end + len - f)
  BY <1>1, <1>2, <1>3, <1>7
<1> HIDE DEF n
<1>8. \A k \in 1..m : Meaning[f + k - 1] = p.chars[k]
  BY <1>6, <1>7
<1>9. \A j \in f..(f + m - 1) : j - f + 1 \in 1..m /\ f + (j - f + 1) - 1 = j
  BY <1>1, <1>7
<1>10. \A j \in f..(f + m - 1) : Meaning[j] = p.chars[j - f + 1]
  BY <1>8, <1>9
<1>11. \A j \in f..(f + len - 1) : Meaning[j] = Mark
  <2>1. \A j \in f..(f + len - 1) : j \in f..(f + m - 1) /\ j - f + 1 \in 1..len
    BY ONLY <1>14
  <2> QED BY <1>5, <1>10, <2>1
<1>12. \A j \in (f + len)..(end - 1) : Meaning[j] = Adds(At(j))
  <2>1. \A j \in (f + len)..(end - 1) :
          j \in f..(f + m - 1) /\ j - f + 1 \in (len + 1)..(end - f) /\ f + (j - f + 1) - 1 = j
    BY ONLY <1>14
  <2> QED BY <1>5, <1>10, <2>1
<1>13. ASSUME end <= Len(text)
       PROVE  /\ ReadsTo(end + len, InCode)
              /\ \A j \in end..(end + len - 1) : Meaning[j] = Mark
  <2>1. f + m = end + len /\ m = end + len - f
    BY ONLY <1>14, <1>13 DEF n
  <2>2. ReadsTo(end + len, InCode)
    BY <1>5, <1>6, <1>7, <1>13, <2>1, CodeStays
  <2>3. \A j \in end..(end + len - 1) :
          j \in f..(f + m - 1) /\ j - f + 1 \in (end - f + 1)..(end - f + len)
    BY ONLY <1>14, <2>1
  <2> QED BY <1>5, <1>10, <1>13, <2>2, <2>3
<1> QED BY <1>2, <1>3, <1>11, <1>12, <1>13

LEMMA LiteralStartStep == ASSUME ScanInv, LiteralStart PROVE ScanInv'
PROOF
<1>1. /\ Scanning("INITIAL")
      /\ \/ At(pos) = Quote /\ StartLit("xe", pos + 1, <<>>)
         \/ Seen(pos, <<"e", Quote>>) /\ StartLit("xe", pos + 2, <<>>)
         \/ Seen(pos, <<"b", Quote>>) /\ StartLit("xb", pos + 2, <<"b">>)
         \/ Seen(pos, <<"x", Quote>>) /\ StartLit("xh", pos + 2, <<"x">>)
         \/ Delimits(pos) /\ StartLit("xdolq", TagEnd(pos) + 1, <<>>)
         \/ At(pos) = DQuote /\ StartLit("xd", pos + 1, <<>>)
  BY DEF LiteralStart
<1>2. /\ text \in Seq(Chars) /\ Len(text) \in Nat /\ pos \in 1..Len(text) /\ ReadsTo(pos, InCode)
  BY <1>1, InitialIs
<1>3. ASSUME NEW m \in DOMAIN StateOf, StartLit(m, pos + 1, <<>>),
             ReadAt(pos, InCode) = Reads(<<Mark>>, StateOf[m])
      PROVE  ScanInv'
  <2>1. StateOf[m] \in Quoted /\ m \in DOMAIN Ends /\ m # "xdolq"
    BY StatesAre, EndsAre, QuotedIs
  <2>2. ReadsTo(pos + 1, StateOf[m]) /\ Meaning[pos] = Mark
    BY <1>2, <1>3, <2>1, OpensOne
  <2>3. PICK e \in (pos + 1)..(Len(text) + 1) : e = pos + 1
    BY <1>2
  <2>4. \A j \in pos..(e - 1) : Meaning[j].is = "literal"
    <3>1. \A j \in pos..(e - 1) : j = pos
      BY <1>2, <2>3
    <3> QED BY <2>2, <3>1, PartsAre
  <2>5. Gathered(pos, e) = <<>>
    <3>1. \A j \in (pos + 1)..(e - 1) : Meaning[j].adds = <<>>
      BY <1>2, <2>3
    <3> QED BY <1>2, <2>2, <3>1, GatherFirst, PartsAre
  <2>6. StartLit(m, e, <<>>) /\ ReadsTo(e, StateOf[m]) /\ <<>> \in Added
    BY <1>3, <2>2, <2>3, AddedIs
  <2> QED BY <2>1, <2>4, <2>5, <2>6, StartStep
<1>4. ASSUME NEW m \in DOMAIN StateOf, NEW c \in Meanings, NEW s \in Added, c.adds = s,
             c.is = "literal",
             StartLit(m, pos + 2, s), ReadAt(pos, InCode) = Reads(<<c, Mark>>, StateOf[m])
      PROVE  ScanInv'
  <2>1. StateOf[m] \in Quoted /\ m \in DOMAIN Ends /\ m # "xdolq"
    BY StatesAre, EndsAre, QuotedIs
  <2>2. ReadsTo(pos + 2, StateOf[m]) /\ Meaning[pos] = c /\ Meaning[pos + 1] = Mark
    BY <1>2, <1>4, <2>1, OpensTwo
  <2>3. PICK e \in (pos + 1)..(Len(text) + 1) : e = pos + 2
    BY <1>2, <2>2 DEF ReadsTo
  <2>4. \A j \in pos..(e - 1) : Meaning[j].is = "literal"
    <3>1. \A j \in pos..(e - 1) : j = pos \/ j = pos + 1
      BY <1>2, <2>3
    <3> QED BY <1>4, <2>2, <3>1, PartsAre
  <2>5. s = Gathered(pos, e)
    <3>1. \A j \in (pos + 1)..(e - 1) : j = pos + 1
      BY <1>2, <2>3
    <3>2. \A j \in (pos + 1)..(e - 1) : Meaning[j].adds = <<>>
      BY <2>2, <3>1, PartsAre
    <3> QED BY <1>2, <1>4, <2>2, <3>2, GatherFirst
  <2>6. StartLit(m, e, s) /\ ReadsTo(e, StateOf[m])
    BY <1>4, <2>2, <2>3
  <2> QED BY <2>1, <2>4, <2>5, <2>6, StartStep
<1>5. CASE At(pos) = Quote /\ StartLit("xe", pos + 1, <<>>)
  <2>1. "xe" \in DOMAIN StateOf /\ ReadAt(pos, InCode) = Reads(<<Mark>>, StateOf["xe"])
    BY <1>2, <1>5, StatesAre, QuoteOpens
  <2> QED BY <1>3, <1>5, <2>1
<1>6. CASE At(pos) = DQuote /\ StartLit("xd", pos + 1, <<>>)
  <2>1. "xd" \in DOMAIN StateOf /\ ReadAt(pos, InCode) = Reads(<<Mark>>, StateOf["xd"])
    BY <1>2, <1>6, StatesAre, QuoteOpens
  <2> QED BY <1>3, <1>6, <2>1
<1>7. CASE Seen(pos, <<"e", Quote>>) /\ StartLit("xe", pos + 2, <<>>)
  <2>1. "xe" \in DOMAIN StateOf /\ ReadAt(pos, InCode) = Reads(<<Mark, Mark>>, StateOf["xe"])
    BY <1>2, <1>7, StatesAre, LetterOpens
  <2>2. Mark \in Meanings /\ Mark.adds = <<>> /\ Mark.is = "literal" /\ <<>> \in Added
    BY PartsAre, AddedIs
  <2> QED BY <1>4, <1>7, <2>1, <2>2
<1>8. ASSUME NEW c \in Letters
      PROVE  Adds(c) \in Meanings /\ Adds(c).adds = <<c>> /\ Adds(c).is = "literal"
        /\ <<c>> \in Added
  <2>1. c \in Chars \cup {"BS"}
    BY LettersAre
  <2> QED BY <2>1, PartsAre, MeaningsAre, AddedIs
<1>9. CASE Seen(pos, <<"b", Quote>>) /\ StartLit("xb", pos + 2, <<"b">>)
  <2>1. "xb" \in DOMAIN StateOf /\ ReadAt(pos, InCode) = Reads(<<Adds("b"), Mark>>, StateOf["xb"])
    BY <1>2, <1>9, StatesAre, LetterOpens
  <2>2. "b" \in Letters
    BY DEF Letters
  <2>3. Adds("b") \in Meanings /\ Adds("b").adds = <<"b">> /\ Adds("b").is = "literal"
          /\ <<"b">> \in Added
    BY <1>8, <2>2
  <2> QED BY <1>4, <1>9, <2>1, <2>3
<1>10. CASE Seen(pos, <<"x", Quote>>) /\ StartLit("xh", pos + 2, <<"x">>)
  <2>1. "xh" \in DOMAIN StateOf /\ ReadAt(pos, InCode) = Reads(<<Adds("x"), Mark>>, StateOf["xh"])
    BY <1>2, <1>10, StatesAre, LetterOpens
  <2>2. "x" \in Letters
    BY DEF Letters
  <2>3. Adds("x") \in Meanings /\ Adds("x").adds = <<"x">> /\ Adds("x").is = "literal"
          /\ <<"x">> \in Added
    BY <1>8, <2>2
  <2> QED BY <1>4, <1>10, <2>1, <2>3
<1>11. CASE Delimits(pos) /\ StartLit("xdolq", TagEnd(pos) + 1, <<>>)
  <2>1. PICK len \in 2..(Len(text) + 1 - pos) : len = DelimiterLength(pos)
               /\ len = TagEnd(pos) + 1 - pos
    BY <1>2, <1>11, StopsIs
  <2>2. TagEnd(pos) \in Int
    BY <1>2, TagEndIs
  <2>3. PICK e \in (pos + 1)..(Len(text) + 1) : e = TagEnd(pos) + 1 /\ e = pos + len
    BY <1>2, <2>1, <2>2
  <2>4. \A j \in pos..(pos + len - 1) : Meaning[j] = Mark
    BY <1>2, <1>11, <2>1, DollarRead
  <2>5. \A j \in pos..(e - 1) : Meaning[j] = Mark
    <3>1. pos + len - 1 = e - 1
      BY <1>2, <2>3
    <3> QED BY <2>4, <3>1
  <2>6. Gathered(pos, e) = <<>>
    <3>1. \A j \in (pos + 1)..(e - 1) : j \in pos..(e - 1)
      BY <1>2
    <3>2. pos \in pos..(e - 1)
      BY <1>2
    <3>3. /\ Meaning[pos].adds = <<>> /\ \A j \in (pos + 1)..(e - 1) : Meaning[j].adds = <<>>
      BY <2>5, <3>1, <3>2, PartsAre
    <3> QED BY <1>2, <3>3, GatherFirst
  <2>7. e \in (pos + DelimiterLength(pos))..DollarEnd(pos)
    <3>1. PICK end \in (pos + len)..(Len(text) + 1) : end = DollarEnd(pos)
      BY <1>2, <2>1, DollarEndIs
    <3>2. e \in (pos + len)..end
      BY <1>2, <2>3
    <3> QED BY <2>1, <3>1, <3>2
  <2>8. /\ StartLit("xdolq", e, <<>>) /\ <<>> \in Added /\ "xdolq" \in DOMAIN Ends
        /\ "xdolq" \notin DOMAIN StateOf
    BY <1>11, <2>3, AddedIs, EndsAre, StatesAre
  <2>9. \A j \in pos..(e - 1) : Meaning[j].is = "literal"
    BY <2>5, PartsAre
  <2> QED BY <1>2, <1>11, <2>6, <2>7, <2>8, <2>9, StartStep
<1> QED BY <1>1, <1>5, <1>6, <1>7, <1>9, <1>10, <1>11

(* The scanner in a literal has what the reader has of it.                          *)
LEMMA LiteralIs ==
  ASSUME ScanInv, mode \in DOMAIN Ends, pos <= Len(text)
  PROVE  /\ text \in Seq(Chars) /\ Len(text) \in Nat /\ pos \in 1..Len(text)
         /\ lastToken.from \in 1..pos /\ Gathered(lastToken.from, pos) \in Added
         /\ literal = Gathered(lastToken.from, pos)
         /\ mode \in DOMAIN StateOf => ReadsTo(pos, StateOf[mode]) /\ StateOf[mode] \in Quoted
         /\ mode = "xdolq" => InDollarQuote
PROOF
<1>1. ScanTypeOK /\ Places /\ Collects
  BY DEF ScanInv
<1>2. text \in Seq(Chars) /\ Len(text) \in Nat /\ pos \in 1..(Len(text) + 1) /\ literal \in Added
  BY <1>1, TextIs, TypeIs
<1>3. pos \in 1..Len(text)
  BY <1>2
<1>4. lastToken.from \in 1..pos /\ literal = Gathered(lastToken.from, pos)
  BY <1>1 DEF Collects
<1>5. mode \in DOMAIN StateOf => ReadsTo(pos, StateOf[mode]) /\ StateOf[mode] \in Quoted
  BY <1>1, StatesAre, QuotedIs DEF Places
<1>6. mode = "xdolq" => InDollarQuote
  BY <1>1 DEF Places
<1> QED BY <1>2, <1>3, <1>4, <1>5, <1>6

(* Parts of a literal that the reader takes as two characters.                          *)
LEMMA PairStep ==
  ASSUME ScanInv, mode \in DOMAIN StateOf, pos <= Len(text), NEW c \in Chars \cup {"BS"},
         ReadAt(pos, StateOf[mode]) = Reads(<<Mark, Adds(c)>>, StateOf[mode]), Part(pos + 2, <<c>>)
  PROVE  ScanInv'
PROOF
<1>1. mode \in DOMAIN Ends /\ mode # "xdolq"
  BY StatesAre, EndsAre
<1>2. /\ text \in Seq(Chars) /\ Len(text) \in Nat /\ pos \in 1..Len(text)
      /\ lastToken.from \in 1..pos /\ Gathered(lastToken.from, pos) \in Added
      /\ ReadsTo(pos, StateOf[mode]) /\ StateOf[mode] \in Quoted
  BY <1>1, LiteralIs
<1>3. PICK n \in Quoted : n = StateOf[mode]
  BY <1>2
<1>4. /\ ReadsTo(pos + 2, StateAt(pos + 2, n)) /\ Meaning[pos] = Mark /\ Meaning[pos + 1] = Adds(c)
  BY <1>2, <1>3, ReadTwo
<1>5. ReadsTo(pos + 2, n)
  BY <1>4, InLiteral
<1>6. PICK e \in (pos + 1)..(Len(text) + 1) : e = pos + 2
  BY <1>2, <1>5 DEF ReadsTo
<1>7. \A j \in pos..(e - 1) : Meaning[j].is = "literal"
  <2>1. \A j \in pos..(e - 1) : j = pos \/ j = pos + 1
    BY <1>2, <1>6
  <2> QED BY <1>4, <2>1, PartsAre
<1>8. PICK f \in 1..pos : f = lastToken.from
  BY <1>2
<1>9. PICK g \in Added : g = Gathered(f, pos)
  BY <1>2, <1>8
<1>10. Gathered(f, e) = g \o <<c>>
  <2>1. f \in 1..(Len(text) + 1) /\ pos \in f..Len(text)
    BY <1>2
  <2>2. PICK h \in f..Len(text) : h = pos + 1 /\ e = h + 1
    BY <1>2, <1>6, <1>8
  <2>3. Gathered(f, pos + 1) = Gathered(f, pos) \o Meaning[pos].adds
    BY <1>2, <2>1, GatherOne
  <2>4. Gathered(f, h + 1) = Gathered(f, h) \o Meaning[h].adds
    BY <1>2, <2>1, GatherOne
  <2>5. g \o <<>> = g
    BY DEF Added
  <2>6. Meaning[pos].adds = <<>> /\ Meaning[h].adds = <<c>>
    BY <1>4, <2>2, PartsAre
  <2>7. Gathered(f, h) = g
    BY <1>9, <2>2, <2>3, <2>5, <2>6
  <2> QED BY <2>2, <2>4, <2>6, <2>7
<1>11. Part(e, <<c>>) /\ <<c>> \in Added /\ ReadsTo(e, StateOf[mode])
  BY <1>3, <1>5, <1>6, AddedIs
<1>12. Gathered(lastToken.from, e) = Gathered(lastToken.from, pos) \o <<c>>
  BY <1>8, <1>9, <1>10
<1> QED BY <1>1, <1>7, <1>11, <1>12, PartStep

(* Parts that stand for themselves.                                             *)
LEMMA TextStep ==
  ASSUME ScanInv, mode \in DOMAIN Ends, pos <= Len(text), NEW e \in (pos + 1)..(Len(text) + 1),
         \A j \in pos..(e - 1) : Meaning[j] = Adds(At(j)), Part(e, SubSeq(text, pos, e - 1)),
         mode \in DOMAIN StateOf => ReadsTo(e, StateOf[mode]),
         mode = "xdolq" => e <= DollarEnd(lastToken.from)
  PROVE  ScanInv'
PROOF
<1>1. /\ text \in Seq(Chars) /\ Len(text) \in Nat /\ pos \in 1..Len(text)
      /\ lastToken.from \in 1..pos
  BY LiteralIs
<1>2. PICK f \in 1..(Len(text) + 1) : f = lastToken.from /\ pos \in f..Len(text)
  BY <1>1
<1>3. e \in pos..(Len(text) + 1)
  BY <1>1
<1>4. \A j \in pos..(e - 1) : Meaning[j].is = "literal" /\ Meaning[j].adds = <<At(j)>>
  BY PartsAre
<1>5. Gathered(f, e) = Gathered(f, pos) \o SubSeq(text, pos, e - 1)
  BY <1>1, <1>2, <1>3, <1>4, GatherText
<1>6. PICK v \in Added : v = SubSeq(text, pos, e - 1)
  BY <1>1, <1>3, PartAdds
<1>7. Part(e, v) /\ Gathered(lastToken.from, e) = Gathered(lastToken.from, pos) \o v
  BY <1>2, <1>5, <1>6
<1> QED BY <1>4, <1>7, PartStep

(* A dollar quote: the reader is at f, and the literal ends where it says at the earliest. *)
LEMMA InDollarIs ==
  ASSUME ScanInv, mode = "xdolq", pos <= Len(text)
  PROVE  \E f \in 1..Len(text), len \in Nat, end \in 1..(Len(text) + 1) :
           /\ f = lastToken.from /\ len = DelimiterLength(f) /\ end = DollarEnd(f)
           /\ Delimits(f) /\ ReadsTo(f, InCode) /\ f + len <= pos /\ pos <= end
           /\ \A j \in pos..(end - 1) : Meaning[j] = Adds(At(j))
           /\ end <= Len(text) => At(end) = Dollar /\ Repeats(f, end)
PROOF
<1>1. /\ text \in Seq(Chars) /\ Len(text) \in Nat /\ pos \in 1..Len(text) /\ InDollarQuote
  BY EndsAre, LiteralIs
<1>2. PICK f \in 1..Len(text) :
        /\ f = lastToken.from /\ Delimits(f) /\ ReadsTo(f, InCode)
        /\ pos \in (f + DelimiterLength(f))..DollarEnd(f)
  BY <1>1 DEF InDollarQuote
<1>3. PICK len \in 2..(Len(text) + 1 - f) : len = DelimiterLength(f)
  BY <1>1, <1>2, StopsIs
<1>4. PICK end \in (f + len)..(Len(text) + 1) :
        end = DollarEnd(f) /\ (end <= Len(text) => Repeats(f, end))
  BY <1>1, <1>3, DollarEndIs
<1>5. f \in Nat /\ len \in Nat /\ end \in 1..(Len(text) + 1) /\ f + len <= pos /\ pos <= end
  BY <1>1, <1>2, <1>3, <1>4
<1>6. \A j \in pos..(end - 1) : Meaning[j] = Adds(At(j))
  <2>1. \A j \in (f + len)..(end - 1) : Meaning[j] = Adds(At(j))
    BY <1>1, <1>2, <1>3, <1>4, DollarRead
  <2>2. \A j \in pos..(end - 1) : j \in (f + len)..(end - 1)
    BY <1>1, <1>5
  <2> QED BY <2>1, <2>2
<1>7. ASSUME end <= Len(text) PROVE At(end) = Dollar
  <2>1. end \in 1..Len(text) /\ Repeats(f, end)
    BY <1>1, <1>4, <1>5, <1>7
  <2>2. end + DelimiterLength(f) <= Len(text) + 1
    BY <1>1, <1>4, <2>1, DollarEndIs
  <2> QED BY <1>1, <1>2, <2>1, <2>2, StopsIs DEF Delimits
<1> QED BY <1>2, <1>3, <1>4, <1>5, <1>6, <1>7

LEMMA EndsChars ==
  \A m \in DOMAIN Ends : Ends[m] \in SUBSET Chars
PROOF
<1>1. /\ Ends["xe"] = {Quote, Backslash} /\ Ends["xb"] = {Quote} /\ Ends["xh"] = {Quote}
      /\ Ends["xd"] = {DQuote} /\ Ends["xdolq"] = {Dollar}
  BY DEF Ends
<1> QED BY <1>1, EndsAre, QuotesAre, DollarIs

(* A run of characters of a literal that stand for themselves.                      *)
LEMMA TextRun ==
  ASSUME text \in Seq(Chars), NEW i \in 1..(Len(text) + 1), NEW e \in i..(Len(text) + 1),
         NEW n \in Quoted, ReadsTo(i, n),
         \A j \in i..(e - 1) : ReadAt(j, n) = Reads(<<Adds(At(j))>>, n)
  PROVE  ReadsTo(e, n) /\ \A j \in i..(e - 1) : Meaning[j] = Adds(At(j))
PROOF
<1>1. PICK c : c = [j \in i..(e - 1) |-> Adds(At(j))]
  OBVIOUS
<1>2. \A j \in i..(e - 1) : c[j] = Adds(At(j))
  BY <1>1
<1>3. \A j \in i..(e - 1) : ReadAt(j, n) = Reads(<<c[j]>>, n)
  BY <1>2
<1>4. \A j \in (i + 1)..(e - 1) : StateAt(j, n) = n
  BY InLiteral
<1>5. /\ ReadsTo(e, IF e = i THEN n ELSE StateAt(e, n))
      /\ \A j \in i..(e - 1) : Meaning[j] = c[j]
  BY <1>3, <1>4, ReadRun
<1> QED BY <1>2, <1>5, InLiteral

LEMMA LiteralInsideStep == ASSUME ScanInv, LiteralInside PROVE ScanInv'
PROOF
<1> DEFINE rest == Chars \ Ends[mode]
<1>1. /\ mode \in DOMAIN Ends /\ pos <= Len(text) /\ At(pos) \notin Ends[mode]
      /\ Part(RunEnd(pos, rest), SubSeq(text, pos, RunEnd(pos, rest) - 1))
  BY Zenon DEF LiteralInside
<1>2. /\ text \in Seq(Chars) /\ Len(text) \in Nat /\ pos \in 1..Len(text)
      /\ mode \in DOMAIN StateOf => ReadsTo(pos, StateOf[mode]) /\ StateOf[mode] \in Quoted
  BY <1>1, LiteralIs
<1>3. PICK e \in pos..(Len(text) + 1) :
        /\ e = RunEnd(pos, rest) /\ \A j \in pos..(e - 1) : At(j) \in rest /\ j \in 1..Len(text)
        /\ At(e) \notin rest
  <2>1. pos \in 1..(Len(text) + 1) /\ rest \in SUBSET Chars
    BY <1>2
  <2> QED BY <1>2, <2>1, RunEndIs
<1>4. \A j \in pos..(e - 1) : At(j) \notin Ends[mode] /\ j \in 1..Len(text)
  BY <1>3
<1>5. e \in (pos + 1)..(Len(text) + 1)
  <2>1. At(pos) \in rest
    BY <1>1, <1>2, AtIs
  <2>2. e # pos
    BY <1>3, <2>1
  <2> QED BY <1>2, <1>3, <2>2
<1>6. Part(e, SubSeq(text, pos, e - 1))
  BY <1>1, <1>3
<1> HIDE DEF rest
<1>7. CASE mode \in DOMAIN StateOf
  <2>1. PICK n \in Quoted : n = StateOf[mode]
    BY <1>2, <1>7
  <2>2. ASSUME NEW j \in pos..(e - 1) PROVE ReadAt(j, n) = Reads(<<Adds(At(j))>>, n)
    <3>1. At(j) # QuoteOf(n) /\ ~(n = InQuotes /\ At(j) = Backslash)
      <4>1. At(j) \notin Ends[mode]
        BY <1>4
      <4>2. QuoteOf(n) \in Ends[mode] /\ (n = InQuotes => Backslash \in Ends[mode])
        BY <1>7, <2>1, StatesAre, QuotedIs DEF Ends
      <4> QED BY <4>1, <4>2
    <3>2. LiteralAt(j, n) = Reads(<<Adds(At(j))>>, n)
      BY <3>1, Zenon DEF LiteralAt
    <3> QED BY <3>2, InLiteral
  <2>3. ReadsTo(pos, n) /\ pos \in 1..(Len(text) + 1)
    BY <1>2, <1>7, <2>1
  <2>4. ReadsTo(e, n) /\ \A j \in pos..(e - 1) : Meaning[j] = Adds(At(j))
    BY <1>2, <2>2, <2>3, TextRun
  <2> QED BY <1>1, <1>5, <1>6, <2>1, <2>4, <1>7, StatesAre, TextStep
<1>8. CASE mode = "xdolq"
  <2>1. PICK f \in 1..Len(text), len \in Nat, end \in 1..(Len(text) + 1) :
           /\ f = lastToken.from /\ len = DelimiterLength(f) /\ end = DollarEnd(f) /\ pos <= end
           /\ \A j \in pos..(end - 1) : Meaning[j] = Adds(At(j))
           /\ end <= Len(text) => At(end) = Dollar
    BY <1>1, <1>8, InDollarIs
  <2>2. Dollar \in Ends[mode]
    BY <1>8 DEF Ends
  <2>3. e <= end
    <3>1. SUFFICES ASSUME end < e PROVE FALSE
      BY <1>2
    <3>2. end \in pos..(e - 1)
      BY <1>2, <2>1, <3>1
    <3> QED BY <1>2, <1>4, <2>1, <2>2, <3>2
  <2>4. \A j \in pos..(e - 1) : Meaning[j] = Adds(At(j))
    <3>1. \A j \in pos..(e - 1) : j \in pos..(end - 1)
      BY <1>2, <2>3
    <3> QED BY <2>1, <3>1
  <2>5. e <= DollarEnd(lastToken.from) /\ mode \notin DOMAIN StateOf
    BY <1>8, <2>1, <2>3, StatesAre
  <2> QED BY <1>1, <1>5, <1>6, <2>4, <2>5, TextStep
<1> QED BY <1>1, <1>7, <1>8, EndsAre, StatesAre

(* The scanner and the reader have the same escapes.                                *)
LEMMA EscapesAgree ==
  \A c \in Chars : Unescaped(c) = EscapeOf(c) /\ Unescaped(c) \in Chars \cup {"BS"}
PROOF
<1>1. DOMAIN Control = {"b", "n"} /\ Control["b"] = "BS" /\ Control["n"] = Newline
  BY DEF Control, Newline
<1>2. Newline \in Chars
  BY Zenon DEF Chars, Space, Newline
<1>3. ASSUME NEW c \in Chars PROVE Unescaped(c) = EscapeOf(c) /\ Unescaped(c) \in Chars \cup {"BS"}
  <2>1. CASE c = "b"
    BY <1>1, <2>1 DEF Unescaped, EscapeOf
  <2>2. CASE c = "n"
    BY <1>1, <1>2, <2>2 DEF Unescaped, EscapeOf
  <2>3. CASE c # "b" /\ c # "n"
    BY <1>1, <2>3, Zenon DEF Unescaped, EscapeOf
  <2> QED BY <2>1, <2>2, <2>3
<1> QED BY <1>3

LEMMA EscapeStep == ASSUME ScanInv, Escape PROVE ScanInv'
PROOF
<1>1. mode = "xe" /\ pos <= Len(text) /\ At(pos) = Backslash
  BY DEF Escape, Scanning
<1>2. mode \in DOMAIN Ends /\ mode \in DOMAIN StateOf /\ StateOf[mode] = InQuotes
  BY <1>1, EndsAre, StatesAre
<1>3. /\ text \in Seq(Chars) /\ Len(text) \in Nat /\ pos \in 1..Len(text)
      /\ ReadsTo(pos, InQuotes)
  BY <1>1, <1>2, LiteralIs
<1>4. At(pos) # QuoteOf(InQuotes) /\ InQuotes \in Quoted
  BY <1>1, QuotedIs, QuotesAre
<1>5. CASE pos = Len(text)
  <2>1. Part(pos + 1, <<Backslash>>)
    BY <1>5 DEF Escape
  <2>2. ReadAt(pos, InQuotes) = Reads(<<Adds(Backslash)>>, InQuotes)
    <3>1. ~(pos < Len(text))
      BY <1>3, <1>5
    <3>2. LiteralAt(pos, InQuotes) = Reads(<<Adds(At(pos))>>, InQuotes)
      BY <1>4, <3>1, Zenon DEF LiteralAt
    <3> QED BY <1>1, <1>4, <3>2, InLiteral
  <2>3. ReadsTo(pos + 1, StateAt(pos + 1, InQuotes)) /\ Meaning[pos] = Adds(Backslash)
    BY <1>3, <2>2, ReadOne
  <2>4. PICK e \in (pos + 1)..(Len(text) + 1) : e = pos + 1
    BY <1>3
  <2>5. \A j \in pos..(e - 1) : Meaning[j] = Adds(At(j))
    <3>1. \A j \in pos..(e - 1) : j = pos
      BY <1>3, <2>4
    <3> QED BY <1>1, <2>3, <3>1
  <2>6. ReadsTo(e, StateOf[mode]) /\ mode # "xdolq"
    BY <1>1, <1>2, <1>4, <2>3, <2>4, InLiteral
  <2>7. Part(e, SubSeq(text, pos, e - 1))
    <3>1. e - 1 = pos
      BY <1>3, <2>4
    <3>2. SubSeq(text, pos, pos) = <<text[pos]>>
      <4>1. pos \in 1..(Len(text) + 1) /\ pos \in pos..(Len(text) + 1)
        BY <1>3
      <4>2. PICK h \in pos..(Len(text) + 1) : h = pos + 1 /\ h - 1 = pos /\ h - pos = 1
        BY <1>3
      <4>3. PICK p \in Seq(Chars) : p = SubSeq(text, pos, h - 1)
        BY <1>3, <4>1, ByPosition
      <4>4. Len(p) = 1 /\ p[1] = At(pos)
        <5>1. Len(p) = h - pos /\ \A j \in pos..(h - 1) : At(j) = p[j + 1 - pos]
          BY <1>3, <4>1, <4>3, ByPosition
        <5>2. pos \in pos..(h - 1) /\ pos + 1 - pos = 1
          BY <1>3, <4>2
        <5> QED BY <4>2, <5>1, <5>2
      <4>5. p = <<p[1]>>
        BY <4>4
      <4>6. At(pos) = text[pos]
        BY <1>3, AtIs
      <4> QED BY <4>2, <4>3, <4>4, <4>5, <4>6
    <3>3. text[pos] = Backslash
      BY <1>1, <1>3, AtIs
    <3> QED BY <2>1, <2>4, <3>1, <3>2, <3>3
  <2> QED BY <1>1, <1>2, <2>5, <2>6, <2>7, TextStep
<1>6. CASE pos # Len(text)
  <2>1. Part(pos + 2, <<Unescaped(At(pos + 1))>>)
    BY <1>6 DEF Escape
  <2>2. pos + 1 \in 1..Len(text) /\ pos < Len(text)
    BY <1>3, <1>6
  <2>3. At(pos + 1) \in Chars
    BY <1>3, <2>2, AtIs
  <2>4. PICK c \in Chars \cup {"BS"} : c = Unescaped(At(pos + 1)) /\ c = EscapeOf(At(pos + 1))
    BY <2>3, EscapesAgree
  <2>5. ReadAt(pos, InQuotes) = Reads(<<Mark, Adds(c)>>, InQuotes)
    <3>1. LiteralAt(pos, InQuotes) = Reads(<<Mark, Adds(EscapeOf(At(pos + 1)))>>, InQuotes)
      BY <1>1, <1>4, <2>2, Zenon DEF LiteralAt
    <3> QED BY <1>4, <2>4, <3>1, InLiteral
  <2>6. Part(pos + 2, <<c>>)
    BY <2>1, <2>4
  <2> QED BY <1>1, <1>2, <2>5, <2>6, PairStep
<1> QED BY <1>5, <1>6

LEMMA DoubledQuoteStep == ASSUME ScanInv, DoubledQuote PROVE ScanInv'
PROOF
<1>1. PICK c \in {Quote, DQuote} :
        /\ pos <= Len(text) /\ Seen(pos, <<c, c>>) /\ Part(pos + 2, <<c>>)
        /\ \/ mode = "xe" /\ c = Quote
           \/ mode = "xd" /\ c = DQuote
  BY DEF DoubledQuote, Scanning
<1>2. /\ mode \in DOMAIN Ends /\ mode \in DOMAIN StateOf
      /\ QuoteOf(StateOf[mode]) = c /\ StateOf[mode] # InBits /\ StateOf[mode] \in Quoted
  BY <1>1, EndsAre, StatesAre, QuotedIs
<1>3. text \in Seq(Chars) /\ Len(text) \in Nat /\ pos \in 1..Len(text)
  BY <1>1, <1>2, LiteralIs
<1>4. At(pos) = c /\ At(pos + 1) = c
  BY <1>1, <1>3, SeenIs
<1>5. PICK n \in Quoted : n = StateOf[mode]
  BY <1>2
<1>6. ReadAt(pos, n) = Reads(<<Mark, Adds(c)>>, n)
  <2>1. LiteralAt(pos, n) = QuoteAt(pos, n)
    BY <1>2, <1>4, <1>5, Zenon DEF LiteralAt
  <2>2. QuoteAt(pos, n) = Reads(<<Mark, Adds(At(pos))>>, n)
    BY <1>2, <1>4, <1>5, Zenon DEF QuoteAt
  <2> QED BY <1>4, <2>1, <2>2, InLiteral
<1>7. c \in Chars \cup {"BS"}
  BY QuotesAre
<1> QED BY <1>1, <1>2, <1>5, <1>6, <1>7, PairStep

LEMMA ContinueStep == ASSUME ScanInv, Continue PROVE ScanInv'
PROOF
<1>1. /\ mode \in {"xe", "xb", "xh"} /\ At(pos) = Quote /\ Continues(pos)
      /\ Part(BlanksEnd(pos + 1) + 1, <<>>)
  BY DEF Continue
<1>2. /\ mode \in DOMAIN Ends /\ mode \in DOMAIN StateOf /\ mode # "xdolq"
      /\ QuoteOf(StateOf[mode]) = Quote /\ StateOf[mode] # InName /\ StateOf[mode] \in Quoted
  BY <1>1, EndsAre, StatesAre, QuotedIs
<1>3. pos <= Len(text)
  <2>1. text \in Seq(Chars) /\ Len(text) \in Nat /\ pos \in Int /\ pos \in 1..(Len(text) + 1)
    BY TextIs, TypeIs DEF ScanInv
  <2>2. pos \in 1..Len(text)
    BY <1>1, <2>1, AtIs, QuotesAre
  <2> QED BY <2>1, <2>2
<1>4. /\ text \in Seq(Chars) /\ Len(text) \in Nat /\ pos \in 1..Len(text)
      /\ lastToken.from \in 1..pos /\ Gathered(lastToken.from, pos) \in Added
      /\ ReadsTo(pos, StateOf[mode])
  BY <1>2, <1>3, LiteralIs
<1>5. PICK end \in (pos + 1)..Len(text) : end = BlanksEnd(pos + 1) /\ At(pos + 1) # Quote
  BY <1>1, <1>4, ContinuesIs
<1>6. PICK e \in (pos + 1)..(Len(text) + 1) : e = end + 1
  BY <1>4
<1>7. PICK len \in Nat : len = end + 1 - pos /\ pos + len = e /\ pos + len - 1 = e - 1
  BY <1>4, <1>6
<1>8. PICK n \in Quoted : n = StateOf[mode]
  BY <1>2
<1>9. ReadAt(pos, n) = Reads(Times(len, Mark), n)
  <2>1. LiteralAt(pos, n) = QuoteAt(pos, n)
    BY <1>1, <1>2, <1>8, Zenon DEF LiteralAt
  <2>2. ~(At(pos + 1) = At(pos))
    BY <1>1, <1>5
  <2>3. QuoteAt(pos, n) = Reads(Times(BlanksEnd(pos + 1) + 1 - pos, Mark), n)
    BY <1>1, <1>2, <1>8, <2>2, Zenon DEF QuoteAt
  <2>4. BlanksEnd(pos + 1) + 1 - pos = len
    BY <1>5, <1>7
  <2> QED BY <2>1, <2>3, <2>4, InLiteral
<1>10. ReadsTo(pos + len, StateAt(pos + len, n))
         /\ \A j \in pos..(pos + len - 1) : Meaning[j] = Mark
  <2>1. ReadsTo(pos, n) /\ Mark \in Meanings
    BY <1>4, <1>8, PartsAre
  <2> QED BY ONLY <1>4, <1>9, <2>1, len \in Nat, ReadTimes
<1>11. ReadsTo(e, n) /\ \A j \in pos..(e - 1) : Meaning[j] = Mark
  BY <1>7, <1>10, InLiteral
<1>12. \A j \in pos..(e - 1) : Meaning[j].is = "literal" /\ Meaning[j].adds = <<>>
  BY <1>11, PartsAre
<1>13. PICK f \in 1..(Len(text) + 1) : f = lastToken.from /\ pos \in f..(Len(text) + 1)
              /\ e \in pos..(Len(text) + 1)
  BY <1>4
<1>14. Gathered(f, e) = Gathered(f, pos)
  BY <1>4, <1>12, <1>13, GatherNone
<1>15. Gathered(f, pos) \o <<>> = Gathered(f, pos)
  <2>1. PICK g \in Added : g = Gathered(f, pos)
    BY <1>4, <1>13
  <2>2. g \o <<>> = g
    BY DEF Added
  <2> QED BY <2>1, <2>2
<1>16. Part(e, <<>>) /\ <<>> \in Added /\ ReadsTo(e, StateOf[mode])
  BY <1>1, <1>5, <1>6, <1>8, <1>11, AddedIs
<1> QED BY <1>2, <1>12, <1>13, <1>14, <1>15, <1>16, PartStep

LEMMA DollarInsideStep == ASSUME ScanInv, DollarInside PROVE ScanInv'
PROOF
<1>1. /\ mode = "xdolq" /\ pos <= Len(text) /\ At(pos) = Dollar /\ ~StopsDollar(pos)
      /\ Part(TagEnd(pos), SubSeq(text, pos, TagEnd(pos) - 1))
  BY DEF DollarInside, Scanning
<1>2. mode \in DOMAIN Ends /\ mode \notin DOMAIN StateOf
  BY <1>1, EndsAre, StatesAre
<1>3. text \in Seq(Chars) /\ Len(text) \in Nat /\ pos \in 1..Len(text)
  BY <1>1, <1>2, LiteralIs
<1>4. PICK f \in 1..Len(text), len \in Nat, end \in 1..(Len(text) + 1) :
         /\ f = lastToken.from /\ len = DelimiterLength(f) /\ end = DollarEnd(f) /\ Delimits(f)
         /\ f + len <= pos /\ pos <= end
         /\ \A j \in pos..(end - 1) : Meaning[j] = Adds(At(j))
         /\ end <= Len(text) => At(end) = Dollar /\ Repeats(f, end)
  BY <1>1, InDollarIs
<1>5. PICK e \in (pos + 1)..(Len(text) + 1) :
        e = TagEnd(pos) /\ \A j \in (pos + 1)..(e - 1) : At(j) \in InTag
  BY <1>3, TagEndIs
<1>6. end # pos
  <2>1. SUFFICES ASSUME end = pos PROVE FALSE
    OBVIOUS
  <2>2. end \in 1..Len(text) /\ Repeats(f, end)
    BY <1>3, <1>4, <2>1
  <2>3. end + DelimiterLength(f) <= Len(text) + 1
    BY <1>3, <1>4, <2>2, DollarEndIs
  <2>4. Delimits(pos) /\ SubSeq(text, pos, TagEnd(pos)) = SubSeq(text, f, TagEnd(f))
    <3>1. Delimits(end) /\ SubSeq(text, end, TagEnd(end)) = SubSeq(text, f, TagEnd(f))
      BY ONLY <1>3, <1>4, <2>2, <2>3, f \in 1..Len(text), StopsIs
    <3> QED BY <2>1, <3>1
  <2> QED BY <1>1, <1>4, <2>4 DEF StopsDollar, dolqstart
<1>7. e <= end
  <2>1. SUFFICES ASSUME end < e PROVE FALSE
    BY <1>3
  <2>2. end \in (pos + 1)..(e - 1) /\ end <= Len(text)
    BY <1>3, <1>4, <1>6, <2>1
  <2> QED BY <1>4, <1>5, <2>2, DollarIs
<1>8. \A j \in pos..(e - 1) : Meaning[j] = Adds(At(j))
  <2>1. \A j \in pos..(e - 1) : j \in pos..(end - 1)
    BY <1>3, <1>7
  <2> QED BY <1>4, <2>1
<1>9. Part(e, SubSeq(text, pos, e - 1)) /\ e <= DollarEnd(lastToken.from)
  BY <1>1, <1>4, <1>5, <1>7
<1> QED BY <1>1, <1>2, <1>8, <1>9, TextStep

(* The quote that ends a literal, of which the reader makes one piece.                  *)
LEMMA QuoteEnds ==
  ASSUME ScanInv, mode \in DOMAIN StateOf, pos <= Len(text),
         ReadAt(pos, StateOf[mode]) = Reads(<<Mark>>, InCode)
  PROVE  ReadsTo(pos + 1, InCode) /\ Meaning[pos] = Mark
PROOF
<1>1. mode \in DOMAIN Ends
  BY EndsAre, StatesAre
<1>2. /\ text \in Seq(Chars) /\ pos \in 1..Len(text) /\ ReadsTo(pos, StateOf[mode])
  BY <1>1, LiteralIs
<1>3. PICK n \in Int : n = StateOf[mode]
  BY StatesAre, StatesDiffer
<1>4. ReadsTo(pos + 1, StateAt(pos + 1, InCode)) /\ Meaning[pos] = Mark
  BY <1>2, <1>3, ReadOne
<1> QED BY <1>4, CodeStays

LEMMA LiteralStopStep == ASSUME ScanInv, LiteralStop PROVE ScanInv'
PROOF
<1>1. /\ mode \in DOMAIN Ends
      /\ mode' = "INITIAL" /\ xcdepth' = xcdepth /\ SameLiteral
      /\ lastToken' = [kind |-> mode, from |-> lastToken.from, to |-> pos' - 1, value |-> literal]
      /\ mode # "xdolq" => Take(pos + 1, "literal")
      /\ mode = "xdolq" => Take(TagEnd(pos) + 1, "literal") /\ StopsDollar(pos)
      /\ mode \in {"xe", "xb", "xh"} => At(pos) = Quote /\ ~Continues(pos)
      /\ mode = "xe" => At(pos + 1) # Quote
      /\ mode = "xd" => At(pos) = DQuote /\ At(pos + 1) # DQuote
  BY EndsAre DEF LiteralStop
<1>2. pos <= Len(text)
  <2>1. text \in Seq(Chars) /\ Len(text) \in Nat /\ pos \in Int /\ pos \in 1..(Len(text) + 1)
    BY TextIs, TypeIs DEF ScanInv
  <2>2. At(pos) \in {Quote, DQuote, Dollar}
    BY <1>1, EndsAre DEF StopsDollar, Delimits
  <2>3. pos \in 1..Len(text)
    BY <2>1, <2>2, AtIs, QuotesAre, DollarIs
  <2> QED BY <2>1, <2>3
<1>3. /\ text \in Seq(Chars) /\ Len(text) \in Nat /\ pos \in 1..Len(text)
      /\ lastToken.from \in 1..pos
  BY <1>1, <1>2, LiteralIs
<1>4. \E e \in (pos + 1)..(Len(text) + 1) :
        Take(e, "literal") /\ ReadsTo(e, InCode) /\ \A j \in pos..(e - 1) : Meaning[j] = Mark
  <2>1. CASE mode = "xdolq"
    <3>1. Take(TagEnd(pos) + 1, "literal") /\ StopsDollar(pos)
      BY <1>1, <2>1
    <3>2. PICK f \in 1..Len(text), len \in Nat, end \in 1..(Len(text) + 1) :
             /\ f = lastToken.from /\ len = DelimiterLength(f) /\ end = DollarEnd(f) /\ Delimits(f)
             /\ ReadsTo(f, InCode) /\ f + len <= pos /\ pos <= end
      BY <1>2, <2>1, InDollarIs
    <3>3. Delimits(pos) /\ SubSeq(text, pos, TagEnd(pos)) = SubSeq(text, f, TagEnd(f))
      BY <3>1, <3>2 DEF StopsDollar, dolqstart
    <3>4. pos + DelimiterLength(f) <= Len(text) + 1 /\ Repeats(f, pos)
          /\ TagEnd(pos) = pos + DelimiterLength(f) - 1
      BY ONLY <1>3, <3>2, <3>3, f \in 1..Len(text), StopsIs
    <3>5. len >= 2
      <4>1. len \in 2..(Len(text) + 1 - f)
        BY ONLY <1>3, <3>2, f \in 1..Len(text), StopsIs
      <4> QED BY <1>3, <4>1
    <3>6. ~(pos < end)
      <4>1. SUFFICES ASSUME pos < end PROVE FALSE
        OBVIOUS
      <4>2. pos \in (f + len)..(end - 1)
        BY <1>3, <3>2, <4>1
      <4> QED BY ONLY <1>3, <3>2, <3>4, <4>2, f \in 1..Len(text), DollarEndIs
    <3>7. pos = end
      BY <1>3, <3>2, <3>6
    <3>8. ReadsTo(pos + len, InCode) /\ \A j \in pos..(pos + len - 1) : Meaning[j] = Mark
      BY ONLY <1>2, <1>3, <3>2, <3>7, f \in 1..Len(text), DollarRead
    <3>9. PICK e \in (pos + 1)..(Len(text) + 1) : e = pos + len /\ e = TagEnd(pos) + 1
      BY <1>3, <3>2, <3>4, <3>5
    <3>10. pos + len - 1 = e - 1
      BY <1>3, <3>9
    <3> QED BY <3>1, <3>8, <3>9, <3>10
  <2>2. CASE mode # "xdolq"
    <3>1. mode \in DOMAIN StateOf
      BY <1>1, <2>2, EndsAre, StatesAre
    <3>2. PICK n \in Quoted : n = StateOf[mode]
      BY <3>1, StatesAre, QuotedIs
    <3>3. At(pos) = QuoteOf(n)
      BY <1>1, <2>2, <3>2, EndsAre, StatesAre, QuotedIs
    <3>4. ~(n # InBits /\ At(pos + 1) = At(pos))
      BY <1>1, <2>2, <3>2, EndsAre, StatesAre, QuotedIs
    <3>5. ~(n # InName /\ Continues(pos))
      BY <1>1, <2>2, <3>2, EndsAre, StatesAre, QuotedIs
    <3>6. QuoteAt(pos, n) = Reads(<<Mark>>, InCode)
      BY <3>4, <3>5, Zenon DEF QuoteAt
    <3>7. LiteralAt(pos, n) = QuoteAt(pos, n)
      BY <3>3, Zenon DEF LiteralAt
    <3>8. ReadAt(pos, StateOf[mode]) = Reads(<<Mark>>, InCode)
      BY <3>2, <3>6, <3>7, InLiteral
    <3>9. ReadsTo(pos + 1, InCode) /\ Meaning[pos] = Mark
      BY <1>2, <3>1, <3>8, QuoteEnds
    <3>10. PICK e \in (pos + 1)..(Len(text) + 1) : e = pos + 1
      BY <1>3
    <3>11. \A j \in pos..(e - 1) : j = pos
      BY <1>3, <3>10
    <3> QED BY <1>1, <2>2, <3>9, <3>10, <3>11
  <2> QED BY <2>1, <2>2
<1>5. PICK e \in (pos + 1)..(Len(text) + 1) :
        Take(e, "literal") /\ ReadsTo(e, InCode) /\ \A j \in pos..(e - 1) : Meaning[j] = Mark
  BY <1>4
<1>6. \A j \in pos..(e - 1) : Meaning[j].is = "literal" /\ Meaning[j].adds = <<>>
  BY <1>5, PartsAre
<1>7. PICK f \in 1..(Len(text) + 1) : f = lastToken.from /\ pos \in f..(Len(text) + 1)
             /\ e \in pos..(Len(text) + 1)
  BY <1>3
<1>8. Gathered(f, e) = Gathered(f, pos)
  BY <1>3, <1>6, <1>7, GatherNone
<1>9. lastToken' = [kind |-> mode, from |-> lastToken.from, to |-> e - 1, value |-> literal]
  BY <1>1, <1>5 DEF Take
<1> QED BY <1>1, <1>5, <1>6, <1>7, <1>8, <1>9, StopStep

(* At the end of the text, within something or not, nothing is scanned any more.    *)
LEMMA EndOfTextStep == ASSUME ScanInv, EndOfText PROVE ScanInv'
PROOF
<1>1. /\ mode = "INITIAL" /\ mode' = "over"
      /\ UNCHANGED <<text, pos, xcdepth, literal, literalalloc, lastToken, inside>>
  BY DEF EndOfText
<1>2. ScanTypeOK /\ Agrees /\ Places /\ Room /\ Tokens
  BY DEF ScanInv
<1>3. lastToken' \in TokenSet' /\ Tokens'
  BY <1>1, <1>2, TypeIs, TokenKept
<1>4. ScanTypeOK'
  BY <1>1, <1>2, <1>3, TypeIs, TypeIsNext
<1>5. Agrees'
  BY <1>1, <1>2, SameMeaning DEF Agrees
<1>6. Places'
  BY <1>1, <1>2, SameReadsTo, StatesAre DEF Places
<1>7. Collects' /\ Room'
  BY <1>1, <1>2, EndsAre DEF Collects, Room
<1> QED BY <1>3, <1>4, <1>5, <1>6, <1>7 DEF ScanInv

LEMMA ScanStays == ASSUME ScanInv, UNCHANGED scanVars PROVE ScanInv'
PROOF
<1>1. UNCHANGED <<text, pos, mode, xcdepth, literal, literalalloc, lastToken, inside>>
  BY DEF scanVars
<1>2. ScanTypeOK /\ Agrees /\ Places /\ Collects /\ Room /\ Tokens
  BY DEF ScanInv
<1>3. lastToken' \in TokenSet' /\ Tokens'
  BY <1>1, <1>2, TypeIs, TokenKept
<1>4. ScanTypeOK'
  BY <1>1, <1>2, <1>3, TypeIs, TypeIsNext
<1>5. Agrees'
  BY <1>1, <1>2, SameMeaning DEF Agrees
<1>6. Places'
  <2>1. InDollarQuote <=> InDollarQuote'
    <3>1. \A f : Delimits(f)' <=> Delimits(f)
      BY <1>1, SameAt, SameRun DEF Delimits, TagEnd
    <3> QED BY <1>1, <3>1, SameReadsTo, SameDelimiter DEF InDollarQuote
  <2>2. \A m : StateOf[m]' = StateOf[m]
    BY DEF StateOf
  <2> QED BY <1>1, <1>2, <2>1, <2>2, SameReadsTo DEF Places, StateOf
<1>7. Collects' /\ Room'
  BY <1>1, <1>2, SameGathered DEF Collects, Room
<1> QED BY <1>3, <1>4, <1>5, <1>6, <1>7 DEF ScanInv

(* The invariant holds at the start, and every step keeps it.                       *)
LEMMA ScanStarts == ASSUME ScanInit PROVE ScanInv
PROOF
<1>1. /\ text \in Texts /\ pos = 1 /\ mode = "INITIAL" /\ xcdepth = 0
      /\ literal = <<>> /\ literalalloc = InitialAlloc /\ inside = <<>>
      /\ lastToken = [kind |-> "none", from |-> 1, to |-> 0, value |-> <<>>]
  BY DEF ScanInit, NoToken
<1>2. text \in Seq(Chars) /\ Len(text) \in Nat
  BY <1>1, TextsAssumption, AtIs
<1>3. lastToken.kind = "none" /\ lastToken \in TokenSet
  <2>1. <<>> \in Added /\ "none" \in Kinds /\ 0 \in 0..Len(text) /\ 1 \in 1..(Len(text) + 1)
    BY <1>2, AddedIs DEF Kinds
  <2> QED BY <1>1, <2>1 DEF TokenSet
<1>4. ScanTypeOK
  <2>1. pos \in 1..(Len(text) + 1) /\ inside \in Seq(Known)
    BY <1>1, <1>2
  <2> QED BY <1>1, <1>3, <2>1, AllocAssumption, AddedIs, TypeIs
<1>5. Agrees
  BY <1>1 DEF Agrees
<1>6. Places
  BY <1>1, <1>2, ReadsFrom, StatesAre DEF Places
<1>7. Collects /\ Room
  BY <1>1, EndsAre, AllocAssumption DEF Collects, Room
<1>8. Tokens
  BY <1>3, EndsAre DEF Tokens, OperatorIsClean, NumberIsLongest, LiteralIsMeant
<1> QED BY <1>4, <1>5, <1>6, <1>7, <1>8 DEF ScanInv

LEMMA ScanSteps == ScanInv /\ [ScanNext]_scanVars => ScanInv'
PROOF
<1>1. SUFFICES ASSUME ScanInv, [ScanNext]_scanVars PROVE ScanInv'
  OBVIOUS
<1>2. CASE UNCHANGED scanVars
  BY <1>1, <1>2, ScanStays
<1>3. CASE ScanNext
  BY <1>1, <1>3, WhitespaceStep, CommentStartStep, CommentNestedStep, CommentStopStep,
     CommentInsideStep, OperatorStep, IdentifierStep, NationalStep, NumberStep, ParamStep,
       OtherStep,
     LiteralStartStep, LiteralInsideStep, EscapeStep, DoubledQuoteStep, DollarInsideStep,
     ContinueStep, LiteralStopStep, EndOfTextStep, Zenon DEF ScanNext
<1> QED BY <1>1, <1>2, <1>3

(* What the invariant says of the properties.                                       *)
LEMMA ScanImplies == ScanInv => ScanTypeOK /\ MeaningIsRight /\ LiteralIsRight
PROOF
<1>1. SUFFICES ASSUME ScanInv PROVE ScanTypeOK /\ MeaningIsRight /\ LiteralIsRight
  OBVIOUS
<1>2. ScanTypeOK /\ Agrees /\ Room /\ Tokens
  BY <1>1 DEF ScanInv
<1>3. MeaningIsRight
  <2>1. DOMAIN inside = 1..(pos - 1)
    BY <1>2, TypeIs DEF Agrees
  <2> QED BY <1>2, <2>1 DEF MeaningIsRight, Agrees, Tokens
<1>4. LiteralIsRight
  <2>1. ASSUME lastToken.kind \in DOMAIN Ends
        PROVE  lastToken.value = FlattenSeq([k \in 1..(lastToken.to - lastToken.from + 1) |->
                                               Meaning[lastToken.from + k - 1].adds])
    <3>1. lastToken.value = Gathered(lastToken.from, lastToken.to + 1)
      BY <1>2, <2>1 DEF Tokens, LiteralIsMeant
    <3>2. PICK f \in Int, t \in Int : f = lastToken.from /\ t = lastToken.to
      <4>1. Len(text) \in Nat /\ lastToken \in TokenSet
        BY <1>2, TextIs, TypeIs
      <4> QED BY <4>1 DEF TokenSet
    <3>3. t + 1 - f = t - f + 1
      OBVIOUS
    <3>4. Gathered(f, t + 1) = FlattenSeq([k \in 1..(t - f + 1) |-> Meaning[f + k - 1].adds])
      <4>1. Gathered(f, t + 1) = FlattenSeq([k \in 1..(t + 1 - f) |-> Meaning[f + k - 1].adds])
        BY DEF Gathered
      <4> QED BY ONLY <3>3, <4>1
    <3> QED BY <3>1, <3>2, <3>4, Zenon
  <2> QED BY <1>2, <2>1 DEF LiteralIsRight, Room
<1> QED BY <1>2, <1>3, <1>4

(* At every step, for texts of any length, the scanner is at the end of a piece of the
   reader and in the condition that is the reader's state, or within a dollar quote that
   the reader takes as one piece; what it has collected of a literal is what the characters
   mean.                                                                            *)
THEOREM ScanInvariance == ScanSpec => []ScanInv
PROOF
<1>1. ScanInit => ScanInv
  BY ScanStarts
<1> QED BY <1>1, ScanSteps, PTL DEF ScanSpec

(* Every character that the rules of lexer.ll have consumed was taken for what it is in a
   reading of the text from its start, code, comment or literal: nested comments, all kinds
   of literals, dollar quotes and continuations end where they should.  An operator holds
   no comment and no sign of the next operand; a number is the longest there is.    *)
THEOREM MeaningsAreRight == ScanSpec => []MeaningIsRight
PROOF
BY ScanInvariance, ScanImplies, PTL

(* A literal is returned with the characters that its text means, over all its escapes,
   doubled quotes and continuations, and the buffer it is collected in always has room for
   the null that litbufdup() copies.                                                *)
THEOREM LiteralsAreRight == ScanSpec => []LiteralIsRight
PROOF
BY ScanInvariance, ScanImplies, PTL

(* Types, for texts of any length.                                                  *)
THEOREM ScanTypes == ScanSpec => []ScanTypeOK
PROOF
BY ScanInvariance, ScanImplies, PTL
=============================================================================
