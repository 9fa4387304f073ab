------------------------------- MODULE LexerProps -------------------------------
(***************************************************************************)
(* What the text of a query means to a reader, character by character, and what   *)
(* the scanner must agree with.                                              *)
(***************************************************************************)
EXTENDS Lexer

(* Where the reader is: in a comment nested n deep (n > 0), in code (0), in a line   *)
(* comment, in a quoted literal, a bit string, a delimited identifier, a word, or a   *)
(* dollar quote that does not end.                                           *)
InCode == 0
InLine == -1
InQuotes == -2
InBits == -3
InName == -4
InWord == -5
InDollar == -6

(* A number is digits with at most one point among them, and an exponent.          *)
IsDecimal(s) ==
  /\ ToSet(s) \subseteq Digits \cup {"."} /\ ToSet(s) \cap Digits # {}
  /\ \A j, k \in DOMAIN s : s[j] = "." /\ s[k] = "." => j = k
IsInteger(s) == s # <<>> /\ ToSet(s) \subseteq Digits
IsExponent(s) ==
  s # <<>> /\ (IsInteger(s) \/ (Head(s) \in {"+", "-"} /\ IsInteger(Tail(s))))
IsNumber(s) ==
  \/ IsDecimal(s)
  \/ \E k \in 2..Len(s) : /\ s[k] = "e" /\ IsDecimal(SubSeq(s, 1, k - 1))
                         /\ IsExponent(SubSeq(s, k + 1, Len(s)))

(* The longest number that starts here, 0 characters if there is none.             *)
NumberLength(i) ==
  Max({0} \cup {k \in 1..(Len(text) + 1 - i) : IsNumber(SubSeq(text, i, i + k - 1))})

(* What a dollar quote starts with: two dollars with nothing or a name between      *)
(* them.  It ends where the same stands for the first time again.                 *)
IsDelimiter(s) ==
  LET tag == SubSeq(s, 2, Len(s) - 1)
  IN  /\ Len(s) > 1 /\ Head(s) = Dollar /\ Last(s) = Dollar
      /\ ToSet(tag) \subseteq InTag /\ (tag = <<>> \/ Head(tag) \in Letters)
DelimiterLength(i) ==
  Max({0} \cup {k \in 1..(Len(text) + 1 - i) : IsDelimiter(SubSeq(text, i, i + k - 1))})
DollarEnd(i) ==
  LET len == DelimiterLength(i)
      ends == {j \in (i + len)..(Len(text) + 1 - len) :
                 SubSeq(text, j, j + len - 1) = SubSeq(text, i, i + len - 1)}
  IN  IF ends = {} THEN Len(text) + 1 ELSE Min(ends)

(* What an escape stands for.                                                  *)
Control == [b |-> "BS", n |-> "\n"]
EscapeOf(c) == IF c \in DOMAIN Control THEN Control[c] ELSE c

Is(c, s) == [is |-> c, adds |-> s]
Comment == Is("comment", <<>>)
Code == Is("code", <<>>)
Mark == Is("literal", <<>>)    \* a part of a literal that adds nothing to it
Adds(c) == Is("literal", <<c>>)
Complete == Is("complete", <<>>)      \* the end of the text
Unfinished == Is("unfinished", <<>>)

(* What the reader takes in one go, and where it is then.  Most is taken character    *)
(* by character; numbers, parameters and dollar quotes are not.                  *)
Reads(chars, n) == [chars |-> chars, state |-> n]
Times(len, c) == [k \in 1..len |-> c]
Each(s) == [k \in DOMAIN s |-> Adds(s[k])]

DollarQuoteAt(i) ==
  LET mark == Times(DelimiterLength(i), Mark)
      inner == Each(SubSeq(text, i + DelimiterLength(i), DollarEnd(i) - 1))
  IN  IF DollarEnd(i) > Len(text) THEN Reads(mark \o inner, InDollar)
                                  ELSE Reads(mark \o inner \o mark, InCode)

DollarAt(i) ==
  IF At(i + 1) \in Digits THEN Reads(Times(RunEnd(i + 1, Digits) - i, Code), InCode)
  ELSE IF DelimiterLength(i) > 0 THEN DollarQuoteAt(i)
  ELSE Reads(<<Code>>, InCode)

LetterAt(i) ==
  IF Seen(i, <<"e", Quote>>) THEN Reads(<<Mark, Mark>>, InQuotes)
  ELSE IF Seen(i, <<"b", Quote>>) \/ Seen(i, <<"x", Quote>>)
       THEN Reads(<<Adds(At(i)), Mark>>, InBits)
  ELSE Reads(<<Code>>, InWord)

CodeAt(i) ==
  IF Seen(i, <<"/", "*">>) THEN Reads(<<Comment, Comment>>, 1)
  ELSE IF Seen(i, <<"-", "-">>) THEN Reads(<<Comment, Comment>>, InLine)
  ELSE IF At(i) = Quote THEN Reads(<<Mark>>, InQuotes)
  ELSE IF At(i) = DQuote THEN Reads(<<Mark>>, InName)
  ELSE IF At(i) = Dollar THEN DollarAt(i)
  ELSE IF At(i) \in Letters THEN LetterAt(i)
  ELSE IF NumberLength(i) > 0 THEN Reads(Times(NumberLength(i), Code), InCode)
  ELSE Reads(<<Code>>, InCode)

CommentAt(i, n) ==
  IF Seen(i, <<"/", "*">>) THEN Reads(<<Comment, Comment>>, n + 1)
  ELSE IF Seen(i, <<"*", "/">>) THEN Reads(<<Comment, Comment>>, n - 1)
  ELSE Reads(<<Comment>>, n)

QuoteOf(n) == IF n = InName THEN DQuote ELSE Quote
QuoteAt(i, n) ==
  IF n # InBits /\ At(i + 1) = At(i) THEN Reads(<<Mark, Adds(At(i))>>, n)
  ELSE IF n # InName /\ Continues(i) THEN Reads(Times(BlanksEnd(i + 1) + 1 - i, Mark), n)
  ELSE Reads(<<Mark>>, InCode)

LiteralAt(i, n) ==
  IF At(i) = QuoteOf(n) THEN QuoteAt(i, n)
  ELSE IF n = InQuotes /\ At(i) = Backslash /\ i < Len(text)
       THEN Reads(<<Mark, Adds(EscapeOf(At(i + 1)))>>, n)
  ELSE Reads(<<Adds(At(i))>>, n)

ReadAt(i, n) ==
  IF n = InWord THEN Reads(<<Code>>, n)
  ELSE IF n = InLine THEN Reads(<<Comment>>, n)
  ELSE IF n = InCode THEN CodeAt(i)
  ELSE IF n > 0 THEN CommentAt(i, n)
  ELSE LiteralAt(i, n)

(* A word, and a line comment, end before the first character that is not theirs.     *)
StateAt(i, n) ==
  IF \/ n = InWord /\ At(i) \notin IdentCont
     \/ n = InLine /\ At(i) \in {Newline, "EOF"}
  THEN InCode ELSE n

(* What has been read, and one piece more.                                       *)
Onward(old) ==
  LET i == Len(old.chars) + 1
      piece == ReadAt(i, StateAt(i, old.state))
  IN  IF i > Len(text) THEN old ELSE Reads(old.chars \o piece.chars, piece.state)

(* The text after k such pieces.                                              *)
Reading ==
  LET read[k \in 0..Len(text)] == IF k = 0 THEN Reads(<<>>, InCode) ELSE Onward(read[k - 1])
  IN  read

(* The meaning of every character, and whether the text is complete.              *)
Meaning ==
  LET all == Reading[Len(text)]
  IN  Append(all.chars, IF StateAt(Len(text) + 1, all.state) = InCode THEN Complete ELSE Unfinished)

(* An operator stops before a comment, and where the next operand's sign starts:     *)
(* "a=-b" has two operators.                                                  *)
OperatorIsClean ==
  lastToken.kind \in {"named", "character", "Op"} /\ lastToken.value[1] \in OpChars =>
    LET op == lastToken.value
    IN  /\ CutComment(op) = Len(op)
        /\ Len(op) > 1 /\ Last(op) \in {"+", "-"} => ToSet(op) \cap Special # {}

(* A number is the longest one that starts there, and called an integer only if it     *)
(* is one.                                                                   *)
NumberIsLongest ==
  lastToken.kind \in {"ICONST", "FCONST"} =>
    /\ lastToken.to - lastToken.from + 1 = NumberLength(lastToken.from)
    /\ lastToken.kind = "ICONST" => IsInteger(lastToken.value)

(* Comments, literals and code are told apart as the reader does it, and operators    *)
(* and numbers end where they should, however the longest matches, the order of the    *)
(* rules and what yyless() throws back interact.                                *)
MeaningIsRight ==
  /\ LET m == Meaning IN \A k \in DOMAIN inside : inside[k] = m[k].is
  /\ OperatorIsClean
  /\ NumberIsLongest

(* A literal is returned as the reader means it, over all its escapes, doubled      *)
(* quotes and continuations, and the buffer it is collected in has room for it and    *)
(* the null that litbufdup() copies.                                         *)
LiteralIsRight ==
  /\ Len(literal) < literalalloc
  /\ lastToken.kind \in DOMAIN Ends =>
       LET m == Meaning
       IN  lastToken.value = FlattenSeq([k \in 1..(lastToken.to - lastToken.from + 1) |->
                                           m[lastToken.from + k - 1].adds])

(* The scanner reaches the end of every text.  It comes to rest there if the text     *)
(* is complete; if a comment or a literal is not closed it stays at the end for       *)
(* ever, and reports the error again and again.                                  *)
ReachesEnd ==
  <>[](pos > Len(text) /\ (mode = "over" <=> Meaning[Len(text) + 1] = Complete))
=============================================================================
