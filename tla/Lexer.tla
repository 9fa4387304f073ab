--------------------------------- MODULE Lexer ---------------------------------
(***************************************************************************)
(* The scanner of grammar/lexer.ll: comments that nest, quoted literals with     *)
(* escapes that may go on after a newline, bit and hexadecimal strings, dollar    *)
(* quotes, delimited identifiers, numbers, and operators that must stop where a   *)
(* comment starts.  One action is one rule, or rules that do the same; the guards  *)
(* say which rule has the longest match, and comes first among those.            *)
(*                                                                         *)
(* A text is a sequence of characters.  Of each class of characters that the     *)
(* rules tell apart there is one or a few; Unicode and numeric escapes (a digit    *)
(* or an x after a backslash) are left out, and so are integers too long for       *)
(* strtol().                                                                 *)
(***************************************************************************)
EXTENDS Integers, SequencesExt

CONSTANTS Texts,        \* the inputs
          InitialAlloc  \* literalalloc at the start, 1024 in the code

Space == {" ", "\n"}
Newline == "\n"
Special == {"?"}                               \* of ~!@#^&|`?%
OpChars == Special \cup {"+", "-", "*", "/", "="}
Letters == {"a", "b", "e", "n", "x"}
Digits == {"1"}
Dollar == "$"
InTag == Letters \cup Digits
IdentCont == InTag \cup {Dollar}
Quote == "'"
DQuote == "\""
Backslash == "\\"
Chars == Space \cup OpChars \cup IdentCont \cup {Quote, DQuote, Backslash, ",", "."}

ASSUME TextsAssumption == Texts \subseteq Seq(Chars)
ASSUME AllocAssumption == InitialAlloc \in Nat \ {0}

VARIABLES
  text,        \* the input
  pos,         \* the next character
  mode,        \* the start condition; "over" after yyterminate()
  xcdepth,     \* depth of nesting in comments
  literal,     \* literalbuf up to literallen
  literalalloc,
  lastToken,   \* kind, first and last position, value
  inside       \* what each character scanned was taken for

scanVars == <<text, pos, mode, xcdepth, literal, literalalloc, lastToken, inside>>

Kinds == {"none", "named", "character", "Op", "identifier", "nchar", "ICONST", "FCONST",
          "PARAM", "xe", "xb", "xh", "xd", "xdolq"}

ScanTypeOK ==
  /\ text \in Texts
  /\ pos \in 1..(Len(text) + 1)
  /\ mode \in {"INITIAL", "xc", "xe", "xb", "xh", "xd", "xdolq", "over"}
  /\ xcdepth \in Nat
  /\ literal \in Seq(Chars \cup {"BS"})
  /\ literalalloc \in Nat \ {0}
  /\ lastToken \in [kind : Kinds, from : 1..(Len(text) + 1), to : 0..Len(text),
                    value : Seq(Chars \cup {"BS"})]
  /\ inside \in Seq({"code", "comment", "literal"})

NoToken == [kind |-> "none", from |-> 1, to |-> 0, value |-> <<>>]

ScanInit ==
  /\ text \in Texts
  /\ pos = 1 /\ mode = "INITIAL" /\ xcdepth = 0
  /\ literal = <<>> /\ literalalloc = InitialAlloc
  /\ lastToken = NoToken
  /\ inside = <<>>

-----------------------------------------------------------------------------
(* The patterns, as the position after their longest match.                    *)
At(i) == IF i \in DOMAIN text THEN text[i] ELSE "EOF"
Seen(i, s) == \A k \in DOMAIN s : At(i + k - 1) = s[k]
RunEnd(i, S) == Min({j \in i..(Len(text) + 1) : At(j) \notin S})
LineEnd(i) == RunEnd(i, Chars \ {Newline})

(* {whitespace}* *)
BlanksEnd(i) ==
  LET end[j \in 1..(Len(text) + 1)] ==
        IF At(j) \in Space THEN end[j + 1]
        ELSE IF Seen(j, <<"-", "-">>) THEN end[LineEnd(j)] ELSE j
  IN  end[i]

(* {quotecontinue}, from the quote on: blanks with a newline, then a quote.       *)
Continues(i) ==
  LET end == BlanksEnd(i + 1)
  IN  At(end) = Quote /\ \E j \in (i + 1)..(end - 1) : At(j) = Newline

(* Scan up to position i, all of it being of class c.                          *)
Take(i, c) ==
  /\ pos' = i
  /\ inside' = inside \o [k \in 1..(i - pos) |-> c]
  /\ UNCHANGED text

Token(k, i, v) == lastToken' = [kind |-> k, from |-> pos, to |-> i - 1, value |-> v]
SameLiteral == UNCHANGED <<literal, literalalloc>>

(* Mutation of the growth: the room for the trailing null is forgotten.          *)
GrowTight(alloc, len) ==
  LET size[k \in 0..len] ==
        IF k = 0 THEN alloc
        ELSE LET old == size[k - 1] IN IF len <= old THEN old ELSE 2 * old
  IN  size[len]

(* The buffer is doubled until the literal and its null fit.                     *)
Grown(alloc, len) ==
  LET size[k \in 0..len] ==
        IF k = 0 THEN alloc
        ELSE LET old == size[k - 1] IN IF len < old THEN old ELSE 2 * old
  IN  size[len]

(* addlit() and addlitchar().                                                 *)
AddLit(s) ==
  /\ literal' = literal \o s
  /\ literalalloc' = Grown(literalalloc, Len(literal) + Len(s))

-----------------------------------------------------------------------------
(* Between tokens.                                                          *)
Scanning(m) == mode = m /\ pos <= Len(text)
OpRun == SubSeq(text, pos, RunEnd(pos, OpChars) - 1)

Whitespace ==
  /\ Scanning("INITIAL")
  /\ \/ At(pos) \in Space /\ Take(RunEnd(pos, Space), "code")
     \/ Seen(pos, <<"-", "-">>) /\ Take(LineEnd(pos), "comment")
  /\ UNCHANGED <<mode, xcdepth, lastToken>> /\ SameLiteral

CommentStart ==
  /\ Scanning("INITIAL") /\ Seen(pos, <<"/", "*">>)
  /\ Take(pos + 2, "comment")
  /\ mode' = "xc" /\ xcdepth' = 0
  /\ UNCHANGED lastToken /\ SameLiteral

CommentNested ==
  /\ Scanning("xc") /\ Seen(pos, <<"/", "*">>)
  /\ Take(pos + 2, "comment")
  /\ xcdepth' = xcdepth + 1
  /\ UNCHANGED <<mode, lastToken>> /\ SameLiteral

(* {xcstop}: any number of stars, and a slash.                                *)
StopsComment(i) == At(i) = "*" /\ At(RunEnd(i, {"*"})) = "/"

(* Mutation of the stop: a comment within a comment ends both.                   *)
CommentStopFlat ==
  /\ Scanning("xc") /\ StopsComment(pos)
  /\ Take(RunEnd(pos, {"*"}) + 1, "comment")
  /\ mode' = "INITIAL" /\ xcdepth' = 0
  /\ UNCHANGED lastToken /\ SameLiteral

CommentStop ==
  /\ Scanning("xc") /\ StopsComment(pos)
  /\ Take(RunEnd(pos, {"*"}) + 1, "comment")
  /\ IF xcdepth <= 0 THEN mode' = "INITIAL" /\ UNCHANGED xcdepth
                     ELSE xcdepth' = xcdepth - 1 /\ UNCHANGED mode
  /\ UNCHANGED lastToken /\ SameLiteral

(* The three rules that ignore what is in a comment.                           *)
CommentInside ==
  /\ Scanning("xc") /\ ~Seen(pos, <<"/", "*">>) /\ ~StopsComment(pos)
  /\ Take(CASE At(pos) = "*" -> RunEnd(pos, {"*"})
            [] At(pos) = "/" -> pos + 1
            [] OTHER -> RunEnd(pos, Chars \ {"*", "/"}), "comment")
  /\ UNCHANGED <<mode, xcdepth, lastToken>> /\ SameLiteral

(* How much of the run is left when a comment starts in it.                      *)
CutComment(run) ==
  LET starts == {k \in 1..(Len(run) - 1) :
                   SubSeq(run, k, k + 1) \in {<<"/", "*">>, <<"-", "-">>}}
  IN  IF starts = {} THEN Len(run) ELSE Min(starts) - 1

(* A sign may end a longer operator only after a character that SQL has not.       *)
StripSigns(run, n) ==
  Max({k \in 1..n : \/ k = 1
                    \/ run[k] \notin {"+", "-"}
                    \/ \E j \in 1..(k - 1) : run[j] \in Special})

(* The rules for operators.  The tokens with a name are those of the first rules;   *)
(* what is cut down to one character becomes the code of the character.           *)
Named == {<<c>> : c \in OpChars \ Special}
Operator ==
  /\ Scanning("INITIAL") /\ At(pos) \in OpChars
  /\ ~Seen(pos, <<"/", "*">>) /\ ~Seen(pos, <<"-", "-">>)
  /\ LET n == StripSigns(OpRun, CutComment(OpRun))
         op == SubSeq(OpRun, 1, n)
     IN  /\ Take(pos + n, "code")
         /\ Token(IF OpRun \in Named THEN "named"
                  ELSE IF n < Len(OpRun) /\ op \in Named THEN "character" ELSE "Op",
                  pos + n, op)
  /\ UNCHANGED <<mode, xcdepth>> /\ SameLiteral

(* A letter before a quote belongs to the literal, if no other letter precedes it.  *)
Identifier ==
  /\ Scanning("INITIAL") /\ At(pos) \in Letters
  /\ ~(At(pos) \in {"b", "e", "n", "x"} /\ At(pos + 1) = Quote)
  /\ LET end == RunEnd(pos, IdentCont)
     IN  Take(end, "code") /\ Token("identifier", end, SubSeq(text, pos, end - 1))
  /\ UNCHANGED <<mode, xcdepth>> /\ SameLiteral

(* {xnstart}: the keyword NCHAR, and a plain literal after it.                    *)
National ==
  /\ Scanning("INITIAL") /\ Seen(pos, <<"n", Quote>>)
  /\ Take(pos + 1, "code") /\ Token("nchar", pos + 1, <<"n">>)
  /\ UNCHANGED <<mode, xcdepth>> /\ SameLiteral

(* {integer} or {decimal}, and {real} after it, from the letter e on.             *)
DecimalEnd(i) ==
  LET end == RunEnd(i, Digits)
  IN  IF At(end) = "." THEN RunEnd(end + 1, Digits) ELSE end
ExponentEnd(i) == RunEnd(IF At(i + 1) \in {"+", "-"} THEN i + 2 ELSE i + 1, Digits)

(* An e, and a sign after it, that no digit follows are thrown back, and what is     *)
(* left is a real number in any case.                                          *)
Number ==
  /\ Scanning("INITIAL")
  /\ At(IF At(pos) = "." THEN pos + 1 ELSE pos) \in Digits
  /\ LET dec == DecimalEnd(pos)
         real == ExponentEnd(dec)
         end == IF At(dec) = "e" /\ At(real - 1) \in Digits THEN real ELSE dec
     IN  /\ Take(end, "code")
         /\ Token(IF end = RunEnd(pos, Digits) /\ At(end) # "e" THEN "ICONST" ELSE "FCONST",
                  end, SubSeq(text, pos, end - 1))
  /\ UNCHANGED <<mode, xcdepth>> /\ SameLiteral

Param ==
  /\ Scanning("INITIAL") /\ At(pos) = Dollar /\ At(pos + 1) \in Digits
  /\ LET end == RunEnd(pos + 1, Digits)
     IN  Take(end, "code") /\ Token("PARAM", end, SubSeq(text, pos, end - 1))
  /\ UNCHANGED <<mode, xcdepth>> /\ SameLiteral

(* A dollar and the name after it; {dolqdelim} if there is another dollar.         *)
TagEnd(i) == IF At(i + 1) \in Letters THEN RunEnd(i + 1, InTag) ELSE i + 1
Delimits(i) == At(i) = Dollar /\ At(TagEnd(i)) = Dollar

(* {other}, and {dolqfailed}, which throws back all but the dollar.               *)
Other ==
  /\ Scanning("INITIAL")
  /\ \/ At(pos) \in {",", Backslash}
     \/ At(pos) = "." /\ At(pos + 1) \notin Digits
     \/ At(pos) = Dollar /\ At(pos + 1) \notin Digits /\ ~Delimits(pos)
  /\ Take(pos + 1, "code")
  /\ Token(IF At(pos) \in {",", "."} THEN "named" ELSE "character", pos + 1, <<At(pos)>>)
  /\ UNCHANGED <<mode, xcdepth>> /\ SameLiteral

-----------------------------------------------------------------------------
(* Literals.  standard_conforming_strings is off: a plain quote starts an escape    *)
(* string, and the condition xq is never entered.                             *)
StartLit(m, i, s) ==
  /\ Take(i, "literal")
  /\ mode' = m
  /\ literal' = s
  /\ literalalloc' = Grown(literalalloc, Len(s))
  /\ lastToken' = [NoToken EXCEPT !.from = pos]
  /\ UNCHANGED xcdepth

LiteralStart ==
  /\ Scanning("INITIAL")
  /\ \/ At(pos) = Quote /\ StartLit("xe", pos + 1, <<>>)
     \/ Seen(pos, <<"e", Quote>>) /\ StartLit("xe", pos + 2, <<>>)
     \/ Seen(pos, <<"b", Quote>>) /\ StartLit("xb", pos + 2, <<"b">>)
     \/ Seen(pos, <<"x", Quote>>) /\ StartLit("xh", pos + 2, <<"x">>)
     \/ Delimits(pos) /\ StartLit("xdolq", TagEnd(pos) + 1, <<>>)
     \/ At(pos) = DQuote /\ StartLit("xd", pos + 1, <<>>)

(* A part of the literal from pos up to i, which stands for s.                  *)
Part(i, s) ==
  /\ Take(i, "literal")
  /\ AddLit(s)
  /\ UNCHANGED <<mode, xcdepth, lastToken>>

Ends == [xe |-> {Quote, Backslash}, xb |-> {Quote}, xh |-> {Quote}, xd |-> {DQuote},
         xdolq |-> {Dollar}]
LiteralInside ==
  /\ mode \in DOMAIN Ends /\ pos <= Len(text) /\ At(pos) \notin Ends[mode]
  /\ LET end == RunEnd(pos, Chars \ Ends[mode]) IN Part(end, SubSeq(text, pos, end - 1))

(* unescape_single_char().                                                   *)
Unescaped(c) == CASE c = "b" -> "BS" [] c = "n" -> Newline [] OTHER -> c

(* An escaped character, or a backslash at the end of the input.                 *)
Escape ==
  /\ Scanning("xe") /\ At(pos) = Backslash
  /\ IF pos = Len(text) THEN Part(pos + 1, <<Backslash>>)
     ELSE Part(pos + 2, <<Unescaped(At(pos + 1))>>)

(* Mutation of the doubled quote: bit strings have it as well.                    *)
DoubledEverywhere ==
  \/ mode \in {"xe", "xb"} /\ Seen(pos, <<Quote, Quote>>) /\ Part(pos + 2, <<Quote>>)
  \/ Scanning("xd") /\ Seen(pos, <<DQuote, DQuote>>) /\ Part(pos + 2, <<DQuote>>)

DoubledQuote ==
  \/ Scanning("xe") /\ Seen(pos, <<Quote, Quote>>) /\ Part(pos + 2, <<Quote>>)
  \/ Scanning("xd") /\ Seen(pos, <<DQuote, DQuote>>) /\ Part(pos + 2, <<DQuote>>)

(* The delimiter that the literal started with.                                 *)
dolqstart == SubSeq(text, lastToken.from, TagEnd(lastToken.from))
StopsDollar(i) == Delimits(i) /\ SubSeq(text, i, TagEnd(i)) = dolqstart

(* A dollar in the literal, with the name after it; what is another delimiter       *)
(* gives its second dollar back, which may start the right one.                   *)
DollarInside ==
  /\ Scanning("xdolq") /\ At(pos) = Dollar /\ ~StopsDollar(pos)
  /\ Part(TagEnd(pos), SubSeq(text, pos, TagEnd(pos) - 1))

(* {quotecontinue}: the literal goes on after the next quote.                    *)
Continue ==
  /\ mode \in {"xe", "xb", "xh"} /\ At(pos) = Quote /\ Continues(pos)
  /\ Part(BlanksEnd(pos + 1) + 1, <<>>)

(* The quote that ends a literal; blanks after it are thrown back.  A delimited    *)
(* identifier of no characters is an error, which is counted, and a token.        *)
LiteralStop ==
  /\ \/ mode = "xe" /\ At(pos) = Quote /\ At(pos + 1) # Quote /\ ~Continues(pos)
     \/ mode \in {"xb", "xh"} /\ At(pos) = Quote /\ ~Continues(pos)
     \/ mode = "xd" /\ At(pos) = DQuote /\ At(pos + 1) # DQuote
     \/ mode = "xdolq" /\ StopsDollar(pos)
  /\ Take(IF mode = "xdolq" THEN TagEnd(pos) + 1 ELSE pos + 1, "literal")
  /\ mode' = "INITIAL"
  /\ lastToken' = [kind |-> mode, from |-> lastToken.from, to |-> pos' - 1, value |-> literal]
  /\ UNCHANGED xcdepth /\ SameLiteral

-----------------------------------------------------------------------------
(* At the end of the input the scanner stops in the condition INITIAL.  In any     *)
(* other, the rule for the end reports an error and does not return: the scanner    *)
(* meets the end again.                                                      *)
EndOfText ==
  /\ mode = "INITIAL" /\ pos > Len(text)
  /\ mode' = "over"
  /\ UNCHANGED <<text, pos, xcdepth, literal, literalalloc, lastToken, inside>>

ScanNext ==
  \/ Whitespace \/ CommentStart \/ CommentNested \/ CommentStop \/ CommentInside
  \/ Operator \/ Identifier \/ National \/ Number \/ Param \/ Other
  \/ LiteralStart \/ LiteralInside \/ Escape \/ DoubledQuote \/ DollarInside \/ Continue
  \/ LiteralStop
  \/ EndOfText

(* The parser asks for the next token until there is none.                       *)
ScanSpec == ScanInit /\ [][ScanNext]_scanVars /\ WF_scanVars(ScanNext)
=============================================================================
