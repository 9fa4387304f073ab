-------------------------------- MODULE MCLexer --------------------------------
(***************************************************************************)
(* All short texts over a few alphabets: operators, comments within comments,     *)
(* literals, words before quotes, numbers, dollar quotes.  Eight characters are      *)
(* the least for a comment that goes on after one within it, and ends, and for a      *)
(* dollar quote with another delimiter that touches its own.                      *)
(***************************************************************************)
EXTENDS LexerProps

CONSTANTS MaxOperator, MaxComment, MaxLiteral, MaxName, MaxNumber, MaxDollar, MaxMixed

MCTexts ==
  BoundedSeq({"/", "*", "-", "+", "?", "\n", "a"}, MaxOperator)
  \cup BoundedSeq({"/", "*", "-"}, MaxComment)
  \cup BoundedSeq({Quote, Backslash, "a", "b", "\n", "-"}, MaxLiteral)
  \cup BoundedSeq({DQuote, Quote, "b", "e", " ", ","}, MaxName)
  \cup BoundedSeq({"1", ".", "e", "-"}, MaxNumber)
  \cup BoundedSeq({Dollar, "a", "b"}, MaxDollar)
  \cup BoundedSeq({Dollar, "1", "e", "-"}, MaxNumber)
  \cup BoundedSeq({Dollar, Quote, "1", "b", "e", "n", "x"}, MaxMixed)
  \cup BoundedSeq({Quote, Backslash, "n", "e"}, MaxName)
=============================================================================
