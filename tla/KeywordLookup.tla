----------------------------- MODULE KeywordLookup -----------------------------
(***************************************************************************)
(* What token one identifier becomes: the rule {identifier} of the lexer asks   *)
(* ScanKeywordLookup() for an SQL keyword, RasqlKeywordLookup() for a RaSQL     *)
(* keyword and IqlApp::isPostGisFunction() for a function, in this order.  The  *)
(* two lookups are the same binary search, each in its own table; one            *)
(* comparison is one action.                                                *)
(*                                                                         *)
(* A name is its rank in the order of strcmp().                              *)
(***************************************************************************)
EXTENDS Integers, Sequences

CONSTANTS Tables,       \* ScanKeywords and RasqlKeywords, as ranks of the names
          PostGisNames, \* the sorted vector postgisKw, as a set of ranks
          Identifiers   \* the identifiers that may appear in a query

NAMEDATALEN == 64

ASSUME TablesAssumption == Tables \in Seq(Seq(Nat))
ASSUME IdentifiersAssumption == Identifiers \subseteq [rank : Nat, upper : BOOLEAN, len : Nat]

VARIABLES
  yytext,     \* the identifier
  table,      \* which table is searched; one more than Len(Tables): none
  low, high,  \* the bounds of the search, as indices of the table
  token       \* the answer

lookupVars == <<yytext, table, low, high, token>>

None == [kind |-> "none", table |-> 0, index |-> 0]
Keyword(t, i) == [kind |-> "keyword", table |-> t, index |-> i]
NotKeyword(k) == [kind |-> k, table |-> 0, index |-> 0]

LookupTypeOK ==
  /\ yytext \in Identifiers
  /\ table \in 1..(Len(Tables) + 1)
  /\ low \in Nat /\ high \in Nat
  /\ token \in {None, NotKeyword("function"), NotKeyword("identifier")}
            \cup {Keyword(t, i) : t \in 1..Len(Tables), i \in Nat}

SizeOf(t) == IF t \in 1..Len(Tables) THEN Len(Tables[t]) ELSE 0

LookupInit ==
  /\ yytext \in Identifiers
  /\ table = 1
  /\ low = 1 /\ high = SizeOf(1)
  /\ token = None

-----------------------------------------------------------------------------
(* The copy of the text in lower case.                                       *)
Word == yytext.rank

Searching == token = None /\ table <= Len(Tables)
TooLong == yytext.len >= NAMEDATALEN

Middle == low + (high - low) \div 2
Entry == Tables[table][Middle]

Comparing == Searching /\ ~TooLong /\ low <= high

(* Mutation of the return: the lower bound is returned for the middle.          *)
FoundAtLow ==
  /\ Comparing /\ Entry = Word
  /\ token' = Keyword(table, low)
  /\ UNCHANGED <<yytext, table, low, high>>

Found ==
  /\ Comparing /\ Entry = Word
  /\ token' = Keyword(table, Middle)
  /\ UNCHANGED <<yytext, table, low, high>>

(* Mutation of the step to the right: the middle is compared again.           *)
GoRightStays ==
  /\ Comparing /\ Entry < Word
  /\ low' = Middle
  /\ UNCHANGED <<yytext, table, high, token>>

GoRight ==
  /\ Comparing /\ Entry < Word
  /\ low' = Middle + 1
  /\ UNCHANGED <<yytext, table, high, token>>

(* Mutation of the step to the left: off by one.                              *)
GoLeftTooFar ==
  /\ Comparing /\ Entry > Word
  /\ high' = IF Middle > 1 THEN Middle - 2 ELSE 0
  /\ UNCHANGED <<yytext, table, low, token>>

GoLeft ==
  /\ Comparing /\ Entry > Word
  /\ high' = Middle - 1
  /\ UNCHANGED <<yytext, table, low, token>>

(* NULL is returned, and the next table is asked.                            *)
NotInTable ==
  /\ Searching /\ (TooLong \/ low > high)
  /\ table' = table + 1
  /\ low' = 1 /\ high' = SizeOf(table + 1)
  /\ UNCHANGED <<yytext, token>>

(* isPostGisFunction() looks at the first 49 characters only, so that a longer *)
(* text may be taken for a function that is not its name.                     *)
AskPostGis ==
  /\ token = None /\ table = Len(Tables) + 1
  /\ \E isFunction \in IF yytext.len < 50 THEN {Word \in PostGisNames} ELSE BOOLEAN :
       token' = NotKeyword(IF isFunction THEN "function" ELSE "identifier")
  /\ UNCHANGED <<yytext, table, low, high>>

LookupNext == Found \/ GoRight \/ GoLeft \/ NotInTable \/ AskPostGis

(* The lexer does not stop in the middle of a lookup.                         *)
LookupSpec == LookupInit /\ [][LookupNext]_lookupVars /\ WF_lookupVars(LookupNext)
=============================================================================
