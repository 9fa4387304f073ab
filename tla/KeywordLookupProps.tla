-------------------------- MODULE KeywordLookupProps --------------------------
(***************************************************************************)
(* What the lexer needs of the keyword tables and their binary search.        *)
(***************************************************************************)
EXTENDS KeywordLookup

(* The entry stands after all smaller and before all greater ones.            *)
InPlace(t, k) ==
  \A j \in 1..Len(Tables[t]) : /\ j < k => Tables[t][j] < Tables[t][k]
                               /\ j > k => Tables[t][j] > Tables[t][k]

(* The search gives up only on a name that is not in the table, or whose entry  *)
(* is out of order there: when table t has been left for the next, no entry in  *)
(* its place was the word.  This is what rqlkwlist.h:13 warns of.             *)
MissedOnlyIfMisplaced ==
  yytext.len < NAMEDATALEN =>
    \A t \in 1..Len(Tables) : t < table =>
      \A k \in 1..Len(Tables[t]) : Tables[t][k] = yytext.rank => ~InPlace(t, k)

(* A keyword that is returned is the word, in the first table that has it in    *)
(* its place: a name of both languages is the SQL keyword.                    *)
KeywordIsRight ==
  token.kind = "keyword" =>
    /\ Tables[token.table][token.index] = yytext.rank
    /\ \A t \in 1..(token.table - 1) :
         \A k \in 1..Len(Tables[t]) : Tables[t][k] = yytext.rank => ~InPlace(t, k)

(* Every identifier gets a token: the two searches end for every table, sorted  *)
(* or not.                                                                 *)
LookupEnds == <>(token # None)

-----------------------------------------------------------------------------
(* rqlkwlist.h:13: "This list must be sorted by ASCII name, because binary       *)
(* search is used to locate entries."  A keyword of either list is recognised.  *)
EveryKeywordFound ==
  token.kind \in {"function", "identifier"} /\ yytext.len < NAMEDATALEN =>
    \A t \in 1..Len(Tables) : \A k \in 1..Len(Tables[t]) : Tables[t][k] # yytext.rank
=============================================================================
