---------------------------- MODULE MCKeywordLookup ----------------------------
(***************************************************************************)
(* All words for the two tables: a name has an even number, and odd numbers are *)
(* the words between two names.                                             *)
(***************************************************************************)
EXTENDS KeywordLookupProps, KeywordTables

Doubled(s) == [i \in 1..Len(s) |-> 2 * s[i]]
MCTables == <<Doubled(ScanKeywords), Doubled(RasqlKeywords)>>

MCPostGis == {101, 700}
MCIdentifiers == [rank : 1..913, upper : {TRUE}, len : {5}]
                 \cup [rank : {101, 102, 108}, upper : {FALSE}, len : {5, 50, NAMEDATALEN}]
=============================================================================
