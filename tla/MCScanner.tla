-------------------------------- MODULE MCScanner --------------------------------
(***************************************************************************)
(* The whole scanner: short texts for its rules, and words for the lookup of         *)
(* keywords, which the rule {identifier} calls.  The two share no state, so that a    *)
(* behaviour is either the scanning of a text, or the lookup of the word that is all  *)
(* of an input; the other part has no step to take.                                *)
(***************************************************************************)
EXTENDS MCLexer, MCKeywordLookup

NoLookup ==
  /\ yytext = [rank |-> 1, upper |-> TRUE, len |-> 5]
  /\ table = 1 /\ low = 1 /\ high = 0
  /\ token = NotKeyword("identifier")

NoScan ==
  /\ text = <<>> /\ pos = 1 /\ mode = "over" /\ xcdepth = 0
  /\ literal = <<>> /\ literalalloc = InitialAlloc
  /\ lastToken = NoToken /\ inside = <<>>

MCInit == (ScanInit /\ NoLookup) \/ (NoScan /\ LookupInit)

MCNext ==
  \/ ScanNext /\ UNCHANGED lookupVars
  \/ LookupNext /\ UNCHANGED scanVars

(* Of the two parts only one has a step to take, so that this is the fairness of both.  *)
MCSpec ==
  MCInit /\ [][MCNext]_<<scanVars, lookupVars>> /\ WF_<<scanVars, lookupVars>>(MCNext)
=============================================================================
