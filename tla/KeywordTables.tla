----------------------------- MODULE KeywordTables -----------------------------
(***************************************************************************)
(* The two keyword tables of the program, in the order of their source files.  *)
(* A name is its rank among the 456 names of both in the order of strcmp().    *)
(***************************************************************************)
EXTENDS Naturals, SequencesExt

(* From "abs" to "xor"; "log" (234) comes before "lo" (227), "sinh" before       *)
(* "sin", and "tanh" before "tan".                                          *)
RasqlKeywords ==
  <<2, 7, 8, 13, 14, 22, 23, 24, 33, 34, 42, 43, 55, 69, 71, 80, 81, 83, 84, 116, 125,
    140, 142, 149, 166, 168, 174, 197, 198, 199, 200, 201, 202, 203, 204, 205, 211, 226,
    234, 227, 236, 238, 240, 241, 243, 244, 275, 279, 302, 316, 343, 346, 359, 360, 365,
    364, 368, 379, 388, 387, 394, 398, 408, 416, 420, 432, 453>>

(* All other names, and the three of both languages: "char", "double", "float".  *)
(* This table is sorted.                                                    *)
ScanKeywords ==
  SelectSeq([i \in 1..456 |-> i],
            LAMBDA i : i \notin ToSet(RasqlKeywords) \/ i \in {55, 125, 149})
=============================================================================
