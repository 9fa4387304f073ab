---------------------------- MODULE DbSourceProps ----------------------------
(***************************************************************************)
(* What the choice of the system promises.                                    *)
(***************************************************************************)
EXTENDS DbSource, FiniteSets

Done(n) == state[n] = "done"

(* An operator never ends well in the wrong system: SQL has computed with        *)
(* scalars only, rasdaman with arrays only, the mixed way with one of each;      *)
(* a wrong choice always ends in an error.                                    *)
NoWrongSystem ==
  \A n \in Nodes : Done(n) /\ Kind(n) = "operation" =>
    LET a == IsArray[Kid(n, 1)]
        b == IsArray[Kid(n, 2)]
    IN \/ choice[n] = "POSTGRES" /\ ~a /\ ~b
       \/ choice[n] = "RASDAMAN" /\ a /\ b
       \/ choice[n] = "MIXED" /\ a # b

(* An expression in which every name is qualified, no operator has a trim or a    *)
(* mixed operation as an operand, and functions get what they are defined for    *)
(* can be evaluated.                                                        *)
Plain(n) ==
  /\ Kind(n) # "pgColumn"
  /\ Kind(n) = "operation" =>
       \A k \in Kids(n) : /\ Kind(k) # "trim"
                          /\ Kind(k) = "operation" => Cardinality({IsArray[j] : j \in Kids(k)}) = 1
  /\ Kind(n) \in Kinds \ (Leaves \cup {"operation"}) => NodeWorks(n)
PlainWorks == (\A n \in Nodes : Plain(n)) => \A n \in Nodes : state[n] # "failed"

-----------------------------------------------------------------------------
(* README:16 and README:21 give as sample queries "SELECT id ^ 2 + id FROM sql;"    *)
(* and "SELECT * FROM sql WHERE id > 1;".                                      *)
ScalarsWork == (\A n \in Nodes : ~IsArray[n]) => \A n \in Nodes : state[n] # "failed"
=============================================================================
