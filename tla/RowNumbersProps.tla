----------------------------- MODULE RowNumbersProps -----------------------------
(***************************************************************************)
(* The rows of an answer are the rows that were asked for.                       *)
(***************************************************************************)
EXTENDS RowNumbers

Meant == IF query.cond = 0 THEN 1..n ELSE truth
Answer == IF product = {} THEN {} ELSE rels[Len(query.nodes)]

(* The SELECT list puts numbers of the product and new ones side by side.            *)
ListNodes == (query.cond + 1)..Len(query.nodes)
Mixes ==
  /\ \E k \in ListNodes : query.nodes[k].class \in RelationalLeaves
  /\ \E k \in ListNodes : query.nodes[k].class \in ArrayLeaves \cup ByRow \cup ByCollection
NoGap == Meant = 1..Cardinality(Meant)

(* Every row that was asked for is in the answer once, and its cells were all           *)
(* computed from this row, whichever nodes numbered their tables anew on the way:       *)
(* unless WHERE has left gaps in the numbers of a query that mixes relations and         *)
(* arrays, a join was delivered out of order, or arrays were deleted meanwhile.          *)
AnswerIsAligned ==
  status = "answered" /\ shuffled = "no" /\ gone = {} /\ (NoGap \/ ~Mixes) =>
    /\ {r.of : r \in Answer} = {{i} : i \in Meant}
    /\ Cardinality(Answer) = Cardinality(Meant)

(* QtList.hpp:34-35, of the columns of several tables put side by side: "All tables must  *)
(* have the same number of elements, otherwise an exception is thrown."  So a query that *)
(* was answered, with nobody interfering, has put tables of one size side by side.       *)
TablesFit ==
  status = "answered" /\ shuffled = "no" /\ gone = {} =>
    \A k \in ListNodes :
      LET nd == query.nodes[k]
      IN nd.class = "list" /\ nd.right # 0 =>
           Cardinality(rels[nd.left]) = Cardinality(rels[nd.right])

(* A query fails only for lack of arrays: there was no row for the condition, numbers   *)
(* that a condition left with gaps, or that it took for those of other rows because a   *)
(* join came out of order, have made a join empty, or arrays were deleted.              *)
FailsForLackOfArrays ==
  status = "failed" => \/ n = 0 /\ query.cond # 0
                       \/ Mixes /\ ~NoGap
                       \/ Mixes /\ shuffled = "yes" /\ query.cond # 0
                       \/ gone # {}
=============================================================================
