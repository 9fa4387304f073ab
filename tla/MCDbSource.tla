------------------------------ MODULE MCDbSource ------------------------------
(***************************************************************************)
(* Expressions for TLC: all those with at most two levels of operators and      *)
(* functions over the four kinds of leaves.                                  *)
(***************************************************************************)
EXTENDS DbSourceProps

Leaf(k) == <<[kind |-> k, kids |-> <<>>]>>

Shifted(e, d) ==
  [n \in 1..Len(e) |-> [e[n] EXCEPT !.kids = [i \in 1..Len(e[n].kids) |-> e[n].kids[i] + d]]]

Unary(k, e) == Append(e, [kind |-> k, kids |-> <<Len(e)>>])

Operation(e, f) ==
  (e \o Shifted(f, Len(e)))
    \o <<[kind |-> "operation", kids |-> <<Len(e), Len(e) + Len(f)>>]>>

Level0 == {Leaf(k) : k \in Leaves}
Above(E) ==
  {Unary(k, e) : k \in Kinds \ (Leaves \cup {"operation"}), e \in E}
    \cup {Operation(e, f) : e \in E, f \in E}
Level1 == Level0 \cup Above(Level0)

MCExprs == Level0 \cup Above(Level1)

(* id ^ 2 + id, and id > 1.                                                  *)
Id == Leaf("pgColumn")
Number == Leaf("constant")
MCSamples == {Operation(Operation(Id, Number), Id), Operation(Id, Number)}

(* rgb[1:100, *:*] + 1.                                                      *)
MCTrims == {Operation(Unary("trim", Leaf("rasColumn")), Number)}
=============================================================================
