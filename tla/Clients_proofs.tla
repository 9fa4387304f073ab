----------------------------- MODULE Clients_proofs -----------------------------
(***************************************************************************)
(* Relational queries are private, and so are programs that run one after the        *)
(* other, for any number of clients and any queries.                           *)
(***************************************************************************)
EXTENDS ClientsProps, TLAPS

(* The query of a client that executes one: its tables up to here are its own.        *)
Underway(c) ==
  /\ node[c] \in 1..Len(plan[c])
  /\ pos[c] \in 1..Len(Script[Current(c).kind])
  /\ base[c] + Len(plan[c]) <= MaxId
  /\ \A n \in 1..(node[c] - 1) : maker[base[c] + n] = c
  /\ pos[c] > 1 /\ Current(c).kind # "finish" => maker[base[c] + node[c]] = c

Shape ==
  /\ menu \in Menus
  /\ at \in [Clients -> {"new", "idle", "query", "exit", "exitRas", "gone"}]
  /\ plan \in [Clients -> menu]
  /\ node \in [Clients -> Nat] /\ pos \in [Clients -> Nat]
  /\ base \in [Clients -> Nat] /\ idCounter \in [Clients -> Nat]
  /\ maker \in [Rels -> Clients \cup {Nobody}]
  /\ rows \in [Rels -> SUBSET Clients]
  /\ pgTemps \in [Clients -> SUBSET Ids]
  /\ answer \in [Clients -> SUBSET Clients]

(* Registries name own tables, tables hold the rows of their makers, nobody makes        *)
(* tmp, and what is read is one's own.                                         *)
Private ==
  /\ \A c \in Clients : \A r \in pgTemps[c] : maker[r] = c
  /\ \A r \in Rels : Exists(r) => rows[r] \subseteq {maker[r]}
  /\ ~Exists(Tmp)
  /\ \A c \in Clients : at[c] = "query" => Underway(c)
  /\ \A c \in Clients : answer[c] \subseteq {c}

IInv == NoTheta /\ swallowed = "no" => Shape /\ Private

-----------------------------------------------------------------------------
(* What the nodes of relational queries call.                                   *)
LEMMA RelationalScripts ==
  ASSUME NEW k \in RelationalKinds
  PROVE  /\ k = "finish" => Script[k] = <<"pgRead", "save", "rmRemove">>
         /\ k # "finish" => Script[k] \in {<<"pgInto", "pgReg">>, <<"pgInto", "pgReg", "pgNumber">>}
BY DEF RelationalKinds, Script, Plain, PgSource, Multiply, AddResults, Filtered, Where, Join,
       StarColumn, PgColumn, Constant, String, SqlFunction, PostGisFunction, Interval,
       PgOperation, Finish

LEMMA RelationalCalls ==
  ASSUME NEW k \in RelationalKinds, NEW i \in 1..Len(Script[k])
  PROVE  /\ Len(Script[k]) \in {2, 3}
         /\ k = "finish" => /\ Len(Script[k]) = 3
                            /\ i = 1 => Script[k][i] = "pgRead"
                            /\ i = 2 => Script[k][i] = "save"
                            /\ i = 3 => Script[k][i] = "rmRemove"
         /\ k # "finish" => /\ i = 1 => Script[k][i] = "pgInto"
                            /\ i > 1 => Script[k][i] \in {"pgReg", "pgNumber"}
<1>1. CASE k = "finish"
  <2>1. Script[k] = <<"pgRead", "save", "rmRemove">>
    BY <1>1, RelationalScripts
  <2> QED BY <1>1, <2>1
<1>2. CASE k # "finish" /\ Script[k] = <<"pgInto", "pgReg">>
  BY <1>2
<1>3. CASE k # "finish" /\ Script[k] = <<"pgInto", "pgReg", "pgNumber">>
  BY <1>3
<1> QED BY <1>1, <1>2, <1>3, RelationalScripts

(* The call that a client makes next.                                         *)
LEMMA NextCall ==
  ASSUME NoTheta, Shape, Private, NEW c \in Clients, at[c] = "query"
  PROVE  /\ IsPlan(plan[c]) /\ Len(plan[c]) \in Nat /\ node[c] \in 1..Len(plan[c])
         /\ pos[c] \in 1..Len(Script[Current(c).kind]) /\ Len(Script[Current(c).kind]) \in {2, 3}
         /\ Current(c).kind = "finish" <=> node[c] = Len(plan[c])
         /\ Current(c).kind \in RelationalKinds
         /\ Own(c) = base[c] + node[c] /\ Own(c) \in Ids
         /\ Current(c).kind = "finish" =>
              /\ Call(c) \in {"pgRead", "save", "rmRemove"}
              /\ Call(c) # "rmRemove" => pos[c] < Len(Script[Current(c).kind])
              /\ Call(c) = "pgRead" => pos[c] = 1
         /\ Current(c).kind # "finish" =>
              /\ pos[c] = 1 => Call(c) = "pgInto"
              /\ pos[c] > 1 => Call(c) \in {"pgReg", "pgNumber"}
<1>1. IsPlan(plan[c]) /\ Underway(c)
  BY MenusAssumption DEF Shape, Private
<1>2. node[c] \in 1..Len(plan[c]) /\ Len(plan[c]) \in Nat /\ node[c] \in Nat /\ base[c] \in Nat
  BY <1>1 DEF IsPlan, Underway, Shape
<1>3. /\ Current(c).kind = "finish" <=> node[c] = Len(plan[c])
      /\ Current(c).kind \in RelationalKinds
  BY <1>1, <1>2 DEF IsPlan, Current, NoTheta, Shape
<1>4. Own(c) = base[c] + node[c] /\ Own(c) \in Ids
  <2>1. Current(c).kind # "thetaOpen"
    BY <1>3 DEF RelationalKinds
  <2>2. base[c] + node[c] \in 1..MaxId
    BY <1>1, <1>2, BoundsAssumption DEF Underway
  <2> QED BY <2>1, <2>2 DEF Own, Ids
<1>5. pos[c] \in 1..Len(Script[Current(c).kind])
  BY <1>1 DEF Underway
<1>6. /\ Len(Script[Current(c).kind]) \in {2, 3}
      /\ Current(c).kind = "finish" =>
           /\ Call(c) \in {"pgRead", "save", "rmRemove"}
           /\ Call(c) # "rmRemove" => pos[c] < Len(Script[Current(c).kind])
           /\ Call(c) = "pgRead" => pos[c] = 1
      /\ Current(c).kind # "finish" =>
           /\ pos[c] = 1 => Call(c) = "pgInto"
           /\ pos[c] > 1 => Call(c) \in {"pgReg", "pgNumber"}
  <2> DEFINE k == Current(c).kind
  <2>1. Call(c) = Script[k][pos[c]]
    BY DEF Call
  <2> HIDE DEF k
  <2>2. k \in RelationalKinds /\ pos[c] \in 1..Len(Script[k])
    BY <1>3, <1>5 DEF k
  <2>3. /\ Len(Script[k]) \in {2, 3}
        /\ k = "finish" => /\ Call(c) \in {"pgRead", "save", "rmRemove"}
                           /\ Call(c) # "rmRemove" => pos[c] < Len(Script[k])
                           /\ Call(c) = "pgRead" => pos[c] = 1
        /\ k # "finish" => /\ pos[c] = 1 => Call(c) = "pgInto"
                           /\ pos[c] > 1 => Call(c) \in {"pgReg", "pgNumber"}
    BY <2>1, <2>2, RelationalCalls
  <2> QED BY <2>3 DEF k
<1> QED BY <1>1, <1>2, <1>3, <1>4, <1>5, <1>6

(* What a client does not touch is not disturbed.                              *)
LEMMA OtherUnderway ==
  ASSUME Shape, Private, NEW d \in Clients, at[d] = "query",
         node'[d] = node[d], pos'[d] = pos[d], base'[d] = base[d], plan'[d] = plan[d],
         \A r \in Rels : maker[r] = d => maker'[r] = d
  PROVE  Underway(d)'
<1>1. Underway(d)
  BY DEF Private
<1>2. Current(d)' = Current(d)
  BY DEF Current
<1>3. Len(plan[d]) \in Nat /\ base[d] \in Nat /\ MaxId \in Nat
  BY MenusAssumption, BoundsAssumption DEF Shape, IsPlan
<1>4. \A n \in 1..Len(plan[d]) : base[d] + n \in Rels
  BY <1>1, <1>3 DEF Underway, Rels, Ids
<1>5. \A n \in 1..(node[d] - 1) : n \in 1..Len(plan[d])
  BY <1>1, <1>3 DEF Underway
<1> QED BY <1>1, <1>2, <1>4, <1>5 DEF Underway

(* A call that leaves the tables alone, or makes the node's own.                     *)
LEMMA AdvanceUnderway ==
  ASSUME NoTheta, Shape, Private, NEW c \in Clients, at[c] = "query", Advance(c),
         Call(c) # "rmRemove",
         UNCHANGED <<plan, base>>,
         \A r \in Rels : maker[r] = c => maker'[r] = c,
         Call(c) = "pgInto" => maker'[Own(c)] = c
  PROVE  Underway(c)'
<1>1. Underway(c)
  BY DEF Private
<1>2. /\ Len(plan[c]) \in Nat /\ base[c] \in Nat /\ MaxId \in Nat /\ node[c] \in Nat /\ pos[c] \in Nat
      /\ node \in [Clients -> Nat] /\ pos \in [Clients -> Nat]
  BY MenusAssumption, BoundsAssumption DEF Shape, IsPlan
<1>3. \A n \in 1..Len(plan[c]) : base[c] + n \in Rels
  BY <1>1, <1>2 DEF Underway, Rels, Ids
<1>4. Current(c).kind # "finish" => maker'[base[c] + node[c]] = c
  <2>1. CASE pos[c] = 1
    BY <2>1, NextCall
  <2>2. CASE pos[c] # 1
    BY <1>1, <1>2, <1>3, <2>2, NextCall DEF Underway
  <2> QED BY <2>1, <2>2
<1>5. \A n \in 1..(node[c] - 1) : maker'[base[c] + n] = c
  <2>1. \A n \in 1..(node[c] - 1) : n \in 1..Len(plan[c])
    BY <1>1, <1>2 DEF Underway
  <2> QED BY <1>1, <1>3, <2>1 DEF Underway
<1>6. CASE pos[c] < Len(Script[Current(c).kind])
  <2>1. pos'[c] = pos[c] + 1 /\ node'[c] = node[c]
    BY <1>2, <1>6 DEF Advance
  <2>2. Current(c)' = Current(c)
    BY <2>1 DEF Current
  <2>3. pos'[c] \in 1..Len(Script[Current(c).kind])
    BY <1>2, <1>6, <2>1, NextCall
  <2> QED BY <1>1, <1>4, <1>5, <2>1, <2>2, <2>3 DEF Underway
<1>7. CASE ~(pos[c] < Len(Script[Current(c).kind]))
  <2>1. pos'[c] = 1 /\ node'[c] = node[c] + 1
    BY <1>2, <1>7 DEF Advance
  <2>2. Current(c).kind # "finish"
    BY <1>7, NextCall
  <2>3. node'[c] \in 1..Len(plan[c])
    BY <1>2, <2>1, <2>2, NextCall
  <2>4. Current(c)'.kind \in RelationalKinds
    BY <1>2, <2>3 DEF Current, NoTheta, Shape
  <2>5. 1 \in 1..Len(Script[Current(c)'.kind])
    <3>1. Len(Script[Current(c)'.kind]) \in {2, 3}
      BY <2>4, RelationalScripts
    <3>2. \A l \in {2, 3} : 1 \in 1..l
      OBVIOUS
    <3> QED BY <3>1, <3>2
  <2>6. \A n \in 1..(node'[c] - 1) : maker'[base[c] + n] = c
    <3>1. \A n \in 1..(node'[c] - 1) : n \in 1..(node[c] - 1) \/ n = node[c]
      BY <1>2, <2>1
    <3> QED BY <1>4, <1>5, <2>2, <3>1
  <2> QED BY <1>1, <2>1, <2>3, <2>5, <2>6 DEF Underway
<1> QED BY <1>6, <1>7

LEMMA AdvancePlaces ==
  ASSUME Shape, NEW c \in Clients, Advance(c)
  PROVE  node' \in [Clients -> Nat] /\ pos' \in [Clients -> Nat]
<1>1. node \in [Clients -> Nat] /\ pos \in [Clients -> Nat]
  BY DEF Shape
<1>2. CASE pos' = [pos EXCEPT ![c] = @ + 1] /\ node' = node
  BY <1>1, <1>2
<1>3. CASE pos' = [pos EXCEPT ![c] = 1] /\ node' = [node EXCEPT ![c] = @ + 1]
  BY <1>1, <1>3
<1> QED BY <1>2, <1>3 DEF Advance

(* A step of a client in its query that goes on to the next call.                     *)
LEMMA AdvanceKeeps ==
  ASSUME NoTheta, Shape, Private, NEW c \in Clients, at[c] = "query", Advance(c),
         Call(c) # "rmRemove", Call(c) # "pgInto",
         UNCHANGED <<menu, at, plan, base, idCounter, maker, rows>>,
         pgTemps' \in {pgTemps, [pgTemps EXCEPT ![c] = @ \cup {Own(c)}]},
         Call(c) = "pgReg" \/ pgTemps' = pgTemps,
         answer' \in [Clients -> SUBSET Clients], \A d \in Clients : answer'[d] \subseteq {d}
  PROVE  Shape' /\ Private'
<1>1. node' \in [Clients -> Nat] /\ pos' \in [Clients -> Nat]
  BY AdvancePlaces
<1>2. Own(c) \in Ids
  BY NextCall
<1>3. Shape'
  BY <1>1, <1>2 DEF Shape
<1>4. Underway(c)'
  BY AdvanceUnderway
<1>5. \A d \in Clients : d # c => node'[d] = node[d] /\ pos'[d] = pos[d]
  BY DEF Advance, Shape
<1>6. \A d \in Clients : at'[d] = "query" => Underway(d)'
  BY <1>4, <1>5, OtherUnderway
<1>7. \A d \in Clients : \A r \in pgTemps'[d] : maker'[r] = d
  <2>1. CASE pgTemps' = pgTemps
    BY <2>1 DEF Private
  <2>2. CASE Call(c) = "pgReg" /\ pgTemps' = [pgTemps EXCEPT ![c] = @ \cup {Own(c)}]
    <3>1. maker[Own(c)] = c
      <4>1. pos[c] > 1 /\ Current(c).kind # "finish"
        BY <2>2, NextCall
      <4> QED BY <4>1, NextCall DEF Private, Underway
    <3>2. \A d \in Clients : \A r \in pgTemps'[d] : r \in pgTemps[d] \/ (d = c /\ r = Own(c))
      BY <2>2 DEF Shape
    <3> QED BY <3>1, <3>2 DEF Private
  <2> QED BY <2>1, <2>2
<1>8. (\A r \in Rels : Exists(r) => rows[r] \subseteq {maker[r]})' /\ ~Exists(Tmp)'
  BY DEF Private, Exists
<1> QED BY <1>3, <1>6, <1>7, <1>8 DEF Private

(* A relational query reads own tables only.                                    *)
LEMMA AnswerIsOwn ==
  ASSUME NoTheta, Shape, Private, NEW c \in Clients, at[c] = "query", pos[c] = 1, Legal(c)
  PROVE  RowsOf(c, Read(c)) \subseteq {c}
<1>1. node[c] \in 1..Len(plan[c]) /\ IsPlan(plan[c]) /\ Len(plan[c]) \in Nat /\ Underway(c)
  BY NextCall DEF Private
<1>2. ASSUME NEW r \in Read(c) PROVE rows[r] \subseteq {c}
  <2>1. PICK m \in plan[c][node[c]].reads : r = Rel(c, m)
    BY <1>2 DEF Read, Current
  <2>2. m \in 0..(node[c] - 1)
    BY <1>1, <2>1 DEF IsPlan
  <2>3. Exists(r)
    BY DEF Legal
  <2>4. m # 0 /\ r = base[c] + m
    BY <2>1, <2>3 DEF Rel, Private
  <2>5. maker[r] = c
    BY <1>1, <2>2, <2>4 DEF Underway
  <2>6. r \in Rels
    <3>1. base[c] \in Nat /\ MaxId \in Nat
      BY BoundsAssumption DEF Shape
    <3> QED BY <1>1, <2>2, <2>4, <3>1 DEF Underway, Rels, Ids
  <2> QED BY <2>3, <2>5, <2>6 DEF Private
<1> QED BY <1>2 DEF RowsOf

LEMMA SelectsIntoKeeps ==
  ASSUME NoTheta, Shape, Private, NEW c \in Clients, SelectsInto(c)
  PROVE  /\ Shape' /\ Private'
         /\ \A r \in Rels : Exists(r) => maker'[r] = maker[r] /\ rows'[r] = rows[r]
<1>1. /\ at[c] = "query" /\ Call(c) = "pgInto" /\ Legal(c) /\ Advance(c)
      /\ Created(c, Own(c), RowsOf(c, Read(c)))
      /\ UNCHANGED <<menu, at, plan, base, idCounter, answer, pgTemps>>
  BY DEF SelectsInto, Calling, regVars
<1>2. /\ Own(c) \in Ids /\ Own(c) \in Rels /\ Own(c) # Tmp
      /\ Current(c).kind # "finish" /\ pos[c] = 1 /\ node[c] \in 1..Len(plan[c])
      /\ IsPlan(plan[c]) /\ Len(plan[c]) \in Nat
  <2>1. pos[c] \in Nat /\ pos[c] >= 1
    BY <1>1, NextCall DEF Shape
  <2>2. Own(c) \in Ids /\ IsPlan(plan[c]) /\ Current(c).kind # "finish" /\ pos[c] = 1
        /\ node[c] \in 1..Len(plan[c]) /\ Len(plan[c]) \in Nat
    BY <1>1, <2>1, NextCall
  <2> QED BY <2>2 DEF Rels, Ids, Tmp
<1>3. maker[Own(c)] = Nobody
  BY <1>1 DEF Legal, Exists
<1>4. /\ maker' = [maker EXCEPT ![Own(c)] = c]
      /\ rows' = [rows EXCEPT ![Own(c)] = RowsOf(c, Read(c))]
  BY <1>1 DEF Created
<1>5. RowsOf(c, Read(c)) \subseteq {c}
  BY <1>1, <1>2, AnswerIsOwn
<1>6. \A r \in Rels : /\ r # Own(c) => maker'[r] = maker[r] /\ rows'[r] = rows[r]
                      /\ r = Own(c) => maker'[r] = c /\ rows'[r] \subseteq {c}
  BY <1>4, <1>5 DEF Shape
<1>7. Shape'
  <2>1. node' \in [Clients -> Nat] /\ pos' \in [Clients -> Nat]
    BY <1>1, AdvancePlaces
  <2>2. maker' \in [Rels -> Clients \cup {Nobody}] /\ rows' \in [Rels -> SUBSET Clients]
    BY <1>4, <1>5 DEF Shape
  <2> QED BY <1>1, <2>1, <2>2 DEF Shape
<1>8. \A d \in Clients : \A r \in Rels : maker[r] = d => maker'[r] = d
  BY <1>3, <1>6, ClientsAssumption
<1>9. \A d \in Clients : at'[d] = "query" => Underway(d)'
  <2>1. Underway(c)'
    BY <1>1, <1>2, <1>6, <1>8, AdvanceUnderway
  <2>2. \A d \in Clients : d # c => node'[d] = node[d] /\ pos'[d] = pos[d]
    BY <1>1 DEF Advance, Shape
  <2> QED BY <1>1, <1>8, <2>1, <2>2, OtherUnderway
<1>10. \A d \in Clients : \A r \in pgTemps'[d] : maker'[r] = d
  BY <1>1, <1>8 DEF Private, Shape, Rels
<1>11. (\A r \in Rels : Exists(r) => rows[r] \subseteq {maker[r]})' /\ ~Exists(Tmp)'
  <2>1. Tmp \in Rels
    BY DEF Rels
  <2> QED BY <1>2, <1>6, <2>1 DEF Private, Exists
<1>12. \A r \in Rels : Exists(r) => maker'[r] = maker[r] /\ rows'[r] = rows[r]
  BY <1>3, <1>6 DEF Exists
<1> QED BY <1>1, <1>7, <1>9, <1>10, <1>11, <1>12 DEF Private

(* Steps that concern the sequence, or nothing.                                 *)
LEMMA NothingKeeps ==
  ASSUME Shape, Private,
         UNCHANGED <<menu, at, plan, node, pos, base, idCounter, maker, rows, pgTemps, answer>>
  PROVE  Shape' /\ Private'
<1>1. Shape'
  BY DEF Shape
<1>2. \A d \in Clients : at'[d] = "query" => Underway(d)'
  BY OtherUnderway
<1> QED BY <1>1, <1>2 DEF Private, Exists

(* Steps that leave the tables and the registries alone, and begin or end a query at        *)
(* most.                                                                   *)
LEMMA PlaceKeeps ==
  ASSUME NoTheta, Shape, Private, NEW c \in Clients,
         UNCHANGED <<menu, plan, node, pos, base, idCounter, maker, rows, pgTemps>>,
         \E place \in {"idle", "exit", "exitRas", "gone"} : at' = [at EXCEPT ![c] = place],
         answer' \in {answer, [answer EXCEPT ![c] = {}]}
  PROVE  Shape' /\ Private'
<1>1. Shape'
  BY DEF Shape
<1>2. \A d \in Clients : at'[d] = "query" => at[d] = "query"
  BY DEF Shape
<1>3. \A d \in Clients : at'[d] = "query" => Underway(d)'
  BY <1>2, OtherUnderway
<1>4. \A d \in Clients : answer'[d] \subseteq {d}
  BY DEF Private, Shape
<1>5. (\A r \in Rels : Exists(r) => rows[r] \subseteq {maker[r]})' /\ ~Exists(Tmp)'
      /\ \A d \in Clients : \A r \in pgTemps'[d] : maker'[r] = d
  BY DEF Private, Exists
<1> QED BY <1>1, <1>3, <1>4, <1>5 DEF Private

LEMMA StartQueryKeeps ==
  ASSUME NoTheta, Shape, Private, NEW c \in Clients, StartQuery(c)
  PROVE  Shape' /\ Private'
<1>1. PICK p \in menu : /\ idCounter[c] + Len(p) <= MaxId
                        /\ plan' = [plan EXCEPT ![c] = p]
                        /\ idCounter' = [idCounter EXCEPT ![c] = @ + Len(p)]
  BY DEF StartQuery
<1>2. /\ base' = [base EXCEPT ![c] = idCounter[c]]
      /\ node' = [node EXCEPT ![c] = 1] /\ pos' = [pos EXCEPT ![c] = 1]
      /\ answer' = [answer EXCEPT ![c] = {}]
      /\ at' = [at EXCEPT ![c] = "query"]
      /\ UNCHANGED <<menu, maker, rows, pgTemps>>
  BY DEF StartQuery, GoesTo, pgVars, regVars
<1>3. IsPlan(p) /\ Len(p) \in Nat /\ Len(p) >= 1
  <2>1. IsPlan(p)
    BY MenusAssumption DEF Shape
  <2> QED BY <2>1 DEF IsPlan
<1>4. Shape'
  BY <1>1, <1>2, <1>3 DEF Shape
<1>5. Underway(c)'
  <2>1. /\ plan'[c] = p /\ node'[c] = 1 /\ pos'[c] = 1 /\ base'[c] = idCounter[c]
        /\ idCounter[c] \in Nat
    BY <1>1, <1>2 DEF Shape
  <2>2. Current(c)'.kind \in RelationalKinds
    BY <1>3, <2>1 DEF Current, NoTheta
  <2>3. 1 \in 1..Len(Script[Current(c)'.kind])
    <3>1. Len(Script[Current(c)'.kind]) \in {2, 3}
      BY <2>2, RelationalScripts
    <3>2. \A l \in {2, 3} : 1 \in 1..l
      OBVIOUS
    <3> QED BY <3>1, <3>2
  <2>4. 1 \in 1..Len(p) /\ 1..(1 - 1) = {} /\ ~(1 > 1)
    BY <1>3
  <2> QED BY <1>1, <2>1, <2>3, <2>4 DEF Underway
<1>6. \A d \in Clients : d # c => /\ node'[d] = node[d] /\ pos'[d] = pos[d] /\ base'[d] = base[d]
                                  /\ plan'[d] = plan[d] /\ at'[d] = at[d] /\ answer'[d] = answer[d]
  BY <1>1, <1>2 DEF Shape
<1>7. \A d \in Clients : at'[d] = "query" => Underway(d)'
  BY <1>2, <1>5, <1>6, OtherUnderway
<1>8. \A d \in Clients : answer'[d] \subseteq {d}
  BY <1>2, <1>6 DEF Private, Shape
<1>9. (\A r \in Rels : Exists(r) => rows[r] \subseteq {maker[r]})' /\ ~Exists(Tmp)'
      /\ \A d \in Clients : \A r \in pgTemps'[d] : maker'[r] = d
  BY <1>2 DEF Private, Exists
<1> QED BY <1>4, <1>7, <1>8, <1>9 DEF Private

LEMMA ExitKeeps ==
  ASSUME NoTheta, Shape, Private, NEW c \in Clients, ExitDropsTables(c)
  PROVE  /\ Shape' /\ Private'
         /\ \A r \in Rels : Exists(r) => \/ maker'[r] = maker[r] /\ rows'[r] = rows[r]
                                         \/ at[maker[r]] = "exit"
<1>1. /\ at[c] = "exit"
      /\ UNCHANGED <<menu, plan, node, pos, base, idCounter, answer>>
      /\ \E place \in {"exitRas", "gone"} : at' = [at EXCEPT ![c] = place]
      /\ \/ /\ maker' = [r \in Rels |-> IF r \in pgTemps[c] THEN Nobody ELSE maker[r]]
            /\ rows' = [r \in Rels |-> IF r \in pgTemps[c] THEN {} ELSE rows[r]]
            /\ pgTemps' = [pgTemps EXCEPT ![c] = {}]
         \/ /\ UNCHANGED <<maker, rows>>
            /\ pgTemps' \in {pgTemps, [pgTemps EXCEPT ![c] = {}]}
  BY DEF ExitDropsTables, Dropped, GoesTo, treeVars
<1>2. \A r \in Rels : \/ maker'[r] = maker[r] /\ rows'[r] = rows[r]
                      \/ maker[r] = c /\ maker'[r] = Nobody /\ r \in pgTemps[c] /\ pgTemps'[c] = {}
  BY <1>1 DEF Private, Shape
<1>3. Shape'
  BY <1>1 DEF Shape
<1>4. \A d \in Clients : /\ pgTemps'[d] \subseteq pgTemps[d]
                         /\ d # c => pgTemps'[d] = pgTemps[d] /\ at'[d] = at[d]
                         /\ at'[c] # "query"
  BY <1>1 DEF Shape
<1>5. \A d \in Clients : at'[d] = "query" => Underway(d)'
  <2>1. \A d \in Clients : d # c => \A r \in Rels : maker[r] = d => maker'[r] = d
    BY <1>2
  <2> QED BY <1>1, <1>4, <2>1, OtherUnderway
<1>6. \A d \in Clients : \A r \in pgTemps'[d] : maker'[r] = d
  <2> SUFFICES ASSUME NEW d \in Clients, NEW r \in pgTemps'[d] PROVE maker'[r] = d
    OBVIOUS
  <2>1. r \in pgTemps[d] /\ r \in Rels /\ maker[r] = d
    BY <1>4 DEF Private, Shape, Rels
  <2> QED BY <1>2, <2>1
<1>7. (\A r \in Rels : Exists(r) => rows[r] \subseteq {maker[r]})' /\ ~Exists(Tmp)'
  <2>1. Tmp \in Rels
    BY DEF Rels
  <2> QED BY <1>2, <2>1 DEF Private, Exists
<1>8. \A d \in Clients : answer'[d] \subseteq {d}
  BY <1>1 DEF Private
<1> QED BY <1>1, <1>2, <1>3, <1>5, <1>6, <1>7, <1>8 DEF Private

-----------------------------------------------------------------------------
LEMMA InitInv == Init => IInv
<1> SUFFICES ASSUME Init, NoTheta PROVE Shape /\ Private
  BY DEF IInv
<1>1. PICK p \in menu : plan = [c \in Clients |-> p]
  BY DEF Init
<1>2. Shape
  BY <1>1 DEF Init, Shape, All, Rels
<1>3. Tmp \in Rels
  BY DEF Rels
<1>4. Private
  BY <1>2, <1>3 DEF Init, Private, All, Exists, Shape
<1> QED BY <1>2, <1>4

(* Every step of a client keeps the invariant, and the tables of the others.              *)
LEMMA ClientKeeps ==
  ASSUME NoTheta, Shape, Private, NEW c \in Clients,
         \/ Step(c) \/ StartProgram(c) \/ StartQuery(c) \/ EndOfInput(c)
         \/ CallFails(c) \/ Killed(c)
  PROVE  /\ Shape' /\ Private'
         /\ \A r \in Rels : Exists(r) => \/ maker'[r] = maker[r] /\ rows'[r] = rows[r]
                                         \/ at[maker[r]] = "exit"
<1>1. CASE SelectsInto(c)
  BY <1>1, SelectsIntoKeeps
<1>2. CASE \/ MakesTmp(c) \/ ClosesTmp(c) \/ LoadDrops(c) \/ LoadCreates(c) \/ LoadCopies(c)
           \/ AddsArrays(c) \/ LoopIsOver(c) \/ RmRegisters(c) \/ ReadsCollection(c)
  <2>1. at[c] = "query" /\ Call(c) \in {"tmpInto", "tmpClose", "pgLoad", "rmInto", "rmReg", "rmRead"}
    BY <1>2 DEF MakesTmp, ClosesTmp, LoadDrops, LoadCreates, LoadCopies, AddsArrays, LoopIsOver,
                RmRegisters, ReadsCollection, Calling
  <2>2. Call(c) \in {"pgInto", "pgReg", "pgNumber", "pgRead", "save", "rmRemove"}
    <3>1. pos[c] = 1 \/ pos[c] > 1
      BY <2>1, NextCall DEF Shape
    <3> QED BY <2>1, <3>1, NextCall
  <2> QED BY <2>1, <2>2
<1>3. CASE Registers(c) \/ NumbersCommits(c) \/ Saves(c)
  <2>1. /\ at[c] = "query" /\ Advance(c) /\ Call(c) \in {"pgReg", "pgNumber", "save"}
        /\ UNCHANGED <<menu, at, plan, base, idCounter, maker, rows, answer>>
        /\ pgTemps' \in {pgTemps, [pgTemps EXCEPT ![c] = @ \cup {Own(c)}]}
        /\ Call(c) = "pgReg" \/ pgTemps' = pgTemps
    BY <1>3 DEF Registers, NumbersCommits, Saves, Calling, pgVars, regVars
  <2>2. answer' \in [Clients -> SUBSET Clients] /\ \A d \in Clients : answer'[d] \subseteq {d}
    BY <2>1 DEF Shape, Private
  <2> QED BY <2>1, <2>2, AdvanceKeeps
<1>4. CASE ReadsAnswer(c)
  <2>1. /\ at[c] = "query" /\ Advance(c) /\ Call(c) = "pgRead" /\ Legal(c)
        /\ UNCHANGED <<menu, at, plan, base, idCounter, maker, rows, pgTemps>>
        /\ answer' = [answer EXCEPT ![c] = RowsOf(c, Read(c))]
    BY <1>4 DEF ReadsAnswer, Calling, pgVars, regVars
  <2>2. RowsOf(c, Read(c)) \subseteq {c}
    <3>1. pos[c] = 1 \/ pos[c] > 1
      BY <2>1, NextCall DEF Shape
    <3>2. pos[c] = 1
      BY <2>1, <3>1, NextCall
    <3> QED BY <2>1, <3>2, AnswerIsOwn
  <2>3. answer' \in [Clients -> SUBSET Clients] /\ \A d \in Clients : answer'[d] \subseteq {d}
    BY <2>1, <2>2 DEF Shape, Private
  <2> QED BY <2>1, <2>3, AdvanceKeeps
<1>5. CASE Numbers(c)
  <2>1. UNCHANGED <<menu, at, plan, node, pos, base, idCounter, maker, rows, pgTemps, answer>>
    BY <1>5 DEF Numbers, regVars
  <2> QED BY <2>1, NothingKeeps
<1>6. CASE StartProgram(c) \/ EndOfInput(c) \/ QueryOk(c) \/ CallRefused(c) \/ CallFails(c)
           \/ Killed(c) \/ ExitDropsCollections(c)
  <2>1. /\ UNCHANGED <<menu, plan, node, pos, base, idCounter, maker, rows, pgTemps>>
        /\ \E place \in {"idle", "exit", "exitRas", "gone"} : at' = [at EXCEPT ![c] = place]
        /\ answer' \in {answer, [answer EXCEPT ![c] = {}]}
    BY <1>6 DEF StartProgram, EndOfInput, QueryOk, CallRefused, CallFails, Killed,
                ExitDropsCollections, Fails, GoesTo, treeVars, pgVars, regVars
  <2> QED BY <2>1, PlaceKeeps
<1>7. CASE StartQuery(c)
  <2>1. UNCHANGED <<maker, rows>>
    BY <1>7 DEF StartQuery, pgVars
  <2> QED BY <1>7, <2>1, StartQueryKeeps
<1>8. CASE ExitDropsTables(c)
  BY <1>8, ExitKeeps
<1> QED BY <1>1, <1>2, <1>3, <1>4, <1>5, <1>6, <1>7, <1>8 DEF Step

(* The calls that return although their commit was lost.                           *)
Lost(c) == CreateLost(c) \/ NumbersLost(c) \/ LoadLost(c)

LEMMA MenuKept ==
  ASSUME [Next]_vars
  PROVE  menu' = menu /\ swallowed' \in {swallowed, "yes"}
<1>1. CASE UNCHANGED vars
  BY <1>1 DEF vars
<1>2. ASSUME NEW c \in Clients, Step(c) PROVE UNCHANGED <<menu, swallowed>>
  BY <1>2 DEF Step, SelectsInto, MakesTmp, ClosesTmp, Registers, Numbers, NumbersCommits,
              LoadDrops, LoadCreates, LoadCopies, AddsArrays, LoopIsOver, RmRegisters,
              ReadsCollection, ReadsAnswer, Saves, QueryOk, CallRefused, Fails, ExitDropsTables,
              ExitDropsCollections
<1>3. ASSUME NEW c \in Clients,
             \/ StartProgram(c) \/ StartQuery(c) \/ EndOfInput(c)
             \/ CallFails(c) \/ Killed(c)
      PROVE  UNCHANGED <<menu, swallowed>>
  BY <1>3 DEF StartProgram, StartQuery, EndOfInput, CallFails, Fails, Killed
<1>4. ASSUME NEW c \in Clients, Lost(c)
      PROVE  menu' = menu /\ swallowed' = "yes"
  BY <1>4 DEF Lost, CreateLost, NumbersLost, LoadLost, CommitSwallowed
<1> QED BY <1>1, <1>2, <1>3, <1>4 DEF Next, Lost

LEMMA NextInv ==
  ASSUME IInv, [Next]_vars
  PROVE  /\ IInv'
         /\ NoTheta /\ swallowed = "no" => \A r \in Rels : Exists(r) =>
              \/ maker'[r] = maker[r] /\ rows'[r] = rows[r]
              \/ at[maker[r]] = "exit"
<1>1. (NoTheta' <=> NoTheta) /\ (swallowed' = "no" => swallowed = "no")
  BY MenuKept DEF NoTheta
<1> SUFFICES ASSUME NoTheta, swallowed = "no"
             PROVE  /\ swallowed' = "no" => Shape' /\ Private'
                    /\ \A r \in Rels : Exists(r) =>
                         \/ maker'[r] = maker[r] /\ rows'[r] = rows[r]
                         \/ at[maker[r]] = "exit"
  BY <1>1 DEF IInv
<1>2. Shape /\ Private
  BY DEF IInv
<1>3. ASSUME NEW c \in Clients, Lost(c)
      PROVE  swallowed' = "yes" /\ UNCHANGED <<maker, rows>>
  BY <1>3 DEF Lost, CreateLost, NumbersLost, LoadLost, CommitSwallowed
<1>4. CASE Next
  <2>1. PICK c \in Clients :
          \/ \/ Step(c) \/ StartProgram(c) \/ StartQuery(c) \/ EndOfInput(c)
             \/ CallFails(c) \/ Killed(c)
          \/ Lost(c)
    BY <1>4 DEF Next, Lost
  <2> QED BY <1>2, <1>3, <2>1, ClientKeeps
<1>5. CASE UNCHANGED vars
  <2>1. UNCHANGED <<menu, at, plan, node, pos, base, idCounter, maker, rows, pgTemps, answer>>
    BY <1>5 DEF vars, treeVars, pgVars, regVars
  <2> QED BY <1>2, <2>1, NothingKeeps
<1> QED BY <1>4, <1>5

(* As long as nobody asks anything else and no commit was swallowed, relational queries      *)
(* without theta joins are answered with the client's own rows.                        *)
THEOREM RelationalPrivate == Spec => []RelationalIsPrivate
<1>1. Init => IInv
  BY InitInv
<1>2. IInv /\ [Next]_vars => IInv'
  BY NextInv
<1>3. IInv => RelationalIsPrivate
  BY DEF IInv, Private, RelationalIsPrivate
<1> QED BY <1>1, <1>2, <1>3, PTL DEF Spec

-----------------------------------------------------------------------------
(* Any queries.  How many calls a node of kind k makes, and whether one of the set     *)
(* calls is among those before the i-th.                                       *)
Calls(k) == Len(Script[k])
Did(k, i, calls) == \E j \in 1..(i - 1) : Script[k][j] \in calls
Makes == {"pgInto", "pgLoad", "tmpClose"}
Kind(c) == Current(c).kind

(* Where a client is in its query.                                            *)
TreeInv ==
  /\ menu \in Menus
  /\ at \in [Clients -> {"new", "idle", "query", "exit", "exitRas", "gone"}]
  /\ plan \in [Clients -> menu]
  /\ node \in [Clients -> Nat] /\ \A c \in Clients : node[c] \in 1..Len(plan[c])
  /\ pos \in [Clients -> 1..6] /\ phase \in [Clients -> 0..2]
  /\ base \in [Clients -> 0..MaxId] /\ idCounter \in [Clients -> 0..MaxId]
  /\ \A c \in Clients : at[c] = "query" =>
       /\ pos[c] \in 1..Calls(Kind(c))
       /\ idCounter[c] = base[c] + Len(plan[c])

DataInv ==
  /\ hand \in [Clients -> SUBSET Clients] /\ answer \in [Clients -> SUBSET Clients]
  /\ pgTemps \in [Clients -> SUBSET Ids] /\ rmTemps \in [Clients -> SUBSET Ids]
  /\ maker \in [Rels -> Clients \cup {Nobody}]
  /\ rows \in [Rels -> SUBSET Clients]
  /\ numbered \in SUBSET Rels
  /\ hqlid \in Clients \cup {Nobody}
  /\ colls \in [Ids -> SUBSET Clients]
  /\ overlap \in {"no", "yes"} /\ swallowed \in {"no", "yes"} /\ faults \in 0..MaxFaults

TypeInv == TreeInv /\ DataInv

(* The scripts of the classes of nodes.                                         *)
AllCalls == {"pgInto", "tmpInto", "tmpClose", "pgLoad", "pgReg", "pgNumber", "pgRead",
             "rmInto", "rmRead", "rmReg", "save", "rmRemove"}
OtherScripts ==
  {<<"pgInto", "pgReg">>, <<"pgInto", "pgReg", "pgNumber">>, <<"pgLoad">>,
   <<"pgLoad", "pgNumber", "pgReg">>, <<"rmInto", "rmReg", "rmRead", "pgLoad", "pgNumber">>,
   <<"rmInto", "rmRead", "rmReg", "pgLoad", "pgReg", "pgNumber">>}

LEMMA TenScripts ==
  ASSUME NEW k \in DOMAIN Script
  PROVE  /\ k = "finish" => Script[k] = <<"pgRead", "save", "rmRemove">>
         /\ k = "thetaOpen" => Script[k] = <<"tmpInto", "pgNumber">>
         /\ k = "thetaClose" => Script[k] = <<"tmpClose", "pgReg">>
         /\ k = "function1" => Script[k] = <<"rmInto", "rmRead", "pgLoad", "pgNumber", "pgReg">>
         /\ k \notin {"finish", "thetaOpen", "thetaClose", "function1"} => Script[k] \in OtherScripts
BY DEF Script, Plain, PgSource, RasSource, Multiply, AddResults, Filtered, Where, Join, ThetaOpen,
       ThetaClose, StarColumn, PgColumn, Constant, String, SqlFunction, PostGisFunction,
       Interval, PgOperation, RasColumn, MixedOperation, ArrayOperation, Trim, Function1,
       Function2, ScalarFunction, Finish, OtherScripts

(* What a call tells of the calls before it, and of the next one.                   *)
CallFacts(k, i) ==
  LET c == Script[k][i]
      next == Script[k][i + 1]
  IN /\ c \in AllCalls
     /\ i = 1 => c \in {"pgInto", "tmpInto", "tmpClose", "pgLoad", "rmInto", "pgRead"}
     /\ i > 1 => c \notin {"pgInto", "tmpInto", "tmpClose", "rmInto", "pgRead"}
     /\ c = "tmpInto" => k = "thetaOpen"
     /\ c = "tmpClose" => k = "thetaClose"
     /\ k = "thetaOpen" => c \in {"tmpInto", "pgNumber"}
     /\ k = "thetaClose" => c \in {"tmpClose", "pgReg"}
     /\ c \in {"pgRead", "save", "rmRemove"} <=> k = "finish"
     /\ k = "finish" /\ i = Calls(k) => c = "rmRemove"
     /\ c = "pgReg" => Did(k, i, Makes)
     /\ c = "pgLoad" => ~Did(k, i, Makes) /\ ~Did(k, i, {"pgReg", "pgLoad"})
     /\ c \in {"pgInto", "tmpClose"} => i < Calls(k) /\ next = "pgReg"
     /\ c = "rmInto" /\ k # "function1" => i < Calls(k) /\ next \in {"rmRead", "rmReg"}
     /\ c = "rmRead" /\ k # "function1" =>
          Did(k, i, {"rmReg"}) \/ (i < Calls(k) /\ next = "rmReg")

LEMMA ScriptFacts ==
  ASSUME NEW k \in DOMAIN Script
  PROVE  Calls(k) \in 1..6 /\ \A i \in 1..Calls(k) : CallFacts(k, i)
<1> USE DEF CallFacts, Calls, Did, Makes, AllCalls
<1>1. CASE k = "finish"
  <2>1. Script[k] = <<"pgRead", "save", "rmRemove">>
    BY <1>1, TenScripts
  <2> QED BY <1>1, <2>1
<1>2. CASE k = "thetaOpen"
  <2>1. Script[k] = <<"tmpInto", "pgNumber">>
    BY <1>2, TenScripts
  <2> QED BY <1>2, <2>1
<1>3. CASE k = "thetaClose"
  <2>1. Script[k] = <<"tmpClose", "pgReg">>
    BY <1>3, TenScripts
  <2> QED BY <1>3, <2>1
<1>4. CASE k = "function1"
  <2>1. Script[k] = <<"rmInto", "rmRead", "pgLoad", "pgNumber", "pgReg">>
    BY <1>4, TenScripts
  <2> QED BY <1>4, <2>1
<1>5. CASE k \notin {"finish", "thetaOpen", "thetaClose", "function1"}
  <2>1. CASE Script[k] = <<"pgInto", "pgReg">>
    BY <1>5, <2>1
  <2>2. CASE Script[k] = <<"pgInto", "pgReg", "pgNumber">>
    BY <1>5, <2>2
  <2>3. CASE Script[k] = <<"pgLoad">>
    BY <1>5, <2>3
  <2>4. CASE Script[k] = <<"pgLoad", "pgNumber", "pgReg">>
    BY <1>5, <2>4
  <2>5. CASE Script[k] = <<"rmInto", "rmReg", "rmRead", "pgLoad", "pgNumber">>
    BY <1>5, <2>5
  <2>6. CASE Script[k] = <<"rmInto", "rmRead", "rmReg", "pgLoad", "pgReg", "pgNumber">>
    BY <1>5, <2>6
  <2> QED BY <1>5, <2>1, <2>2, <2>3, <2>4, <2>5, <2>6, TenScripts DEF OtherScripts
<1> QED BY <1>1, <1>2, <1>3, <1>4, <1>5

(* The current node of a client and its next call.                               *)
LEMMA Now ==
  ASSUME TypeInv, NEW c \in Clients, at[c] = "query"
  PROVE  /\ IsPlan(plan[c]) /\ FormsTree(plan[c])
         /\ Len(plan[c]) \in Nat /\ node[c] \in 1..Len(plan[c]) /\ node[c] \in Nat
         /\ base[c] \in Nat /\ base[c] + Len(plan[c]) <= MaxId /\ MaxId \in Nat
         /\ idCounter[c] = base[c] + Len(plan[c])
         /\ Kind(c) = plan[c][node[c]].kind /\ Kind(c) \in DOMAIN Script
         /\ Kind(c) = "finish" <=> node[c] = Len(plan[c])
         /\ Calls(Kind(c)) \in 1..6 /\ pos[c] \in 1..Calls(Kind(c)) /\ pos[c] \in Nat \ {0}
         /\ Call(c) = Script[Kind(c)][pos[c]] /\ CallFacts(Kind(c), pos[c])
         /\ base[c] + node[c] \in Ids /\ Tmp \notin Ids
         /\ Kind(c) = "thetaOpen" => Own(c) = Tmp
         /\ Kind(c) # "thetaOpen" => Own(c) = base[c] + node[c]
         /\ Own(c) \in Rels
         /\ Current(c).reads \subseteq 0..(node[c] - 1)
         /\ Read(c) \subseteq Rels /\ Arrays(c) \subseteq Ids
<1>1. IsPlan(plan[c]) /\ FormsTree(plan[c])
  BY MenusAssumption DEF TypeInv, TreeInv
<1>2. /\ Len(plan[c]) \in Nat /\ node[c] \in 1..Len(plan[c]) /\ node[c] \in Nat
      /\ base[c] \in Nat /\ idCounter[c] = base[c] + Len(plan[c]) /\ idCounter[c] <= MaxId
      /\ MaxId \in Nat /\ pos[c] \in 1..Calls(Kind(c))
  BY <1>1, BoundsAssumption DEF TypeInv, TreeInv, IsPlan
<1>3. plan[c][node[c]] \in Nodes
  BY <1>1, <1>2 DEF IsPlan
<1>4. Kind(c) = plan[c][node[c]].kind /\ Kind(c) \in DOMAIN Script
  BY <1>3 DEF Nodes, Kind, Current
<1>5. Kind(c) = "finish" <=> node[c] = Len(plan[c])
  BY <1>1, <1>2, <1>4 DEF IsPlan
<1>6. Calls(Kind(c)) \in 1..6 /\ CallFacts(Kind(c), pos[c])
  BY <1>2, <1>4, ScriptFacts
<1>7. pos[c] \in Nat \ {0}
  BY <1>2, <1>6
<1>8. Call(c) = Script[Kind(c)][pos[c]]
  BY DEF Call, Kind
<1>9. base[c] + node[c] \in Ids /\ Tmp \notin Ids
  BY <1>2 DEF Ids, Tmp
<1>10. /\ Kind(c) = "thetaOpen" => Own(c) = Tmp
       /\ Kind(c) # "thetaOpen" => Own(c) = base[c] + node[c]
       /\ Own(c) \in Rels
  BY <1>9 DEF Own, Kind, Rels
<1>11. Current(c).reads \subseteq 0..(node[c] - 1) /\ Current(c).arrays \subseteq 1..(node[c] - 1)
  BY <1>1, <1>2 DEF IsPlan, Current
<1>12. \A n \in 0..(node[c] - 1) : /\ Rel(c, n) \in Rels
                                   /\ n # 0 => Rel(c, n) \in Ids
  BY <1>2 DEF Rel, Rels, Ids
<1>13. Read(c) \subseteq Rels /\ Arrays(c) \subseteq Ids
  <2>1. \A n \in 1..(node[c] - 1) : n \in 0..(node[c] - 1) /\ n # 0
    BY <1>2
  <2> QED BY <1>11, <1>12, <2>1 DEF Read, Arrays
<1> QED
  BY <1>1, <1>2, <1>4, <1>5, <1>6, <1>7, <1>8, <1>9, <1>10, <1>11, <1>13

(* A call that returns leads to the next one of the node, or to the next node.        *)
Within(c) ==
  /\ pos'[c] = pos[c] + 1 /\ node'[c] = node[c] /\ pos[c] < Calls(Kind(c))
  /\ Current(c)' = Current(c) /\ Kind(c)' = Kind(c) /\ Own(c)' = Own(c)
  /\ Call(c)' = Script[Kind(c)][pos[c] + 1]
Over(c) ==
  /\ pos'[c] = 1 /\ node'[c] = node[c] + 1 /\ pos[c] = Calls(Kind(c))
  /\ node[c] < Len(plan[c]) /\ Current(c)' = plan[c][node[c] + 1]
Others(c) ==
  \A d \in Clients : d # c =>
    /\ at'[d] = at[d] /\ plan'[d] = plan[d] /\ node'[d] = node[d] /\ pos'[d] = pos[d]
    /\ base'[d] = base[d] /\ idCounter'[d] = idCounter[d]

LEMMA Advances ==
  ASSUME TypeInv, NEW c \in Clients, at[c] = "query", Call(c) # "rmRemove", Advance(c),
         UNCHANGED <<menu, at, plan, base, idCounter>>
  PROVE  TreeInv' /\ phase'[c] = 0 /\ (Within(c) \/ Over(c)) /\ Others(c)
<1>1. node \in [Clients -> Nat] /\ pos \in [Clients -> 1..6] /\ phase \in [Clients -> 0..2]
  BY DEF TypeInv, TreeInv
<1>2. /\ Calls(Kind(c)) \in 1..6 /\ pos[c] \in 1..Calls(Kind(c)) /\ pos[c] \in Nat \ {0}
      /\ Calls(Kind(c)) \in Nat /\ node[c] \in Nat /\ node[c] \in 1..Len(plan[c]) /\ Len(plan[c]) \in Nat
  BY Now
<1>3. phase' \in [Clients -> 0..2] /\ phase'[c] = 0
  BY <1>1 DEF Advance
<1>4. CASE pos[c] < Calls(Kind(c))
  <2>1. pos' = [pos EXCEPT ![c] = @ + 1] /\ node' = node
    BY <1>4 DEF Advance, Kind, Calls
  <2>2. pos'[c] = pos[c] + 1 /\ node'[c] = node[c]
    BY <1>1, <2>1
  <2>3. pos' \in [Clients -> 1..6] /\ node' \in [Clients -> Nat]
    <3>1. pos[c] + 1 \in 1..6
      BY <1>2, <1>4
    <3> QED BY <1>1, <2>1, <3>1
  <2>4. Current(c)' = Current(c) /\ Kind(c)' = Kind(c) /\ Own(c)' = Own(c)
        /\ Call(c)' = Script[Kind(c)][pos[c] + 1]
    BY <2>2 DEF Current, Kind, Own, Call
  <2>5. Within(c)
    BY <1>4, <2>2, <2>4 DEF Within
  <2>6. Others(c)
    BY <1>1, <2>1 DEF Others
  <2>7. pos'[c] \in 1..Calls(Kind(c)')
    BY <1>2, <1>4, <2>2, <2>4
  <2>8. \A d \in Clients : at'[d] = "query" =>
          /\ pos'[d] \in 1..Calls(Kind(d)')
          /\ idCounter'[d] = base'[d] + Len(plan'[d])
    <3>1. \A d \in Clients : d # c => Kind(d)' = Kind(d)
      BY <2>6 DEF Others, Kind, Current
    <3> QED BY <2>6, <2>7, <3>1 DEF TypeInv, TreeInv, Others
  <2>9. TreeInv'
    BY <1>3, <2>1, <2>3, <2>8 DEF TypeInv, TreeInv
  <2> QED BY <1>3, <2>5, <2>6, <2>9
<1>5. CASE ~(pos[c] < Calls(Kind(c)))
  <2>1. pos' = [pos EXCEPT ![c] = 1] /\ node' = [node EXCEPT ![c] = @ + 1]
    BY <1>5 DEF Advance, Kind, Calls
  <2>2. pos'[c] = 1 /\ node'[c] = node[c] + 1 /\ pos[c] = Calls(Kind(c))
    BY <1>1, <1>2, <1>5, <2>1
  <2>3. Kind(c) # "finish"
    <3>1. CallFacts(Kind(c), pos[c]) /\ Call(c) = Script[Kind(c)][pos[c]]
      BY Now
    <3> QED BY <2>2, <3>1 DEF CallFacts
  <2>4. node[c] < Len(plan[c]) /\ node'[c] \in 1..Len(plan[c])
    <3>1. node[c] # Len(plan[c])
      BY <2>3, Now
    <3> QED BY <1>2, <2>2, <3>1
  <2>5. pos' \in [Clients -> 1..6] /\ node' \in [Clients -> Nat]
    <3>1. node[c] + 1 \in Nat /\ 1 \in 1..6
      BY <1>2
    <3> QED BY <1>1, <2>1, <3>1
  <2>6. Current(c)' = plan[c][node[c] + 1]
    BY <2>2 DEF Current
  <2>7. Others(c)
    BY <1>1, <2>1 DEF Others
  <2>8. pos'[c] \in 1..Calls(Kind(c)')
    <3>1. plan[c][node'[c]] \in Nodes
      BY <2>4, Now DEF IsPlan
    <3>2. Kind(c)' \in DOMAIN Script
      BY <2>2, <2>6, <3>1 DEF Kind, Nodes
    <3>3. Calls(Kind(c)') \in 1..6
      BY <3>2, ScriptFacts
    <3> QED BY <2>2, <3>3
  <2>9. \A d \in Clients : at'[d] = "query" =>
          /\ pos'[d] \in 1..Calls(Kind(d)')
          /\ idCounter'[d] = base'[d] + Len(plan'[d])
    <3>1. \A d \in Clients : d # c => Kind(d)' = Kind(d)
      BY <2>7 DEF Others, Kind, Current
    <3> QED BY <2>7, <2>8, <3>1 DEF TypeInv, TreeInv, Others
  <2>10. \A d \in Clients : node'[d] \in 1..Len(plan'[d])
    BY <2>4, <2>7 DEF TypeInv, TreeInv, Others
  <2>11. TreeInv'
    BY <1>3, <2>5, <2>9, <2>10 DEF TypeInv, TreeInv
  <2> QED BY <1>3, <2>2, <2>4, <2>6, <2>7, <2>11 DEF Over
<1> QED BY <1>4, <1>5

-----------------------------------------------------------------------------
(* Type correctness.                                                        *)
LEMMA RowsAreClients ==
  ASSUME TypeInv, NEW c \in Clients, NEW R \in SUBSET Rels
  PROVE  RowsOf(c, R) \in SUBSET Clients
BY DEF RowsOf, TypeInv, DataInv

(* What a client makes and registers is in the range of the ids.                    *)
LEMMA OwnIds ==
  ASSUME TypeInv, NEW c \in Clients, at[c] = "query",
         Call(c) \in {"pgInto", "tmpClose", "pgReg", "pgLoad", "rmInto", "rmRead", "rmReg"}
  PROVE  Kind(c) # "thetaOpen" /\ Own(c) = base[c] + node[c] /\ Own(c) \in Ids /\ Own(c) # Tmp
<1>1. Kind(c) # "thetaOpen"
  BY Now DEF CallFacts
<1> QED BY <1>1, Now

LEMMA StaysInPlace ==
  ASSUME TreeInv, UNCHANGED <<menu, plan, node, pos, base, idCounter>>,
         phase' \in [Clients -> 0..2],
         at' \in [Clients -> {"new", "idle", "query", "exit", "exitRas", "gone"}],
         \A d \in Clients : at'[d] = "query" => at[d] = "query"
  PROVE  TreeInv'
<1>1. \A d \in Clients : Kind(d)' = Kind(d)
  BY DEF Kind, Current
<1> QED BY <1>1 DEF TreeInv

LEMMA StartTypes ==
  ASSUME TypeInv, NEW c \in Clients, StartQuery(c)
  PROVE  /\ TypeInv'
         /\ node'[c] = 1 /\ pos'[c] = 1 /\ phase'[c] = 0 /\ base'[c] = idCounter[c]
         /\ at'[c] = "query" /\ idCounter'[c] >= idCounter[c]
<1>1. PICK p \in menu : /\ idCounter[c] + Len(p) <= MaxId
                        /\ plan' = [plan EXCEPT ![c] = p]
                        /\ idCounter' = [idCounter EXCEPT ![c] = @ + Len(p)]
  BY DEF StartQuery
<1>2. /\ base' = [base EXCEPT ![c] = idCounter[c]]
      /\ node' = [node EXCEPT ![c] = 1] /\ pos' = [pos EXCEPT ![c] = 1]
      /\ phase' = [phase EXCEPT ![c] = 0]
      /\ answer' = [answer EXCEPT ![c] = {}]
      /\ at' = [at EXCEPT ![c] = "query"]
      /\ UNCHANGED <<menu, hand, maker, rows, numbered, hqlid, pgTemps, rmTemps, colls, overlap,
                     swallowed, faults>>
  BY DEF StartQuery, GoesTo, pgVars, regVars
<1>3. IsPlan(p) /\ Len(p) \in Nat /\ 1 \in 1..Len(p)
  <2>1. IsPlan(p)
    BY MenusAssumption DEF TypeInv, TreeInv
  <2> QED BY <2>1 DEF IsPlan
<1>4. /\ plan'[c] = p /\ node'[c] = 1 /\ pos'[c] = 1 /\ phase'[c] = 0 /\ base'[c] = idCounter[c]
      /\ at'[c] = "query" /\ idCounter'[c] = idCounter[c] + Len(p) /\ idCounter[c] \in 0..MaxId
      /\ idCounter[c] + Len(p) \in 0..MaxId /\ MaxId \in Nat
  BY <1>1, <1>2, <1>3, BoundsAssumption DEF TypeInv, TreeInv
<1>5. \A d \in Clients : d # c =>
        /\ at'[d] = at[d] /\ plan'[d] = plan[d] /\ node'[d] = node[d] /\ pos'[d] = pos[d]
        /\ base'[d] = base[d] /\ idCounter'[d] = idCounter[d]
  BY <1>1, <1>2 DEF TypeInv, TreeInv
<1>6. pos'[c] \in 1..Calls(Kind(c)')
  <2>1. Kind(c)' = p[1].kind
    BY <1>4 DEF Kind, Current
  <2>2. p[1].kind \in DOMAIN Script
    <3>1. p[1] \in Nodes
      BY <1>3 DEF IsPlan
    <3> QED BY <3>1 DEF Nodes
  <2>3. Calls(Kind(c)') \in 1..6
    BY <2>1, <2>2, ScriptFacts
  <2> QED BY <1>4, <2>3
<1>7. \A d \in Clients : at'[d] = "query" =>
        /\ pos'[d] \in 1..Calls(Kind(d)')
        /\ idCounter'[d] = base'[d] + Len(plan'[d])
  <2>1. \A d \in Clients : d # c => Kind(d)' = Kind(d)
    BY <1>5 DEF Kind, Current
  <2> QED BY <1>4, <1>5, <1>6, <2>1 DEF TypeInv, TreeInv
<1>8. \A d \in Clients : node'[d] \in 1..Len(plan'[d])
  BY <1>3, <1>4, <1>5 DEF TypeInv, TreeInv
<1>9. /\ at' \in [Clients -> {"new", "idle", "query", "exit", "exitRas", "gone"}]
      /\ plan' \in [Clients -> menu']
      /\ node' \in [Clients -> Nat] /\ pos' \in [Clients -> 1..6] /\ phase' \in [Clients -> 0..2]
      /\ base' \in [Clients -> 0..MaxId] /\ idCounter' \in [Clients -> 0..MaxId]
  BY <1>1, <1>2, <1>4 DEF TypeInv, TreeInv
<1>10. TreeInv'
  BY <1>2, <1>7, <1>8, <1>9 DEF TypeInv, TreeInv
<1>11. DataInv'
  BY <1>2 DEF TypeInv, DataInv
<1> QED BY <1>3, <1>4, <1>10, <1>11 DEF TypeInv

LEMMA LostTypes ==
  ASSUME TypeInv, NEW c \in Clients, Lost(c)
  PROVE  DataInv'
<1>1. /\ at[c] = "query"
      /\ UNCHANGED <<answer, maker, rows, numbered, rmTemps, colls, overlap>>
      /\ swallowed' = "yes" /\ faults < MaxFaults /\ faults' = faults + 1
      /\ hqlid' \in {hqlid, Nobody}
      /\ hand' \in {hand, [hand EXCEPT ![c] = InHand(c)]}
      /\ pgTemps' = pgTemps \/ (Call(c) = "pgLoad" /\ pgTemps' = [pgTemps EXCEPT ![c] = @ \cup {Own(c)}])
  BY DEF Lost, CreateLost, NumbersLost, LoadLost, CommitSwallowed
<1>2. faults' \in 0..MaxFaults
  BY <1>1, BoundsAssumption DEF TypeInv, DataInv
<1>3. hand' \in [Clients -> SUBSET Clients]
  <2>1. Arrays(c) \subseteq Ids
    BY <1>1, Now
  <2>2. InHand(c) \in SUBSET Clients
    BY <2>1 DEF InHand, TypeInv, DataInv
  <2> QED BY <1>1, <2>2 DEF TypeInv, DataInv
<1>4. pgTemps' \in [Clients -> SUBSET Ids]
  <2>1. Call(c) = "pgLoad" => Own(c) \in Ids
    BY <1>1, OwnIds
  <2> QED BY <1>1, <2>1 DEF TypeInv, DataInv
<1> QED BY <1>1, <1>2, <1>3, <1>4 DEF TypeInv, DataInv

(* The calls that return.                                                    *)
LEMMA CallTypes ==
  ASSUME TypeInv, NEW c \in Clients,
         \/ SelectsInto(c) \/ MakesTmp(c) \/ ClosesTmp(c) \/ Registers(c) \/ NumbersCommits(c)
         \/ LoadCopies(c) \/ (AddsArrays(c) /\ Advance(c)) \/ LoopIsOver(c) \/ RmRegisters(c)
         \/ ReadsCollection(c) \/ ReadsAnswer(c) \/ Saves(c)
         \/ CreateLost(c) \/ NumbersLost(c) \/ (LoadLost(c) /\ Advance(c))
  PROVE  /\ TypeInv' /\ at[c] = "query" /\ UNCHANGED <<menu, at, plan, base, idCounter>>
         /\ phase'[c] = 0 /\ (Within(c) \/ Over(c)) /\ Others(c)
<1>1. /\ at[c] = "query" /\ Advance(c) /\ UNCHANGED <<menu, at, plan, base, idCounter>>
      /\ Call(c) # "rmRemove"
  BY DEF SelectsInto, MakesTmp, ClosesTmp, Registers, NumbersCommits, LoadCopies, AddsArrays,
         LoopIsOver, RmRegisters, ReadsCollection, ReadsAnswer, Saves, Calling, CreateLost,
         NumbersLost, LoadLost, CommitSwallowed
<1>2. TreeInv' /\ phase'[c] = 0 /\ (Within(c) \/ Over(c)) /\ Others(c)
  BY <1>1, Advances
<1>3. /\ Own(c) \in Rels /\ Tmp \in Rels /\ Read(c) \subseteq Rels /\ Arrays(c) \subseteq Ids
      /\ RowsOf(c, Read(c)) \in SUBSET Clients /\ RowsOf(c, {Tmp} \cup Read(c)) \in SUBSET Clients
  <2>1. Own(c) \in Rels /\ Tmp \in Rels /\ Read(c) \subseteq Rels /\ Arrays(c) \subseteq Ids
    BY <1>1, Now DEF Rels
  <2> QED BY <2>1, RowsAreClients
<1>4. UNION {colls[r] : r \in Arrays(c)} \in SUBSET Clients
  BY <1>3 DEF TypeInv, DataInv
<1>5. DataInv'
  <2>1. CASE SelectsInto(c)
    BY <1>3, <2>1 DEF SelectsInto, Created, regVars, TypeInv, DataInv
  <2>2. CASE MakesTmp(c)
    BY <1>3, <2>2 DEF MakesTmp, Created, regVars, TypeInv, DataInv
  <2>3. CASE ClosesTmp(c)
    BY <1>3, <2>3 DEF ClosesTmp, regVars, TypeInv, DataInv
  <2>4. CASE Registers(c)
    <3>1. Own(c) \in Ids
      BY <1>1, <2>4, OwnIds DEF Registers, Calling
    <3> QED BY <2>4, <3>1 DEF Registers, pgVars, TypeInv, DataInv
  <2>5. CASE NumbersCommits(c)
    BY <1>3, <2>5 DEF NumbersCommits, regVars, TypeInv, DataInv
  <2>6. CASE LoadCopies(c)
    <3>1. Own(c) \in Ids
      BY <1>1, <2>6, OwnIds DEF LoadCopies, Calling
    <3> QED BY <1>3, <2>6, <3>1 DEF LoadCopies, TypeInv, DataInv
  <2>7. CASE AddsArrays(c)
    <3>1. /\ colls' = [colls EXCEPT ![Own(c)] = @ \cup {c} \cup UNION {colls[r] : r \in Arrays(c)}]
          /\ UNCHANGED <<hand, answer, pgTemps, rmTemps, maker, rows, numbered, hqlid, overlap,
                         swallowed, faults>>
      BY <2>7 DEF AddsArrays, pgVars, regVars
    <3> QED BY <1>4, <3>1 DEF TypeInv, DataInv
  <2>8. CASE RmRegisters(c)
    <3>1. Own(c) \in Ids
      BY <1>1, <2>8, OwnIds DEF RmRegisters, Calling
    <3> QED BY <2>8, <3>1 DEF RmRegisters, pgVars, TypeInv, DataInv
  <2>9. CASE ReadsCollection(c)
    <3>1. Own(c) \in Ids
      BY <1>1, <2>9, OwnIds DEF ReadsCollection, Calling
    <3> QED BY <2>9, <3>1 DEF ReadsCollection, pgVars, regVars, TypeInv, DataInv
  <2>10. CASE ReadsAnswer(c)
    BY <1>3, <2>10 DEF ReadsAnswer, pgVars, regVars, TypeInv, DataInv
  <2>11. CASE Saves(c)
    BY <2>11 DEF Saves, pgVars, regVars, TypeInv, DataInv
  <2>12. CASE LoopIsOver(c)
    BY <2>12 DEF LoopIsOver, pgVars, regVars, TypeInv, DataInv
  <2>13. CASE CreateLost(c) \/ NumbersLost(c) \/ LoadLost(c)
    BY <2>13, LostTypes DEF Lost
  <2> QED BY <2>1, <2>2, <2>3, <2>4, <2>5, <2>6, <2>7, <2>8, <2>9, <2>10, <2>11, <2>12, <2>13
<1> QED BY <1>1, <1>2, <1>5 DEF TypeInv

(* The steps within a call, and those that begin or end a query or a program.         *)
LEMMA OtherTypes ==
  ASSUME TypeInv, NEW c \in Clients,
         \/ Numbers(c) \/ LoadDrops(c) \/ LoadCreates(c)
         \/ (AddsArrays(c) /\ UNCHANGED <<node, pos, phase>>) \/ QueryOk(c) \/ CallRefused(c)
         \/ ExitDropsTables(c) \/ ExitDropsCollections(c) \/ StartProgram(c) \/ EndOfInput(c)
         \/ CallFails(c) \/ Killed(c) \/ (LoadLost(c) /\ UNCHANGED <<node, pos>>)
  PROVE  TypeInv'
<1> USE DEF TypeInv, TreeInv, DataInv
<1> DEFINE P1 == UNCHANGED <<menu, plan, node, pos, base, idCounter>>
           P2 == at' = at \/ \E place \in {"idle", "exit", "exitRas", "gone"} :
                               at' = [at EXCEPT ![c] = place]
           P3 == phase' = phase \/ \E i \in 0..2 : phase' = [phase EXCEPT ![c] = i]
<1>1. P1 /\ P2 /\ P3
  <2>1. CASE Numbers(c) \/ LoadDrops(c) \/ LoadCreates(c)
    <3>1. 1 \in 0..2 /\ 2 \in 0..2
      OBVIOUS
    <3> QED BY <2>1, <3>1 DEF Numbers, LoadDrops, LoadCreates
  <2>2. CASE AddsArrays(c) /\ UNCHANGED <<node, pos, phase>>
    BY <2>2 DEF AddsArrays
  <2>3. CASE QueryOk(c) \/ CallRefused(c) \/ CallFails(c) \/ Killed(c)
    BY <2>3 DEF QueryOk, CallRefused, CallFails, Killed, Fails, GoesTo, treeVars
  <2>4. CASE ExitDropsTables(c)
    BY <2>4 DEF ExitDropsTables, GoesTo, treeVars
  <2>5. CASE ExitDropsCollections(c) \/ StartProgram(c) \/ EndOfInput(c)
    BY <2>5 DEF ExitDropsCollections, StartProgram, EndOfInput, GoesTo, treeVars
  <2>6. CASE LoadLost(c) /\ UNCHANGED <<node, pos>>
    <3>1. 0 \in 0..2 /\ 1 \in 0..2 /\ 2 \in 0..2
      OBVIOUS
    <3> QED BY <2>6, <3>1 DEF LoadLost, CommitSwallowed, Advance
  <2> QED BY <2>1, <2>2, <2>3, <2>4, <2>5, <2>6
<1>2. /\ phase' \in [Clients -> 0..2]
      /\ at' \in [Clients -> {"new", "idle", "query", "exit", "exitRas", "gone"}]
      /\ \A d \in Clients : at'[d] = "query" => at[d] = "query"
  <2>1. phase' \in [Clients -> 0..2]
    BY <1>1
  <2>2. CASE at' = at
    BY <2>1, <2>2
  <2>3. CASE \E place \in {"idle", "exit", "exitRas", "gone"} : at' = [at EXCEPT ![c] = place]
    BY <2>1, <2>3
  <2> QED BY <1>1, <2>2, <2>3
<1>3. TreeInv'
  BY <1>1, <1>2, StaysInPlace
<1>4. DataInv'
  <2>1. CASE Numbers(c)
    BY <2>1 DEF Numbers, regVars
  <2>2. CASE LoadDrops(c)
    <3>1. /\ at[c] = "query" /\ Call(c) = "pgLoad"
          /\ maker' = [maker EXCEPT ![Own(c)] = Nobody] /\ rows' = [rows EXCEPT ![Own(c)] = {}]
          /\ numbered' = numbered \ {Own(c)} /\ hand' = [hand EXCEPT ![c] = InHand(c)]
          /\ UNCHANGED <<answer, hqlid, pgTemps, rmTemps, colls, overlap, swallowed, faults>>
      BY <2>2 DEF LoadDrops, Calling, Created, regVars
    <3>2. Arrays(c) \subseteq Ids
      BY <3>1, Now
    <3>3. InHand(c) \in SUBSET Clients
      BY <3>2 DEF InHand
    <3> QED BY <3>1, <3>3
  <2>3. CASE LoadCreates(c)
    <3>1. \/ UNCHANGED <<maker, rows>>
          \/ maker' = [maker EXCEPT ![Own(c)] = c] /\ rows' = [rows EXCEPT ![Own(c)] = {}]
      BY <2>3 DEF LoadCreates, Created
    <3> QED BY <2>3, <3>1 DEF LoadCreates, regVars
  <2>4. CASE AddsArrays(c)
    <3>1. /\ at[c] = "query"
          /\ colls' = [colls EXCEPT ![Own(c)] = @ \cup {c} \cup UNION {colls[r] : r \in Arrays(c)}]
          /\ UNCHANGED <<hand, answer, pgTemps, rmTemps, maker, rows, numbered, hqlid, overlap,
                         swallowed, faults>>
      BY <2>4 DEF AddsArrays, Calling, pgVars, regVars
    <3>2. Arrays(c) \subseteq Ids
      BY <3>1, Now
    <3>3. UNION {colls[r] : r \in Arrays(c)} \in SUBSET Clients
      BY <3>2
    <3> QED BY <3>1, <3>3
  <2>5. CASE QueryOk(c)
    BY <2>5 DEF QueryOk, DropsCollections, treeVars, pgVars
  <2>6. CASE CallRefused(c)
    BY <2>6 DEF CallRefused, Fails, HqlidAfterError, treeVars, regVars
  <2>7. CASE CallFails(c) \/ Killed(c)
    <3>1. faults' \in 0..MaxFaults
      BY <2>7, BoundsAssumption DEF CallFails, Killed
    <3> QED BY <2>7, <3>1 DEF CallFails, Killed, Fails, HqlidAfterError, treeVars, regVars
  <2>8. CASE ExitDropsTables(c)
    <3>1. /\ \/ UNCHANGED <<maker, rows, numbered>>
             \/ /\ maker' = [r \in Rels |-> IF r \in pgTemps[c] THEN Nobody ELSE maker[r]]
                /\ rows' = [r \in Rels |-> IF r \in pgTemps[c] THEN {} ELSE rows[r]]
                /\ numbered' = numbered \ pgTemps[c]
          /\ pgTemps' \in {pgTemps, [pgTemps EXCEPT ![c] = {}]}
          /\ UNCHANGED <<hand, answer, hqlid, rmTemps, colls, overlap, swallowed, faults>>
      BY <2>8 DEF ExitDropsTables, Dropped, treeVars
    <3> QED BY <3>1
  <2>9. CASE ExitDropsCollections(c)
    BY <2>9 DEF ExitDropsCollections, DropsCollections, treeVars, pgVars
  <2>10. CASE StartProgram(c)
    <3>1. overlap' \in {"no", "yes"}
      BY <2>10 DEF StartProgram
    <3> QED BY <2>10, <3>1 DEF StartProgram, treeVars, pgVars, regVars
  <2>11. CASE EndOfInput(c)
    BY <2>11 DEF EndOfInput, treeVars, pgVars, regVars
  <2>12. CASE LoadLost(c)
    BY <2>12, LostTypes DEF Lost
  <2> QED BY <2>1, <2>2, <2>3, <2>4, <2>5, <2>6, <2>7, <2>8, <2>9, <2>10, <2>11, <2>12
<1> QED BY <1>3, <1>4

LEMMA TypeInit == Init => TypeInv
<1> SUFFICES ASSUME Init PROVE TypeInv
  OBVIOUS
<1>1. PICK p \in menu : plan = [c \in Clients |-> p]
  BY DEF Init
<1>2. IsPlan(p) /\ 1 \in 1..Len(p)
  <2>1. IsPlan(p)
    BY MenusAssumption DEF Init
  <2> QED BY <2>1 DEF IsPlan
<1>3. 0 \in 0..MaxId /\ 0 \in 0..MaxFaults /\ 1 \in 1..6 /\ 0 \in 0..2
  BY BoundsAssumption
<1>4. TreeInv
  BY <1>1, <1>2, <1>3 DEF Init, TreeInv, All
<1>5. DataInv
  BY <1>3 DEF Init, DataInv, All, Rels
<1> QED BY <1>4, <1>5 DEF TypeInv

LEMMA TypeNext == TypeInv /\ [Next]_vars => TypeInv'
<1> SUFFICES ASSUME TypeInv, [Next]_vars PROVE TypeInv'
  OBVIOUS
<1>1. CASE UNCHANGED vars
  <2>1. TreeInv'
    BY <1>1, StaysInPlace DEF TypeInv, TreeInv, vars, treeVars
  <2> QED BY <1>1, <2>1 DEF TypeInv, DataInv, vars, treeVars, pgVars, regVars
<1>2. ASSUME NEW c \in Clients,
             \/ Step(c) \/ StartProgram(c) \/ StartQuery(c) \/ EndOfInput(c)
             \/ CallFails(c) \/ Killed(c) \/ Lost(c)
      PROVE  TypeInv'
  <2>1. AddsArrays(c) => Advance(c) \/ UNCHANGED <<node, pos, phase>>
    BY DEF AddsArrays
  <2>2. LoadLost(c) => Advance(c) \/ UNCHANGED <<node, pos>>
    BY DEF LoadLost
  <2> QED BY <1>2, <2>1, <2>2, StartTypes, CallTypes, OtherTypes DEF Step, Lost
<1> QED BY <1>1, <1>2 DEF Next, Lost

(* Type correctness, for any clients, queries, ids and faults.                        *)
THEOREM TypeCorrect == Spec => []TypeOK
<1>1. TypeInv => TypeOK
  BY DEF TypeInv, TreeInv, DataInv, TypeOK
<1> QED BY <1>1, TypeInit, TypeNext, PTL DEF Spec

(* After a swallowed commit nothing is known of who has made which table: but a SELECT      *)
(* INTO still makes a new one only, so that tables go at the exit of a client.            *)
LEMMA SwallowedKeeps ==
  ASSUME TypeInv, NoTheta, swallowed = "yes", NEW c \in Clients,
         \/ Step(c) \/ StartProgram(c) \/ StartQuery(c) \/ EndOfInput(c)
         \/ CallFails(c) \/ Killed(c) \/ Lost(c)
  PROVE  \A r \in Rels : Exists(r) => \/ maker'[r] = maker[r] /\ rows'[r] = rows[r]
                                      \/ at[c] = "exit" /\ at'[c] # "exit"
<1>1. CASE SelectsInto(c)
  <2>1. /\ at[c] = "query" /\ ~Exists(Own(c))
        /\ maker' = [maker EXCEPT ![Own(c)] = c]
        /\ rows' = [rows EXCEPT ![Own(c)] = RowsOf(c, Read(c))]
    BY <1>1 DEF SelectsInto, Calling, Legal, Created
  <2> QED BY <2>1 DEF TypeInv, DataInv
<1>2. CASE MakesTmp(c) \/ ClosesTmp(c) \/ LoadDrops(c) \/ LoadCreates(c) \/ LoadCopies(c)
  <2>1. at[c] = "query" /\ Call(c) \in {"tmpInto", "tmpClose", "pgLoad"}
    BY <1>2 DEF MakesTmp, ClosesTmp, LoadDrops, LoadCreates, LoadCopies, Calling
  <2>2. Kind(c) \in RelationalKinds
    <3>1. plan[c] \in menu /\ node[c] \in 1..Len(plan[c]) /\ Kind(c) = plan[c][node[c]].kind
      BY <2>1, Now DEF TypeInv, TreeInv
    <3> QED BY <3>1 DEF NoTheta
  <2>3. pos[c] \in 1..Len(Script[Kind(c)]) /\ Call(c) = Script[Kind(c)][pos[c]]
    BY <2>1, Now DEF Calls
  <2>4. Script[Kind(c)][pos[c]] \in {"pgInto", "pgReg", "pgNumber", "pgRead", "save", "rmRemove"}
    <3> DEFINE k == Kind(c)
               i == pos[c]
    <3>1. k \in RelationalKinds /\ i \in 1..Len(Script[k])
      BY <2>2, <2>3
    <3> HIDE DEF k, i
    <3>2. Len(Script[k]) \in {2, 3}
      BY <3>1, RelationalCalls
    <3>3. i = 1 \/ i > 1
      BY <3>1, <3>2
    <3>4. k = "finish" => i = 1 \/ i = 2 \/ i = 3
      <4> SUFFICES ASSUME k = "finish" PROVE i \in 1..3
        OBVIOUS
      <4>1. Script[k] = <<"pgRead", "save", "rmRemove">>
        BY <3>1, RelationalScripts
      <4> QED BY <3>1, <4>1
    <3>5. Script[k][i] \in {"pgInto", "pgReg", "pgNumber", "pgRead", "save", "rmRemove"}
      BY <3>1, <3>3, <3>4, RelationalCalls
    <3> QED BY <3>5 DEF k, i
  <2> QED BY <2>1, <2>3, <2>4
<1>3. CASE ExitDropsTables(c)
  <2>1. at[c] = "exit" /\ at'[c] # "exit"
    BY <1>3 DEF ExitDropsTables, GoesTo, TypeInv, TreeInv
  <2> QED BY <2>1
<1>4. CASE \/ Registers(c) \/ Numbers(c) \/ NumbersCommits(c) \/ AddsArrays(c) \/ LoopIsOver(c)
           \/ RmRegisters(c) \/ ReadsCollection(c) \/ ReadsAnswer(c) \/ Saves(c) \/ QueryOk(c)
           \/ CallRefused(c) \/ ExitDropsCollections(c) \/ StartProgram(c) \/ StartQuery(c)
           \/ EndOfInput(c) \/ CallFails(c) \/ Killed(c) \/ Lost(c)
  <2>1. UNCHANGED <<maker, rows>>
    BY <1>4 DEF Registers, Numbers, NumbersCommits, AddsArrays, LoopIsOver, RmRegisters,
                ReadsCollection, ReadsAnswer, Saves, QueryOk, CallRefused, ExitDropsCollections,
                StartProgram, StartQuery, EndOfInput, CallFails, Killed, Fails, Lost, CreateLost,
                NumbersLost, LoadLost, CommitSwallowed, pgVars
  <2> QED BY <2>1
<1> QED BY <1>1, <1>2, <1>3, <1>4 DEF Step

(* Among such queries a table is removed or replaced by the client that has made it only, at  *)
(* its exit; after a swallowed commit by the exit of a client, but never by a query.       *)
THEOREM MakerRemoves == Spec => OnlyMakerRemoves
<1>1. IInv /\ TypeInv /\ [Next]_vars =>
        [NoTheta => \A r \in Rels : Exists(r) =>
           \/ maker'[r] = maker[r] /\ rows'[r] = rows[r]
           \/ at[maker[r]] = "exit"
           \/ swallowed = "yes" /\ \E c \in Clients : at[c] = "exit" /\ at'[c] # "exit"]_vars
  <2> SUFFICES ASSUME IInv, TypeInv, Next, NoTheta, NEW r \in Rels, Exists(r)
               PROVE  \/ maker'[r] = maker[r] /\ rows'[r] = rows[r]
                      \/ at[maker[r]] = "exit"
                      \/ swallowed = "yes" /\ \E c \in Clients : at[c] = "exit" /\ at'[c] # "exit"
    OBVIOUS
  <2>1. CASE swallowed = "no"
    BY <2>1, NextInv
  <2>2. CASE swallowed # "no"
    <3>1. swallowed = "yes"
      BY <2>2 DEF TypeInv, DataInv
    <3>2. PICK c \in Clients :
            \/ Step(c) \/ StartProgram(c) \/ StartQuery(c) \/ EndOfInput(c)
            \/ CallFails(c) \/ Killed(c) \/ Lost(c)
      BY DEF Next, Lost
    <3> QED BY <3>1, <3>2, SwallowedKeeps
  <2> QED BY <2>1, <2>2
<1>2. IInv /\ [Next]_vars => IInv'
  BY NextInv
<1> QED BY <1>1, <1>2, InitInv, TypeInit, TypeNext, PTL DEF Spec, OnlyMakerRemoves

-----------------------------------------------------------------------------
(* Programs that run one after the other.  A table that a client has made is in its      *)
(* registry, or its next call is the one that registers it; so is a collection.        *)
Alone ==
  /\ overlap = "no" /\ faults = 0
  /\ \A p \in menu : \A n \in 1..Len(p) : p[n].kind # "function1"
Active(c) == at[c] \notin {"new", "gone"}

TableOpen(c, i) ==
  /\ at[c] = "query" /\ i = Own(c)
  /\ Call(c) = "pgReg" \/ (Call(c) = "pgLoad" /\ phase[c] = 2)
CollectionOpen(c, i) ==
  /\ at[c] = "query" /\ i = Own(c)
  /\ Call(c) \in {"rmInto", "rmRead", "rmReg"} /\ ~Did(Kind(c), pos[c], {"rmReg"})

(* There is a table tmp, for the condition of a theta join.                        *)
OwnsTmp(c) ==
  \/ InTheta(plan[c], node[c]) /\ ~(Kind(c) = "thetaClose" /\ pos[c] > 1)
  \/ Kind(c) = "thetaOpen" /\ pos[c] > 1

(* The registries do not name what the current node is still to make.                  *)
Fresh(c) ==
  /\ \A i \in pgTemps[c] :
       /\ i <= base[c] + node[c]
       /\ i = base[c] + node[c] => Did(Kind(c), pos[c], {"pgReg", "pgLoad"})
  /\ \A i \in rmTemps[c] :
       /\ i <= base[c] + node[c]
       /\ i = base[c] + node[c] => Did(Kind(c), pos[c], {"rmReg"})

(* Between the transactions of a call.                                          *)
PhaseInv(c) ==
  /\ phase[c] = 1 => Call(c) \in {"pgLoad", "pgNumber"}
  /\ phase[c] = 2 => Call(c) = "pgLoad" /\ maker[Own(c)] = c
  /\ Call(c) = "pgLoad" /\ phase[c] # 0 => Own(c) \notin numbered

(* rasdaman adds the arrays of one row after the other: what the first needed is there    *)
(* for the next.                                                            *)
QueryInv(c) ==
  /\ Fresh(c) /\ PhaseInv(c)
  /\ Did(Kind(c), pos[c], Makes) => maker[Own(c)] = c
  /\ OwnsTmp(c) => maker[Tmp] = c
  /\ Call(c) = "rmInto" /\ colls[Own(c)] # {} => Legal(c)

TablesOf(c) ==
  \A i \in Ids : /\ maker[i] \in {c, Nobody}
                 /\ maker[i] = c => i \in pgTemps[c] \/ TableOpen(c, i)
CollsOf(c) ==
  \A i \in Ids : /\ colls[i] \subseteq {c}
                 /\ colls[i] # {} => i \in rmTemps[c] \/ CollectionOpen(c, i)
RegistersOf(c) ==
  /\ \A i \in pgTemps[c] : maker[i] = c /\ i <= idCounter[c]
  /\ \A i \in rmTemps[c] : i <= idCounter[c]
  /\ at[c] = "exitRas" => pgTemps[c] = {}
Turn(c) ==
  /\ TablesOf(c) /\ CollsOf(c) /\ RegistersOf(c)
  /\ at[c] = "query" => QueryInv(c)

(* One client has its turn, and sees what it has made; between two turns there is         *)
(* nothing.                                                                  *)
OneTurn == \A c, d \in Clients : Active(c) /\ Active(d) => c = d
Nothing == (\A c \in Clients : ~Active(c)) => \A i \in Ids : maker[i] = Nobody /\ colls[i] = {}
Waiting == \A c \in Clients : ~Active(c) => pgTemps[c] = {} /\ rmTemps[c] = {}
OwnRows ==
  /\ \A r \in Rels : rows[r] \subseteq {maker[r]}
  /\ \A c \in Clients : hand[c] \subseteq {c} /\ answer[c] \subseteq {c}
Turns ==
  /\ OneTurn /\ Nothing /\ Waiting /\ OwnRows
  /\ \A c \in Clients : Active(c) => Turn(c)

TurnsInv == TypeInv /\ (Alone => Turns)

-----------------------------------------------------------------------------
LEMMA DidNext ==
  ASSUME NEW k, NEW i \in Nat \ {0}, NEW calls
  PROVE  /\ ~Did(k, 1, calls)
         /\ Did(k, i + 1, calls) <=> Did(k, i, calls) \/ Script[k][i] \in calls
BY DEF Did

LEMMA ThetaNext ==
  ASSUME NEW p \in Seq(Nodes), NEW n \in Nat \ {0}, InTheta(p, n + 1)
  PROVE  \/ p[n].kind = "thetaOpen"
         \/ InTheta(p, n) /\ p[n].kind # "thetaClose"
<1>1. PICK m \in 1..n : /\ p[m].kind = "thetaOpen"
                        /\ \A k \in (m + 1)..n : p[k].kind # "thetaClose"
  BY DEF InTheta
<1>2. CASE m = n
  BY <1>1, <1>2
<1>3. CASE m # n
  <2>1. m \in 1..(n - 1) /\ n \in (m + 1)..n /\ \A k \in (m + 1)..(n - 1) : k \in (m + 1)..n
    BY <1>1, <1>3
  <2> QED BY <1>1, <2>1 DEF InTheta
<1> QED BY <1>2, <1>3

(* A client in its turn reads its own tables and arrays only.                         *)
LEMMA ReadsOwn ==
  ASSUME TypeInv, Alone, Turns, NEW c \in Clients, at[c] = "query", pos[c] = 1
  PROVE  /\ RowsOf(c, Read(c)) \subseteq {c}
         /\ Kind(c) = "thetaClose" => RowsOf(c, {Tmp} \cup Read(c)) \subseteq {c}
<1>1. Active(c) /\ Turn(c) /\ QueryInv(c)
  BY DEF Turns, Active, Turn
<1>2. ASSUME NEW r \in Ids PROVE rows[r] \subseteq {c}
  <2>1. r \in Rels /\ rows[r] \subseteq {maker[r]} /\ maker[r] \in {c, Nobody} /\ rows[r] \subseteq Clients
    BY <1>1, <1>2 DEF Turns, OwnRows, Turn, TablesOf, Rels, TypeInv, DataInv
  <2> QED BY <2>1, ClientsAssumption
<1>3. ASSUME InTheta(plan[c], node[c]) PROVE rows[Tmp] \subseteq {c}
  <2>1. maker[Tmp] = c
    BY <1>1, <1>3, Now DEF QueryInv, OwnsTmp
  <2> QED BY <2>1 DEF Turns, OwnRows, Rels
<1>4. \A n \in Current(c).reads : rows[Rel(c, n)] \subseteq {c}
  <2> SUFFICES ASSUME NEW n \in Current(c).reads PROVE rows[Rel(c, n)] \subseteq {c}
    OBVIOUS
  <2>1. CASE n = 0
    <3>1. InTheta(plan[c], node[c])
      BY <2>1, Now DEF FormsTree, Current
    <3> QED BY <1>3, <2>1, <3>1 DEF Rel
  <2>2. CASE n # 0
    <3>1. Rel(c, n) \in Ids
      BY <2>2, Now DEF Rel, Ids
    <3> QED BY <1>2, <3>1
  <2> QED BY <2>1, <2>2
<1>5. \A r \in Read(c) : rows[r] \subseteq {c}
  BY <1>4 DEF Read
<1>6. Kind(c) = "thetaClose" => rows[Tmp] \subseteq {c}
  <2>1. Kind(c) = "thetaClose" => InTheta(plan[c], node[c])
    BY Now DEF FormsTree
  <2> QED BY <1>3, <2>1
<1> QED BY <1>5, <1>6 DEF RowsOf

LEMMA HoldsOwn ==
  ASSUME TypeInv, Turns, NEW c \in Clients, at[c] = "query"
  PROVE  /\ UNION {colls[r] : r \in Arrays(c)} \subseteq {c}
         /\ InHand(c) \subseteq {c}
<1>1. CollsOf(c)
  BY DEF Turns, Active, Turn
<1>2. Arrays(c) \subseteq Ids
  BY Now
<1>3. UNION {colls[r] : r \in Arrays(c)} \subseteq {c}
  BY <1>1, <1>2 DEF CollsOf
<1> QED BY <1>3 DEF InHand, Turns, OwnRows

(* The others wait while a client has its turn.                                    *)
LEMMA OthersWait ==
  ASSUME Turns, NEW c \in Clients, Active(c)
  PROVE  \A d \in Clients : d # c => ~Active(d) /\ pgTemps[d] = {} /\ rmTemps[d] = {}
BY DEF Turns, OneTurn, Waiting

(* What has to be shown of a step that goes on with the turn of c.                       *)
LEMMA TurnGoesOn ==
  ASSUME TypeInv, Turns, NEW c \in Clients, Active(c),
         Active(c)' => Turn(c)',
         ~Active(c)' => /\ pgTemps'[c] = {} /\ rmTemps'[c] = {}
                        /\ \A i \in Ids : maker'[i] = Nobody /\ colls'[i] = {},
         \A d \in Clients : d # c => at'[d] = at[d] /\ pgTemps'[d] = pgTemps[d] /\ rmTemps'[d] = rmTemps[d],
         OwnRows'
  PROVE  Turns'
<1>1. \A d \in Clients : d # c => ~Active(d)' /\ pgTemps'[d] = {} /\ rmTemps'[d] = {}
  BY OthersWait DEF Active
<1>2. OneTurn' /\ Waiting' /\ Nothing'
  BY <1>1 DEF OneTurn, Waiting, Nothing
<1> QED BY <1>1, <1>2 DEF Turns

(* A call that returns: what it makes is open or registered, and the next one finds what   *)
(* it needs.                                                                 *)
LEMMA TurnAdvances ==
  ASSUME TypeInv, TypeInv', Alone, Turns, NEW c \in Clients, at[c] = "query",
         UNCHANGED <<menu, at, plan, base, idCounter>>,
         phase'[c] = 0, Within(c) \/ Over(c),
         Call(c) = "pgLoad" => phase[c] = 2,
         pgTemps'[c] = pgTemps[c] \cup (IF Call(c) \in {"pgReg", "pgLoad"} THEN {Own(c)} ELSE {}),
         rmTemps'[c] = rmTemps[c] \cup (IF Call(c) = "rmReg" THEN {Own(c)} ELSE {}),
         \A d \in Clients : d # c => pgTemps'[d] = pgTemps[d] /\ rmTemps'[d] = rmTemps[d],
         \A i \in Ids : maker'[i] = IF i = Own(c) /\ Call(c) \in {"pgInto", "tmpClose"} THEN c ELSE maker[i],
         maker'[Tmp] = CASE Call(c) = "tmpInto" -> c
                         [] Call(c) = "tmpClose" -> Nobody
                         [] OTHER -> maker[Tmp],
         \A i \in Ids : colls'[i] = colls[i] \/ (i = Own(c) /\ Call(c) = "rmInto" /\ colls'[i] \subseteq {c}),
         OwnRows'
  PROVE  Turns'
<1> DEFINE k == Kind(c)
           j == base[c] + node[c]
<1>1. /\ Active(c) /\ TablesOf(c) /\ CollsOf(c) /\ RegistersOf(c) /\ Fresh(c) /\ PhaseInv(c)
      /\ Did(k, pos[c], Makes) => maker[Own(c)] = c
      /\ OwnsTmp(c) => maker[Tmp] = c
  BY DEF Turns, Active, Turn, QueryInv
<1>2. k # "function1"
  <2>1. k = plan[c][node[c]].kind /\ node[c] \in 1..Len(plan[c])
    BY Now
  <2>2. plan[c] \in menu
    BY DEF TypeInv, TreeInv
  <2> QED BY <2>1, <2>2 DEF Alone
<1>3. CallFacts(k, pos[c]) /\ k \in DOMAIN Script /\ Call(c) = Script[k][pos[c]]
      /\ pos[c] \in Nat \ {0} /\ pos[c] \in 1..Calls(k) /\ Calls(k) \in 1..6
      /\ j \in Ids /\ j \in Nat /\ Own(c) \in {Tmp, j} /\ Tmp \notin Ids /\ j <= idCounter[c]
      /\ (k = "thetaOpen" => Own(c) = Tmp) /\ (k # "thetaOpen" => Own(c) = j)
      /\ node[c] \in Nat \ {0} /\ base[c] \in Nat /\ node[c] \in 1..Len(plan[c]) /\ Len(plan[c]) \in Nat
      /\ base[c] + Len(plan[c]) <= MaxId /\ MaxId \in Nat
      /\ plan[c] \in Seq(Nodes)
  BY Now DEF Ids, IsPlan
<1> HIDE DEF k, j
<1>4. at'[c] = "query" /\ Active(c)'
  BY DEF Active
<1>5. maker[Own(c)] = c \/ Call(c) \notin {"pgReg", "pgLoad"}
  <2>1. CASE Call(c) = "pgReg"
    BY <1>1, <1>3, <2>1 DEF CallFacts
  <2>2. CASE Call(c) = "pgLoad"
    BY <1>1, <2>2 DEF PhaseInv
  <2> QED BY <2>1, <2>2
<1>6. pgTemps[c] \subseteq Ids /\ rmTemps[c] \subseteq Ids /\ Ids \subseteq Nat
  BY DEF TypeInv, DataInv, Ids
<1>7. Call(c) \in {"pgInto", "tmpClose", "pgReg", "pgLoad", "rmInto", "rmRead", "rmReg"}
        => k # "thetaOpen" /\ Own(c) = j
  BY <1>3 DEF CallFacts
<1>8. RegistersOf(c)'
  <2>1. ASSUME NEW i \in pgTemps'[c] PROVE maker'[i] = c /\ i <= idCounter[c]
    <3>1. CASE i \in pgTemps[c]
      <4>1. i \in Ids /\ maker[i] = c /\ i <= idCounter[c]
        BY <1>1, <1>6, <3>1 DEF RegistersOf
      <4> QED BY <4>1
    <3>2. CASE i = Own(c) /\ Call(c) \in {"pgReg", "pgLoad"}
      <4>1. i = j /\ i \in Ids
        BY <1>3, <1>7, <3>2
      <4>2. maker'[i] = c
        BY <1>5, <3>2, <4>1
      <4> QED BY <1>3, <4>1, <4>2
    <3> QED BY <2>1, <3>1, <3>2
  <2>2. ASSUME NEW i \in rmTemps'[c] PROVE i <= idCounter[c]
    <3>1. CASE i \in rmTemps[c]
      BY <1>1, <3>1 DEF RegistersOf
    <3>2. CASE i = Own(c) /\ Call(c) = "rmReg"
      BY <1>3, <1>7, <3>2
    <3> QED BY <2>2, <3>1, <3>2
  <2> QED BY <1>4, <2>1, <2>2 DEF RegistersOf
<1>9. CASE Within(c)
  <2>1. /\ pos'[c] = pos[c] + 1 /\ node'[c] = node[c] /\ pos[c] < Calls(k)
        /\ Kind(c)' = k /\ Own(c)' = Own(c) /\ Call(c)' = Script[k][pos[c] + 1]
    BY <1>9 DEF Within, k
  <2>2. \A calls : Did(Kind(c)', pos'[c], calls) <=> Did(k, pos[c], calls) \/ Call(c) \in calls
    BY <1>3, <2>1, DidNext
  <2>3. CallFacts(k, pos[c] + 1) /\ pos[c] + 1 > 1
    BY <1>3, <2>1, ScriptFacts
  <2>4. Call(c)' \notin {"rmInto"}
    BY <2>1, <2>3 DEF CallFacts
  <2>5. TablesOf(c)'
    <3> SUFFICES ASSUME NEW i \in Ids
                 PROVE  /\ maker'[i] \in {c, Nobody}
                        /\ maker'[i] = c => i \in pgTemps'[c] \/ TableOpen(c, i)'
      BY DEF TablesOf
    <3>1. maker'[i] \in {c, Nobody}
      BY <1>1 DEF TablesOf
    <3>2. CASE i = Own(c) /\ Call(c) \in {"pgInto", "tmpClose"}
      <4>1. Call(c)' = "pgReg"
        BY <1>3, <2>1, <3>2 DEF CallFacts
      <4> QED BY <1>4, <2>1, <3>1, <3>2, <4>1 DEF TableOpen
    <3>3. CASE ~(i = Own(c) /\ Call(c) \in {"pgInto", "tmpClose"})
      BY <1>1, <3>1, <3>3 DEF TablesOf, TableOpen
    <3> QED BY <3>2, <3>3
  <2>6. CollsOf(c)'
    <3> SUFFICES ASSUME NEW i \in Ids
                 PROVE  /\ colls'[i] \subseteq {c}
                        /\ colls'[i] # {} => i \in rmTemps'[c] \/ CollectionOpen(c, i)'
      BY DEF CollsOf
    <3>1. colls'[i] \subseteq {c}
      BY <1>1 DEF CollsOf
    <3>2. CASE i = Own(c) /\ Call(c) = "rmInto"
      <4>1. Call(c)' \in {"rmRead", "rmReg"} /\ pos[c] = 1
        BY <1>2, <1>3, <2>1, <3>2 DEF CallFacts
      <4>2. ~Did(Kind(c)', pos'[c], {"rmReg"})
        <5>1. ~Did(k, pos[c], {"rmReg"})
          BY <4>1 DEF Did
        <5> QED BY <2>2, <3>2, <5>1
      <4> QED BY <1>4, <2>1, <3>1, <3>2, <4>1, <4>2 DEF CollectionOpen
    <3>3. CASE CollectionOpen(c, i) /\ Call(c) = "rmRead"
      <4>1. ~Did(k, pos[c], {"rmReg"})
        BY <3>3 DEF CollectionOpen, k
      <4>2. Call(c)' = "rmReg"
        BY <1>2, <1>3, <2>1, <3>3, <4>1 DEF CallFacts
      <4>3. ~Did(Kind(c)', pos'[c], {"rmReg"})
        BY <2>2, <3>3, <4>1
      <4> QED BY <1>4, <2>1, <3>1, <3>3, <4>2, <4>3 DEF CollectionOpen
    <3>4. CASE ~(i = Own(c) /\ Call(c) = "rmInto") /\ ~(CollectionOpen(c, i) /\ Call(c) = "rmRead")
      <4>1. colls'[i] = colls[i]
        BY <3>4
      <4>2. CollectionOpen(c, i) => i = Own(c) /\ Call(c) = "rmReg"
        BY <3>4 DEF CollectionOpen
      <4> QED BY <1>1, <3>1, <4>1, <4>2 DEF CollsOf
    <3> QED BY <3>2, <3>3, <3>4
  <2>7. Fresh(c)'
    <3>1. base'[c] + node'[c] = j
      BY <2>1 DEF j
    <3>2. \A i \in pgTemps'[c] : /\ i <= j
                                 /\ i = j => Did(Kind(c)', pos'[c], {"pgReg", "pgLoad"})
      <4>1. \A i \in pgTemps[c] : i <= j /\ (i = j => Did(k, pos[c], {"pgReg", "pgLoad"}))
        BY <1>1 DEF Fresh, j, k
      <4> QED BY <1>3, <1>7, <2>2, <4>1
    <3>3. \A i \in rmTemps'[c] : /\ i <= j
                                 /\ i = j => Did(Kind(c)', pos'[c], {"rmReg"})
      <4>1. \A i \in rmTemps[c] : i <= j /\ (i = j => Did(k, pos[c], {"rmReg"}))
        BY <1>1 DEF Fresh, j, k
      <4> QED BY <1>3, <1>7, <2>2, <4>1
    <3> QED BY <3>1, <3>2, <3>3 DEF Fresh
  <2>8. Did(Kind(c)', pos'[c], Makes) => maker'[Own(c)'] = c
    <3>1. CASE Call(c) \in {"pgInto", "tmpClose"}
      BY <1>3, <1>7, <2>1, <3>1
    <3>2. CASE Call(c) = "pgLoad"
      BY <1>3, <1>5, <1>7, <2>1, <3>2
    <3>3. CASE Call(c) \notin Makes /\ Did(k, pos[c], Makes)
      <4>1. maker[Own(c)] = c /\ Call(c) # "tmpClose" /\ Call(c) # "pgInto"
        BY <1>1, <3>3 DEF Makes
      <4>2. k # "thetaOpen"
        <5>1. k = "thetaOpen" => Script[k] = <<"tmpInto", "pgNumber">>
          BY <1>3, TenScripts
        <5> QED BY <1>3, <3>3, <5>1 DEF Did, Makes, Calls
      <4>3. Own(c) \in Ids
        BY <1>3, <4>2
      <4> QED BY <2>1, <4>1, <4>3
    <3> QED BY <2>2, <3>1, <3>2, <3>3 DEF Makes
  <2>9. OwnsTmp(c)' => maker'[Tmp] = c
    <3> SUFFICES ASSUME OwnsTmp(c)' PROVE maker'[Tmp] = c
      OBVIOUS
    <3>1. k = "thetaOpen" \/ (InTheta(plan[c], node[c]) /\ k # "thetaClose")
      <4>1. pos'[c] > 1
        BY <2>1, <2>3
      <4> QED BY <2>1, <4>1 DEF OwnsTmp
    <3>2. Call(c) # "tmpClose"
      BY <1>3, <3>1 DEF CallFacts
    <3>3. Call(c) = "tmpInto" \/ OwnsTmp(c)
      <4>1. k = "thetaOpen" => Call(c) = "tmpInto" \/ pos[c] > 1
        BY <1>3 DEF CallFacts
      <4> QED BY <3>1, <4>1 DEF OwnsTmp, k
    <3> QED BY <1>1, <3>2, <3>3
  <2>10. PhaseInv(c)'
    BY DEF PhaseInv
  <2>11. QueryInv(c)'
    BY <2>4, <2>7, <2>8, <2>9, <2>10 DEF QueryInv
  <2>12. Turn(c)'
    BY <1>8, <2>5, <2>6, <2>11 DEF Turn
  <2> QED BY <1>1, <1>4, <2>12, TurnGoesOn
<1>10. CASE Over(c)
  <2>1. /\ pos'[c] = 1 /\ node'[c] = node[c] + 1 /\ pos[c] = Calls(k)
        /\ node[c] < Len(plan[c]) /\ Current(c)' = plan[c][node[c] + 1]
    BY <1>10 DEF Over, k
  <2>2. \A calls : ~Did(Kind(c)', pos'[c], calls)
    BY <2>1 DEF Did
  <2>3. base'[c] + node'[c] = j + 1 /\ j + 1 \in Ids /\ j + 1 # j
    <3>1. /\ base'[c] = base[c] /\ node'[c] = node[c] + 1 /\ node[c] + 1 <= Len(plan[c])
          /\ base[c] \in Nat /\ node[c] \in Nat /\ Len(plan[c]) \in Nat /\ MaxId \in Nat
          /\ base[c] + Len(plan[c]) <= MaxId
      <4>1. base'[c] = base[c] /\ node'[c] = node[c] + 1 /\ node[c] < Len(plan[c])
        BY <2>1
      <4> QED BY ONLY <1>3, <4>1
    <3>2. base[c] + (node[c] + 1) = j + 1 /\ j + 1 \in 1..MaxId /\ j + 1 # j
      BY ONLY <3>1 DEF j
    <3> QED BY <3>1, <3>2 DEF Ids
  <2>4. Call(c) \notin {"pgInto", "tmpClose", "rmInto"}
    BY <1>2, <1>3, <2>1 DEF CallFacts
  <2>5. ~(\E i \in Ids : CollectionOpen(c, i)) \/ Call(c) = "rmReg"
    <3>1. ASSUME NEW i \in Ids, CollectionOpen(c, i), Call(c) = "rmRead" PROVE FALSE
      <4>1. ~Did(k, pos[c], {"rmReg"})
        BY <3>1 DEF CollectionOpen, k
      <4> QED BY <1>2, <1>3, <2>1, <3>1, <4>1 DEF CallFacts
    <3> QED BY <2>4, <3>1 DEF CollectionOpen
  <2>6. TablesOf(c)'
    BY <1>1, <2>4 DEF TablesOf, TableOpen
  <2>7. CollsOf(c)'
    <3> SUFFICES ASSUME NEW i \in Ids
                 PROVE  /\ colls'[i] \subseteq {c}
                        /\ colls'[i] # {} => i \in rmTemps'[c]
      BY DEF CollsOf
    <3>1. colls'[i] = colls[i]
      BY <2>4
    <3>2. CollectionOpen(c, i) => i \in rmTemps'[c]
      BY <2>5 DEF CollectionOpen
    <3> QED BY <1>1, <3>1, <3>2 DEF CollsOf
  <2>8. \A i \in pgTemps'[c] \cup rmTemps'[c] : i <= j
    <3>1. \A i \in pgTemps[c] \cup rmTemps[c] : i <= j
      BY <1>1 DEF Fresh, j
    <3> QED BY <1>3, <1>7, <3>1
  <2>9. Fresh(c)'
    <3>1. \A i \in pgTemps'[c] \cup rmTemps'[c] : i <= j + 1 /\ i # j + 1
      <4>1. pgTemps'[c] \cup rmTemps'[c] \subseteq Nat
        BY <1>3, <1>6, <1>7
      <4>2. j \in Nat
        BY <1>3
      <4>3. \A i \in Nat : i <= j => i <= j + 1 /\ i # j + 1
        BY <4>2
      <4> QED BY <2>8, <4>1, <4>3
    <3> QED BY <2>3, <3>1 DEF Fresh
  <2>10. OwnsTmp(c)' => maker'[Tmp] = c
    <3> SUFFICES ASSUME OwnsTmp(c)' PROVE maker'[Tmp] = c
      OBVIOUS
    <3>1. InTheta(plan[c], node[c] + 1)
      BY <2>1 DEF OwnsTmp
    <3>2. k = plan[c][node[c]].kind
      BY Now DEF k
    <3>3. k = "thetaOpen" \/ (InTheta(plan[c], node[c]) /\ k # "thetaClose")
      BY <1>3, <3>1, <3>2, ThetaNext
    <3>4. Call(c) = "tmpInto" \/ OwnsTmp(c)
      <4>1. k = "thetaOpen" => Call(c) = "tmpInto" \/ pos[c] > 1
        BY <1>3 DEF CallFacts
      <4> QED BY <3>3, <4>1 DEF OwnsTmp, k
    <3> QED BY <1>1, <2>4, <3>4
  <2>11. PhaseInv(c)'
    BY DEF PhaseInv
  <2>12. Call(c)' = "rmInto" => colls'[Own(c)'] = {}
    <3> SUFFICES ASSUME Call(c)' = "rmInto" PROVE colls'[Own(c)'] = {}
      OBVIOUS
    <3>1. Own(c)' = j + 1
      <4>1. plan[c][node[c] + 1] \in Nodes
        BY <1>3, <2>1
      <4>2. Kind(c)' \in DOMAIN Script
        BY <2>1, <4>1 DEF Kind, Nodes
      <4>3. CallFacts(Kind(c)', 1)
        <5>1. Calls(Kind(c)') \in 1..6 /\ \A i \in 1..Calls(Kind(c)') : CallFacts(Kind(c)', i)
          BY <4>2, ScriptFacts
        <5> QED BY <5>1
      <4>4. Call(c)' = Script[Kind(c)'][1]
        BY <2>1 DEF Call, Kind
      <4>5. Kind(c)' # "thetaOpen"
        BY <4>3, <4>4 DEF CallFacts
      <4> QED BY <2>3, <4>5 DEF Own, Kind
    <3>2. j + 1 \notin rmTemps[c]
      <4>1. j \in Nat /\ ~(j + 1 <= j)
        BY <1>3
      <4> QED BY <2>8, <4>1
    <3>3. ~CollectionOpen(c, j + 1) /\ colls'[j + 1] = colls[j + 1]
      BY <1>3, <2>3, <2>4 DEF CollectionOpen
    <3> QED BY <1>1, <2>3, <3>1, <3>2, <3>3 DEF CollsOf
  <2>13. QueryInv(c)'
    BY <2>2, <2>9, <2>10, <2>11, <2>12 DEF QueryInv
  <2>14. Turn(c)'
    BY <1>8, <2>6, <2>7, <2>13 DEF Turn
  <2> QED BY <1>1, <1>4, <2>14, TurnGoesOn
<1> QED BY <1>9, <1>10

LEMMA CallTurns ==
  ASSUME TypeInv, TypeInv', Alone, Turns, NEW c \in Clients,
         \/ SelectsInto(c) \/ MakesTmp(c) \/ ClosesTmp(c) \/ Registers(c) \/ NumbersCommits(c)
         \/ LoadCopies(c) \/ (AddsArrays(c) /\ Advance(c)) \/ RmRegisters(c)
         \/ ReadsCollection(c) \/ ReadsAnswer(c) \/ Saves(c) \/ LoopIsOver(c)
  PROVE  Turns'
<1>1. /\ at[c] = "query" /\ UNCHANGED <<menu, at, plan, base, idCounter>>
      /\ phase'[c] = 0 /\ (Within(c) \/ Over(c))
  BY CallTypes
<1>2. /\ Own(c) \in Rels /\ Tmp \in Rels /\ Tmp \notin Ids /\ Ids \subseteq Rels
      /\ CallFacts(Kind(c), pos[c]) /\ Call(c) = Script[Kind(c)][pos[c]] /\ pos[c] \in Nat \ {0}
      /\ Kind(c) = "thetaOpen" => Own(c) = Tmp
  BY <1>1, Now DEF Rels
<1>3. /\ maker \in [Rels -> Clients \cup {Nobody}] /\ rows \in [Rels -> SUBSET Clients]
      /\ hand \in [Clients -> SUBSET Clients] /\ answer \in [Clients -> SUBSET Clients]
      /\ pgTemps \in [Clients -> SUBSET Ids] /\ rmTemps \in [Clients -> SUBSET Ids]
      /\ colls \in [Ids -> SUBSET Clients]
  BY DEF TypeInv, DataInv
<1>4. /\ \A r \in Rels : rows[r] \subseteq {maker[r]}
      /\ \A d \in Clients : hand[d] \subseteq {d} /\ answer[d] \subseteq {d}
      /\ CollsOf(c) /\ PhaseInv(c)
  BY <1>1 DEF Turns, OwnRows, Active, Turn, QueryInv
<1>5. pos[c] = 1 => /\ RowsOf(c, Read(c)) \subseteq {c}
                    /\ Kind(c) = "thetaClose" => RowsOf(c, {Tmp} \cup Read(c)) \subseteq {c}
  BY <1>1, ReadsOwn
<1>6. CASE SelectsInto(c)
  <2>1. /\ Call(c) = "pgInto" /\ maker' = [maker EXCEPT ![Own(c)] = c]
        /\ rows' = [rows EXCEPT ![Own(c)] = RowsOf(c, Read(c))]
        /\ UNCHANGED <<hand, answer, pgTemps, rmTemps, colls>>
    BY <1>6 DEF SelectsInto, Calling, Created, regVars
  <2>2. pos[c] = 1 /\ Own(c) # Tmp
    BY <1>1, <1>2, <2>1, OwnIds DEF CallFacts
  <2>3. OwnRows'
    BY <1>2, <1>3, <1>4, <1>5, <2>1, <2>2 DEF OwnRows
  <2> QED BY <1>1, <1>2, <1>3, <2>1, <2>2, <2>3, TurnAdvances
<1>7. CASE MakesTmp(c)
  <2>1. /\ Call(c) = "tmpInto" /\ maker' = [maker EXCEPT ![Tmp] = c]
        /\ rows' = [rows EXCEPT ![Tmp] = RowsOf(c, Read(c))]
        /\ UNCHANGED <<hand, answer, pgTemps, rmTemps, colls>>
    BY <1>7 DEF MakesTmp, Calling, Created, regVars
  <2>2. pos[c] = 1
    BY <1>2, <2>1 DEF CallFacts
  <2>3. OwnRows'
    BY <1>2, <1>3, <1>4, <1>5, <2>1, <2>2 DEF OwnRows
  <2>4. (\A i \in Ids : maker'[i] = maker[i]) /\ maker'[Tmp] = c
    BY <1>2, <1>3, <2>1
  <2> QED BY <1>1, <1>3, <2>1, <2>3, <2>4, TurnAdvances
<1>8. CASE ClosesTmp(c)
  <2>1. /\ Call(c) = "tmpClose" /\ maker' = [maker EXCEPT ![Own(c)] = c, ![Tmp] = Nobody]
        /\ rows' = [rows EXCEPT ![Own(c)] = RowsOf(c, {Tmp} \cup Read(c)), ![Tmp] = {}]
        /\ UNCHANGED <<hand, answer, pgTemps, rmTemps, colls>>
    BY <1>8 DEF ClosesTmp, Calling, regVars
  <2>2. pos[c] = 1 /\ Own(c) # Tmp /\ Own(c) \in Ids /\ Kind(c) = "thetaClose"
    BY <1>1, <1>2, <2>1, OwnIds DEF CallFacts
  <2>3. \A r \in Rels : /\ r \notin {Own(c), Tmp} => maker'[r] = maker[r] /\ rows'[r] = rows[r]
                        /\ r = Own(c) => maker'[r] = c /\ rows'[r] \subseteq {c}
                        /\ r = Tmp => maker'[r] = Nobody /\ rows'[r] = {}
    BY <1>2, <1>3, <1>5, <2>1, <2>2
  <2>4. OwnRows'
    BY <1>4, <2>1, <2>3 DEF OwnRows
  <2>5. /\ \A i \in Ids : maker'[i] = IF i = Own(c) THEN c ELSE maker[i]
        /\ maker'[Tmp] = Nobody
    BY <1>2, <2>3
  <2> QED BY <1>1, <1>3, <2>1, <2>4, <2>5, TurnAdvances
<1>9. CASE Registers(c)
  <2>1. /\ Call(c) = "pgReg" /\ pgTemps' = [pgTemps EXCEPT ![c] = @ \cup {Own(c)}]
        /\ UNCHANGED <<maker, rows, hand, answer, rmTemps, colls>>
    BY <1>9 DEF Registers, Calling, pgVars
  <2>2. OwnRows'
    BY <1>4, <2>1 DEF OwnRows
  <2> QED BY <1>1, <1>3, <2>1, <2>2, TurnAdvances
<1>10. CASE NumbersCommits(c) \/ Saves(c) \/ LoopIsOver(c)
  <2>1. /\ Call(c) \in {"pgNumber", "save", "rmInto"}
        /\ UNCHANGED <<maker, rows, hand, answer, pgTemps, rmTemps, colls>>
    BY <1>10 DEF NumbersCommits, Saves, LoopIsOver, Calling, pgVars, regVars
  <2>2. OwnRows'
    BY <1>4, <2>1 DEF OwnRows
  <2> QED BY <1>1, <1>3, <2>1, <2>2, TurnAdvances
<1>11. CASE LoadCopies(c)
  <2>1. /\ Call(c) = "pgLoad" /\ phase[c] = 2
        /\ pgTemps' = [pgTemps EXCEPT ![c] = @ \cup {Own(c)}]
        /\ rows' = [rows EXCEPT ![Own(c)] = @ \cup hand[c]]
        /\ UNCHANGED <<maker, hand, answer, rmTemps, colls>>
    BY <1>11 DEF LoadCopies, Calling
  <2>2. maker[Own(c)] = c
    BY <1>4, <2>1 DEF PhaseInv
  <2>3. OwnRows'
    BY <1>2, <1>3, <1>4, <2>1, <2>2 DEF OwnRows
  <2> QED BY <1>1, <1>3, <2>1, <2>3, TurnAdvances
<1>12. CASE AddsArrays(c) /\ Advance(c)
  <2>1. /\ Call(c) = "rmInto"
        /\ colls' = [colls EXCEPT ![Own(c)] = @ \cup {c} \cup UNION {colls[r] : r \in Arrays(c)}]
        /\ UNCHANGED <<maker, rows, hand, answer, pgTemps, rmTemps>>
    BY <1>12 DEF AddsArrays, Calling, pgVars, regVars
  <2>2. UNION {colls[r] : r \in Arrays(c)} \subseteq {c}
    BY <1>1, HoldsOwn
  <2>3. \A i \in Ids : colls'[i] = colls[i] \/ (i = Own(c) /\ colls'[i] \subseteq {c})
    <3> SUFFICES ASSUME NEW i \in Ids, i = Own(c) PROVE colls'[i] \subseteq {c}
      BY <1>3, <2>1
    <3>1. colls[i] \subseteq {c}
      BY <1>4 DEF CollsOf
    <3>2. colls'[i] = colls[i] \cup {c} \cup UNION {colls[r] : r \in Arrays(c)}
      BY <1>3, <2>1
    <3> QED BY <2>2, <3>1, <3>2
  <2>4. OwnRows'
    BY <1>4, <2>1 DEF OwnRows
  <2>5. \A i \in Ids : \/ colls'[i] = colls[i]
                       \/ i = Own(c) /\ Call(c) = "rmInto" /\ colls'[i] \subseteq {c}
    BY <2>1, <2>3
  <2>6. /\ Call(c) = "rmInto" /\ UNCHANGED <<maker, pgTemps, rmTemps>>
    BY <2>1
  <2> QED BY <1>1, <1>3, <2>4, <2>5, <2>6, TurnAdvances
<1>13. CASE RmRegisters(c)
  <2>1. /\ Call(c) = "rmReg" /\ rmTemps' = [rmTemps EXCEPT ![c] = @ \cup {Own(c)}]
        /\ UNCHANGED <<maker, rows, hand, answer, pgTemps, colls>>
    BY <1>13 DEF RmRegisters, Calling, pgVars
  <2>2. OwnRows'
    BY <1>4, <2>1 DEF OwnRows
  <2> QED BY <1>1, <1>3, <2>1, <2>2, TurnAdvances
<1>14. CASE ReadsCollection(c)
  <2>1. /\ Call(c) = "rmRead" /\ hand' = [hand EXCEPT ![c] = colls[Own(c)]]
        /\ UNCHANGED <<maker, rows, answer, pgTemps, rmTemps, colls>>
    BY <1>14 DEF ReadsCollection, Calling, pgVars, regVars
  <2>2. colls[Own(c)] \subseteq {c}
    BY <1>1, <1>4, <2>1, OwnIds DEF CollsOf
  <2>3. OwnRows'
    BY <1>3, <1>4, <2>1, <2>2 DEF OwnRows
  <2> QED BY <1>1, <1>3, <2>1, <2>3, TurnAdvances
<1>15. CASE ReadsAnswer(c)
  <2>1. /\ Call(c) = "pgRead" /\ answer' = [answer EXCEPT ![c] = RowsOf(c, Read(c))]
        /\ UNCHANGED <<maker, rows, hand, pgTemps, rmTemps, colls>>
    BY <1>15 DEF ReadsAnswer, Calling, pgVars, regVars
  <2>2. pos[c] = 1
    BY <1>2, <2>1 DEF CallFacts
  <2>3. OwnRows'
    BY <1>3, <1>4, <1>5, <2>1, <2>2 DEF OwnRows
  <2> QED BY <1>1, <1>3, <2>1, <2>3, TurnAdvances
<1> QED
  BY <1>6, <1>7, <1>8, <1>9, <1>10, <1>11, <1>12, <1>13, <1>14, <1>15

(* The transactions within a call.                                             *)
LEMMA TransactionTurns ==
  ASSUME TypeInv, Alone, Turns, NEW c \in Clients,
         \/ Numbers(c) \/ LoadDrops(c) \/ LoadCreates(c)
         \/ (AddsArrays(c) /\ UNCHANGED <<node, pos, phase>>)
  PROVE  Turns'
<1>1. /\ at[c] = "query" /\ UNCHANGED <<menu, at, plan, node, pos, base, idCounter, pgTemps, rmTemps>>
      /\ Call(c) \in {"pgNumber", "pgLoad", "rmInto"}
  BY DEF Numbers, LoadDrops, LoadCreates, AddsArrays, Calling, regVars
<1>2. /\ Own(c) \in Rels /\ Tmp \in Rels /\ Tmp \notin Ids /\ Ids \subseteq Rels
      /\ CallFacts(Kind(c), pos[c]) /\ Call(c) = Script[Kind(c)][pos[c]] /\ pos[c] \in Nat \ {0}
  BY <1>1, Now DEF Rels
<1>3. /\ maker \in [Rels -> Clients \cup {Nobody}] /\ rows \in [Rels -> SUBSET Clients]
      /\ hand \in [Clients -> SUBSET Clients] /\ phase \in [Clients -> 0..2]
      /\ pgTemps[c] \subseteq Ids /\ colls \in [Ids -> SUBSET Clients]
  BY DEF TypeInv, TreeInv, DataInv
<1>4. /\ \A r \in Rels : rows[r] \subseteq {maker[r]}
      /\ \A d \in Clients : hand[d] \subseteq {d} /\ answer[d] \subseteq {d}
      /\ Active(c) /\ TablesOf(c) /\ CollsOf(c) /\ RegistersOf(c) /\ Fresh(c) /\ PhaseInv(c)
      /\ Did(Kind(c), pos[c], Makes) => maker[Own(c)] = c
      /\ OwnsTmp(c) => maker[Tmp] = c
      /\ Call(c) = "rmInto" /\ colls[Own(c)] # {} => Legal(c)
  BY <1>1 DEF Turns, OwnRows, Active, Turn, QueryInv
<1>5. /\ Current(c)' = Current(c) /\ Kind(c)' = Kind(c) /\ Own(c)' = Own(c) /\ Call(c)' = Call(c)
      /\ Active(c)' /\ Fresh(c)' /\ (OwnsTmp(c)' <=> OwnsTmp(c))
  <2>1. /\ Current(c)' = Current(c) /\ Kind(c)' = Kind(c) /\ Own(c)' = Own(c) /\ Call(c)' = Call(c)
        /\ Active(c)'
    BY <1>1, <1>4 DEF Current, Kind, Own, Call, Active
  <2> QED BY <1>1, <1>4, <2>1 DEF Fresh, OwnsTmp
<1>6. Call(c) = "pgLoad" => Own(c) \in Ids /\ Own(c) # Tmp /\ Own(c) \notin pgTemps[c]
  <2> SUFFICES ASSUME Call(c) = "pgLoad" PROVE Own(c) \in Ids /\ Own(c) # Tmp /\ Own(c) \notin pgTemps[c]
    OBVIOUS
  <2>1. Own(c) = base[c] + node[c] /\ Own(c) \in Ids /\ Own(c) # Tmp
    BY <1>1, OwnIds
  <2>2. ~Did(Kind(c), pos[c], {"pgReg", "pgLoad"})
    BY <1>2 DEF CallFacts
  <2> QED BY <1>4, <2>1, <2>2 DEF Fresh
<1>7. ASSUME Turn(c)', OwnRows' PROVE Turns'
  BY <1>1, <1>4, <1>5, <1>7, TurnGoesOn
<1>8. CASE Numbers(c)
  <2>1. /\ Call(c) = "pgNumber" /\ phase' = [phase EXCEPT ![c] = 1]
        /\ UNCHANGED <<maker, rows, numbered, hand, answer, colls>>
    BY <1>8 DEF Numbers, Calling
  <2>2. OwnRows'
    BY <1>4, <2>1 DEF OwnRows
  <2>3. phase'[c] = 1
    BY <1>3, <2>1
  <2>4. TablesOf(c)' /\ CollsOf(c)' /\ RegistersOf(c)'
    BY <1>1, <1>4, <2>1 DEF TablesOf, CollsOf, RegistersOf, TableOpen, CollectionOpen
  <2>5. PhaseInv(c)'
    BY <1>5, <2>1, <2>3 DEF PhaseInv
  <2>6. QueryInv(c)'
    BY <1>1, <1>4, <1>5, <2>1, <2>5 DEF QueryInv
  <2>7. Turn(c)'
    BY <2>4, <2>6 DEF Turn
  <2> QED BY <1>7, <2>2, <2>7
<1>9. CASE LoadDrops(c)
  <2>1. /\ Call(c) = "pgLoad" /\ phase' = [phase EXCEPT ![c] = 1]
        /\ maker' = [maker EXCEPT ![Own(c)] = Nobody] /\ rows' = [rows EXCEPT ![Own(c)] = {}]
        /\ numbered' = numbered \ {Own(c)} /\ hand' = [hand EXCEPT ![c] = InHand(c)]
        /\ UNCHANGED <<answer, colls>> /\ phase[c] = 0
    BY <1>9 DEF LoadDrops, Calling, Created, regVars
  <2>2. InHand(c) \subseteq {c}
    BY <1>1, HoldsOwn
  <2>3. \A r \in Rels : /\ r # Own(c) => maker'[r] = maker[r] /\ rows'[r] = rows[r]
                        /\ r = Own(c) => maker'[r] = Nobody /\ rows'[r] = {}
    BY <1>3, <2>1
  <2>4. OwnRows'
    <3>1. \A d \in Clients : hand'[d] \subseteq {d}
      BY <1>3, <1>4, <2>1, <2>2
    <3> QED BY <1>4, <2>1, <2>3, <3>1 DEF OwnRows
  <2>5. phase'[c] = 1 /\ Own(c) \notin numbered'
    BY <1>3, <2>1
  <2>6. TablesOf(c)'
    <3>1. \A i \in Ids : maker[i] = c => i \in pgTemps[c]
      BY <1>4, <2>1 DEF TablesOf, TableOpen
    <3> QED BY <1>1, <1>2, <1>4, <2>3, <3>1, ClientsAssumption DEF TablesOf
  <2>7. CollsOf(c)'
    BY <1>1, <1>4, <2>1 DEF CollsOf, CollectionOpen
  <2>8. RegistersOf(c)'
    BY <1>1, <1>2, <1>3, <1>4, <1>6, <2>1, <2>3 DEF RegistersOf
  <2>9. PhaseInv(c)'
    BY <1>5, <2>1, <2>5 DEF PhaseInv
  <2>10. ~Did(Kind(c), pos[c], Makes) /\ maker'[Tmp] = maker[Tmp]
    BY <1>2, <1>6, <2>1, <2>3 DEF CallFacts
  <2>11. QueryInv(c)'
    BY <1>1, <1>4, <1>5, <2>1, <2>9, <2>10 DEF QueryInv
  <2>12. Turn(c)'
    BY <2>6, <2>7, <2>8, <2>11 DEF Turn
  <2> QED BY <1>7, <2>4, <2>12
<1>10. CASE LoadCreates(c)
  <2>1. /\ Call(c) = "pgLoad" /\ phase[c] = 1 /\ phase' = [phase EXCEPT ![c] = 2]
        /\ IF Exists(Own(c)) THEN UNCHANGED <<maker, rows>> ELSE Created(c, Own(c), {})
        /\ UNCHANGED <<hand, answer, numbered, colls>>
    BY <1>10 DEF LoadCreates, Calling
  <2>2. maker[Own(c)] = Nobody
    BY <1>4, <1>6, <2>1 DEF TablesOf, TableOpen
  <2>3. maker' = [maker EXCEPT ![Own(c)] = c] /\ rows' = [rows EXCEPT ![Own(c)] = {}]
    BY <2>1, <2>2 DEF Exists, Created
  <2>4. \A r \in Rels : /\ r # Own(c) => maker'[r] = maker[r] /\ rows'[r] = rows[r]
                        /\ r = Own(c) => maker'[r] = c /\ rows'[r] = {}
    BY <1>3, <2>3
  <2>5. OwnRows'
    BY <1>4, <2>1, <2>4 DEF OwnRows
  <2>6. phase'[c] = 2 /\ Own(c) \notin numbered'
    <3>1. phase'[c] = 2
      BY <1>3, <2>1
    <3> QED BY <1>4, <2>1, <3>1 DEF PhaseInv
  <2>7. TablesOf(c)'
    <3> SUFFICES ASSUME NEW i \in Ids
                 PROVE  /\ maker'[i] \in {c, Nobody}
                        /\ maker'[i] = c => i \in pgTemps'[c] \/ TableOpen(c, i)'
      BY DEF TablesOf
    <3>1. CASE i = Own(c)
      BY <1>1, <1>2, <1>5, <2>1, <2>4, <2>6, <3>1 DEF TableOpen
    <3>2. CASE i # Own(c)
      BY <1>1, <1>2, <1>4, <2>4, <3>2 DEF TablesOf, TableOpen
    <3> QED BY <3>1, <3>2
  <2>8. CollsOf(c)'
    BY <1>1, <1>4, <2>1 DEF CollsOf, CollectionOpen
  <2>9. RegistersOf(c)'
    BY <1>1, <1>2, <1>3, <1>4, <1>6, <2>1, <2>4 DEF RegistersOf
  <2>10. PhaseInv(c)'
    BY <1>2, <1>5, <2>1, <2>4, <2>6 DEF PhaseInv
  <2>11. maker'[Own(c)] = c /\ maker'[Tmp] = maker[Tmp]
    BY <1>2, <1>6, <2>1, <2>4
  <2>12. QueryInv(c)'
    BY <1>1, <1>4, <1>5, <2>1, <2>10, <2>11 DEF QueryInv
  <2>13. Turn(c)'
    BY <2>7, <2>8, <2>9, <2>12 DEF Turn
  <2> QED BY <1>7, <2>5, <2>13
<1>11. CASE AddsArrays(c) /\ UNCHANGED <<node, pos, phase>>
  <2>1. /\ Call(c) = "rmInto" /\ Legal(c) /\ phase' = phase
        /\ colls' = [colls EXCEPT ![Own(c)] = @ \cup {c} \cup UNION {colls[r] : r \in Arrays(c)}]
        /\ UNCHANGED <<maker, rows, numbered, hand, answer>>
    BY <1>11 DEF AddsArrays, Calling, pgVars
  <2>2. OwnRows'
    BY <1>4, <2>1 DEF OwnRows
  <2>3. Own(c) \in Ids /\ ~Did(Kind(c), pos[c], {"rmReg"})
    <3>1. pos[c] = 1
      BY <1>2, <2>1 DEF CallFacts
    <3> QED BY <1>1, <2>1, <3>1, OwnIds DEF Did
  <2>4. \A i \in Ids : /\ i # Own(c) => colls'[i] = colls[i]
                       /\ colls[i] \subseteq colls'[i] /\ colls'[i] \subseteq {c}
    <3>1. UNION {colls[r] : r \in Arrays(c)} \subseteq {c} /\ \A i \in Ids : colls[i] \subseteq {c}
      BY <1>1, <1>4, HoldsOwn DEF CollsOf
    <3>2. colls'[Own(c)] = colls[Own(c)] \cup {c} \cup UNION {colls[r] : r \in Arrays(c)}
      BY <1>3, <2>1, <2>3
    <3>3. \A i \in Ids : i # Own(c) => colls'[i] = colls[i]
      BY <1>3, <2>1
    <3> QED BY <2>3, <3>1, <3>2, <3>3
  <2>5. TablesOf(c)' /\ RegistersOf(c)'
    BY <1>1, <1>4, <1>5, <2>1 DEF TablesOf, RegistersOf, TableOpen
  <2>6. CollsOf(c)'
    <3> SUFFICES ASSUME NEW i \in Ids
                 PROVE  /\ colls'[i] \subseteq {c}
                        /\ colls'[i] # {} => i \in rmTemps'[c] \/ CollectionOpen(c, i)'
      BY DEF CollsOf
    <3>1. CASE i = Own(c)
      BY <1>1, <1>5, <2>1, <2>3, <2>4, <3>1 DEF CollectionOpen
    <3>2. CASE i # Own(c)
      BY <1>1, <1>4, <2>4, <3>2 DEF CollsOf, CollectionOpen
    <3> QED BY <3>1, <3>2
  <2>7. Legal(c)'
    <3>1. Read(c)' = Read(c) /\ Arrays(c)' = Arrays(c) /\ Arrays(c) \subseteq Ids
      <4>1. Read(c)' = Read(c) /\ Arrays(c)' = Arrays(c)
        BY <1>1, <1>5 DEF Read, Arrays, Rel
      <4> QED BY <1>1, <4>1, Now
    <3>2. \A r \in Arrays(c) : colls'[r] # {}
      <4>1. pos[c] = 1
        BY <1>2, <2>1 DEF CallFacts
      <4>2. \A r \in Arrays(c) : colls[r] # {}
        BY <2>1, <4>1 DEF Legal, ReadsArrays
      <4> QED BY <2>4, <3>1, <4>2
    <3>3. pos[c] = 1 => \A r \in Read(c) : Exists(r)' /\ (r = Tmp => Tmp \in numbered')
      BY <2>1 DEF Legal, Exists
    <3> QED BY <1>1, <1>5, <2>1, <3>1, <3>2, <3>3 DEF Legal
  <2>8. PhaseInv(c)'
    BY <1>4, <1>5, <2>1 DEF PhaseInv
  <2>9. QueryInv(c)'
    BY <1>1, <1>4, <1>5, <2>1, <2>7, <2>8 DEF QueryInv
  <2>10. Turn(c)'
    BY <2>5, <2>6, <2>9 DEF Turn
  <2> QED BY <1>7, <2>2, <2>10
<1> QED BY <1>8, <1>9, <1>10, <1>11

(* The beginning and the end of a query.                                          *)
LEMMA QueryTurns ==
  ASSUME TypeInv, TypeInv', Alone, Turns, NEW c \in Clients,
         StartQuery(c) \/ QueryOk(c) \/ CallRefused(c)
  PROVE  Turns'
<1>1. /\ \A r \in Rels : rows[r] \subseteq {maker[r]}
      /\ \A d \in Clients : hand[d] \subseteq {d} /\ answer[d] \subseteq {d}
  BY DEF Turns, OwnRows
<1>2. /\ at \in [Clients -> {"new", "idle", "query", "exit", "exitRas", "gone"}]
      /\ answer \in [Clients -> SUBSET Clients]
      /\ pgTemps \in [Clients -> SUBSET Ids] /\ rmTemps \in [Clients -> SUBSET Ids]
  BY DEF TypeInv, TreeInv, DataInv
<1>3. CASE StartQuery(c)
  <2>1. /\ at[c] = "idle" /\ at' = [at EXCEPT ![c] = "query"] /\ answer' = [answer EXCEPT ![c] = {}]
        /\ UNCHANGED <<hand, maker, rows, numbered, pgTemps, rmTemps, colls>>
    BY <1>3 DEF StartQuery, GoesTo, pgVars, regVars
  <2>2. /\ node'[c] = 1 /\ pos'[c] = 1 /\ phase'[c] = 0 /\ base'[c] = idCounter[c]
        /\ at'[c] = "query" /\ idCounter'[c] >= idCounter[c]
    BY <1>3, StartTypes
  <2>3. Active(c) /\ TablesOf(c) /\ CollsOf(c) /\ RegistersOf(c)
    BY <2>1 DEF Turns, Active, Turn
  <2>4. idCounter[c] \in 0..MaxId /\ idCounter'[c] \in 0..MaxId /\ MaxId \in Nat
        /\ pgTemps[c] \subseteq Nat /\ rmTemps[c] \subseteq Nat
    <3>1. idCounter[c] \in 0..MaxId /\ idCounter'[c] \in 0..MaxId /\ MaxId \in Nat
      BY BoundsAssumption DEF TypeInv, TreeInv
    <3>2. pgTemps[c] \subseteq Nat /\ rmTemps[c] \subseteq Nat
      BY <1>2 DEF Ids
    <3> QED BY <3>1, <3>2
  <2>5. \A i \in Ids : /\ maker[i] \in {c, Nobody} /\ (maker[i] = c => i \in pgTemps[c])
                       /\ colls[i] \subseteq {c} /\ (colls[i] # {} => i \in rmTemps[c])
    BY <2>1, <2>3 DEF TablesOf, CollsOf, TableOpen, CollectionOpen
  <2>6. TablesOf(c)' /\ CollsOf(c)'
    BY <2>1, <2>5 DEF TablesOf, CollsOf
  <2>7. RegistersOf(c)'
    <3>1. \A i \in Nat : i <= idCounter[c] => i <= idCounter'[c]
      BY <2>2, <2>4
    <3> QED BY <2>1, <2>2, <2>3, <2>4, <3>1 DEF RegistersOf
  <2>8. Fresh(c)'
    <3>1. \A i \in Nat : i <= idCounter[c] => i <= idCounter[c] + 1 /\ i # idCounter[c] + 1
      BY <2>4
    <3> QED BY <2>1, <2>2, <2>3, <2>4, <3>1 DEF RegistersOf, Fresh
  <2>9. ~Did(Kind(c)', pos'[c], Makes)
    BY <2>2 DEF Did
  <2>10. ~OwnsTmp(c)'
    BY <2>2 DEF OwnsTmp, InTheta
  <2>11. PhaseInv(c)'
    BY <2>2 DEF PhaseInv
  <2>12. Call(c)' = "rmInto" => colls'[Own(c)'] = {}
    <3> SUFFICES ASSUME Call(c)' = "rmInto" PROVE colls'[Own(c)'] = {}
      OBVIOUS
    <3> DEFINE p == plan'[c]
    <3>1. IsPlan(p) /\ 1 \in 1..Len(p) /\ idCounter[c] + Len(p) <= MaxId /\ Len(p) \in Nat
      <4>1. IsPlan(p) /\ node'[c] \in 1..Len(p)
        BY MenusAssumption DEF TypeInv, TreeInv
      <4>2. idCounter'[c] = base'[c] + Len(p)
        BY <2>2 DEF TypeInv, TreeInv
      <4> QED BY <2>2, <2>4, <4>1, <4>2 DEF IsPlan
    <3>2. Current(c)' = p[1] /\ Kind(c)' = p[1].kind /\ Call(c)' = Script[p[1].kind][1]
      BY <2>2 DEF Current, Kind, Call
    <3>3. p[1] \in Nodes
      BY <3>1 DEF IsPlan
    <3>4. p[1].kind \in DOMAIN Script
      BY <3>3 DEF Nodes
    <3>5. CallFacts(p[1].kind, 1)
      <4>1. Calls(p[1].kind) \in 1..6 /\ \A i \in 1..Calls(p[1].kind) : CallFacts(p[1].kind, i)
        BY <3>4, ScriptFacts
      <4> QED BY <4>1
    <3>6. p[1].kind # "thetaOpen"
      BY <3>2, <3>5 DEF CallFacts
    <3>7. Own(c)' = idCounter[c] + 1
      BY <2>2, <3>2, <3>6 DEF Own
    <3>8. idCounter[c] + 1 \in Ids
      BY <2>4, <3>1 DEF Ids
    <3>9. idCounter[c] + 1 \notin rmTemps[c]
      BY <2>3, <2>4 DEF RegistersOf
    <3> QED BY <2>1, <2>5, <3>7, <3>8, <3>9
  <2>13. QueryInv(c)'
    BY <2>8, <2>9, <2>10, <2>11, <2>12 DEF QueryInv
  <2>14. Turn(c)'
    BY <2>6, <2>7, <2>13 DEF Turn
  <2>15. OwnRows'
    BY <1>1, <1>2, <2>1 DEF OwnRows
  <2>16. Active(c)' /\ \A d \in Clients : d # c => at'[d] = at[d]
    BY <1>2, <2>1 DEF Active
  <2> QED BY <2>1, <2>3, <2>14, <2>15, <2>16, TurnGoesOn
<1>4. CASE QueryOk(c)
  <2>1. /\ at[c] = "query" /\ Call(c) = "rmRemove" /\ at' = [at EXCEPT ![c] = "idle"]
        /\ rmTemps' = [rmTemps EXCEPT ![c] = {}]
        /\ colls' = [i \in Ids |-> IF i \in rmTemps[c] THEN {} ELSE colls[i]]
        /\ UNCHANGED <<idCounter, hand, answer, maker, rows, pgTemps>>
    BY <1>4 DEF QueryOk, Calling, DropsCollections, GoesTo, treeVars, pgVars
  <2>2. Active(c) /\ TablesOf(c) /\ CollsOf(c) /\ RegistersOf(c)
    BY <2>1 DEF Turns, Active, Turn
  <2>3. at'[c] = "idle" /\ Active(c)' /\ rmTemps'[c] = {}
        /\ \A d \in Clients : d # c => at'[d] = at[d] /\ rmTemps'[d] = rmTemps[d]
    BY <1>2, <2>1 DEF Active
  <2>4. \A i \in Ids : /\ maker[i] \in {c, Nobody} /\ (maker[i] = c => i \in pgTemps[c])
                       /\ colls[i] # {} => i \in rmTemps[c]
    BY <2>1, <2>2 DEF TablesOf, CollsOf, TableOpen, CollectionOpen
  <2>5. \A i \in Ids : colls'[i] = {}
    BY <2>1, <2>4
  <2>6. Turn(c)'
    BY <2>1, <2>2, <2>3, <2>4, <2>5 DEF Turn, TablesOf, CollsOf, RegistersOf
  <2>7. OwnRows'
    BY <1>1, <2>1 DEF OwnRows
  <2> QED BY <2>1, <2>2, <2>3, <2>6, <2>7, TurnGoesOn
<1>5. CASE CallRefused(c)
  <2>1. /\ at[c] = "query" /\ Refused(c) /\ at' = [at EXCEPT ![c] = "idle"]
        /\ answer' = [answer EXCEPT ![c] = {}]
        /\ UNCHANGED <<idCounter, hand, maker, rows, pgTemps, rmTemps, colls>>
    BY <1>5 DEF CallRefused, Fails, GoesTo, treeVars, regVars
  <2>2. Active(c) /\ TablesOf(c) /\ CollsOf(c) /\ RegistersOf(c) /\ PhaseInv(c)
        /\ (Call(c) = "rmInto" /\ colls[Own(c)] # {} => Legal(c))
    BY <2>1 DEF Turns, Active, Turn, QueryInv
  <2>3. at'[c] = "idle" /\ Active(c)' /\ \A d \in Clients : d # c => at'[d] = at[d]
    BY <1>2, <2>1 DEF Active
  <2>4. CallFacts(Kind(c), pos[c]) /\ Call(c) = Script[Kind(c)][pos[c]] /\ pos[c] \in Nat \ {0}
    BY <2>1, Now
  <2>5. phase[c] = 0 /\ ~Legal(c)
    BY <2>1, <2>2 DEF Refused, PhaseInv, Calling
  <2>6. Call(c) # "pgReg" /\ Call(c) # "rmReg"
    <3> SUFFICES ASSUME Call(c) \in {"pgReg", "rmReg"} PROVE Legal(c)
      BY <2>5
    <3>1. pos[c] # 1
      BY <2>4 DEF CallFacts
    <3> QED BY <3>1 DEF Legal, ReadsArrays
  <2>7. Call(c) \in {"rmInto", "rmRead"} => colls[Own(c)] = {}
    <3>1. ASSUME Call(c) = "rmRead", colls[Own(c)] # {} PROVE FALSE
      <4>1. pos[c] # 1
        BY <2>4, <3>1 DEF CallFacts
      <4> QED BY <2>5, <3>1, <4>1 DEF Legal, ReadsArrays
    <3> QED BY <2>2, <2>5, <3>1
  <2>8. \A i \in Ids : ~TableOpen(c, i) /\ (CollectionOpen(c, i) => colls[i] = {})
    BY <2>5, <2>6, <2>7 DEF TableOpen, CollectionOpen
  <2>9. Turn(c)'
    BY <2>1, <2>2, <2>3, <2>8 DEF Turn, TablesOf, CollsOf, RegistersOf
  <2>10. OwnRows'
    BY <1>1, <1>2, <2>1 DEF OwnRows
  <2> QED BY <2>1, <2>2, <2>3, <2>9, <2>10, TurnGoesOn
<1> QED BY <1>3, <1>4, <1>5

(* The beginning and the end of a turn: nothing is left of it.                         *)
LEMMA ProgramTurns ==
  ASSUME TypeInv, Alone, Turns, NEW c \in Clients, overlap' = "no",
         StartProgram(c) \/ EndOfInput(c) \/ ExitDropsTables(c) \/ ExitDropsCollections(c)
  PROVE  Turns'
<1>1. /\ \A r \in Rels : rows[r] \subseteq {maker[r]}
      /\ \A d \in Clients : hand[d] \subseteq {d} /\ answer[d] \subseteq {d}
  BY DEF Turns, OwnRows
<1>2. /\ at \in [Clients -> {"new", "idle", "query", "exit", "exitRas", "gone"}]
      /\ maker \in [Rels -> Clients \cup {Nobody}] /\ Ids \subseteq Rels
      /\ pgTemps \in [Clients -> SUBSET Ids] /\ rmTemps \in [Clients -> SUBSET Ids]
  BY DEF TypeInv, TreeInv, DataInv, Rels
<1>3. CASE StartProgram(c)
  <2>1. /\ at[c] = "new" /\ at' = [at EXCEPT ![c] = "idle"]
        /\ \A d \in Clients : ~Active(d)
        /\ UNCHANGED <<idCounter, hand, answer, maker, rows, pgTemps, rmTemps, colls>>
    BY <1>3 DEF StartProgram, GoesTo, Active, treeVars, pgVars, regVars
  <2>2. \A i \in Ids : maker[i] = Nobody /\ colls[i] = {}
    BY <2>1 DEF Turns, Nothing
  <2>3. at'[c] = "idle" /\ Active(c)' /\ \A d \in Clients : d # c => ~Active(d)'
    BY <1>2, <2>1 DEF Active
  <2>4. \A d \in Clients : pgTemps[d] = {} /\ rmTemps[d] = {}
    BY <2>1 DEF Turns, Waiting
  <2>5. Turn(c)'
    BY <2>1, <2>2, <2>3, <2>4, ClientsAssumption DEF Turn, TablesOf, CollsOf, RegistersOf
  <2>6. OwnRows'
    BY <1>1, <2>1 DEF OwnRows
  <2>7. OneTurn' /\ Nothing' /\ Waiting'
    BY <2>1, <2>3, <2>4 DEF OneTurn, Nothing, Waiting
  <2> QED BY <2>3, <2>5, <2>6, <2>7 DEF Turns
<1>4. CASE EndOfInput(c)
  <2>1. /\ at[c] = "idle" /\ at' = [at EXCEPT ![c] = "exit"]
        /\ UNCHANGED <<idCounter, hand, answer, maker, rows, pgTemps, rmTemps, colls>>
    BY <1>4 DEF EndOfInput, GoesTo, treeVars, pgVars, regVars
  <2>2. Active(c) /\ TablesOf(c) /\ CollsOf(c) /\ RegistersOf(c)
    BY <2>1 DEF Turns, Active, Turn
  <2>3. at'[c] = "exit" /\ Active(c)' /\ \A d \in Clients : d # c => at'[d] = at[d]
    BY <1>2, <2>1 DEF Active
  <2>4. Turn(c)'
    BY <2>1, <2>2, <2>3 DEF Turn, TablesOf, CollsOf, RegistersOf, TableOpen, CollectionOpen
  <2>5. OwnRows'
    BY <1>1, <2>1 DEF OwnRows
  <2> QED BY <2>1, <2>2, <2>3, <2>4, <2>5, TurnGoesOn
<1>5. CASE ExitDropsTables(c)
  <2>1. at[c] = "exit" /\ UNCHANGED <<idCounter, hand, answer, rmTemps, colls>>
    BY <1>5 DEF ExitDropsTables, treeVars
  <2>2. Active(c) /\ TablesOf(c) /\ CollsOf(c) /\ RegistersOf(c)
    BY <2>1 DEF Turns, Active, Turn
  <2>3. {r \in pgTemps[c] : ~Exists(r)} = {}
    BY <2>2, ClientsAssumption DEF RegistersOf, Exists
  <2>4. /\ maker' = [r \in Rels |-> IF r \in pgTemps[c] THEN Nobody ELSE maker[r]]
        /\ rows' = [r \in Rels |-> IF r \in pgTemps[c] THEN {} ELSE rows[r]]
        /\ pgTemps' = [pgTemps EXCEPT ![c] = {}] /\ at' = [at EXCEPT ![c] = "exitRas"]
    BY <1>5, <2>3 DEF ExitDropsTables, Dropped, GoesTo
  <2>5. /\ at'[c] = "exitRas" /\ Active(c)' /\ pgTemps'[c] = {}
        /\ \A d \in Clients : d # c => at'[d] = at[d] /\ pgTemps'[d] = pgTemps[d]
    BY <1>2, <2>4 DEF Active
  <2>6. \A i \in Ids : maker'[i] = Nobody
    <3>1. \A i \in Ids : maker[i] = c => i \in pgTemps[c]
      BY <2>1, <2>2 DEF TablesOf, TableOpen
    <3> QED BY <1>2, <2>2, <2>4, <3>1 DEF TablesOf
  <2>7. Turn(c)'
    BY <2>1, <2>2, <2>5, <2>6, ClientsAssumption DEF Turn, TablesOf, CollsOf, RegistersOf, CollectionOpen
  <2>8. OwnRows'
    BY <1>1, <2>1, <2>4 DEF OwnRows
  <2> QED BY <2>1, <2>2, <2>5, <2>7, <2>8, TurnGoesOn
<1>6. CASE ExitDropsCollections(c)
  <2>1. /\ at[c] = "exitRas" /\ at' = [at EXCEPT ![c] = "gone"]
        /\ rmTemps' = [rmTemps EXCEPT ![c] = {}]
        /\ colls' = [i \in Ids |-> IF i \in rmTemps[c] THEN {} ELSE colls[i]]
        /\ UNCHANGED <<idCounter, hand, answer, maker, rows, pgTemps>>
    BY <1>6 DEF ExitDropsCollections, DropsCollections, GoesTo, treeVars, pgVars
  <2>2. Active(c) /\ TablesOf(c) /\ CollsOf(c) /\ RegistersOf(c)
    BY <2>1 DEF Turns, Active, Turn
  <2>3. /\ at'[c] = "gone" /\ ~Active(c)' /\ rmTemps'[c] = {} /\ pgTemps'[c] = {}
        /\ \A d \in Clients : d # c => at'[d] = at[d] /\ rmTemps'[d] = rmTemps[d]
    BY <1>2, <2>1, <2>2 DEF Active, RegistersOf
  <2>4. \A i \in Ids : maker'[i] = Nobody /\ colls'[i] = {}
    <3>1. \A i \in Ids : maker[i] # c
      BY <2>1, <2>2 DEF TablesOf, TableOpen, RegistersOf
    <3>2. \A i \in Ids : colls[i] # {} => i \in rmTemps[c]
      BY <2>1, <2>2 DEF CollsOf, CollectionOpen
    <3> QED BY <2>1, <2>2, <3>1, <3>2 DEF TablesOf
  <2>5. OwnRows'
    BY <1>1, <2>1 DEF OwnRows
  <2> QED BY <2>1, <2>2, <2>3, <2>4, <2>5, TurnGoesOn
<1> QED BY <1>3, <1>4, <1>5, <1>6

LEMMA TurnsInit == Init => TurnsInv
<1> SUFFICES ASSUME Init PROVE TypeInv /\ Turns
  BY DEF TurnsInv
<1>1. \A c \in Clients : ~Active(c)
  BY DEF Init, All, Active
<1>2. Turns
  BY <1>1 DEF Init, All, Turns, OneTurn, Nothing, Waiting, OwnRows, Rels
<1> QED BY <1>2, TypeInit

LEMMA TurnsNext == TurnsInv /\ [Next]_vars => TurnsInv'
<1> SUFFICES ASSUME TurnsInv, [Next]_vars PROVE TurnsInv'
  OBVIOUS
<1>1. TypeInv /\ TypeInv'
  BY TypeNext DEF TurnsInv
<1> SUFFICES ASSUME Alone' PROVE Turns'
  BY <1>1 DEF TurnsInv
<1>2. CASE UNCHANGED vars
  <2>1. UNCHANGED <<menu, at, plan, node, pos, phase, base, idCounter, hand, answer, pgTemps, rmTemps,
                    maker, rows, numbered, colls, overlap, faults>>
    BY <1>2 DEF vars, treeVars, pgVars, regVars
  <2>2. Alone /\ Turns
    BY <2>1 DEF Alone, TurnsInv
  <2>3. \A c \in Clients : /\ Active(c)' <=> Active(c)
                           /\ Turn(c)' <=> Turn(c)
    <3> SUFFICES ASSUME NEW c \in Clients PROVE (Active(c)' <=> Active(c)) /\ (Turn(c)' <=> Turn(c))
      OBVIOUS
    <3>1. /\ Current(c)' = Current(c) /\ Kind(c)' = Kind(c) /\ Own(c)' = Own(c) /\ Call(c)' = Call(c)
          /\ Read(c)' = Read(c) /\ Arrays(c)' = Arrays(c)
      BY <2>1 DEF Current, Kind, Own, Call, Read, Arrays, Rel
    <3>2. Legal(c)' <=> Legal(c)
      BY <2>1, <3>1 DEF Legal, ReadsArrays, Exists
    <3>3. QueryInv(c)' <=> QueryInv(c)
      BY <2>1, <3>1, <3>2 DEF QueryInv, Fresh, PhaseInv, OwnsTmp
    <3>4. TablesOf(c)' <=> TablesOf(c)
      BY <2>1, <3>1 DEF TablesOf, TableOpen
    <3>5. CollsOf(c)' <=> CollsOf(c)
      BY <2>1, <3>1 DEF CollsOf, CollectionOpen
    <3>6. RegistersOf(c)' <=> RegistersOf(c)
      BY <2>1 DEF RegistersOf
    <3> QED BY <2>1, <3>3, <3>4, <3>5, <3>6 DEF Turn, Active
  <2>4. OneTurn' /\ Nothing' /\ Waiting' /\ OwnRows'
    BY <2>1, <2>2, <2>3 DEF Turns, OneTurn, Nothing, Waiting, OwnRows
  <2> QED BY <2>2, <2>3, <2>4 DEF Turns
<1>3. ASSUME NEW c \in Clients,
             \/ Step(c) \/ StartProgram(c) \/ StartQuery(c) \/ EndOfInput(c)
      PROVE  Turns'
  <2>1. menu' = menu /\ faults' = faults /\ (overlap' = overlap \/ StartProgram(c))
    BY <1>3 DEF Step, SelectsInto, MakesTmp, ClosesTmp, Registers, Numbers, NumbersCommits,
                LoadDrops, LoadCreates, LoadCopies, AddsArrays, LoopIsOver, RmRegisters,
                ReadsCollection, ReadsAnswer, Saves, QueryOk, CallRefused, Fails, ExitDropsTables,
                ExitDropsCollections, StartProgram, StartQuery, EndOfInput
  <2>2. overlap = "no"
    <3>1. StartProgram(c) => overlap' \in {"yes", overlap}
      BY DEF StartProgram
    <3> QED BY <2>1, <3>1 DEF Alone
  <2>3. Alone /\ Turns
    BY <2>1, <2>2 DEF Alone, TurnsInv
  <2>4. AddsArrays(c) => Advance(c) \/ UNCHANGED <<node, pos, phase>>
    BY DEF AddsArrays
  <2>5. overlap' = "no"
    BY DEF Alone
  <2> QED
    BY <1>1, <1>3, <2>3, <2>4, <2>5, CallTurns, TransactionTurns, QueryTurns, ProgramTurns DEF Step
<1>4. ASSUME NEW c \in Clients, CallFails(c) \/ Lost(c) \/ Killed(c) PROVE Turns'
  <2>1. faults' = faults + 1 /\ faults \in Nat
    BY <1>1, <1>4, BoundsAssumption
    DEF CallFails, Lost, CreateLost, NumbersLost, LoadLost, CommitSwallowed, Killed, TypeInv, DataInv
  <2> QED BY <2>1 DEF Alone
<1> QED BY <1>2, <1>3, <1>4 DEF Next, Lost

(* Programs that run one after the other are answered with their own rows only, whatever   *)
(* they are asked and how many there are, if none of them fails or dies and no array        *)
(* function of one argument is asked for.                                        *)
THEOREM TurnsPrivate == Spec => []TurnsArePrivate
<1>1. TurnsInv => TurnsArePrivate
  BY DEF TurnsInv, TurnsArePrivate, Alone, Turns, OwnRows
<1> QED BY <1>1, TurnsInit, TurnsNext, PTL DEF Spec
=============================================================================
