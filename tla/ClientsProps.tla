------------------------------ MODULE ClientsProps ------------------------------
(***************************************************************************)
(* What the users of the same servers can rely on.                             *)
(***************************************************************************)
EXTENDS Clients

RelationalKinds ==
  {"pgSource", "multiply", "addResults", "filtered", "where", "join", "star", "pgColumn",
   "constant", "string", "sqlFunction", "postGis", "interval", "pgOperation", "finish"}
NoTheta == \A p \in menu : \A n \in 1..Len(p) : p[n].kind \in RelationalKinds

(* As long as everybody asks relational queries without theta joins, nobody is         *)
(* answered with another's rows, although all of them use the same names: one of        *)
(* two that want a name at the same time fails.  A commit that commitTa() has swallowed   *)
(* ends this for all: a client then takes another's table for its own.               *)
RelationalIsPrivate ==
  NoTheta /\ swallowed = "no" => \A c \in Clients : answer[c] \subseteq {c}

(* And no table is removed or replaced but by the client that has made it, when it        *)
(* exits; after a swallowed commit, by the exit of any client, but never by a query.     *)
OnlyMakerRemoves ==
  [][NoTheta => \A r \in Rels : Exists(r) =>
       \/ maker'[r] = maker[r] /\ rows'[r] = rows[r]
       \/ at[maker[r]] = "exit"
       \/ swallowed = "yes" /\ \E c \in Clients : at[c] = "exit" /\ at'[c] # "exit"]_vars

(* Programs that run one after the other do not see one another, whatever they are        *)
(* asked, as long as each of them ends as it should; but for array functions of one         *)
(* argument, whose collections no registry knows.                                *)
TurnsArePrivate ==
  overlap = "no" /\ faults = 0 /\ (\A p \in menu : \A n \in 1..Len(p) : p[n].kind # "function1") =>
    \A c \in Clients : answer[c] \subseteq {c}

(* Every query is answered, also when others hold the sequence, fail or die.           *)
EveryQueryEnds == \A c \in Clients : at[c] = "query" ~> at[c] # "query"
=============================================================================
