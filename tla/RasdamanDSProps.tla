--------------------------- MODULE RasdamanDSProps ---------------------------
(***************************************************************************)
(* What the array data source promises its callers, and what its interface   *)
(* says it does.                                                           *)
(***************************************************************************)
EXTENDS RasdamanDS

Removing == op = "removeTempTables" /\ pc # "idle"

(* What the server would commit besides what it has.                          *)
Uncommitted == (work \ colls) \cup (colls \ work)

(* The transaction that queryByOid() leaves open never holds a change, and     *)
(* neither does any other that is open at rest, whatever error ended the last   *)
(* call, but for the changes of calls whose commit the server has refused: those *)
(* stay in a transaction that a later call may commit.                        *)
OnlyRefusedPending == pc = "idle" => Uncommitted \subseteq refused

(* updateQuery() tells the truth: after a normal return of a SELECT INTO the   *)
(* collection is committed.                                                 *)
SuccessIsReal == pc = "idle" /\ op = "into" /\ ret = "ok" => arg \in colls

(* The DROPs of removeTempTables() do not touch one another: a step removes     *)
(* at most the collection it is at, and nothing comes back; only a change whose    *)
(* own commit was refused earlier may be committed along with a DROP.  And when    *)
(* the registry is emptied every collection in it is gone or has been warned        *)
(* about, the warning being the only trace of it.                               *)
RemovalIndependent ==
  [][/\ Removing => /\ colls \ colls' \subseteq refused \cup {arg}
                    /\ colls' \ colls \subseteq refused \ {arg}
     /\ tempTables' = {} => tempTables \cap colls' \subseteq warned']_vars

(* A session that is lost, at rest or at any round trip, makes at most two     *)
(* statements fail before the object has reconnected: commit() or begin()      *)
(* may leave a transaction that still looks active.                           *)
LossCostsTwo == failures <= 2 * losses

(* Every call comes back to its caller.                                      *)
CallsReturn == pc # "idle" ~> pc = "idle"
=============================================================================
