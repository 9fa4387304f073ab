------------------------------- MODULE MCSession -------------------------------
(***************************************************************************)
(* Inputs for TLC: up to four pieces, of ten kinds, two with errors of the scanner.   *)
(***************************************************************************)
EXTENDS SessionProps

P(k, e) == [kind |-> k, encoders |-> e, scanErrors |-> 0]
Scans(p, n) == [p EXCEPT !.scanErrors = n]
Pieces == {P("syntaxError", <<>>), P("noFrom", <<>>), P("query", <<>>), P("query", <<"png">>),
           P("query", <<"jpeg">>), P("query", <<"png", "jpeg">>),
           P("failingQuery", <<"jpeg">>), P("emptyQuery", <<"png">>),
           Scans(P("query", <<>>), 1), Scans(P("syntaxError", <<>>), 1)}

MCInputs == UNION {[1..n -> Pieces] : n \in 0..4}
=============================================================================
