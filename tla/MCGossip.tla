------------------------------ MODULE MCGossip ------------------------------
(* A line from the only validator p over q to r; a line whose two ends are *)
(* validators; and a triangle on which a transaction and a vote spread.    *)
EXTENDS Gossip, TLC
CONSTANTS p, q, r

Line == {{p, q}, {q, r}}

OneEnd ==
    [links |-> Line, validators |-> {p}, dist |-> (p :> 0 @@ q :> 1 @@ r :> 2),
     tip |-> 3, txs |-> {}, bft |-> {}, faults |-> 1]

BothEnds ==
    [links |-> Line, validators |-> {p, r}, dist |-> (p :> 0 @@ q :> 1 @@ r :> 0),
     tip |-> 2, txs |-> {}, bft |-> {}, faults |-> 1]

Triangle ==
    [links |-> Line \cup {{p, r}}, validators |-> {p, q},
     dist |-> (p :> 0 @@ q :> 0 @@ r :> 1),
     tip |-> 0, txs |-> {"t"}, bft |-> {"v"}, faults |-> 0]

SmallWorks == {OneEnd, BothEnds, Triangle}
=============================================================================
