----------------------------- MODULE MCSessions -----------------------------
(* Three small networks.  In all of them a is the bootnode of b.  The      *)
(* first has faults; in the second b has a node of another chain for a     *)
(* second bootnode; in the third c also wants a session with a, which has  *)
(* room for one.                                                           *)
EXTENDS Sessions
CONSTANTS a, b, c, Faults

Dew == [n \in Nodes |-> "dew"]

Dials(to) == [n \in Nodes |-> IF n = b THEN to ELSE {}]

SmallNetworks ==
    {[chain |-> Dew, boots |-> Dials({a}), max |-> 2, faults |-> Faults],
     [chain |-> [Dew EXCEPT ![c] = "other"], boots |-> Dials({a, c}),
      max |-> 2, faults |-> 0],
     [chain |-> Dew, boots |-> [Dials({a}) EXCEPT ![c] = {a}],
      max |-> 1, faults |-> 0]}
=============================================================================
