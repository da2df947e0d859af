----------------------------- MODULE MCServices -----------------------------
(* Small instances of Services.                                            *)
EXTENDS Services

Deployment(use, database, blocks, failures) ==
  [use |-> use, database |-> database, blocks |-> blocks, faults |-> failures]

SmallDeployments ==
  {Deployment({"filters"}, Old, 4, 1),
   Deployment({"ws"}, Fresh, 2, 0),
   Deployment({"indexer"}, Fresh, 4, 2),
   Deployment({"indexer"}, Old, 4, 2),
   Deployment({"faucet"}, Fresh, 3, 1)}
=============================================================================
