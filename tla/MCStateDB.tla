----------------------------- MODULE MCStateDB ------------------------------
(* StateDB for TLC: two slots, both owned by one of the accounts.          *)
EXTENDS StateDB

MCOwner == [k \in Slots |-> CHOOSE a \in Addrs : TRUE]
=============================================================================
