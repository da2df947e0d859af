---------------------------- MODULE MCInclusion -----------------------------
(* A small instance of Inclusion: three senders, with replacements for the *)
(* same nonce, a transfer that makes another transaction affordable, and a *)
(* DewTx in the middle of a nonce chain.                                   *)
EXTENDS Inclusion, TLC

Tx(id, type, from, nonce, fee, value, to) ==
  [id |-> id, type |-> type, from |-> from, nonce |-> nonce, fee |-> fee,
   tip |-> 3, size |-> 1, chainOK |-> TRUE, gas |-> 1, value |-> value, to |-> to]

A0 == Tx(1, "legacy", "a", 0, 10, 0, "b")
A0Bumped == Tx(2, "dynamic", "a", 0, 11, 0, "b")
A1 == Tx(3, "legacy", "a", 1, 9, 20, "b")
A1Dew == Tx(4, "dew", "a", 1, 0, 5, "b")
B0Rich == Tx(5, "legacy", "b", 0, 12, 30, "a")
B0 == Tx(6, "legacy", "b", 0, 14, 0, "a")
B1Big == [Tx(7, "legacy", "b", 1, 20, 0, "a") EXCEPT !.gas = 2]
A2 == Tx(8, "legacy", "a", 2, 10, 0, "b")
Cheap == Tx(9, "legacy", "b", 0, 7, 0, "a")
Huge == [Tx(13, "legacy", "b", 0, 20, 0, "a") EXCEPT !.size = 3]
Foreign == [Tx(14, "dew", "b", 0, 20, 0, "a") EXCEPT !.chainOK = FALSE]

C0 == Tx(10, "dynamic", "c", 0, 13, 50, "b")
C0Dew == Tx(11, "dew", "c", 0, 15, 0, "a")
C1 == Tx(12, "legacy", "c", 1, 11, 0, "a")

MCTxs == {A0, A0Bumped, A1, A1Dew, B0Rich, B0, B1Big, A2, Cheap, Huge, Foreign,
          C0, C0Dew, C1}
MCPeerBlocks == {<<A0>>, <<A0Bumped, A1>>, <<B0>>}
MCFunds == ("a" :> 60) @@ ("b" :> 30) @@ ("c" :> 40) @@ ("p" :> 0)
=============================================================================
