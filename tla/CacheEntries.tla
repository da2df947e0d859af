---------------------------- MODULE CacheEntries ----------------------------
(***************************************************************************)
(* What a state database caches (core/state): accounts, which are balance  *)
(* and nonce, and storage slots.  StateDB has the cache of a node,         *)
(* ParallelExec those of the forks a block is executed on.                 *)
(***************************************************************************)
EXTENDS Integers

CONSTANTS
  Addrs, Slots,
  Owner,          \* the account a slot belongs to
  NoAccount       \* no entry for an address

NotCached == -1
NewAccount == [balance |-> 0, nonce |-> 0]
=============================================================================
