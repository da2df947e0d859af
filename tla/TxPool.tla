------------------------------- MODULE TxPool -------------------------------
(***************************************************************************)
(* The transaction pool shared by EVM transactions and DewTxs              *)
(* (mempool/pool.go): admission, replace-by-fee, eviction and removal.     *)
(*                                                                         *)
(* A transaction stands for its own hash.  A pool is a record of its two   *)
(* indexes: byHash, the set of the transactions held, and bySender, which  *)
(* gives the transaction of a sender and a nonce, or NoTx.  Go maps are    *)
(* walked in any order, so an operation returns the set of its outcomes.   *)
(***************************************************************************)
EXTENDS Integers, FiniteSets

CONSTANTS
  Senders,            \* accounts that sign transactions
  Nonces,             \* nonces they use
  Txs,                \* every transaction there is
  NoTx,               \* "no entry" in bySender
  MaxGlobal, MaxPerSender, MaxTxBytes,
  MinGasPrice, MinTip, MinDewFee,
  PriceBumpPercent    \* 0 turns replacement off

ASSUME TxPoolAssumption ==
  /\ IsFiniteSet(Nonces)
  /\ \A t \in Txs : t.from \in Senders /\ t.nonce \in Nonces
  /\ NoTx \notin Txs
  /\ MaxGlobal \in Nat \ {0} /\ MaxPerSender \in Nat \ {0}
  /\ PriceBumpPercent \in Nat

EmptyPool == [byHash |-> {},
              bySender |-> [s \in Senders |-> [n \in Nonces |-> NoTx]]]

----------------------------------------------------------------------------
(* Admission that does not depend on the pool.                             *)

IsDew(t) == t.type = "dew"

\* What the pool compares: the fee cap or gas price of an EVM transaction,
\* the flat fee of a DewTx (the floor, when it leaves its fee out).
Price(t) == IF IsDew(t) /\ t.fee = 0 THEN MinDewFee ELSE t.fee

EvmPriceOK(t) ==
  /\ t.fee >= MinGasPrice
  /\ t.type = "dynamic" => t.tip >= MinTip

AddEVMOK(t) == /\ t.size <= MaxTxBytes
               /\ t.chainOK
               /\ EvmPriceOK(t)

AddDewOK(t) == /\ t.size <= MaxTxBytes
               /\ t.chainOK
               /\ Price(t) >= MinDewFee

----------------------------------------------------------------------------
(* The pool's indexes.                                                     *)

RemoveLockedKeepIndex(p, hashes) == [p EXCEPT !.byHash = @ \ hashes]

\* Removing a set of hashes: each one that is held frees its sender's nonce.
RemoveLocked(p, hashes) ==
  LET gone == p.byHash \cap hashes
  IN [byHash |-> p.byHash \ hashes,
      bySender |-> [s \in Senders |-> [n \in Nonces |->
                      IF \E t \in gone : t.from = s /\ t.nonce = n
                      THEN NoTx ELSE p.bySender[s][n]]]]

SenderCount(p, s) == Cardinality({n \in Nonces : p.bySender[s][n] # NoTx})

\* The entries evictCheaperThan may take: the cheapest, if cheaper than price.
Evictable(p, price) ==
  {e \in p.byHash : /\ Price(e) < price
                    /\ \A f \in p.byHash : Price(e) <= Price(f)}

MinReplacePrice(old) == (Price(old) * (100 + PriceBumpPercent)) \div 100

Insert(p, e) == [byHash |-> p.byHash \cup {e},
                 bySender |-> [p.bySender EXCEPT ![e.from][e.nonce] = e]]

\* What is left for e once the entry it replaces is out: the pool itself when
\* there is none; an index entry without its transaction is only cleared.
MakeWay(p, e) ==
  LET old == p.bySender[e.from][e.nonce]
  IN IF old = NoTx THEN p
     ELSE IF old \notin p.byHash
     THEN [p EXCEPT !.bySender[e.from][e.nonce] = NoTx]
     ELSE RemoveLocked(p, {old})

MayReplace(p, e) ==
  LET old == p.bySender[e.from][e.nonce]
  IN (old # NoTx /\ old \in p.byHash) =>
       /\ PriceBumpPercent # 0
       /\ Price(e) >= MinReplacePrice(old)

\* The limits, checked on the pool p from which a replaced entry is out: the
\* pools with e in, none when e is refused.
Place(p, e) ==
  IF SenderCount(p, e.from) >= MaxPerSender THEN {}
  ELSE IF Cardinality(p.byHash) < MaxGlobal THEN {Insert(p, e)}
  ELSE {Insert(RemoveLocked(p, {w}), e) : w \in Evictable(p, Price(e))}

\* The sender's limit is read before the replaced entry is taken out.
AddStaleCount(p, e) ==
  IF e \in p.byHash \/ ~MayReplace(p, e) THEN {p}
  ELSE LET q == MakeWay(p, e)
       IN IF SenderCount(p, e.from) >= MaxPerSender \/ Place(q, e) = {} THEN {q}
          ELSE Place(q, e)

\* The pools add may leave behind.  The replaced entry is taken out before the
\* limits are checked: a refusal by a limit leaves it out.
Add(p, e) ==
  IF e \in p.byHash \/ ~MayReplace(p, e) THEN {p}
  ELSE LET q == MakeWay(p, e)
       IN IF Place(q, e) = {} THEN {q} ELSE Place(q, e)

----------------------------------------------------------------------------
(* What keeps a pool in order.                                             *)

\* The two indexes hold the same transactions, so a sender has at most one
\* transaction per nonce, and the pool is within both of its limits: what
\* add and removeLocked rely on when they read one index to change the other.
PoolInOrder(p) ==
  /\ p.byHash \subseteq Txs
  /\ p.bySender \in [Senders -> [Nonces -> Txs \cup {NoTx}]]
  /\ \A t \in p.byHash : p.bySender[t.from][t.nonce] = t
  /\ \A s \in Senders, n \in Nonces :
       p.bySender[s][n] # NoTx =>
         /\ p.bySender[s][n] \in p.byHash
         /\ p.bySender[s][n].from = s
         /\ p.bySender[s][n].nonce = n
  /\ IsFiniteSet(p.byHash)
  /\ Cardinality(p.byHash) <= MaxGlobal
  /\ \A s \in Senders : SenderCount(p, s) <= MaxPerSender
=============================================================================
