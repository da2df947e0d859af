----------------------------- MODULE Inclusion ------------------------------
(***************************************************************************)
(* From a signed transaction to a block: submission and auto-mining        *)
(* (node/node.go), selection and proposal building (node/build.go), and    *)
(* the import of committed blocks (node/import.go), over one node's pool   *)
(* and state.                                                              *)
(*                                                                         *)
(* A state is the nonces and balances of the accounts; it also stands for  *)
(* its own root.  A node either auto-mines (a local node) or builds and    *)
(* imports blocks for consensus, for the whole of a run.  The node's mutex *)
(* is held through each handler, so each one is a step.                    *)
(***************************************************************************)
EXTENDS TxPool, Sequences, Functions

CONSTANTS
  Accounts,         \* the senders, receivers and the fee's receiver
  Proposer,         \* the account that is paid the fees
  Funds,            \* balances at genesis
  BaseFee, DefaultDewFee, GasLimit,
  MaxTxsPerBlock, MaxProposalSimAttempts,
  PeerBlocks,       \* transaction lists of the blocks other nodes propose
  NoBlock           \* no proposal outstanding

ASSUME InclusionAssumption ==
  /\ Senders \subseteq Accounts /\ Proposer \in Accounts
  /\ \A t \in Txs : /\ t.to \in Accounts
                     /\ t.fee \in Nat /\ t.tip \in Nat /\ t.gas \in Nat /\ t.value \in Nat
  /\ PeerBlocks \subseteq Seq(Txs)
  /\ Funds \in [Accounts -> Nat]
  /\ BaseFee \in Nat /\ DefaultDewFee \in Nat
  /\ MaxTxsPerBlock \in Nat \ {0} /\ MaxProposalSimAttempts \in Nat \ {0}

VARIABLES
  pool,       \* the transaction pool
  st,         \* the state database
  head,       \* the last block: [txs, parent, root], roots as states
  proposal,   \* the block this node proposed on its head, if any
  autoMine,   \* whether submission seals
  panicked    \* history: a seal gave up after part of its block had run

vars == <<pool, st, head, proposal, autoMine, panicked>>

Genesis == [nonce |-> [a \in Accounts |-> 0], bal |-> Funds]

Init ==
  /\ pool = EmptyPool
  /\ st = Genesis
  /\ head = [txs |-> <<>>, parent |-> Genesis, root |-> Genesis]
  /\ proposal = NoBlock
  /\ autoMine \in BOOLEAN
  /\ panicked = FALSE

----------------------------------------------------------------------------
(* Executing transactions.                                                 *)

EffectiveGasPrice(t) ==
  IF t.type = "dynamic" /\ BaseFee + t.tip < t.fee THEN BaseFee + t.tip
  ELSE t.fee

\* What the transaction pays for its execution.  Gas is all used.
Fee(t) == IF ~IsDew(t) THEN t.gas * EffectiveGasPrice(t)
          ELSE IF t.fee = 0 THEN DefaultDewFee ELSE t.fee

\* Whether t runs on s; a transaction that does not leaves no trace.
Executes(s, t) ==
  /\ t.nonce = s.nonce[t.from]
  /\ t.type = "dynamic" => t.fee >= BaseFee
  /\ s.bal[t.from] >= Fee(t) + t.value

Move(bal, from, to, amount) ==
  LET out == [bal EXCEPT ![from] = @ - amount]
  IN [out EXCEPT ![to] = @ + amount]

Execute(s, t) ==
  [nonce |-> [s.nonce EXCEPT ![t.from] = @ + 1],
   bal |-> Move(Move(s.bal, t.from, Proposer, Fee(t)), t.from, t.to, t.value)]

\* One transaction of a block: after one that failed, none runs.
RunOne(r, t) ==
  IF r.ok /\ Executes(r.st, t)
  THEN [ok |-> TRUE, ran |-> r.ran + 1, st |-> Execute(r.st, t)]
  ELSE [r EXCEPT !.ok = FALSE]

\* Runs txs in order up to the first that fails: how many ran, and the state.
ExecuteBlockTxs(s, txs) ==
  LET run[k \in 0 .. Len(txs)] ==
        IF k = 0 THEN [ok |-> TRUE, ran |-> 0, st |-> s]
        ELSE RunOne(run[k - 1], txs[k])
  IN run[Len(txs)]

\* Keeps a failed transaction in the block.
SimulateOneKeepAll(r, t) ==
  [r EXCEPT !.kept = Append(@, t),
            !.st = IF Executes(r.st, t) THEN Execute(r.st, t) ELSE @]

SimulateOne(r, t) ==
  IF Executes(r.st, t)
  THEN [r EXCEPT !.kept = Append(@, t), !.st = Execute(r.st, t)]
  ELSE [r EXCEPT !.failed = @ \cup {t}]

\* Runs what it can of txs on a copy of the state: what ran, what failed.
SimulateAndFilter(s, txs) ==
  LET sim[k \in 0 .. Len(txs)] ==
        IF k = 0 THEN [kept |-> <<>>, failed |-> {}, st |-> s]
        ELSE SimulateOne(sim[k - 1], txs[k])
  IN sim[Len(txs)]

----------------------------------------------------------------------------
(* Selecting transactions for a block.                                     *)

\* Each sender's next transaction among candidates, given the next nonces.
Ready(candidates, next) == {t \in candidates : t.nonce = next[t.from]}

PickBestReady(candidates, next) ==
  {t \in Ready(candidates, next) :
     \A u \in Ready(candidates, next) : Price(u) <= Price(t)}

\* One turn of the selection loop: takes the best ready transaction, or, if
\* its gas does not fit, stops considering its sender.
SelectOne(s) ==
  IF Len(s.out) = MaxTxsPerBlock THEN {s}
  ELSE LET best == PickBestReady(s.candidates, s.next)
           take(t) == [s EXCEPT !.out = Append(@, t),
                                !.gas = @ + t.gas,
                                !.next[t.from] = @ + 1]
           skip(t) == [s EXCEPT !.candidates = {u \in @ : u.from # t.from}]
       IN IF best = {} THEN {s}
          ELSE {IF ~IsDew(t) /\ s.gas + t.gas > GasLimit THEN skip(t) ELSE take(t)
                  : t \in best}

\* The lists that a selection among candidates may return.
Selections(candidates) ==
  LET rounds == MaxTxsPerBlock + Cardinality({t.from : t \in candidates})
      after[k \in 0 .. rounds] ==
        IF k = 0
        THEN {[out |-> <<>>, gas |-> 0, next |-> st.nonce,
               candidates |-> candidates]}
        ELSE UNION {SelectOne(s) : s \in after[k - 1]}
  IN {s.out : s \in after[rounds]}

SelectPendingTxs(p, exclude) ==
  Selections({t \in p.byHash : ~IsDew(t)} \ exclude)

SelectPendingDewTxs(p) == Selections({t \in p.byHash : IsDew(t)})

----------------------------------------------------------------------------
(* Building a proposal.                                                    *)

\* A retry that selects the same transactions again.
BuildStepNoExclude(b) ==
  IF b.done THEN {b}
  ELSE {LET sim == SimulateAndFilter(st, cand)
        IN IF sim.kept = <<>> THEN b
           ELSE [b EXCEPT !.done = TRUE, !.txs = sim.kept, !.root = sim.st]
        : cand \in SelectPendingTxs(pool, b.exclude)}

\* One attempt: select, simulate, and either settle for what ran or exclude
\* what failed.
BuildStep(b) ==
  IF b.done THEN {b}
  ELSE {LET sim == SimulateAndFilter(st, cand)
        IN IF cand = <<>> THEN [b EXCEPT !.done = TRUE]
           ELSE IF sim.kept # <<>>
           THEN [b EXCEPT !.done = TRUE, !.txs = sim.kept, !.root = sim.st]
           ELSE [b EXCEPT !.exclude = @ \cup sim.failed]
        : cand \in SelectPendingTxs(pool, b.exclude)}

\* The blocks BuildBlockFromPool may return on the current head.
Proposals ==
  LET after[k \in 0 .. MaxProposalSimAttempts] ==
        IF k = 0
        THEN {[done |-> FALSE, exclude |-> {}, txs |-> <<>>, root |-> head.root]}
        ELSE UNION {BuildStep(b) : b \in after[k - 1]}
  IN {[txs |-> b.txs, parent |-> head.root, root |-> b.root]
        : b \in after[MaxProposalSimAttempts]}

----------------------------------------------------------------------------
(* Handlers.                                                               *)

\* A block becomes the head: what it holds leaves the pool p, and a proposal
\* built on the old head is dead.
Commit(p, txs, root) ==
  /\ head' = [txs |-> txs, parent |-> head.root, root |-> root]
  /\ st' = root
  /\ pool' = RemoveLocked(p, Range(txs))
  /\ proposal' = NoBlock

\* Seals the selection txs.  When its first transaction fails, nothing has
\* changed and the revert succeeds.  When a later one does, the transactions
\* before it have been finalised, which forgot the snapshot: the revert
\* panics, and the server of the request survives it with their effects in
\* the state and no block.
Seal(p, txs) ==
  LET run == ExecuteBlockTxs(st, txs)
  IN \/ /\ run.ok
        /\ txs # <<>>
        /\ Commit(p, txs, run.st)
        /\ UNCHANGED <<autoMine, panicked>>
     \/ /\ ~run.ok \/ txs = <<>>
        /\ pool' = p
        /\ st' = run.st
        /\ panicked' = (panicked \/ run.ran > 0)
        /\ UNCHANGED <<head, proposal, autoMine>>

\* Admission, then sealing when the transaction is its sender's next.  A
\* refused transaction leaves everything as it was.
Submit(t) ==
  \E p \in Add(pool, t) :
    /\ p # pool
    /\ IF autoMine /\ t \in p.byHash /\ t.nonce = st.nonce[t.from]
       THEN \E txs \in IF IsDew(t) THEN SelectPendingDewTxs(p)
                                   ELSE SelectPendingTxs(p, {}) : Seal(p, txs)
       ELSE pool' = p /\ UNCHANGED <<st, head, proposal, autoMine, panicked>>

SendRawTransaction(t) ==
  /\ ~IsDew(t)
  /\ t.chainOK
  /\ t.nonce >= st.nonce[t.from]
  /\ AddEVMOK(t)
  /\ Submit(t)

SendDewRawTransaction(t) ==
  /\ IsDew(t)
  /\ t.chainOK
  /\ t.nonce >= st.nonce[t.from]
  /\ AddDewOK(t)
  /\ Submit(t)

\* A proposal that leaves the simulated state behind.
BuildBlockFromPoolInPlace ==
  /\ ~autoMine /\ proposal = NoBlock
  /\ proposal' \in Proposals
  /\ st' = proposal'.root
  /\ UNCHANGED <<pool, head, autoMine, panicked>>

\* The node proposes.  The simulation runs on a copy of the state.
BuildBlockFromPool ==
  /\ ~autoMine /\ proposal = NoBlock
  /\ proposal' \in Proposals
  /\ UNCHANGED <<pool, st, head, autoMine, panicked>>

\* Consensus commits the block txs, on this node's head, with its root.  A
\* block that does not execute to its root is refused.
ImportCommittedBlock(txs, root) ==
  LET run == ExecuteBlockTxs(st, txs)
  IN /\ ~autoMine
     /\ run.ok /\ run.st = root
     /\ Commit(pool, txs, root)
     /\ UNCHANGED <<autoMine, panicked>>

ImportOwn == proposal # NoBlock /\ ImportCommittedBlock(proposal.txs, proposal.root)

\* Another proposer executed the block on the same head.
ImportPeers ==
  \E txs \in PeerBlocks :
    ImportCommittedBlock(txs, ExecuteBlockTxs(head.root, txs).st)

\* The process ends and starts again: the pool is not kept, and the state is
\* the last block's, from disk.
Restart ==
  /\ pool' = EmptyPool
  /\ st' = head.root
  /\ proposal' = NoBlock
  /\ panicked' = FALSE
  /\ UNCHANGED <<head, autoMine>>

Next ==
  \/ \E t \in Txs : SendRawTransaction(t) \/ SendDewRawTransaction(t)
  \/ BuildBlockFromPool
  \/ ImportOwn
  \/ ImportPeers
  \/ Restart

\* Consensus keeps giving this node its turn and commits what it proposes
\* unless another block is committed first.
Fairness == WF_vars(BuildBlockFromPool) /\ WF_vars(ImportOwn)

Spec == Init /\ [][Next]_vars /\ Fairness

----------------------------------------------------------------------------
(* Properties.                                                             *)

\* The pool's indexes agree and its limits hold, whatever was replaced,
\* evicted or included: what Pool.add and Pool.removeLocked take for granted.
PoolConsistent == PoolInOrder(pool)

\* The transactions of the block that a step makes the head.
Sealed == IF head' = head THEN {} ELSE Range(head'.txs)

\* A pending transaction leaves the pool only because a block includes it, or
\* because exactly one newcomer takes its place, at the price Pool.add asks:
\* the bump for its sender and nonce, or a strictly higher one.  Pool.add takes
\* the old entry out before it checks the limits that may refuse the new one.
Replaced ==
  LET lost == pool.byHash \ (pool'.byHash \cup Sealed)
      new == (pool'.byHash \cup Sealed) \ pool.byHash
  IN \A t \in lost :
       /\ lost = {t}
       /\ \E e \in new :
            \/ /\ e.from = t.from /\ e.nonce = t.nonce
               /\ Price(e) >= MinReplacePrice(t)
            \/ Price(t) < Price(e)

\* Only the end of the process loses pending transactions otherwise: the pool
\* is not kept.
NothingLost == [][Restart \/ Replaced]_vars

\* ValidateAndExecuteBlock on the node's own head.
Validates(block) ==
  LET run == ExecuteBlockTxs(st, block.txs)
  IN run.ok /\ run.st = block.root

\* What BuildBlockFromPool proposes passes ValidateAndExecuteBlock on every
\* node with the same head, although transactions that failed were dropped
\* from between those that ran.
ProposalValidates == proposal # NoBlock => Validates(proposal)

\* Between handlers the state is the head's, whatever was simulated, refused
\* or sealed, until a seal panics halfway.
StateIsHeads == panicked \/ st = head.root

\* A transaction that would run does not stay behind ones that do not: on a
\* node that proposes, again and again no pending EVM transaction is left
\* that would run now (BuildBlockFromPool's exclude and select again).
PoolDrains ==
  []<>(autoMine \/ \A t \in pool.byHash :
         ~IsDew(t) /\ t.gas <= GasLimit => ~Executes(st, t))
=============================================================================
