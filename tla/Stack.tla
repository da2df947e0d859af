------------------------------- MODULE Stack --------------------------------
(***************************************************************************)
(* The stack of a validator node (node/stack.go): what joins the BFT       *)
(* engine to the node that executes and stores blocks.  Blocks reach the   *)
(* node by the engine's commit events (OnCommit) and from peers (OnBlock); *)
(* the engine is moved by its own commits and by synced blocks; and its    *)
(* validator set is the genesis set at start and, from an epoch boundary   *)
(* on, the staking module's active set (TryRotateValidatorSet).            *)
(*                                                                         *)
(* Agreement on the chain is taken for granted here (see DewBFT): there is *)
(* one block per height, and active[h] is what ActiveSet() returns in the  *)
(* state after it.  Both callbacks run outside the engine's lock, the      *)
(* first after the engine has moved on and the second once per peer        *)
(* connection at the same time, and are cut where they hold no lock.       *)
(***************************************************************************)
EXTENDS ValidatorSet, FiniteSets

CONSTANTS
  Nodes,
  GenesisSet,   \* the initial validators, [addr, power]
  ActiveLists,  \* what ActiveSet() may return: sequences of [addr, stake]
  EpochLength,
  Handlers,     \* how many peers' OnBlock calls a node runs at once
  MaxBlock      \* bound: no block above it

ASSUME StackAssumption ==
  EpochLength \in Nat /\ MaxBlock \in Nat /\ Handlers \in Nat

VARIABLES
  active,     \* active[h]: ActiveSet() in the state after block h
  head,       \* head[n]: number of n's last imported block
  height,     \* height[n]: the height n's engine works on
  delivered,  \* delivered[n]: commit events whose OnCommit has not begun
  rotating,   \* rotating[n]: OnCommit calls between import and rotation
  applying,   \* applying[n]: OnBlock calls between import and engine
  valSet      \* valSet[n]: the engine's validator set

stackVars == <<active, head, height, delivered, rotating, applying, valSet>>

StackInit ==
  /\ active \in [1 .. MaxBlock -> ActiveLists]
  /\ head = [n \in Nodes |-> 0]
  /\ height = [n \in Nodes |-> 1]
  /\ delivered = [n \in Nodes |-> {}]
  /\ rotating = [n \in Nodes |-> {}]
  /\ applying = [n \in Nodes |-> {}]
  /\ valSet = [n \in Nodes |-> NewValidatorSet(GenesisSet)]

\* enterCommitLocked: the engine moves on and its commit event is on the way.
EngineCommit(n) ==
  /\ height[n] <= MaxBlock
  /\ height' = [height EXCEPT ![n] = @ + 1]
  /\ delivered' = [delivered EXCEPT ![n] = @ \cup {height[n]}]
  /\ UNCHANGED <<active, head, rotating, applying, valSet>>

\* OnCommit up to the end of ImportCommittedBlock, which accepts the next block
\* and any block already stored.  A gap is an error: OnCommit returns and the
\* event is lost.
OnCommitImport(n, h) ==
  /\ h \in delivered[n]
  /\ delivered' = [delivered EXCEPT ![n] = @ \ {h}]
  /\ head' = IF h = head[n] + 1 THEN [head EXCEPT ![n] = h] ELSE head
  /\ rotating' = IF h <= head[n] + 1
                 THEN [rotating EXCEPT ![n] = @ \cup {h}] ELSE rotating
  /\ UNCHANGED <<active, height, applying, valSet>>

\* Mutant: an active set that NewValidatorSet refuses is installed all the same.
OnCommitRotateUnchecked(n, h) ==
  LET current == active[head[n]]
      next == [i \in DOMAIN current |->
        [addr |-> current[i].addr, power |-> PowerFromU256(current[i].stake)]]
  IN  /\ h \in rotating[n]
      /\ rotating' = [rotating EXCEPT ![n] = @ \ {h}]
      /\ valSet' = IF ShouldRotateEpoch(h, EpochLength)
                   THEN [valSet EXCEPT ![n] = next] ELSE valSet
      /\ UNCHANGED <<active, head, height, delivered, applying>>

\* OnCommit from TryRotateValidatorSet on.  ActiveSet() reads the node's state
\* as it is now, which is that of the head and not of block h.  An empty active
\* set keeps the old validators; so does one that NewValidatorSet refuses, the
\* error being dropped.
OnCommitRotate(n, h) ==
  LET current == active[head[n]]
      next == IF current = <<>> THEN Rejected ELSE ActiveSetToValidatorSet(current)
  IN  /\ h \in rotating[n]
      /\ rotating' = [rotating EXCEPT ![n] = @ \ {h}]
      /\ valSet' = IF ShouldRotateEpoch(h, EpochLength) /\ next # Rejected
                   THEN [valSet EXCEPT ![n] = next] ELSE valSet
      /\ UNCHANGED <<active, head, height, delivered, applying>>

\* OnBlock up to the end of ImportCommittedBlock: a block some peer has, the
\* next one or one already stored; any other is an error and leaves no trace.
OnBlockImport(n, h) ==
  /\ Cardinality(applying[n]) < Handlers
  /\ \E m \in Nodes : head[m] >= h
  /\ h <= head[n] + 1
  /\ head' = IF h = head[n] + 1 THEN [head EXCEPT ![n] = h] ELSE head
  /\ applying' = [applying EXCEPT ![n] = @ \cup {h}]
  /\ UNCHANGED <<active, height, delivered, rotating, valSet>>

\* Mutant: the height check is off by one.
OnBlockApplyOffByOne(n, h) ==
  /\ h \in applying[n]
  /\ applying' = [applying EXCEPT ![n] = @ \ {h}]
  /\ height' = IF height[n] + 1 = h THEN [height EXCEPT ![n] = h + 1] ELSE height
  /\ UNCHANGED <<active, head, delivered, rotating, valSet>>

\* OnBlock from ApplySyncedBlock on: an engine at the block's height moves past
\* it, an engine anywhere else stays.  The set is not rotated.
OnBlockApply(n, h) ==
  /\ h \in applying[n]
  /\ applying' = [applying EXCEPT ![n] = @ \ {h}]
  /\ height' = IF height[n] = h THEN [height EXCEPT ![n] = h + 1] ELSE height
  /\ UNCHANGED <<active, head, delivered, rotating, valSet>>

\* StartStack on the persisted head: the set is the one of the genesis file.
Restart(n) ==
  /\ height' = [height EXCEPT ![n] = head[n] + 1]
  /\ delivered' = [delivered EXCEPT ![n] = {}]
  /\ rotating' = [rotating EXCEPT ![n] = {}]
  /\ applying' = [applying EXCEPT ![n] = {}]
  /\ valSet' = [valSet EXCEPT ![n] = NewValidatorSet(GenesisSet)]
  /\ UNCHANGED <<active, head>>

StackNext ==
  \E n \in Nodes :
    \/ EngineCommit(n)
    \/ \E h \in delivered[n] : OnCommitImport(n, h)
    \/ \E h \in rotating[n] : OnCommitRotate(n, h)
    \/ \E h \in 1 .. MaxBlock : OnBlockImport(n, h)
    \/ \E h \in applying[n] : OnBlockApply(n, h)
    \/ Restart(n)

StackSpec == StackInit /\ [][StackNext]_stackVars

----------------------------------------------------------------------------
(* Properties.                                                             *)

\* Whatever order commit events, imports, syncs and restarts come in, an engine
\* only ever holds a set that all its validators together can form a quorum of,
\* so that HasQuorum does not lock the chain up.
QuorumReachable ==
  \A n \in Nodes :
    /\ valSet[n] # Rejected
    /\ HasQuorumWord(SumPower(valSet[n]), SumPower(valSet[n]))

Quiet(n) == delivered[n] = {} /\ rotating[n] = {} /\ applying[n] = {}

\* node/stack.go:261: "Validators that missed local BFT commit catch up
\* execution above; advance the engine so they rejoin the next height".  Once no
\* callback is in flight, no engine works on a height its node has stored.
EngineKeepsUp == \A n \in Nodes : Quiet(n) => height[n] > head[n]
=============================================================================
