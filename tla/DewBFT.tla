------------------------------- MODULE DewBFT -------------------------------
(***************************************************************************)
(* The Dew-BFT engines (consensus/engine.go) of one validator set, the     *)
(* round-timeout loop that drives them (consensus/runner.go) and the       *)
(* network between them.                                                   *)
(*                                                                         *)
(* Every method of Engine is one action, cut where the method releases     *)
(* e.mu: StartRound gives the lock up while the block is built and         *)
(* enterPrevoteLocked while the proposal is executed, so other handlers    *)
(* run inside those windows.  What runs under one acquisition of the lock  *)
(* (vote counting, the precommit it triggers, the commit that triggers)    *)
(* is one step.                                                            *)
(*                                                                         *)
(* Sent messages stay in msgs and may be handled any number of times, in   *)
(* any order or never: loss, duplication and reordering.                   *)
(***************************************************************************)
EXTENDS Integers, FiniteSets

CONSTANTS
  Validators,   \* addresses of the validator set
  Faulty,       \* the validators that may sign anything
  SetPower,     \* SetPower[S] is the summed voting power of S
  Proposer,     \* Proposer[h, r]: stake-weighted round robin, see ValidatorSet
  Blocks,       \* headers with their transactions; a block stands for its hash
  Number,       \* Number[b], the height in b's header
  ParentHash,   \* ParentHash[b], the block b's header names as its parent
  Executes,     \* <<p, b>>: executing b on the state after p gives b's root
  Genesis,      \* the header the engines start from
  Nil,          \* the zero hash of a nil vote
  None,         \* no vote, no proposal
  MaxHeight,    \* bounds: no round starts above them
  MaxRound

Correct == Validators \ Faulty
Hashes == Blocks \cup {Nil}
Heights == 0 .. MaxHeight
Rounds == 0 .. MaxRound

\* Power is a sum over the members, so it is additive; the validator set holds
\* more than nothing (NewValidatorSet refuses zero power) and less than a third
\* of it is faulty, the bound docs/security/threat-model.md:37 states.
ASSUME PowerAssumption ==
  /\ SetPower \in [SUBSET Validators -> Nat]
  /\ \A S, T \in SUBSET Validators :
       S \cap T = {} => SetPower[S \cup T] = SetPower[S] + SetPower[T]
  /\ Faulty \subseteq Validators
  /\ 3 * SetPower[Faulty] < SetPower[Validators]

ASSUME BlockAssumption ==
  /\ Genesis \in Blocks
  /\ Number \in [Blocks -> Nat]
  /\ ParentHash \in [Blocks -> Blocks]
  /\ Executes \subseteq Blocks \X Blocks
  /\ Nil \notin Blocks /\ None \notin Blocks /\ Nil # None
  /\ MaxHeight \in Nat /\ MaxRound \in Nat

VARIABLES
  eng,        \* eng[v]: the fields of v's Engine
  building,   \* building[v]: slots of StartRound calls inside the builder
  validating, \* validating[v]: enterPrevoteLocked calls inside the validator
  tick,       \* tick[v]: timeoutLoop has read a step that it will time out
  msgs,       \* proposals and votes broadcast so far
  commits,    \* CommitEvents delivered so far
  verdicts    \* history: proposals that passed ValidateProposal

vars == <<eng, building, validating, tick, msgs, commits, verdicts>>

\* The steps seen between two acquisitions of e.mu: StepCommit is set and left
\* within enterCommitLocked.
Steps == {"NewRound", "Propose", "Prevote", "Precommit"}
VoteSets == [Validators -> Hashes \cup {None}]

EngineState ==
  [height : Nat, round : Nat, step : Steps, parent : Blocks,
   proposal : Blocks \cup {None}, hasBlock : BOOLEAN, prevotes : VoteSets,
   precommits : VoteSets, lockedRound : Int, lockedHash : Hashes]

\* The signature covers the slot and the hash; the block may be missing.
Proposals ==
  [type : {"proposal"}, height : Nat, round : Nat, validator : Validators,
   hash : Blocks, block : BOOLEAN]

Votes ==
  [type : {"prevote", "precommit"}, height : Nat, round : Nat,
   validator : Validators, hash : Hashes]

Messages == Proposals \cup Votes

CommitEvents ==
  [validator : Validators, height : Nat, round : Nat, hash : Blocks,
   block : BOOLEAN]

Slots == [height : Nat, round : Nat]
\* hash is Nil when the proposal came without its block.
Calls ==
  {c \in [height : Nat, round : Nat, hash : Hashes, own : BOOLEAN] :
     c.own => c.hash # Nil}

Verdicts ==
  [validator : Validators, height : Nat, round : Nat, parent : Blocks,
   hash : Blocks]

----------------------------------------------------------------------------
(* Vote sets and quorums: consensus/state.go and validator.go.             *)

\* Mutant: one third is enough.
HasQuorumThird(S) == SetPower[S] * 3 > SetPower[Validators]

\* Strictly more than two thirds of the power of the set.
HasQuorum(S) == SetPower[S] * 3 > SetPower[Validators] * 2

NoVotes == [w \in Validators |-> None]

VotersFor(votes, h) == {w \in Validators : votes[w] = h}

\* One vote per validator and slot: a second one leaves the set as it is.
AddVote(votes, w, h) ==
  IF votes[w] # None THEN votes ELSE [votes EXCEPT ![w] = h]

\* The hashes, nil among them, that have a quorum of votes.
MajorityHash(votes) == {h \in Hashes : HasQuorum(VotersFor(votes, h))}

----------------------------------------------------------------------------
(* The part of the engine that runs under e.mu, as functions from the      *)
(* engine's fields to an outcome: the new fields, the votes put in the     *)
(* outbox and the commit event, if any.                                    *)

Outcome(e, votes, events) == [eng |-> e, votes |-> votes, commits |-> events]

\* Mutant: the precommits of the old slot stay.
ResetVotesButPrecommits(e) ==
  [e EXCEPT !.prevotes = NoVotes, !.proposal = None, !.hasBlock = FALSE]

ResetVotes(e) ==
  [e EXCEPT !.prevotes = NoVotes, !.precommits = NoVotes, !.proposal = None,
            !.hasBlock = FALSE]

EnterNextRound(e) ==
  [ResetVotes(e) EXCEPT !.round = e.round + 1, !.step = "NewRound",
                        !.lockedRound = -1, !.lockedHash = Nil]

\* Mutant: stays in the step Commit.
AdvanceHeightInCommit(e, b) ==
  [ResetVotes(e) EXCEPT !.height = e.height + 1, !.round = 0,
                        !.step = "Commit", !.parent = b,
                        !.lockedRound = -1, !.lockedHash = Nil]

\* The engine moves to the next height on top of block b.
AdvanceHeight(e, b) ==
  [ResetVotes(e) EXCEPT !.height = e.height + 1, !.round = 0,
                        !.step = "NewRound", !.parent = b,
                        !.lockedRound = -1, !.lockedHash = Nil]

\* A quorum for a hash that is not the hash of the stored proposal is an error
\* and leaves the engine in Precommit.  A proposal without its block is
\* committed all the same, on top of the old parent.
EnterCommit(v, e, h, votes) ==
  IF e.proposal = h
  THEN Outcome(AdvanceHeight(e, IF e.hasBlock THEN h ELSE e.parent), votes,
               {[validator |-> v, height |-> e.height, round |-> e.round,
                 hash |-> h, block |-> e.hasBlock]})
  ELSE Outcome(e, votes, {})

TryAfterPrecommit(v, e, votes) ==
  IF e.step # "Precommit" \/ MajorityHash(e.precommits) = {}
  THEN Outcome(e, votes, {})
  ELSE LET h == CHOOSE h \in MajorityHash(e.precommits) : TRUE
       IN  IF h = Nil THEN Outcome(EnterNextRound(e), votes, {})
                      ELSE EnterCommit(v, e, h, votes)

Vote(type, v, e, h) ==
  [type |-> type, height |-> e.height, round |-> e.round, validator |-> v,
   hash |-> h]

\* Precommit what the polka is for, and lock on it when it is a block.
EnterPrecommit(v, e, h, votes) ==
  LET locked == [e EXCEPT
        !.step = "Precommit",
        !.lockedRound = IF h = Nil THEN @ ELSE e.round,
        !.lockedHash = IF h = Nil THEN @ ELSE h,
        !.precommits = AddVote(@, v, h)]
  IN  TryAfterPrecommit(v, locked, votes \cup {Vote("precommit", v, e, h)})

TryAfterPrevote(v, e, votes) ==
  IF e.step # "Prevote" \/ MajorityHash(e.prevotes) = {}
  THEN Outcome(e, votes, {})
  ELSE EnterPrecommit(v, e, CHOOSE h \in MajorityHash(e.prevotes) : TRUE, votes)

----------------------------------------------------------------------------

\* NewEngine: height parent.Number + 1, round 0, nothing locked.
NewEngine(parent) ==
  [height |-> Number[parent] + 1, round |-> 0, step |-> "NewRound",
   parent |-> parent, proposal |-> None, hasBlock |-> FALSE,
   prevotes |-> NoVotes, precommits |-> NoVotes, lockedRound |-> -1,
   lockedHash |-> Nil]

Init ==
  /\ eng = [v \in Correct |-> NewEngine(Genesis)]
  /\ building = [v \in Correct |-> {}]
  /\ validating = [v \in Correct |-> {}]
  /\ tick = [v \in Correct |-> FALSE]
  /\ msgs = {}
  /\ commits = {}
  /\ verdicts = {}

SlotOf(e) == [height |-> e.height, round |-> e.round]

\* flush: the outbox reaches the network, the commit event the runner.
Flush(v, out, proposals) ==
  /\ eng' = [eng EXCEPT ![v] = out.eng]
  /\ msgs' = msgs \cup proposals \cup out.votes
  /\ commits' = commits \cup out.commits

\* Mutant: starts a round that is already in progress.
StartRoundTwice(v) ==
  LET e == eng[v]
  IN  /\ e.height <= MaxHeight /\ e.round <= MaxRound
      /\ eng' = [eng EXCEPT ![v] = [ResetVotes(e) EXCEPT !.step = "Propose"]]
      /\ building' = [building EXCEPT ![v] =
           IF Proposer[e.height, e.round] = v THEN @ \cup {SlotOf(e)} ELSE @]
      /\ UNCHANGED <<validating, tick, msgs, commits, verdicts>>

\* StartRound up to its first unlock.  Only the proposer of the slot goes on to
\* build; the others wait in Propose.
StartRound(v) ==
  LET e == eng[v]
  IN  /\ e.step = "NewRound"
      /\ e.height <= MaxHeight /\ e.round <= MaxRound
      /\ eng' = [eng EXCEPT ![v] = [ResetVotes(e) EXCEPT !.step = "Propose"]]
      /\ building' = [building EXCEPT ![v] =
           IF Proposer[e.height, e.round] = v THEN @ \cup {SlotOf(e)} ELSE @]
      /\ UNCHANGED <<validating, tick, msgs, commits, verdicts>>

\* enterPrevoteLocked up to its unlock: the proposal goes to the validator.
EnterPrevote(v, e, b, own) ==
  /\ eng' = [eng EXCEPT ![v] = [e EXCEPT !.step = "Prevote"]]
  /\ validating' = [validating EXCEPT ![v] = @ \cup
       {[height |-> e.height, round |-> e.round, hash |-> b, own |-> own]}]

\* The builder returns a block on the parent it was given.  Its state root is
\* computed from the node's state, which may lag the parent, so it need not be
\* right.  A call whose slot has passed is dropped.
BuildProposal(v, b) ==
  LET e == eng[v]
  IN  /\ \E s \in building[v] :
           /\ building' = [building EXCEPT ![v] = @ \ {s}]
           /\ s = SlotOf(e)
      /\ e.step = "Propose"
      /\ e.height = Number[e.parent] + 1
      /\ Number[b] = e.height /\ ParentHash[b] = e.parent
      /\ EnterPrevote(v, [e EXCEPT !.proposal = b, !.hasBlock = TRUE], b, TRUE)
      /\ UNCHANGED <<tick, msgs, commits, verdicts>>

\* The builder fails, or StartRound finds that its slot has passed.
AbandonBuild(v, s) ==
  /\ s \in building[v]
  /\ building' = [building EXCEPT ![v] = @ \ {s}]
  /\ UNCHANGED <<eng, validating, tick, msgs, commits, verdicts>>

\* HandleProposal: the first proposal of the slot from its proposer is kept,
\* and starts the prevote unless the engine is already past it.
HandleProposal(v, m) ==
  LET e == eng[v]
      kept == [e EXCEPT !.proposal = m.hash, !.hasBlock = m.block]
  IN  /\ m.height = e.height /\ m.round = e.round
      /\ e.proposal = None
      /\ m.validator = Proposer[e.height, e.round]
      /\ IF e.step \in {"Propose", "NewRound"}
         THEN EnterPrevote(v, kept, IF m.block THEN m.hash ELSE Nil, FALSE)
         ELSE eng' = [eng EXCEPT ![v] = kept] /\ UNCHANGED validating
      /\ UNCHANGED <<building, tick, msgs, commits, verdicts>>

\* Mutant: any block passes.
ValidateProposalLenient(e, b, ok) == ok \in BOOLEAN

\* ValidateProposal as the node runs it: the node's head must be the engine's
\* parent (it may lag behind it, so any proposal may fail) and executing the
\* block must give its state root.
ValidateProposal(e, b, ok) == ok => <<e.parent, b>> \in Executes

\* Mutant: votes for the slot the validation began in, whatever became of it.
FinishPrevoteLate(v, c, ok) ==
  LET e == eng[v]
      h == IF ok THEN c.hash ELSE Nil
      voted == [e EXCEPT !.prevotes = AddVote(@, v, h)]
  IN  /\ c \in validating[v]
      /\ ValidateProposal(e, c.hash, ok)
      /\ validating' = [validating EXCEPT ![v] = @ \ {c}]
      /\ Flush(v, TryAfterPrevote(v, voted, {Vote("prevote", v, c, h)}), {})
      /\ verdicts' = IF ok
           THEN verdicts \cup {[validator |-> v, height |-> c.height,
                  round |-> c.round, parent |-> e.parent, hash |-> c.hash]}
           ELSE verdicts
      /\ UNCHANGED <<building, tick>>

\* enterPrevoteLocked after the validator: a lock wins over the proposal, an
\* invalid proposal gets a nil prevote, and a call that finds the engine in
\* another slot or step casts no vote.  The proposer's proposal leaves only
\* now, and whatever became of the slot.
FinishPrevote(v, c, ok) ==
  LET e == eng[v]
      h == IF e.lockedRound >= 0 /\ e.lockedHash # Nil THEN e.lockedHash
           ELSE IF ok THEN c.hash ELSE Nil
      current == e.height = c.height /\ e.round = c.round /\ e.step = "Prevote"
      voted == [e EXCEPT !.prevotes = AddVote(@, v, h)]
      out == IF current
             THEN TryAfterPrevote(v, voted, {Vote("prevote", v, e, h)})
             ELSE Outcome(e, {}, {})
      proposal == [type |-> "proposal", height |-> c.height,
                   round |-> c.round, validator |-> v, hash |-> c.hash,
                   block |-> TRUE]
  IN  /\ c \in validating[v]
      /\ current => ValidateProposal(e, c.hash, ok)
      /\ validating' = [validating EXCEPT ![v] = @ \ {c}]
      /\ Flush(v, out, IF c.own THEN {proposal} ELSE {})
      /\ verdicts' = IF current /\ ok
           THEN verdicts \cup {[validator |-> v, height |-> e.height,
                  round |-> e.round, parent |-> e.parent, hash |-> c.hash]}
           ELSE verdicts
      /\ UNCHANGED <<building, tick>>

\* HandleVote: votes of another height or round are dropped, the others are
\* counted once, and a quorum moves the engine on.
HandleVote(v, m) ==
  LET e == eng[v]
      out == IF m.type = "prevote"
             THEN TryAfterPrevote(v,
                    [e EXCEPT !.prevotes = AddVote(@, m.validator, m.hash)], {})
             ELSE TryAfterPrecommit(v,
                    [e EXCEPT !.precommits = AddVote(@, m.validator, m.hash)], {})
  IN  /\ m.height = e.height /\ m.round = e.round
      /\ (IF m.type = "prevote" THEN e.prevotes ELSE e.precommits)[m.validator]
           = None
      /\ Flush(v, out, {})
      /\ UNCHANGED <<building, validating, tick, verdicts>>

\* timeoutLoop reads Step() and acts on it later, without holding the lock
\* in between.
TimeoutTick(v) ==
  /\ eng[v].step \in {"Propose", "Prevote", "Precommit"}
  /\ ~ tick[v]
  /\ tick' = [tick EXCEPT ![v] = TRUE]
  /\ UNCHANGED <<eng, building, validating, msgs, commits, verdicts>>

ForceTimeoutRound(v) ==
  /\ tick[v]
  /\ tick' = [tick EXCEPT ![v] = FALSE]
  /\ eng' = [eng EXCEPT ![v] = EnterNextRound(@)]
  /\ UNCHANGED <<building, validating, msgs, commits, verdicts>>

\* ApplySyncedBlock: a block some engine committed, imported from a peer.
ApplySyncedBlock(v, b) ==
  /\ \E c \in commits : c.hash = b /\ c.block
  /\ Number[b] = eng[v].height
  /\ ParentHash[b] = eng[v].parent
  /\ eng' = [eng EXCEPT ![v] = AdvanceHeight(@, b)]
  /\ UNCHANGED <<building, validating, tick, msgs, commits, verdicts>>

\* What a faulty validator can sign, whenever it likes.
FaultyProposals ==
  [type : {"proposal"}, height : Heights, round : Rounds, validator : Faulty,
   hash : Blocks \ {Genesis}, block : BOOLEAN]

FaultyVotes ==
  [type : {"prevote", "precommit"}, height : Heights, round : Rounds,
   validator : Faulty, hash : Hashes \ {Genesis}]

\* Every engine is past the bounds of the model.
BoundReached ==
  /\ \A v \in Correct : eng[v].height > MaxHeight \/ eng[v].round > MaxRound
  /\ UNCHANGED vars

Next ==
  \/ \E v \in Correct :
       \/ StartRound(v)
       \/ \E b \in Blocks : BuildProposal(v, b)
       \/ \E s \in building[v] : AbandonBuild(v, s)
       \/ \E m \in msgs \cup FaultyProposals :
            m.type = "proposal" /\ HandleProposal(v, m)
       \/ \E c \in validating[v], ok \in BOOLEAN : FinishPrevote(v, c, ok)
       \/ \E m \in msgs \cup FaultyVotes :
            m.type # "proposal" /\ HandleVote(v, m)
       \/ TimeoutTick(v)
       \/ ForceTimeoutRound(v)
       \/ \E b \in Blocks : ApplySyncedBlock(v, b)
  \/ BoundReached

Spec == Init /\ [][Next]_vars

----------------------------------------------------------------------------
(* Properties.                                                             *)

\* The type of every variable.
TypeOK ==
  /\ eng \in [Correct -> EngineState]
  /\ building \in [Correct -> SUBSET Slots]
  /\ validating \in [Correct -> SUBSET Calls]
  /\ tick \in [Correct -> BOOLEAN]
  /\ msgs \subseteq Messages
  /\ commits \subseteq CommitEvents
  /\ verdicts \subseteq Verdicts

SameSlot(x, y) == x.height = y.height /\ x.round = y.round

\* VerifyDoubleSign (consensus/evidence.go) accepts two votes of one validator,
\* type, height and round with different hashes.
DoubleSign(m, n) ==
  /\ m.type = n.type /\ m.type # "proposal"
  /\ m.validator = n.validator
  /\ SameSlot(m, n)
  /\ m.hash # n.hash

\* No correct validator, whatever the timeouts, syncs and late validations in
\* between, ever signs two votes that VerifyDoubleSign would take as evidence
\* and SlashAndJail would burn its stake for.
NoFalseEvidence == \A m, n \in msgs : ~ DoubleSign(m, n)

\* Two engines that commit in the same height and round commit the same block.
SlotAgreement ==
  \A c, d \in commits : SameSlot(c, d) => c.hash = d.hash

\* consensus/doc.go: "Invalid proposals (e.g. wrong state root) receive a nil
\* prevote and are never committed by honest validators".  Every block an engine
\* commits was executed with success by a correct validator in the same round,
\* although an engine may precommit and commit without having executed it.
CommittedWasExecuted ==
  \A c \in commits : \E d \in verdicts :
    /\ SameSlot(c, d) /\ c.hash = d.hash
    /\ d.validator \in Correct
    /\ <<d.parent, d.hash>> \in Executes

\* What the engines promise, seen in the validations that succeeded and the
\* commit events that were delivered.
Promise ==
  INSTANCE Decisions WITH
    executed <- {[height |-> d.height, round |-> d.round, hash |-> d.hash] :
                   d \in verdicts},
    decided <- {[validator |-> c.validator, height |-> c.height,
                 round |-> c.round, hash |-> c.hash] : c \in commits}

\* The engines implement Decisions: whatever the order of their handlers, the
\* commit events (enterCommitLocked) are one block per height and round, each
\* executed before, and one per height and in order at every engine.
RefinesDecisions == Promise!Spec

\* A vote is signed only for the slot its engine is in: neither a validation
\* that returns late nor a cascade of handlers signs for a slot already left.
VotesAreCurrent ==
  [][\A m \in msgs' \ msgs :
       m.type # "proposal" => SameSlot(m, eng[m.validator])]_vars

\* The correct validators that sent a prevote (or precommit) for h in a slot,
\* and all the faulty ones.
BackersIn(ms, type, slot, h) ==
  Faulty \cup {w \in Correct :
    [type |-> type, height |-> slot.height, round |-> slot.round,
     validator |-> w, hash |-> h] \in ms}

\* consensus/local.go:131: "First commit for this height wins (all honest
\* should agree)"; docs/consensus/dew-bft.md:11: "commits are final".  Engines
\* commit one block per height, in whatever rounds they commit it.
HeightAgreement ==
  \A c, d \in commits : c.height = d.height => c.hash = d.hash

----------------------------------------------------------------------------
(* The inductive invariant behind NoFalseEvidence, SlotAgreement and       *)
(* CommittedWasExecuted.  Its parts take the state as arguments, so that   *)
(* the proof (ConsensusProofs) can follow it through the cascade of a      *)
(* handler and not only from one state of the specification to the next.   *)

Before(x, y) ==
  x.height < y.height \/ (x.height = y.height /\ x.round < y.round)

\* A vote of m's kind is still counted by the engine that sent it.
Recorded(m, e) ==
  /\ m.type = "prevote" =>
       e.step \in {"Prevote", "Precommit"} /\ e.prevotes[m.validator] = m.hash
  /\ m.type = "precommit" =>
       e.step = "Precommit" /\ e.precommits[m.validator] = m.hash

\* Only correct validators' messages are in ms; each vote is of a slot its
\* engine has left or is in, and in the latter case the engine counts it.
SentIsRecorded(en, ms) ==
  \A m \in ms :
    /\ m.validator \in Correct
    /\ m.type # "proposal" =>
         \/ Before(m, en[m.validator])
         \/ SameSlot(m, en[m.validator]) /\ Recorded(m, en[m.validator])

\* A vote an engine counts for a correct validator is one that validator sent.
CountedWasSent(en, ms) ==
  \A v, w \in Correct :
    /\ en[v].prevotes[w] # None =>
         Vote("prevote", w, en[v], en[v].prevotes[w]) \in ms
    /\ en[v].precommits[w] # None =>
         Vote("precommit", w, en[v], en[v].precommits[w]) \in ms

\* A validation in flight belongs to a slot its engine is in or has left, there
\* is one per slot, and until it returns the engine has no prevote of its own.
ValidatingIsFresh(en, va) ==
  \A v \in Correct : \A c \in va[v] :
    /\ \/ Before(c, en[v])
       \/ /\ SameSlot(c, en[v])
          /\ en[v].step \in {"Prevote", "Precommit"}
          /\ en[v].prevotes[v] = None
    /\ \A d \in va[v] : SameSlot(c, d) => c = d

\* A lock never outlives the round that took it.
LockInPrecommit(en) ==
  \A v \in Correct : en[v].lockedRound >= 0 => en[v].step = "Precommit"

\* A precommit for a block rests on a polka, a prevote for a block on a
\* successful validation, a commit on a quorum of precommits.
PrecommitJustified(ms) ==
  \A m \in ms : m.type = "precommit" /\ m.hash # Nil =>
    HasQuorum(BackersIn(ms, "prevote", m, m.hash))

PrevoteJustified(ms, ve) ==
  \A m \in ms : m.type = "prevote" /\ m.hash # Nil =>
    \E d \in ve : SameSlot(m, d) /\ d.hash = m.hash

VerdictJustified(ve) ==
  \A d \in ve : d.validator \in Correct /\ <<d.parent, d.hash>> \in Executes

CommitJustified(ms, co) ==
  \A c \in co : HasQuorum(BackersIn(ms, "precommit", c, c.hash))

SignedOnce(ms) == \A m, n \in ms : ~ DoubleSign(m, n)

StateTypes(en, va, ms, co, ve) ==
  /\ en \in [Correct -> EngineState]
  /\ va \in [Correct -> SUBSET Calls]
  /\ ms \subseteq Messages
  /\ co \subseteq CommitEvents
  /\ ve \subseteq Verdicts

Inv(en, va, ms, co, ve) ==
  /\ StateTypes(en, va, ms, co, ve)
  /\ SentIsRecorded(en, ms)
  /\ CountedWasSent(en, ms)
  /\ ValidatingIsFresh(en, va)
  /\ LockInPrecommit(en)
  /\ PrecommitJustified(ms)
  /\ PrevoteJustified(ms, ve)
  /\ VerdictJustified(ve)
  /\ CommitJustified(ms, co)
  /\ SignedOnce(ms)

IndInv == TypeOK /\ Inv(eng, validating, msgs, commits, verdicts)
=============================================================================
