------------------------------ MODULE MCDewBFT ------------------------------
(* Small instances of DewBFT.                                              *)
EXTENDS DewBFT, Sequences, FiniteSetsExt

CONSTANTS
  Powers,         \* Powers[i], the voting power of validator i
  GenesisNumber,  \* the height of the header the engines start from
  Payloads        \* what distinguishes two blocks on one parent

LOCAL VS == INSTANCE ValidatorSet WITH Width <- 6

MCSet ==
  VS!NewValidatorSet([i \in DOMAIN Powers |-> [addr |-> i, power |-> Powers[i]]])

MCValidators == {MCSet[i].addr : i \in DOMAIN MCSet}

MCSetPower ==
  [S \in SUBSET MCValidators |->
     MapThenSumSet(LAMBDA w : MCSet[w].power, S)]

MCProposer ==
  [s \in (0 .. MaxHeight + 1) \X (0 .. MaxRound + 2) |->
     VS!ProposerOf(MCSet, s[1], s[2])]

TwoOneOne == <<2, 1, 1>>
OneOne == <<1, 1>>
NoFaulty == {}
OneFaulty == {3}

\* Blocks as chains of payloads: the hash of a block fixes its whole chain.
MCGenesis == <<>>
\* A payload "bad" is only tried at the last height.
MCBlocks ==
  {b \in UNION {[1 .. k -> Payloads] : k \in 0 .. MaxHeight - GenesisNumber} :
     \A i \in DOMAIN b : b[i] = "bad" => i = MaxHeight - GenesisNumber}
MCNumber == [b \in Blocks |-> GenesisNumber + Len(b)]
MCParentHash ==
  [b \in Blocks |-> IF b = <<>> THEN b ELSE SubSeq(b, 1, Len(b) - 1)]

\* Only payload "bad" carries a wrong state root; the others change nothing in
\* the state (empty blocks), so they execute on every parent.
MCExecutes ==
  {pb \in Blocks \X Blocks : pb[2] # <<>> /\ pb[2][Len(pb[2])] # "bad"}

\* Keeps the search to behaviours that leave the first round in one height: one
\* that decides the first height late decides the last one in its first round.
LateOnce ==
  (\E c \in commits : c.height < MaxHeight /\ c.round > 0) =>
    \A v \in Correct : eng[v].height = MaxHeight => eng[v].round = 0

\* Narrows the search of a run that looks for a violation to behaviours in
\* which every proposal passes validation.
NoNilVotes == \A m \in msgs : m.hash # Nil
=============================================================================
