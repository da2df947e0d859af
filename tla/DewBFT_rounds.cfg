SPECIFICATION Spec
CONSTANTS
  Validators <- MCValidators
  Faulty <- NoFaulty
  SetPower <- MCSetPower
  Proposer <- MCProposer
  Blocks <- MCBlocks
  Number <- MCNumber
  ParentHash <- MCParentHash
  Executes <- MCExecutes
  Genesis <- MCGenesis
  Powers <- OneOne
  GenesisNumber = 0
  Payloads = {"a", "bad"}
  Nil = Nil
  None = None
  MaxHeight = 2
  MaxRound = 1
INVARIANTS NoFalseEvidence CommittedWasExecuted
PROPERTY VotesAreCurrent
CONSTRAINT LateOnce
