SPECIFICATION Spec
CONSTANTS
  Validators <- MCValidators
  Faulty <- OneFaulty
  SetPower <- MCSetPower
  Proposer <- MCProposer
  Blocks <- MCBlocks
  Number <- MCNumber
  ParentHash <- MCParentHash
  Executes <- MCExecutes
  Genesis <- MCGenesis
  Powers <- TwoOneOne
  GenesisNumber = 2
  Payloads = {"a", "b"}
  Nil = Nil
  None = None
  MaxHeight = 3
  MaxRound = 0
INVARIANT IndInv
PROPERTY RefinesDecisions
