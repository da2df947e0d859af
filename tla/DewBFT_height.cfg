SPECIFICATION Spec
CONSTANTS
  Validators <- MCValidators
  Faulty <- NoFaulty
  SetPower <- MCSetPower
  Proposer <- MCProposer
  Blocks <- MCBlocks
  Number <- MCNumber
  ParentHash <- MCParentHash
  Executes <- MCExecutes
  Genesis <- MCGenesis
  Powers <- TwoOneOne
  GenesisNumber = 3
  Payloads = {"a", "b"}
  Nil = Nil
  None = None
  MaxHeight = 4
  MaxRound = 1
INVARIANT HeightAgreement
CONSTRAINT NoNilVotes
