SPECIFICATION Spec
CONSTANTS
  Senders = {"a", "b", "c"}
  Accounts = {"a", "b", "c", "p"}
  Proposer = "p"
  Nonces = {0, 1, 2}
  Txs <- MCTxs
  PeerBlocks <- MCPeerBlocks
  Funds <- MCFunds
  NoTx = NoTx
  NoBlock = NoBlock
  MaxGlobal = 4
  MaxPerSender = 2
  MaxTxBytes = 2
  MinGasPrice = 8
  MinTip = 1
  MinDewFee = 8
  DefaultDewFee = 9
  BaseFee = 7
  PriceBumpPercent = 10
  GasLimit = 2
  MaxTxsPerBlock = 2
  MaxProposalSimAttempts = 3
INVARIANTS PoolConsistent StateIsHeads ProposalValidates
PROPERTIES NothingLost 
