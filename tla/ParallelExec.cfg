SPECIFICATION ParallelSpec
CONSTANTS
  a = a
  b = b
  c = c
  d = d
  e = e
  x = x
  da = da
  db = db
  coin = coin
  kc = kc
  kd = kd
  none = none
  NoAccount = none
  Addrs <- AllAddrs
  Slots <- AllSlots
  Owner <- OwnerOf
  SlotOf <- Slot
  Deployed <- DeployedBy
  Coinbase = coin
  Messages <- BlockMessages
  Earlier <- EarlierMessages
  Genesis <- Accounts
  NumMsgs = 3
  Workers = 2
  GasLimit = 2
 
PROPERTIES Terminates
CHECK_DEADLOCK FALSE
