SPECIFICATION Spec
CONSTANTS
  m1 = m1
  m2 = m2
  Makers = {m1, m2}
  Tokens = {"t"}
  Prices = {3, 9}
  Amounts = {2, 3}
  Scale = 4
  Word = 5
  MaxOpenPerMaker = 2
  Reverts = {TRUE, FALSE}
  MaxOrders = 3
  MaxFills = 2
SYMMETRY MCSymmetry
INVARIANTS  EscrowCoversOrders IndexIsExact BestIsBest
CHECK_DEADLOCK FALSE
