SPECIFICATION Spec
CONSTANTS
  Accounts = {1}
  Pairs <- TwoDelegators
  BondAmounts = {9}
  DelAmounts = {18}
  Incomes = {7}
  Commissions = {7}
  MaxUnbacked = 18
  MaxBalance = 36
  MaxRoundings = 2
  MaxTime = 2
  Precision = 20
  MaxBps = 20
  SelfBurnBps = 20
  DelBurnBps = 1
  MinSelfStake = 10
  UnbondSeconds = 1
INVARIANTS SharesAddUp EscrowShortByDust
PROPERTY UnbondingPeriodServed
CHECK_DEADLOCK FALSE
