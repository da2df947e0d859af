------------------------------ MODULE Staking -------------------------------
(***************************************************************************)
(* The staking module at 0x102: its storage (core/native/staking.go) and   *)
(* the calls that change it (core/vm/precompiles.go), with the module's    *)
(* balance, out of which every claim is paid.                              *)
(*                                                                         *)
(* The module writes its slots with StateDB.SetState, which is not         *)
(* journaled; balances are.  So a call whose frame is reverted, by its own *)
(* error or by a caller's, takes back the value it moved and keeps the     *)
(* slots it wrote.                                                         *)
(*                                                                         *)
(* Amounts are wei, rates and the reward index are scaled by Precision     *)
(* (1e18 in the code), fractions are in parts of MaxBps (10000).           *)
(***************************************************************************)
EXTENDS Integers, Sequences, FiniteSets, FiniteSetsExt, Functions

CONSTANTS
  Accounts,       \* addresses that stake: numbers, ordered as their bytes
  Pairs,          \* who delegates to whom: pairs <<validator, delegator>>
  BondAmounts,    \* what bond and unbond may be called with
  DelAmounts,     \* what delegate and undelegate may be called with
  Incomes,        \* tips and fees of a proposer
  Precision, MaxBps, SelfBurnBps, DelBurnBps,
  MinSelfStake, UnbondSeconds,
  Commissions,    \* what SetCommission may be called with
  MaxBalance,     \* bounds: of the escrow,
  MaxUnbacked,    \* of the value taken back by callers that revert,
  MaxRoundings,   \* of the calls that round in the caller's favour,
  MaxTime         \* and of the clock

ASSUME StakingAssumption ==
  /\ Accounts \subseteq Nat /\ IsFiniteSet(Accounts)
  /\ IsFiniteSet(Pairs)
  /\ \A p \in Pairs : p[1] \in Accounts /\ p[1] # p[2]
  /\ BondAmounts \cup DelAmounts \cup Incomes \subseteq Nat \ {0}
  /\ MaxBps \in Nat \ {0} /\ Precision \in Nat /\ Precision >= MaxBps
  /\ SelfBurnBps \in 0 .. MaxBps /\ DelBurnBps \in 0 .. MaxBps - 1
  /\ MinSelfStake \in Nat \ {0} /\ UnbondSeconds \in Nat
  /\ Commissions \subseteq Nat

VARIABLES
  slots,      \* the module's storage
  bal,        \* the balance of 0x102
  now,        \* the block time
  unbacked,   \* history: value credited and taken back with a reverted frame
  roundings,  \* history: calls that may have rounded up what they owe
  asked       \* history: when an account last asked for its stake back

vars == <<slots, bal, now, unbacked, roundings, asked>>

Init ==
  /\ slots = [self |-> [a \in Accounts |-> 0],
              cand |-> [a \in Accounts |-> FALSE],
              list |-> <<>>,
              jailed |-> [a \in Accounts |-> FALSE],
              unbondAmt |-> [a \in Accounts |-> 0],
              unbondAt |-> [a \in Accounts |-> 0],
              del |-> [p \in Pairs |-> 0],
              delTot |-> [a \in Accounts |-> 0],
              comm |-> [a \in Accounts |-> 0],
              delUnbondAmt |-> [p \in Pairs |-> 0],
              delUnbondAt |-> [p \in Pairs |-> 0],
              delRate |-> [a \in Accounts |-> Precision],
              rewIdx |-> [a \in Accounts |-> 0],
              rewDebt |-> [p \in Pairs |-> 0],
              rewPend |-> [p \in Pairs |-> 0]]
  /\ bal = 0
  /\ now = 0
  /\ unbacked = 0
  /\ roundings = 0
  /\ asked = [a \in Accounts |-> 0]

----------------------------------------------------------------------------
(* Conversions and the parts of the calls, as functions of the storage.    *)

SharesToWei(s, v, shares) == (shares * s.delRate[v]) \div Precision
WeiToShares(s, v, wei) == (wei * Precision) \div s.delRate[v]

Delegation(s, p) == SharesToWei(s, p[1], s.del[p])
DelegatedTotal(s, v) == SharesToWei(s, v, s.delTot[v])

RewardDebtForShares(s, v, shares) == (shares * s.rewIdx[v]) \div Precision

\* What the index has added to a position since its debt was set.
Accrued(s, p) ==
  Max({0, RewardDebtForShares(s, p[1], s.del[p]) - s.rewDebt[p]})

\* Mutant: the debt is not refreshed.
SettleRewardsKeepDebt(s, p) == [s EXCEPT !.rewPend[p] = @ + Accrued(s, p)]

SettleRewards(s, p) ==
  [s EXCEPT !.rewPend[p] = @ + Accrued(s, p),
            !.rewDebt[p] = RewardDebtForShares(s, p[1], s.del[p])]

\* One when settling this position can round in its favour.
Rounds(s, p) == IF Accrued(s, p) > 0 THEN 1 ELSE 0

\* An account that left and comes back is appended again: Unbond and Jail clear
\* the flag and keep the entry.
RegisterCandidate(s, a) ==
  [s EXCEPT !.cand[a] = TRUE, !.list = Append(@, a)]

----------------------------------------------------------------------------
(* The calls.  A call that fails before it writes anything changes         *)
(* nothing and is left out; one that fails after settling a position       *)
(* leaves what PendingRewards would.                                       *)

\* The value a call moved into the escrow stays unless a caller reverts, which
\* takes it back and leaves what the call wrote.
Receives(amt) ==
  /\ bal + unbacked + amt <= MaxBalance
  /\ \/ bal' = bal + amt /\ UNCHANGED unbacked
     \/ unbacked + amt <= MaxUnbacked /\ unbacked' = unbacked + amt /\ UNCHANGED bal

Bond(a, amt) ==
  LET s == [slots EXCEPT !.self[a] = @ + amt]
  IN  /\ slots' = IF s.self[a] >= MinSelfStake /\ ~ s.cand[a]
                  THEN RegisterCandidate(s, a) ELSE s
      /\ Receives(amt)
      /\ UNCHANGED <<now, roundings, asked>>

\* Mutant: the new amount keeps the unlock time of an older one.
UnbondKeepUnlock(a, amt) ==
  /\ ~ slots.jailed[a]
  /\ slots.self[a] >= amt
  /\ slots' = [slots EXCEPT
       !.self[a] = @ - amt,
       !.cand[a] = @ /\ slots.self[a] - amt >= MinSelfStake,
       !.unbondAmt[a] = @ + amt,
       !.unbondAt[a] = IF @ = 0 THEN now + UnbondSeconds ELSE @]
  /\ asked' = [asked EXCEPT ![a] = now]
  /\ UNCHANGED <<bal, now, unbacked, roundings>>

\* Self-stake goes to one pending amount per account, unlocked when the last
\* request is old enough.
Unbond(a, amt) ==
  /\ ~ slots.jailed[a]
  /\ slots.self[a] >= amt
  /\ slots' = [slots EXCEPT
       !.self[a] = @ - amt,
       !.cand[a] = @ /\ slots.self[a] - amt >= MinSelfStake,
       !.unbondAmt[a] = @ + amt,
       !.unbondAt[a] = Max({@, now + UnbondSeconds})]
  /\ asked' = [asked EXCEPT ![a] = now]
  /\ UNCHANGED <<bal, now, unbacked, roundings>>

\* The precompile clears the pending amount and pays.  Where it finds the escrow
\* too small, or the caller reverts, only the payment is undone.
Pays(amt) ==
  /\ \/ bal >= amt /\ bal' = bal - amt
     \/ UNCHANGED bal
  /\ UNCHANGED unbacked

Withdraw(a) ==
  /\ slots.unbondAmt[a] > 0
  /\ now >= slots.unbondAt[a]
  /\ slots' = [slots EXCEPT !.unbondAmt[a] = 0, !.unbondAt[a] = 0]
  /\ Pays(slots.unbondAmt[a])
  /\ UNCHANGED <<now, roundings, asked>>

\* The jail call with verified evidence against a.  Jailing is for good.
SlashAndJail(a) ==
  LET selfBurn == (slots.self[a] * SelfBurnBps) \div MaxBps
      delBurn == (DelegatedTotal(slots, a) * DelBurnBps) \div MaxBps
      rate == (slots.delRate[a] * (MaxBps - DelBurnBps)) \div MaxBps
  IN  /\ ~ slots.jailed[a]
      /\ slots' = [slots EXCEPT
           !.self[a] = @ - selfBurn,
           !.delRate[a] = IF delBurn = 0 THEN @
                          ELSE IF rate = 0 /\ DelBurnBps < MaxBps THEN 1 ELSE rate,
           !.jailed[a] = TRUE,
           !.cand[a] = FALSE]
      /\ bal' = Max({0, bal - (selfBurn + delBurn)})
      /\ UNCHANGED <<now, unbacked, roundings, asked>>

\* Mutant: the shares are counted for the delegator only.
DelegateNoTotal(p, amt) ==
  LET s == SettleRewards(slots, p)
      next == s.del[p] + WeiToShares(s, p[1], amt)
  IN  /\ WeiToShares(s, p[1], amt) > 0
      /\ slots' = [s EXCEPT !.del[p] = next,
                            !.rewDebt[p] = RewardDebtForShares(s, p[1], next)]
      /\ Receives(amt)
      /\ roundings' = roundings + Rounds(slots, p)
      /\ roundings' <= MaxRoundings
      /\ UNCHANGED <<now, asked>>

\* Value becomes shares at the current rate, rounded down.
Delegate(p, amt) ==
  LET s == SettleRewards(slots, p)
      add == WeiToShares(s, p[1], amt)
  IN  /\ add > 0
      /\ slots' = [s EXCEPT
           !.del[p] = @ + add,
           !.delTot[p[1]] = @ + add,
           !.rewDebt[p] = RewardDebtForShares(s, p[1], s.del[p] + add)]
      /\ Receives(amt)
      /\ roundings' = roundings + Rounds(slots, p)
      /\ roundings' <= MaxRoundings
      /\ UNCHANGED <<now, asked>>

\* The amount is owed in full from now on; the shares given up for it are
\* rounded down.
Undelegate(p, amt) ==
  LET s == SettleRewards(slots, p)
      sub == Min({WeiToShares(s, p[1], amt), s.del[p]})
  IN  /\ Delegation(s, p) >= amt
      /\ WeiToShares(s, p[1], amt) > 0
      /\ slots' = [s EXCEPT
           !.del[p] = @ - sub,
           !.delTot[p[1]] = @ - sub,
           !.rewDebt[p] = RewardDebtForShares(s, p[1], s.del[p] - sub),
           !.delUnbondAmt[p] = @ + amt,
           !.delUnbondAt[p] = Max({@, now + UnbondSeconds})]
      /\ roundings' = roundings + 1 + Rounds(slots, p)
      /\ roundings' <= MaxRoundings
      /\ UNCHANGED <<bal, now, unbacked, asked>>

WithdrawDelegation(p) ==
  /\ slots.delUnbondAmt[p] > 0
  /\ now >= slots.delUnbondAt[p]
  /\ slots' = [slots EXCEPT !.delUnbondAmt[p] = 0, !.delUnbondAt[p] = 0]
  /\ Pays(slots.delUnbondAmt[p])
  /\ UNCHANGED <<now, roundings, asked>>

SetCommission(a, bps) ==
  /\ bps <= MaxBps
  /\ slots' = [slots EXCEPT !.comm[a] = bps]
  /\ UNCHANGED <<bal, now, roundings, unbacked, asked>>

ClaimRewards(p) ==
  LET s == SettleRewards(slots, p)
  IN  /\ s.rewPend[p] > 0
      /\ slots' = [s EXCEPT !.rewPend[p] = 0]
      /\ Pays(s.rewPend[p])
      /\ roundings' = roundings + Rounds(slots, p)
      /\ roundings' <= MaxRoundings
      /\ UNCHANGED <<now, asked>>

\* A query, and it writes: the position is settled.
PendingRewards(p) ==
  /\ slots' = SettleRewards(slots, p)
  /\ roundings' = roundings + Rounds(slots, p)
  /\ roundings' <= MaxRoundings
  /\ UNCHANGED <<bal, now, unbacked, asked>>

\* A tip or fee for the proposer a: what its own stake and commission earn is
\* paid out at once, the rest goes to the escrow and into the reward index, or
\* to the proposer too when nobody delegates.
DistributeProposerIncome(a, amt) ==
  LET staked == slots.self[a] + DelegatedTotal(slots, a)
      num == slots.self[a] * MaxBps + DelegatedTotal(slots, a) * slots.comm[a]
      valGets == Min({amt, (amt * num) \div (staked * MaxBps)})
      delPart == amt - valGets
      shares == slots.delTot[a]
  IN  /\ staked > 0
      /\ delPart > 0 /\ shares > 0
      /\ bal + unbacked + delPart <= MaxBalance
      /\ bal' = bal + delPart
      /\ slots' = [slots EXCEPT !.rewIdx[a] = @ + (delPart * Precision) \div shares]
      /\ UNCHANGED <<now, unbacked, roundings, asked>>

Tick == now < MaxTime /\ now' = now + 1 /\ UNCHANGED <<slots, bal, roundings, unbacked, asked>>

Next ==
  \/ \E a \in Accounts, amt \in BondAmounts : Bond(a, amt) \/ Unbond(a, amt)
  \/ \E a \in Accounts :
       \/ Withdraw(a) \/ SlashAndJail(a)
       \/ \E amt \in Incomes : DistributeProposerIncome(a, amt)
       \/ \E bps \in Commissions : SetCommission(a, bps)
  \/ \E p \in Pairs, amt \in DelAmounts : Delegate(p, amt) \/ Undelegate(p, amt)
  \/ \E p \in Pairs : WithdrawDelegation(p) \/ ClaimRewards(p) \/ PendingRewards(p)
  \/ Tick

Spec == Init /\ [][Next]_vars

----------------------------------------------------------------------------
(* Properties.                                                             *)

\* Everything the module owes: self-stake, effective delegated stake, pending
\* withdrawals of both kinds, rewards settled and accrued.
Claims ==
  SumFunction([a \in Accounts |-> slots.self[a] + slots.unbondAmt[a]])
  + SumFunction([p \in Pairs |->
      Delegation(slots, p) + slots.delUnbondAmt[p] + slots.rewPend[p] + Accrued(slots, p)])

\* The shares delegated to v, by position.
SharesIn(s, v) == [p \in Pairs |-> IF p[1] = v THEN s.del[p] ELSE 0]

\* DelegatedTotalShares is the sum of the live delegations through every
\* delegation, partial exit and slash, so that Undelegate never ends with
\* "delegated total underflow" after it has written the delegator's slot.
SharesAddUp ==
  \A v \in Accounts : slots.delTot[v] = SumFunction(SharesIn(slots, v))

\* The escrow is short of what it owes by at most one wei for every position
\* and every call that rounds in its caller's favour, and by the value that
\* reverting callers took back: conversions between shares and wei, slashes and
\* reward accrual lose nothing else.
EscrowShortByDust == Claims <= bal + unbacked + roundings + Cardinality(Pairs)

\* Unbond: "Funds stay at module address; call Withdraw after unlock".  No part
\* of an account's pending self-stake leaves before the unbonding period has
\* passed since the account's last request, however requests are stacked.
UnbondingPeriodServed ==
  [][\A a \in Accounts :
       slots.unbondAmt[a] > 0 /\ slots'.unbondAmt[a] = 0
         => now >= asked[a] + UnbondSeconds]_vars
=============================================================================
