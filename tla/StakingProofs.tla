--------------------------- MODULE StakingProofs ----------------------------
(***************************************************************************)
(* Proofs about the staking module, for any accounts, amounts, rates and   *)
(* unbonding period.                                                       *)
(***************************************************************************)
EXTENDS Staking, SumTheorems

\* A leaf is for Zenon unless it names another prover.
USE ZenonT(90)

Fields ==
  {"self", "cand", "list", "jailed", "unbondAmt", "unbondAt", "del", "delTot",
   "comm", "delUnbondAmt", "delUnbondAt", "delRate", "rewIdx", "rewDebt", "rewPend"}

\* The later of two times bounds both.
LEMMA MaxOfTwo ==
  ASSUME NEW x \in Int, NEW y \in Int
  PROVE  Max({x, y}) \in Int /\ Max({x, y}) >= x /\ Max({x, y}) >= y
<1>1. \E m \in {x, y} : \A k \in {x, y} : m >= k
  BY SMTT(60)
<1> QED
  BY <1>1 DEF Max

\* A pending amount is locked for a whole period from the last request on.
LockInv ==
  /\ slots = [f \in Fields |-> slots[f]]
  /\ slots.unbondAmt \in [Accounts -> Int]
  /\ slots.unbondAt \in [Accounts -> Int]
  /\ now \in Nat
  /\ asked \in [Accounts -> Nat]
  /\ \A a \in Accounts :
       slots.unbondAmt[a] > 0 => slots.unbondAt[a] >= asked[a] + UnbondSeconds

\* Nothing is pending at first.
LEMMA LockInit ==
  ASSUME Init
  PROVE  LockInv
<1>1. slots = [f \in Fields |-> slots[f]]
  BY DEF Init, Fields
<1>2. /\ slots.unbondAmt = [a \in Accounts |-> 0]
      /\ slots.unbondAt = [a \in Accounts |-> 0]
      /\ now = 0 /\ asked = [a \in Accounts |-> 0]
  BY DEF Init
<1> QED
  BY <1>1, <1>2, SMTT(60) DEF LockInv

\* Every call but Unbond and Withdraw leaves the pending amounts alone.
LEMMA OthersKeepLock ==
  ASSUME LockInv, Next,
         \A a \in Accounts : ~Withdraw(a) /\ \A amt \in BondAmounts : ~Unbond(a, amt)
  PROVE  /\ slots' = [f \in Fields |-> slots'[f]]
         /\ slots'.unbondAmt = slots.unbondAmt /\ slots'.unbondAt = slots.unbondAt
         /\ asked' = asked /\ now' \in Nat
<1> DEFINE Same(s) == /\ s = [f \in Fields |-> s[f]]
                      /\ s.unbondAmt = slots.unbondAmt /\ s.unbondAt = slots.unbondAt
<1>0. Same(slots)
  BY DEF LockInv
<1>1. ASSUME NEW a \in Accounts, NEW amt \in BondAmounts, Bond(a, amt)
      PROVE  Same(slots')
  BY <1>0, <1>1 DEF Bond, RegisterCandidate, Fields
<1>2. ASSUME NEW a \in Accounts, SlashAndJail(a)
      PROVE  Same(slots')
  BY <1>0, <1>2 DEF SlashAndJail, Fields
<1>3. ASSUME NEW a \in Accounts, NEW amt \in Incomes, DistributeProposerIncome(a, amt)
      PROVE  Same(slots')
  BY <1>0, <1>3 DEF DistributeProposerIncome, Fields
<1>4. ASSUME NEW a \in Accounts, NEW bps \in Commissions, SetCommission(a, bps)
      PROVE  Same(slots')
  BY <1>0, <1>4 DEF SetCommission, Fields
<1>5. ASSUME NEW p \in Pairs
      PROVE  Same(SettleRewards(slots, p))
  BY <1>0 DEF SettleRewards, Fields
<1>6. ASSUME NEW p \in Pairs, NEW amt \in DelAmounts, Delegate(p, amt)
      PROVE  Same(slots')
  BY <1>5, <1>6 DEF Delegate, Fields
<1>7. ASSUME NEW p \in Pairs, NEW amt \in DelAmounts, Undelegate(p, amt)
      PROVE  Same(slots')
  <2> DEFINE s == SettleRewards(slots, p)
  <2>1. PICK x, y, z, u, w :
          slots' = [s EXCEPT !.del[p] = x, !.delTot[p[1]] = y, !.rewDebt[p] = z,
                             !.delUnbondAmt[p] = u, !.delUnbondAt[p] = w]
    BY <1>7 DEF Undelegate
  <2>2. Same(s)
    BY <1>5
  <2> HIDE DEF s
  <2> QED
    BY <2>1, <2>2 DEF Fields
<1>8. ASSUME NEW p \in Pairs, WithdrawDelegation(p)
      PROVE  Same(slots')
  BY <1>0, <1>8 DEF WithdrawDelegation, Fields
<1>9. ASSUME NEW p \in Pairs, ClaimRewards(p) \/ PendingRewards(p)
      PROVE  Same(slots')
  BY <1>5, <1>9, SMTT(60) DEF ClaimRewards, PendingRewards, Fields
<1>10. Same(slots')
  BY <1>0, <1>1, <1>2, <1>3, <1>4, <1>6, <1>7, <1>8, <1>9 DEF Next, Tick
<1>11. asked' = asked /\ (now' = now \/ now' = now + 1)
  <2>1. ASSUME NEW a \in Accounts,
               \/ \E amt \in BondAmounts : Bond(a, amt)
               \/ SlashAndJail(a)
               \/ \E amt \in Incomes : DistributeProposerIncome(a, amt)
               \/ \E bps \in Commissions : SetCommission(a, bps)
        PROVE  UNCHANGED <<asked, now>>
    BY <2>1 DEF Bond, SlashAndJail, DistributeProposerIncome, SetCommission
  <2>2. ASSUME NEW p \in Pairs,
               \/ \E amt \in DelAmounts : Delegate(p, amt) \/ Undelegate(p, amt)
               \/ WithdrawDelegation(p) \/ ClaimRewards(p) \/ PendingRewards(p)
        PROVE  UNCHANGED <<asked, now>>
    BY <2>2 DEF Delegate, Undelegate, WithdrawDelegation, ClaimRewards, PendingRewards
  <2> QED
    BY <2>1, <2>2 DEF Next, Tick
<1>12. now' \in Nat
  BY <1>11, SMTT(60) DEF LockInv
<1> QED
  BY <1>10, <1>11, <1>12

\* Every call keeps pending stake locked, and Withdraw pays none before its time.
LEMMA LockStep ==
  ASSUME LockInv, [Next]_vars
  PROVE  /\ LockInv'
         /\ \A a \in Accounts : slots.unbondAmt[a] > 0 /\ slots'.unbondAmt[a] = 0
              => now >= asked[a] + UnbondSeconds
<1> USE StakingAssumption
<1>1. ASSUME NEW a \in Accounts, NEW amt \in BondAmounts, Unbond(a, amt)
      PROVE  /\ LockInv'
             /\ \A b \in Accounts : slots.unbondAmt[b] > 0 => slots'.unbondAmt[b] # 0
  <2> DEFINE m == Max({slots.unbondAt[a], now + UnbondSeconds})
             n == slots.unbondAmt[a] + amt
  <2>1. /\ slots' = [f \in Fields |-> slots'[f]]
        /\ slots'.unbondAmt = [slots.unbondAmt EXCEPT ![a] = n]
        /\ slots'.unbondAt = [slots.unbondAt EXCEPT ![a] = m]
    BY <1>1 DEF Unbond, LockInv, Fields
  <2>2. m \in Int /\ m >= now + UnbondSeconds
    <3>1. slots.unbondAt[a] \in Int /\ now + UnbondSeconds \in Int
      BY SMTT(60) DEF LockInv
    <3> QED
      BY <3>1, MaxOfTwo
  <2>3. n \in Int /\ (slots.unbondAmt[a] > 0 => n > 0)
    BY SMTT(60) DEF LockInv
  <2>4. asked' = [asked EXCEPT ![a] = now] /\ now' = now
    BY <1>1 DEF Unbond
  <2> HIDE DEF m, n
  <2> QED
    <3>1. /\ slots'.unbondAmt \in [Accounts -> Int] /\ slots'.unbondAt \in [Accounts -> Int]
          /\ asked' \in [Accounts -> Nat] /\ now' \in Nat
      BY <2>1, <2>2, <2>3, <2>4, SMTT(60) DEF LockInv
    <3>2. ASSUME NEW b \in Accounts
          PROVE  /\ slots'.unbondAmt[b] > 0 => slots'.unbondAt[b] >= asked'[b] + UnbondSeconds
                 /\ slots.unbondAmt[b] > 0 => slots'.unbondAmt[b] # 0
      <4>1. CASE b = a
        BY <4>1, <2>1, <2>2, <2>3, <2>4, SMTT(60) DEF LockInv
      <4>2. CASE b # a
        BY <4>2, <2>1, <2>4, SMTT(60) DEF LockInv
      <4> QED
        BY <4>1, <4>2
    <3> QED
      BY <2>1, <3>1, <3>2 DEF LockInv
<1>2. ASSUME NEW a \in Accounts, Withdraw(a)
      PROVE  /\ LockInv'
             /\ \A b \in Accounts : slots.unbondAmt[b] > 0 /\ slots'.unbondAmt[b] = 0
                  => now >= asked[b] + UnbondSeconds
  <2>1. /\ slots' = [f \in Fields |-> slots'[f]]
        /\ slots'.unbondAmt = [slots.unbondAmt EXCEPT ![a] = 0]
        /\ slots'.unbondAt = [slots.unbondAt EXCEPT ![a] = 0]
    BY <1>2 DEF Withdraw, LockInv, Fields
  <2>2. UNCHANGED <<asked, now>> /\ now >= slots.unbondAt[a] /\ slots.unbondAmt[a] > 0
    BY <1>2 DEF Withdraw
  <2> QED
    <3>1. /\ slots'.unbondAmt \in [Accounts -> Int] /\ slots'.unbondAt \in [Accounts -> Int]
      BY <2>1, SMTT(60) DEF LockInv
    <3>2. ASSUME NEW b \in Accounts
          PROVE  /\ slots'.unbondAmt[b] > 0 => slots'.unbondAt[b] >= asked[b] + UnbondSeconds
                 /\ slots.unbondAmt[b] > 0 /\ slots'.unbondAmt[b] = 0
                      => now >= asked[b] + UnbondSeconds
      <4>1. CASE b = a
        <5>1. slots.unbondAt[a] >= asked[a] + UnbondSeconds
          BY <2>2 DEF LockInv
        <5>2. slots.unbondAt[a] \in Int /\ asked[a] \in Nat /\ now \in Nat
          BY DEF LockInv
        <5> QED
          BY <4>1, <5>1, <5>2, <2>1, <2>2, SMTT(60) DEF LockInv
      <4>2. CASE b # a
        BY <4>2, <2>1, SMTT(60) DEF LockInv
      <4> QED
        BY <4>1, <4>2
    <3> QED
      BY <2>1, <2>2, <3>1, <3>2 DEF LockInv
<1>3. CASE UNCHANGED vars
  BY <1>3, SMTT(60) DEF vars, LockInv
<1>4. CASE /\ Next
           /\ \A a \in Accounts : ~Withdraw(a) /\ \A amt \in BondAmounts : ~Unbond(a, amt)
  <2>1. /\ slots' = [f \in Fields |-> slots'[f]]
        /\ slots'.unbondAmt = slots.unbondAmt /\ slots'.unbondAt = slots.unbondAt
        /\ asked' = asked /\ now' \in Nat
    BY <1>4, OthersKeepLock
  <2> QED
    BY <2>1, SMTT(60) DEF LockInv
<1> QED
  BY <1>1, <1>2, <1>3, <1>4

\* However requests are stacked, no pending stake leaves before its period.
THEOREM PeriodIsServed == Spec => UnbondingPeriodServed
<1>1. LockInv /\ [Next]_vars => LockInv'
  BY LockStep
<1>2. LockInv /\ [Next]_vars
      => [\A a \in Accounts : slots.unbondAmt[a] > 0 /\ slots'.unbondAmt[a] = 0
            => now >= asked[a] + UnbondSeconds]_vars
  BY LockStep
<1> QED
  BY <1>1, <1>2, LockInit, PTL DEF Spec, UnbondingPeriodServed

----------------------------------------------------------------------------
(* Shares and escrow.                                                      *)

\* What a slot holds.  The rate of a validator leaves Precision once, with the
\* slash that jails it.
SlotT(s) ==
  /\ s = [f \in Fields |-> s[f]]
  /\ s.self \in [Accounts -> Nat] /\ s.unbondAmt \in [Accounts -> Nat]
  /\ s.comm \in [Accounts -> Nat] /\ s.jailed \in [Accounts -> BOOLEAN]
  /\ s.delTot \in [Accounts -> Nat] /\ s.rewIdx \in [Accounts -> Nat]
  /\ s.delRate \in [Accounts -> 1 .. Precision]
  /\ s.del \in [Pairs -> Nat] /\ s.delUnbondAmt \in [Pairs -> Nat]
  /\ s.rewDebt \in [Pairs -> Nat] /\ s.rewPend \in [Pairs -> Nat]
  /\ \A v \in Accounts : ~ s.jailed[v] => s.delRate[v] = Precision

AddsUp(s) ==
  \A v \in Accounts : s.delTot[v] = SumFunctionOnSet(SharesIn(s, v), Pairs)

\* What a position is worth, in parts of Precision, when its rewards count from
\* the index x on.
Worth(s, p, x) ==
  Precision * (s.delUnbondAmt[p] + s.rewPend[p])
  + s.del[p] * s.delRate[p[1]] + s.del[p] * (s.rewIdx[p[1]] - x)

Stakes(s) == [a \in Accounts |-> s.self[a] + s.unbondAmt[a]]
Worths(s, st) == [p \in Pairs |-> Worth(s, p, st[p])]

\* The debt of every position is its share of an index it has passed.
Starts(s, st) ==
  /\ st \in [Pairs -> Nat]
  /\ \A p \in Pairs : /\ st[p] <= s.rewIdx[p[1]]
                      /\ s.rewDebt[p] = (s.del[p] * st[p]) \div Precision

\* m wei pay for everything, nothing rounded.
Covered(s, st, m) ==
  /\ Starts(s, st)
  /\ Precision * SumFunctionOnSet(Stakes(s), Accounts)
     + SumFunctionOnSet(Worths(s, st), Pairs) <= Precision * m

StakeInv ==
  /\ SlotT(slots) /\ AddsUp(slots)
  /\ bal \in Nat /\ unbacked \in Nat /\ roundings \in Nat
  /\ \E st : Covered(slots, st, bal + unbacked + roundings)

\* The smaller of two amounts is one of them.
LEMMA MinOfTwo ==
  ASSUME NEW x \in Int, NEW y \in Int
  PROVE  (Min({x, y}) = x /\ x <= y) \/ (Min({x, y}) = y /\ y <= x)
<1>1. \E m \in {x, y} : \A k \in {x, y} : m <= k
  BY SMTT(60)
<1>2. Min({x, y}) \in {x, y} /\ \A k \in {x, y} : Min({x, y}) <= k
  BY <1>1 DEF Min
<1> QED BY <1>2, SMTT(60)

\* A difference, or nothing.
LEMMA MaxWithZero ==
  ASSUME NEW x \in Int
  PROVE  Max({0, x}) = (IF x > 0 THEN x ELSE 0)
<1>1. \E m \in {0, x} : \A k \in {0, x} : m >= k
  BY SMTT(60)
<1>2. Max({0, x}) \in {0, x} /\ \A k \in {0, x} : Max({0, x}) >= k
  BY <1>1 DEF Max
<1> QED BY <1>2, SMTT(60)

\* A quotient is rounded down by less than one.
LEMMA DivBounds ==
  ASSUME NEW a \in Nat, NEW n \in Nat \ {0}
  PROVE  a \div n \in Nat /\ n * (a \div n) <= a /\ a < n * (a \div n) + n
BY SMTT(60)

\* What an index accrues to d shares between x and i, rounded at both ends.
LEMMA AccrualBound ==
  ASSUME NEW d \in Nat, NEW i \in Nat, NEW x \in Nat, x <= i, NEW n \in Nat \ {0}
  PROVE  /\ (d * i) \div n >= (d * x) \div n
         /\ n * ((d * i) \div n - (d * x) \div n) <= d * (i - x) + n
<1> DEFINE a == d * i
           b == d * x
           q == a \div n
           r == b \div n
<1>1. a \in Nat /\ b \in Nat /\ d * (i - x) = a - b /\ a >= b
  BY SMTT(60)
<1>2. q \in Nat /\ n * q <= a /\ a < n * q + n
  <2> HIDE DEF a
  <2> QED BY <1>1, DivBounds
<1>3. r \in Nat /\ n * r <= b /\ b < n * r + n
  <2> HIDE DEF b
  <2> QED BY <1>1, DivBounds
<1> HIDE DEF q, r
<1>4. n * q > n * (r - 1)
  <2> HIDE DEF a, b
  <2> QED BY <1>1, <1>2, <1>3, SMTT(60)
<1>5. q >= r
  BY <1>2, <1>3, <1>4, SMTT(60)
<1>6. n * (q - r) <= d * (i - x) + n
  <2> DEFINE e == d * (i - x)
  <2> HIDE DEF a, b, e
  <2> QED BY <1>1, <1>2, <1>3, SMTT(60) DEF e
<1> QED BY <1>5, <1>6 DEF q, r, a, b

\* A position is never worth less than nothing.
LEMMA WorthType ==
  ASSUME NEW s, SlotT(s), NEW p \in Pairs, NEW x \in Nat, x <= s.rewIdx[p[1]]
  PROVE  Worth(s, p, x) \in Nat
<1>1. p[1] \in Accounts /\ Precision \in Nat
  BY StakingAssumption
<1>2. /\ s.delUnbondAmt[p] \in Nat /\ s.rewPend[p] \in Nat /\ s.del[p] \in Nat
      /\ s.delRate[p[1]] \in 1 .. Precision /\ s.rewIdx[p[1]] \in Nat
  BY <1>1 DEF SlotT
<1> DEFINE d == s.del[p]
           k == s.delUnbondAmt[p] + s.rewPend[p]
           r == s.delRate[p[1]]
           i == s.rewIdx[p[1]] - x
<1>3. Worth(s, p, x) = Precision * k + d * r + d * i
  BY DEF Worth
<1>4. d \in Nat /\ k \in Nat /\ r \in Nat /\ i \in Nat
  BY <1>2, SMTT(60)
<1> HIDE DEF d, k, r, i
<1> QED BY <1>1, <1>3, <1>4, SMTT(60)

\* Sums of stakes and of positions are amounts.
LEMMA SumTypes ==
  ASSUME NEW s, SlotT(s), NEW st, Starts(s, st)
  PROVE  /\ SumFunctionOnSet(Stakes(s), Accounts) \in Nat
         /\ SumFunctionOnSet(Worths(s, st), Pairs) \in Nat
         /\ \A a \in Accounts : Stakes(s)[a] \in Nat
         /\ \A p \in Pairs : Worths(s, st)[p] \in Nat
<1> DEFINE f == Stakes(s)
           g == Worths(s, st)
<1>1. IsFiniteSet(Accounts) /\ IsFiniteSet(Pairs)
  BY StakingAssumption
<1>2. \A a \in Accounts : f[a] \in Nat
  <2> SUFFICES ASSUME NEW a \in Accounts PROVE f[a] \in Nat
    OBVIOUS
  <2>1. s.self[a] \in Nat /\ s.unbondAmt[a] \in Nat
    BY DEF SlotT
  <2>2. s.self[a] + s.unbondAmt[a] \in Nat
    BY <2>1, SMTT(60)
  <2> QED BY <2>2 DEF Stakes
<1>3. \A p \in Pairs : g[p] \in Nat
  <2> SUFFICES ASSUME NEW p \in Pairs PROVE g[p] \in Nat
    OBVIOUS
  <2>1. st[p] \in Nat /\ st[p] <= s.rewIdx[p[1]]
    BY DEF Starts
  <2>2. Worth(s, p, st[p]) \in Nat
    BY <2>1, WorthType
  <2> QED BY <2>2 DEF Worths
<1> HIDE DEF f, g
<1>4. SumFunctionOnSet(f, Accounts) \in Nat
  BY <1>1, <1>2, SumTake
<1>5. SumFunctionOnSet(g, Pairs) \in Nat
  BY <1>1, <1>3, SumTake
<1> QED BY <1>2, <1>3, <1>4, <1>5 DEF f, g

\* Nothing but the position p and the totals over it differ.
OnlyPosition(s, t, p) ==
  /\ t.self = s.self /\ t.unbondAmt = s.unbondAmt
  /\ t.delRate = s.delRate /\ t.rewIdx = s.rewIdx
  /\ \A q \in Pairs \ {p} : /\ t.del[q] = s.del[q] /\ t.rewDebt[q] = s.rewDebt[q]
                            /\ t.delUnbondAmt[q] = s.delUnbondAmt[q]
                            /\ t.rewPend[q] = s.rewPend[q]

\* A call on one position: what the position gains, the escrow must have.
LEMMA PositionCovered ==
  ASSUME NEW s, NEW t, SlotT(s), SlotT(t), NEW p \in Pairs, OnlyPosition(s, t, p),
         NEW st, NEW m \in Nat, Covered(s, st, m), NEW n \in Nat,
         NEW x \in Nat, x <= t.rewIdx[p[1]], t.rewDebt[p] = (t.del[p] * x) \div Precision,
         Worth(t, p, x) + Precision * m <= Worth(s, p, st[p]) + Precision * n
  PROVE  Covered(t, [st EXCEPT ![p] = x], n)
<1> DEFINE tt == [st EXCEPT ![p] = x]
           f == Worths(s, st)
           g == Worths(t, tt)
<1>1. Starts(s, st) /\ st \in [Pairs -> Nat]
  BY DEF Covered, Starts
<1>2. tt \in [Pairs -> Nat] /\ tt[p] = x /\ \A q \in Pairs \ {p} : tt[q] = st[q]
  BY <1>1
<1>3. Starts(t, tt)
  <2> SUFFICES ASSUME NEW q \in Pairs
               PROVE  tt[q] <= t.rewIdx[q[1]] /\ t.rewDebt[q] = (t.del[q] * tt[q]) \div Precision
    BY <1>2 DEF Starts
  <2>1. CASE q = p
    BY <2>1, <1>2
  <2>2. CASE q # p
    <3>1. tt[q] = st[q] /\ t.rewIdx = s.rewIdx /\ t.del[q] = s.del[q] /\ t.rewDebt[q] = s.rewDebt[q]
      BY <2>2, <1>2 DEF OnlyPosition
    <3> QED BY <3>1, <1>1 DEF Starts
  <2> QED BY <2>1, <2>2
<1>4. Stakes(t) = Stakes(s)
  BY DEF Stakes, OnlyPosition
<1>5. /\ SumFunctionOnSet(Stakes(s), Accounts) \in Nat
      /\ SumFunctionOnSet(f, Pairs) \in Nat
      /\ \A q \in Pairs : f[q] \in Nat
  BY <1>1, SumTypes
<1>6. SumFunctionOnSet(g, Pairs) \in Nat /\ g[p] \in Nat
  BY <1>3, SumTypes
<1>7. \A q \in Pairs \ {p} : g[q] = f[q]
  BY <1>2 DEF Worths, Worth, OnlyPosition
<1>8. f[p] = Worth(s, p, st[p]) /\ g[p] = Worth(t, p, x)
  BY <1>2 DEF Worths
<1>9. IsFiniteSet(Pairs) /\ Precision \in Nat
  BY StakingAssumption
<1>10. SumFunctionOnSet(g, Pairs) + f[p] = SumFunctionOnSet(f, Pairs) + g[p]
  <2> HIDE DEF f, g
  <2> QED BY <1>5, <1>6, <1>7, <1>9, SumChange, SMTT(60)
<1>11. Precision * SumFunctionOnSet(Stakes(s), Accounts) + SumFunctionOnSet(f, Pairs) <= Precision * m
  BY DEF Covered
<1> DEFINE a == SumFunctionOnSet(Stakes(s), Accounts)
           b == SumFunctionOnSet(f, Pairs)
           c == SumFunctionOnSet(g, Pairs)
           u == f[p]
           v == g[p]
<1>12. Precision * a + c <= Precision * n
  <2>1. u \in Nat /\ v + Precision * m <= u + Precision * n
    BY <1>5, <1>8
  <2> HIDE DEF a, b, c, u, v
  <2> QED BY <2>1, <1>5, <1>6, <1>9, <1>10, <1>11, SMTT(60) DEF a, b, c, u, v
<1> QED BY <1>3, <1>4, <1>12 DEF Covered

\* A call on the stake of one account.
LEMMA StakeCovered ==
  ASSUME NEW s, NEW t, SlotT(s), SlotT(t), NEW a \in Accounts,
         t.del = s.del, t.delUnbondAmt = s.delUnbondAmt, t.rewPend = s.rewPend,
         t.rewDebt = s.rewDebt, t.delRate = s.delRate, t.rewIdx = s.rewIdx,
         \A b \in Accounts \ {a} : t.self[b] = s.self[b] /\ t.unbondAmt[b] = s.unbondAmt[b],
         NEW st, NEW m \in Nat, Covered(s, st, m), NEW n \in Nat,
         t.self[a] + t.unbondAmt[a] + m <= s.self[a] + s.unbondAmt[a] + n
  PROVE  Covered(t, st, n)
<1> DEFINE f == Stakes(s)
           g == Stakes(t)
<1>1. Starts(s, st) /\ Starts(t, st)
  BY DEF Covered, Starts
<1>2. Worths(t, st) = Worths(s, st)
  BY DEF Worths, Worth
<1>3. /\ SumFunctionOnSet(f, Accounts) \in Nat
      /\ SumFunctionOnSet(Worths(s, st), Pairs) \in Nat
      /\ \A b \in Accounts : f[b] \in Nat
  BY <1>1, SumTypes
<1>4. SumFunctionOnSet(g, Accounts) \in Nat /\ g[a] \in Nat
  BY <1>1, SumTypes
<1>5. \A b \in Accounts \ {a} : g[b] = f[b]
  BY DEF Stakes
<1>6. f[a] = s.self[a] + s.unbondAmt[a] /\ g[a] = t.self[a] + t.unbondAmt[a]
  BY DEF Stakes
<1>7. IsFiniteSet(Accounts) /\ Precision \in Nat
  BY StakingAssumption
<1>8. SumFunctionOnSet(g, Accounts) + f[a] = SumFunctionOnSet(f, Accounts) + g[a]
  <2> HIDE DEF f, g
  <2> QED BY <1>3, <1>4, <1>5, <1>7, SumChange, SMTT(60)
<1>9. Precision * SumFunctionOnSet(f, Accounts) + SumFunctionOnSet(Worths(s, st), Pairs) <= Precision * m
  BY DEF Covered
<1> DEFINE b == SumFunctionOnSet(f, Accounts)
           c == SumFunctionOnSet(g, Accounts)
           w == SumFunctionOnSet(Worths(s, st), Pairs)
           u == f[a]
           v == g[a]
<1>10. Precision * c + w <= Precision * n
  <2>1. u \in Nat /\ v \in Nat /\ v + m <= u + n
    BY <1>3, <1>4, <1>6
  <2> HIDE DEF b, c, w, u, v
  <2>2. b \in Nat /\ c \in Nat /\ w \in Nat /\ c + u = b + v /\ Precision * b + w <= Precision * m
    BY <1>3, <1>4, <1>8, <1>9 DEF b, c, w, u, v
  <2>3. c + m <= b + n
    BY <2>1, <2>2, SMTT(60)
  <2>4. Precision * (c + m) <= Precision * (b + n)
    BY <2>2, <2>3, <1>7, SMTT(60)
  <2> QED BY <2>2, <2>4, <1>7, SMTT(60)
<1> QED BY <1>1, <1>2, <1>10 DEF Covered

\* Shares come and go in a position and in the validator's total alike.
LEMMA SharesMove ==
  ASSUME NEW s, NEW t, SlotT(s), SlotT(t), AddsUp(s), NEW p \in Pairs,
         \A q \in Pairs \ {p} : t.del[q] = s.del[q],
         \A v \in Accounts \ {p[1]} : t.delTot[v] = s.delTot[v],
         t.delTot[p[1]] + s.del[p] = s.delTot[p[1]] + t.del[p]
  PROVE  AddsUp(t)
<1> SUFFICES ASSUME NEW v \in Accounts
             PROVE  t.delTot[v] = SumFunctionOnSet(SharesIn(t, v), Pairs)
  BY DEF AddsUp
<1> DEFINE f == SharesIn(s, v)
           g == SharesIn(t, v)
<1>1. IsFiniteSet(Pairs) /\ p[1] \in Accounts
  BY StakingAssumption
<1>2. s.delTot[v] = SumFunctionOnSet(f, Pairs)
  BY DEF AddsUp
<1>3. \A q \in Pairs : f[q] \in Nat /\ g[q] \in Nat
  BY SMTT(60) DEF SharesIn, SlotT
<1>4. \A q \in Pairs \ {p} : g[q] = f[q]
  BY DEF SharesIn
<1>5. CASE v # p[1]
  <2>1. \A q \in Pairs : f[q] = g[q]
    BY <1>4, <1>5 DEF SharesIn
  <2> HIDE DEF f, g
  <2>2. SumFunctionOnSet(f, Pairs) = SumFunctionOnSet(g, Pairs)
    BY <1>1, <2>1, SumSame
  <2> QED BY <1>2, <1>5, <2>2 DEF g
<1>6. CASE v = p[1]
  <2>1. f[p] = s.del[p] /\ g[p] = t.del[p]
    BY <1>6 DEF SharesIn
  <2> HIDE DEF f, g
  <2>2. SumFunctionOnSet(g, Pairs) + f[p] = SumFunctionOnSet(f, Pairs) + g[p]
    BY <1>1, <1>3, <1>4, SumChange, SMTT(60)
  <2>3. SumFunctionOnSet(g, Pairs) \in Nat
    BY <1>1, <1>3, SumTake
  <2>4. s.del[p] \in Nat /\ t.del[p] \in Nat /\ s.delTot[v] \in Nat /\ t.delTot[v] \in Nat
    BY DEF SlotT
  <2> DEFINE x == SumFunctionOnSet(g, Pairs)
  <2> HIDE DEF x
  <2>5. x = t.delTot[v]
    <3>1. x + s.del[p] = s.delTot[v] + t.del[p] /\ x \in Nat
      BY <1>2, <2>1, <2>2, <2>3 DEF x
    <3>2. t.delTot[v] + s.del[p] = s.delTot[v] + t.del[p]
      BY <1>6
    <3> QED BY <3>1, <3>2, <2>4, SMTT(60)
  <2> QED BY <2>5 DEF x, g
<1> QED BY <1>5, <1>6

\* Calls that leave shares and totals alone keep them adding up.
LEMMA SharesKept ==
  ASSUME NEW s, NEW t, AddsUp(s), t.del = s.del, t.delTot = s.delTot
  PROVE  AddsUp(t)
BY DEF AddsUp, SharesIn

\* Everything but the fields of X.
SameBut(s, t, X) ==
  /\ t = [f \in Fields |-> t[f]]
  /\ \A f \in Fields \ X : t[f] = s[f]

\* What has accrued to a position is worth at most one wei more than what the
\* index owes it.
LEMMA AccruedFacts ==
  ASSUME NEW s, SlotT(s), NEW p \in Pairs, NEW st, Starts(s, st)
  PROVE  /\ RewardDebtForShares(s, p[1], s.del[p]) \in Nat /\ Accrued(s, p) \in Nat
         /\ Precision * Accrued(s, p) <= s.del[p] * (s.rewIdx[p[1]] - st[p]) + Precision
<1> DEFINE d == s.del[p]
           i == s.rewIdx[p[1]]
           x == st[p]
           owed == (d * i) \div Precision
           e == Accrued(s, p)
<1>1. p[1] \in Accounts /\ Precision \in Nat \ {0}
  BY StakingAssumption, SMTT(60)
<1>2. /\ d \in Nat /\ i \in Nat /\ x \in Nat /\ x <= i
      /\ s.rewDebt[p] = (d * x) \div Precision
  BY <1>1 DEF SlotT, Starts
<1>3. /\ owed >= s.rewDebt[p]
      /\ Precision * (owed - s.rewDebt[p]) <= d * (i - x) + Precision
  <2> HIDE DEF d, i, x
  <2> QED BY <1>1, <1>2, AccrualBound DEF owed
<1>4. owed \in Nat /\ s.rewDebt[p] \in Nat
  <2>1. d * i \in Nat
    BY <1>2, SMTT(60)
  <2> HIDE DEF d, i
  <2> QED BY <2>1, <1>1, DivBounds DEF SlotT, owed
<1>5. e = owed - s.rewDebt[p] /\ e \in Nat
  <2> HIDE DEF owed
  <2>1. owed - s.rewDebt[p] \in Int
    BY <1>4, SMTT(60)
  <2>2. Accrued(s, p) = Max({0, owed - s.rewDebt[p]})
    BY DEF Accrued, RewardDebtForShares, owed
  <2>3. Accrued(s, p) = (IF owed - s.rewDebt[p] > 0 THEN owed - s.rewDebt[p] ELSE 0)
    BY <2>1, <2>2, MaxWithZero
  <2> QED BY <1>3, <1>4, <2>3, SMTT(60)
<1>6. Precision * e <= d * (i - x) + Precision
  BY <1>3, <1>5
<1> QED BY <1>4, <1>5, <1>6 DEF RewardDebtForShares

\* Settling a position pays its accrual with what the index owes it and one
\* wei when it rounds.
LEMMA SettleCovered ==
  ASSUME NEW s, SlotT(s), AddsUp(s), NEW p \in Pairs, NEW st, NEW m \in Nat,
         Covered(s, st, m)
  PROVE  /\ SlotT(SettleRewards(s, p)) /\ AddsUp(SettleRewards(s, p)) /\ Rounds(s, p) \in Nat
         /\ \E u : /\ Covered(SettleRewards(s, p), u, m + Rounds(s, p))
                   /\ u[p] = SettleRewards(s, p).rewIdx[p[1]]
<1> DEFINE t == SettleRewards(s, p)
           d == s.del[p]
           i == s.rewIdx[p[1]]
           x == st[p]
           owed == (d * i) \div Precision
           e == Accrued(s, p)
           r == s.delRate[p[1]]
           k == s.delUnbondAmt[p]
           w == s.rewPend[p]
<1>1. p[1] \in Accounts /\ Precision \in Nat \ {0}
  BY StakingAssumption, SMTT(60)
<1>2. /\ d \in Nat /\ i \in Nat /\ r \in Nat /\ k \in Nat /\ w \in Nat
      /\ x \in Nat /\ x <= i /\ s.rewDebt[p] = (d * x) \div Precision
  <2>1. r \in 1 .. Precision
    BY <1>1 DEF SlotT
  <2>2. r \in Nat
    BY <1>1, <2>1, SMTT(60)
  <2> QED BY <1>1, <2>2 DEF SlotT, Covered, Starts
<1>3. Starts(s, st)
  BY DEF Covered
<1>4. owed \in Nat
  BY <1>3, AccruedFacts DEF RewardDebtForShares
<1>5. e \in Nat /\ Precision * e <= d * (i - x) + Precision
  BY <1>3, AccruedFacts
<1>6. Rounds(s, p) = (IF e > 0 THEN 1 ELSE 0) /\ Rounds(s, p) \in Nat
  <2>1. 0 \in Nat /\ 1 \in Nat
    BY SMTT(60)
  <2> QED BY <2>1 DEF Rounds
<1>7. /\ SameBut(s, t, {"rewPend", "rewDebt"})
      /\ t.rewPend = [s.rewPend EXCEPT ![p] = w + e]
      /\ t.rewDebt = [s.rewDebt EXCEPT ![p] = owed]
  <2>1. t = [s EXCEPT !.rewPend[p] = w + e, !.rewDebt[p] = owed]
    BY DEF SettleRewards, RewardDebtForShares
  <2> HIDE DEF t, e, owed
  <2>2. s = [f \in Fields |-> s[f]]
    BY DEF SlotT
  <2> QED BY <2>1, <2>2 DEF Fields, SameBut
<1>8. /\ t.self = s.self /\ t.unbondAmt = s.unbondAmt /\ t.comm = s.comm
      /\ t.jailed = s.jailed /\ t.delTot = s.delTot /\ t.rewIdx = s.rewIdx
      /\ t.delRate = s.delRate /\ t.del = s.del /\ t.delUnbondAmt = s.delUnbondAmt
  <2> HIDE DEF t
  <2> QED BY <1>7 DEF SameBut, Fields
<1> HIDE DEF t
<1>9. w + e \in Nat
  BY <1>2, <1>5, SMTT(60)
<1>10. SlotT(t)
  <2>1. t.rewPend \in [Pairs -> Nat] /\ t.rewDebt \in [Pairs -> Nat]
    <3>1. s.rewPend \in [Pairs -> Nat] /\ s.rewDebt \in [Pairs -> Nat]
      BY DEF SlotT
    <3> HIDE DEF e, owed, w
    <3> QED BY <3>1, <1>4, <1>7, <1>9
  <2>2. t = [f \in Fields |-> t[f]]
    BY <1>7 DEF SameBut
  <2> QED BY <1>8, <2>1, <2>2 DEF SlotT
<1>11. AddsUp(t)
  BY <1>8, SharesKept
<1>12. OnlyPosition(s, t, p)
  <2>1. \A q \in Pairs \ {p} : t.rewDebt[q] = s.rewDebt[q] /\ t.rewPend[q] = s.rewPend[q]
    BY <1>7 DEF SlotT
  <2> QED BY <1>8, <2>1 DEF OnlyPosition
<1> DEFINE n == m + Rounds(s, p)
<1>13. n \in Nat
  BY <1>6, SMTT(60)
<1>14. /\ t.del[p] = d /\ t.rewIdx[p[1]] = i /\ t.delRate[p[1]] = r
       /\ t.delUnbondAmt[p] = k /\ t.rewPend[p] = w + e /\ t.rewDebt[p] = owed
  BY <1>7, <1>8 DEF SlotT
<1>15. Worth(t, p, i) + Precision * m <= Worth(s, p, x) + Precision * n
  <2>1. Worth(t, p, i) = Precision * (k + (w + e)) + d * r + d * (i - i)
    BY <1>14 DEF Worth
  <2>2. Worth(s, p, x) = Precision * (k + w) + d * r + d * (i - x)
    BY DEF Worth
  <2>3. Precision * e <= d * (i - x) + Precision
    BY <1>5
  <2>4. d * (i - x) \in Nat /\ d * (i - i) = 0 /\ d * r \in Nat
    BY <1>2, SMTT(60)
  <2> DEFINE y == d * (i - x)
             z == d * r
  <2> HIDE DEF y, z, e, d, i, x, r, k, w
  <2>5. CASE e > 0
    <3>1. n = m + 1
      BY <1>6, <2>5
    <3>2. Worth(t, p, i) = Precision * (k + (w + e)) + z + 0 /\ Worth(s, p, x) = Precision * (k + w) + z + y
      BY <2>1, <2>2, <2>4 DEF y, z
    <3>3. Precision * e <= y + Precision /\ y \in Nat /\ z \in Nat
      BY <2>3, <2>4 DEF y, z
    <3> QED BY <3>1, <3>2, <3>3, <1>1, <1>2, <1>5, SMTT(60)
  <2>6. CASE ~(e > 0)
    <3>1. n = m /\ e = 0
      BY <1>5, <1>6, <2>6, SMTT(60)
    <3>2. Worth(t, p, i) = Precision * (k + (w + e)) + z + 0 /\ Worth(s, p, x) = Precision * (k + w) + z + y
      BY <2>1, <2>2, <2>4 DEF y, z
    <3>3. y \in Nat /\ z \in Nat
      BY <2>4 DEF y, z
    <3> QED BY <3>1, <3>2, <3>3, <1>1, <1>2, SMTT(60)
  <2> QED BY <2>5, <2>6
<1>16. i <= t.rewIdx[p[1]]
  BY <1>2, <1>14, SMTT(60)
<1>17. Covered(t, [st EXCEPT ![p] = i], n)
  <2>1. t.rewDebt[p] = (t.del[p] * i) \div Precision
    BY <1>14
  <2> HIDE DEF n, i
  <2> QED BY <1>2, <1>10, <1>12, <1>13, <1>15, <1>16, <2>1, PositionCovered DEF x
<1>18. [st EXCEPT ![p] = i][p] = t.rewIdx[p[1]]
  BY <1>14 DEF Covered, Starts
<1> QED BY <1>6, <1>10, <1>11, <1>17, <1>18 DEF t

\* The position p has d shares, of n in all, and j wei to be withdrawn, and is
\* settled.
Moved(s, t, p, d, n, j) ==
  /\ SameBut(s, t, {"del", "delTot", "rewDebt", "delUnbondAmt", "delUnbondAt"})
  /\ t.del = [s.del EXCEPT ![p] = d] /\ t.delTot = [s.delTot EXCEPT ![p[1]] = n]
  /\ t.rewDebt = [s.rewDebt EXCEPT ![p] = RewardDebtForShares(s, p[1], d)]
  /\ t.delUnbondAmt = [s.delUnbondAmt EXCEPT ![p] = j]

\* A settled position takes d shares and j wei to be withdrawn.
LEMMA MoveCovered ==
  ASSUME NEW s, SlotT(s), AddsUp(s), NEW p \in Pairs, NEW st, NEW m \in Nat,
         Covered(s, st, m), st[p] = s.rewIdx[p[1]],
         NEW d \in Nat, NEW n \in Nat, n + s.del[p] = s.delTot[p[1]] + d,
         NEW j \in Nat, NEW k \in Nat,
         Precision * j + d * s.delRate[p[1]] + Precision * m
           <= Precision * s.delUnbondAmt[p] + s.del[p] * s.delRate[p[1]] + Precision * k,
         NEW t, Moved(s, t, p, d, n, j)
  PROVE  SlotT(t) /\ AddsUp(t) /\ \E u : Covered(t, u, k)
<1> DEFINE i == s.rewIdx[p[1]]
           debt == (d * i) \div Precision
           r == s.delRate[p[1]]
           w == s.rewPend[p]
           c == s.del[p]
           g == s.delUnbondAmt[p]
<1>1. p[1] \in Accounts /\ Precision \in Nat \ {0}
  BY StakingAssumption, SMTT(60)
<1>2. i \in Nat /\ r \in 1 .. Precision /\ w \in Nat /\ c \in Nat /\ g \in Nat
  BY <1>1 DEF SlotT
<1>3. debt \in Nat /\ RewardDebtForShares(s, p[1], d) = debt
  <2>1. d * i \in Nat
    BY <1>2, SMTT(60)
  <2>2. debt \in Nat
    <3> HIDE DEF i
    <3> QED BY <2>1, <1>1, DivBounds
  <2> QED BY <2>2 DEF RewardDebtForShares
<1>4. /\ t.self = s.self /\ t.unbondAmt = s.unbondAmt /\ t.comm = s.comm
      /\ t.jailed = s.jailed /\ t.rewIdx = s.rewIdx
      /\ t.delRate = s.delRate /\ t.rewPend = s.rewPend
  BY DEF Moved, SameBut, Fields
<1>5. SlotT(t)
  <2>1. t = [f \in Fields |-> t[f]]
    BY DEF Moved, SameBut
  <2>2. t.rewDebt \in [Pairs -> Nat]
    <3>1. s.rewDebt \in [Pairs -> Nat]
      BY DEF SlotT
    <3> HIDE DEF debt
    <3> QED BY <3>1, <1>3 DEF Moved
  <2>3. t.del \in [Pairs -> Nat] /\ t.delUnbondAmt \in [Pairs -> Nat]
    BY SMTT(60) DEF SlotT, Moved
  <2>4. t.delTot \in [Accounts -> Nat]
    <3> DEFINE v == p[1]
    <3>1. s.delTot \in [Accounts -> Nat] /\ t.delTot = [s.delTot EXCEPT ![v] = n]
      BY DEF SlotT, Moved
    <3> HIDE DEF v
    <3> QED BY <3>1
  <2> QED BY <1>4, <2>1, <2>2, <2>3, <2>4 DEF SlotT
<1>6. t.del[p] = d /\ t.delTot[p[1]] = n /\ t.delUnbondAmt[p] = j /\ t.rewDebt[p] = debt
  <2>1. /\ s.del \in [Pairs -> Nat] /\ s.delUnbondAmt \in [Pairs -> Nat]
        /\ s.rewDebt \in [Pairs -> Nat] /\ s.delTot \in [Accounts -> Nat]
    BY DEF SlotT
  <2> HIDE DEF debt
  <2>2. t.del[p] = d /\ t.delUnbondAmt[p] = j
    BY <2>1 DEF Moved
  <2>3. t.delTot[p[1]] = n /\ t.rewDebt[p] = debt
    BY <1>1, <1>3, <2>1 DEF Moved
  <2> QED BY <2>2, <2>3
<1>7. /\ \A q \in Pairs \ {p} : /\ t.del[q] = s.del[q] /\ t.rewDebt[q] = s.rewDebt[q]
                                /\ t.delUnbondAmt[q] = s.delUnbondAmt[q]
      /\ \A v \in Accounts \ {p[1]} : t.delTot[v] = s.delTot[v]
  <2>1. /\ s.del \in [Pairs -> Nat] /\ s.delUnbondAmt \in [Pairs -> Nat]
        /\ s.rewDebt \in [Pairs -> Nat] /\ s.delTot \in [Accounts -> Nat]
    BY DEF SlotT
  <2>2. \A q \in Pairs \ {p} : t.del[q] = s.del[q] /\ t.rewDebt[q] = s.rewDebt[q]
    BY <2>1 DEF Moved
  <2>3. \A q \in Pairs \ {p} : t.delUnbondAmt[q] = s.delUnbondAmt[q]
    BY <2>1 DEF Moved
  <2>4. \A v \in Accounts \ {p[1]} : t.delTot[v] = s.delTot[v]
    BY <2>1 DEF Moved
  <2> QED BY <2>2, <2>3, <2>4
<1>8. AddsUp(t)
  <2>1. t.delTot[p[1]] + s.del[p] = s.delTot[p[1]] + t.del[p]
    BY <1>6
  <2> QED BY <1>5, <1>7, <2>1, SharesMove, SMTT(60)
<1>9. OnlyPosition(s, t, p)
  BY <1>4, <1>7 DEF OnlyPosition
<1>10. Worth(t, p, i) + Precision * m <= Worth(s, p, st[p]) + Precision * k
  <2>1. Worth(t, p, i) = Precision * (j + w) + d * r + d * (i - i)
    BY <1>4, <1>6 DEF Worth
  <2>2. Worth(s, p, st[p]) = Precision * (g + w) + c * r + c * (i - i)
    BY DEF Worth
  <2>3. Precision * j + d * r + Precision * m <= Precision * g + c * r + Precision * k
    OBVIOUS
  <2>4. d * (i - i) = 0 /\ c * (i - i) = 0 /\ d * r \in Int /\ c * r \in Int
    BY <1>1, <1>2, SMTT(60)
  <2> DEFINE x == d * r
             y == c * r
  <2> HIDE DEF i, r, w, c, g
  <2>5. /\ Worth(t, p, i) = Precision * (j + w) + x + 0
        /\ Worth(s, p, st[p]) = Precision * (g + w) + y + 0
        /\ x \in Int /\ y \in Int
        /\ Precision * j + x + Precision * m <= Precision * g + y + Precision * k
    BY <2>1, <2>2, <2>3, <2>4
  <2> HIDE DEF x, y
  <2> QED BY <1>1, <1>2, <2>5, SMTT(60)
<1>11. i <= t.rewIdx[p[1]] /\ t.rewDebt[p] = (t.del[p] * i) \div Precision
  <2>1. i <= i
    BY <1>2, SMTT(60)
  <2> QED BY <1>4, <1>6, <2>1
<1>12. Covered(t, [st EXCEPT ![p] = i], k)
  <2> HIDE DEF i
  <2> QED BY <1>2, <1>5, <1>9, <1>10, <1>11, PositionCovered
<1> QED BY <1>5, <1>8, <1>12

\* The position p has j wei to be withdrawn and w to be claimed.
Paid(s, t, p, j, w) ==
  /\ SameBut(s, t, {"rewPend", "delUnbondAmt", "delUnbondAt"})
  /\ t.rewPend = [s.rewPend EXCEPT ![p] = w]
  /\ t.delUnbondAmt = [s.delUnbondAmt EXCEPT ![p] = j]

\* A position loses what it could withdraw or claim.
LEMMA PayoutCovered ==
  ASSUME NEW s, SlotT(s), AddsUp(s), NEW p \in Pairs, NEW st, NEW m \in Nat,
         Covered(s, st, m), NEW j \in Nat, NEW w \in Nat, NEW k \in Nat,
         j + w + m <= s.delUnbondAmt[p] + s.rewPend[p] + k,
         NEW t, Paid(s, t, p, j, w)
  PROVE  SlotT(t) /\ AddsUp(t) /\ \E u : Covered(t, u, k)
<1> DEFINE i == s.rewIdx[p[1]]
           r == s.delRate[p[1]]
           c == s.del[p]
           g == s.delUnbondAmt[p] + s.rewPend[p]
           x == st[p]
<1>1. p[1] \in Accounts /\ Precision \in Nat \ {0}
  BY StakingAssumption, SMTT(60)
<1>2. i \in Nat /\ r \in 1 .. Precision /\ c \in Nat
  BY <1>1 DEF SlotT
<1>3. s.delUnbondAmt[p] \in Nat /\ s.rewPend[p] \in Nat
  BY DEF SlotT
<1>4. /\ t.self = s.self /\ t.unbondAmt = s.unbondAmt /\ t.comm = s.comm
      /\ t.jailed = s.jailed /\ t.rewIdx = s.rewIdx /\ t.delTot = s.delTot
      /\ t.delRate = s.delRate /\ t.del = s.del /\ t.rewDebt = s.rewDebt
  BY DEF Paid, SameBut, Fields
<1>5. SlotT(t)
  <2>1. t = [f \in Fields |-> t[f]]
    BY DEF Paid, SameBut
  <2>2. t.rewPend \in [Pairs -> Nat] /\ t.delUnbondAmt \in [Pairs -> Nat]
    BY SMTT(60) DEF Paid, SlotT
  <2> QED BY <1>4, <2>1, <2>2 DEF SlotT
<1>6. AddsUp(t)
  BY <1>4, SharesKept
<1>7. t.rewPend[p] = w /\ t.delUnbondAmt[p] = j
  BY DEF Paid, SlotT
<1>8. OnlyPosition(s, t, p)
  <2>1. \A q \in Pairs \ {p} : t.rewPend[q] = s.rewPend[q] /\ t.delUnbondAmt[q] = s.delUnbondAmt[q]
    BY DEF Paid, SlotT
  <2> QED BY <1>4, <2>1 DEF OnlyPosition
<1>9. x \in Nat /\ x <= i /\ s.rewDebt[p] = (c * x) \div Precision
  BY DEF Covered, Starts
<1>10. Worth(t, p, x) + Precision * m <= Worth(s, p, x) + Precision * k
  <2>1. Worth(t, p, x) = Precision * (j + w) + c * r + c * (i - x)
    BY <1>4, <1>7 DEF Worth
  <2>2. Worth(s, p, x) = Precision * g + c * r + c * (i - x)
    BY DEF Worth
  <2>3. c * r \in Int /\ c * (i - x) \in Int
    BY <1>1, <1>2, <1>9, SMTT(60)
  <2>4. g \in Nat
    BY <1>3, SMTT(60)
  <2>5. j + w + m <= g + k
    OBVIOUS
  <2> DEFINE y == c * r
             z == c * (i - x)
  <2> HIDE DEF g
  <2>6. Precision * (j + w + m) <= Precision * (g + k)
    BY <1>1, <2>4, <2>5, SMTT(60)
  <2>7. /\ Worth(t, p, x) = Precision * (j + w) + y + z
        /\ Worth(s, p, x) = Precision * g + y + z
        /\ y \in Int /\ z \in Int
    BY <2>1, <2>2, <2>3
  <2> HIDE DEF x, y, z
  <2> QED BY <1>1, <2>4, <2>6, <2>7, SMTT(60)
<1>11. x <= t.rewIdx[p[1]] /\ t.rewDebt[p] = (t.del[p] * x) \div Precision
  BY <1>4, <1>9
<1>12. Covered(t, [st EXCEPT ![p] = x], k)
  <2>1. Worth(t, p, x) + Precision * m <= Worth(s, p, st[p]) + Precision * k
    BY <1>10
  <2> HIDE DEF x
  <2> QED BY <1>5, <1>8, <1>9, <1>11, <2>1, PositionCovered
<1> QED BY <1>5, <1>6, <1>12

\* Value turned into shares is worth no more than it was.
LEMMA DelegateCovered ==
  ASSUME NEW s, SlotT(s), AddsUp(s), NEW p \in Pairs, NEW st, NEW m \in Nat,
         Covered(s, st, m), st[p] = s.rewIdx[p[1]], NEW amt \in Nat,
         NEW add, add = WeiToShares(s, p[1], amt),
         NEW t, t = [s EXCEPT !.del[p] = @ + add, !.delTot[p[1]] = @ + add,
                              !.rewDebt[p] = RewardDebtForShares(s, p[1], s.del[p] + add)]
  PROVE  SlotT(t) /\ AddsUp(t) /\ \E u : Covered(t, u, m + amt)
<1> DEFINE r == s.delRate[p[1]]
           c == s.del[p]
           tot == s.delTot[p[1]]
           g == s.delUnbondAmt[p]
           d == c + add
           n == tot + add
           k == m + amt
<1>1. p[1] \in Accounts /\ Precision \in Nat \ {0}
  BY StakingAssumption, SMTT(60)
<1>2. r \in 1 .. Precision /\ c \in Nat /\ tot \in Nat /\ g \in Nat
  BY <1>1 DEF SlotT
<1>3. add \in Nat /\ r * add <= amt * Precision
  <2>1. r \in Nat \ {0} /\ amt * Precision \in Nat
    BY <1>1, <1>2, SMTT(60)
  <2>2. add = (amt * Precision) \div r
    BY DEF WeiToShares
  <2> DEFINE a == amt * Precision
  <2> HIDE DEF r, a
  <2> QED BY <2>1, <2>2, DivBounds DEF a
<1>4. d \in Nat /\ n \in Nat /\ k \in Nat /\ n + c = tot + d
  BY <1>2, <1>3, SMTT(60)
<1>5. Precision * g + d * r + Precision * m <= Precision * g + c * r + Precision * k
  <2> HIDE DEF r, c, tot, g
  <2>1. d * r = c * r + r * add /\ Precision * k = Precision * m + amt * Precision
    BY <1>1, <1>2, <1>3, SMTT(60)
  <2>2. r * add \in Int /\ c * r \in Int /\ Precision * g \in Int /\ Precision * m \in Int /\ amt * Precision \in Int
    BY <1>1, <1>2, <1>3, SMTT(60)
  <2> DEFINE a == r * add
             b == c * r
             e == amt * Precision
             x == Precision * g
             y == Precision * m
             w == d * r
             z == Precision * k
  <2>3. a <= e /\ w = b + a /\ z = y + e /\ a \in Int /\ b \in Int /\ e \in Int /\ x \in Int /\ y \in Int
    BY <1>3, <2>1, <2>2
  <2>4. x + w + y <= x + b + z
    <3> HIDE DEF a, b, e, x, y, w, z
    <3> QED BY <2>3, SMTT(60)
  <2> QED BY <2>4
<1>6. /\ SameBut(s, t, {"del", "delTot", "rewDebt", "delUnbondAmt", "delUnbondAt"})
      /\ t.del = [s.del EXCEPT ![p] = d] /\ t.delTot = [s.delTot EXCEPT ![p[1]] = n]
      /\ t.rewDebt = [s.rewDebt EXCEPT ![p] = RewardDebtForShares(s, p[1], d)]
      /\ t.delUnbondAmt = s.delUnbondAmt
  <2>1. s = [f \in Fields |-> s[f]]
    BY DEF SlotT
  <2> DEFINE z == RewardDebtForShares(s, p[1], d)
             q == p[1]
  <2>2. t = [s EXCEPT !.del[p] = d, !.delTot[q] = n, !.rewDebt[p] = z]
    OBVIOUS
  <2> HIDE DEF d, n, z, q
  <2>3. /\ SameBut(s, t, {"del", "delTot", "rewDebt", "delUnbondAmt", "delUnbondAt"})
        /\ t.delUnbondAmt = s.delUnbondAmt
    BY <2>1, <2>2 DEF Fields, SameBut
  <2>4. /\ t.del = [s.del EXCEPT ![p] = d] /\ t.delTot = [s.delTot EXCEPT ![q] = n]
        /\ t.rewDebt = [s.rewDebt EXCEPT ![p] = z]
    BY <2>1, <2>2 DEF Fields
  <2> QED BY <2>3, <2>4 DEF z, q
<1>7. t.delUnbondAmt = [s.delUnbondAmt EXCEPT ![p] = g]
  BY <1>6 DEF SlotT
<1> HIDE DEF d, n, k, g
<1>8. SlotT(t) /\ AddsUp(t) /\ \E u : Covered(t, u, k)
  <2>1. Moved(s, t, p, d, n, g)
    BY <1>6, <1>7 DEF Moved
  <2> QED BY <1>2, <1>4, <1>5, <2>1, MoveCovered DEF g
<1> QED BY <1>8 DEF k

\* A position is part of the validator's total.
LEMMA TotalIsMore ==
  ASSUME NEW s, SlotT(s), AddsUp(s), NEW p \in Pairs
  PROVE  s.delTot[p[1]] >= s.del[p]
<1> DEFINE f == SharesIn(s, p[1])
<1>1. IsFiniteSet(Pairs) /\ p[1] \in Accounts
  BY StakingAssumption
<1>2. \A q \in Pairs : f[q] \in Nat
  BY SMTT(60) DEF SharesIn, SlotT
<1>3. f[p] = s.del[p] /\ s.delTot[p[1]] = SumFunctionOnSet(f, Pairs)
  BY <1>1 DEF SharesIn, AddsUp
<1>4. IsFiniteSet(Pairs \ {p}) /\ \A q \in Pairs \ {p} : f[q] \in Nat
  BY <1>1, <1>2, FS_RemoveElement
<1> HIDE DEF f
<1>5. SumFunctionOnSet(f, Pairs) = f[p] + SumFunctionOnSet(f, Pairs \ {p})
  BY <1>1, <1>2, SumTake
<1>6. SumFunctionOnSet(f, Pairs \ {p}) \in Nat
  BY <1>4, SumTake
<1> DEFINE x == SumFunctionOnSet(f, Pairs \ {p})
<1> HIDE DEF x
<1>7. s.delTot[p[1]] = s.del[p] + x /\ x \in Nat /\ s.del[p] \in Nat
  BY <1>3, <1>5, <1>6 DEF SlotT, x
<1> QED BY <1>7, SMTT(60)

\* The shares given up for an amount fall short of it by less than a wei.
LEMMA ShareDust ==
  ASSUME NEW n \in Nat \ {0}, NEW r \in 1 .. n, NEW c \in Nat, NEW amt \in Nat,
         (c * r) \div n >= amt, NEW sub, sub = Min({(amt * n) \div r, c})
  PROVE  sub \in Nat /\ sub <= c /\ n * amt <= sub * r + n
<1> DEFINE x == amt * n
           w == x \div r
           y == c * r
           q == y \div n
<1>1. r \in Nat \ {0} /\ x \in Nat /\ y \in Nat
  BY SMTT(60)
<1>2. w \in Nat /\ r * w <= x /\ x < r * w + r
  <2> HIDE DEF x
  <2> QED BY <1>1, DivBounds
<1>3. q \in Nat /\ n * q <= y /\ q >= amt
  <2>1. q >= amt
    OBVIOUS
  <2> HIDE DEF y
  <2> QED BY <1>1, <2>1, DivBounds
<1>4. n * amt <= y
  <2> HIDE DEF y, q
  <2>1. n * amt <= n * q
    BY <1>3, SMTT(60)
  <2> QED BY <1>1, <1>3, <2>1, SMTT(60)
<1>5. w \in Int /\ c \in Int
  <2> HIDE DEF w
  <2> QED BY <1>2, SMTT(60)
<1>6. (sub = w /\ w <= c) \/ (sub = c /\ c <= w)
  <2> HIDE DEF w
  <2>1. sub = Min({w, c})
    BY DEF w
  <2> QED BY <1>5, <2>1, MinOfTwo
<1>7. CASE sub = w /\ w <= c
  <2>1. n * amt = x
    BY SMTT(60)
  <2> HIDE DEF w, x
  <2>2. x <= w * r + n
    BY <1>1, <1>2, SMTT(60)
  <2> QED BY <1>2, <1>7, <2>1, <2>2
<1>8. CASE sub = c /\ c <= w
  <2>1. c <= c /\ (n * amt <= y => n * amt <= c * r + n)
    BY <1>1, SMTT(60)
  <2> QED BY <1>4, <1>8, <2>1
<1> QED BY <1>6, <1>7, <1>8

\* An amount undelegated is owed in full: one wei pays for the rounded shares.
LEMMA UndelegateCovered ==
  ASSUME NEW s, SlotT(s), AddsUp(s), NEW p \in Pairs, NEW st, NEW m \in Nat,
         Covered(s, st, m), st[p] = s.rewIdx[p[1]], NEW amt \in Nat,
         Delegation(s, p) >= amt,
         NEW sub, sub = Min({WeiToShares(s, p[1], amt), s.del[p]}), NEW at,
         NEW t, t = [s EXCEPT !.del[p] = @ - sub, !.delTot[p[1]] = @ - sub,
                              !.rewDebt[p] = RewardDebtForShares(s, p[1], s.del[p] - sub),
                              !.delUnbondAmt[p] = @ + amt, !.delUnbondAt[p] = at]
  PROVE  SlotT(t) /\ AddsUp(t) /\ \E u : Covered(t, u, m + 1)
<1> DEFINE r == s.delRate[p[1]]
           c == s.del[p]
           tot == s.delTot[p[1]]
           g == s.delUnbondAmt[p]
           d == c - sub
           n == tot - sub
           j == g + amt
           k == m + 1
<1>1. p[1] \in Accounts /\ Precision \in Nat \ {0}
  BY StakingAssumption, SMTT(60)
<1>2. r \in 1 .. Precision /\ c \in Nat /\ tot \in Nat /\ g \in Nat /\ tot >= c
  BY <1>1, TotalIsMore DEF SlotT
<1>3. sub \in Nat /\ sub <= c /\ Precision * amt <= sub * r + Precision
  <2>1. (c * r) \div Precision >= amt /\ sub = Min({(amt * Precision) \div r, c})
    BY DEF Delegation, SharesToWei, WeiToShares
  <2> HIDE DEF c, r
  <2> QED BY <1>1, <1>2, <2>1, ShareDust
<1>4. d \in Nat /\ n \in Nat /\ j \in Nat /\ k \in Nat /\ n + c = tot + d
  BY <1>2, <1>3, SMTT(60)
<1>5. Precision * j + d * r + Precision * m <= Precision * g + c * r + Precision * k
  <2> HIDE DEF r, c, tot, g
  <2>1. /\ d * r = c * r - sub * r /\ Precision * k = Precision * m + Precision
        /\ Precision * j = Precision * g + Precision * amt
    BY <1>1, <1>2, <1>3, SMTT(60)
  <2>2. /\ sub * r \in Int /\ c * r \in Int /\ Precision * g \in Int
        /\ Precision * m \in Int /\ Precision * amt \in Int
    BY <1>1, <1>2, <1>3, SMTT(60)
  <2> DEFINE a == sub * r
             b == c * r
             e == Precision * amt
             x == Precision * g
             y == Precision * m
             w == d * r
             z == Precision * k
             v == Precision * j
  <2>3. /\ e <= a + Precision /\ w = b - a /\ z = y + Precision /\ v = x + e
        /\ a \in Int /\ b \in Int /\ e \in Int /\ x \in Int /\ y \in Int
    BY <1>3, <2>1, <2>2
  <2>4. v + w + y <= x + b + z
    <3> HIDE DEF a, b, e, x, y, w, z, v
    <3> QED BY <1>1, <2>3, SMTT(60)
  <2> QED BY <2>4
<1>6. Moved(s, t, p, d, n, j)
  <2>1. s = [f \in Fields |-> s[f]]
    BY DEF SlotT
  <2> DEFINE z == RewardDebtForShares(s, p[1], d)
             q == p[1]
  <2>2. t = [s EXCEPT !.del[p] = d, !.delTot[q] = n, !.rewDebt[p] = z,
                      !.delUnbondAmt[p] = j, !.delUnbondAt[p] = at]
    OBVIOUS
  <2> HIDE DEF d, n, z, q, j
  <2>3. SameBut(s, t, {"del", "delTot", "rewDebt", "delUnbondAmt", "delUnbondAt"})
    BY <2>1, <2>2 DEF Fields, SameBut
  <2>4. /\ t.del = [s.del EXCEPT ![p] = d] /\ t.delTot = [s.delTot EXCEPT ![q] = n]
        /\ t.rewDebt = [s.rewDebt EXCEPT ![p] = z]
        /\ t.delUnbondAmt = [s.delUnbondAmt EXCEPT ![p] = j]
    BY <2>1, <2>2 DEF Fields
  <2> QED BY <2>3, <2>4 DEF z, q, Moved
<1> HIDE DEF d, n, k, j
<1>7. SlotT(t) /\ AddsUp(t) /\ \E u : Covered(t, u, k)
  BY <1>4, <1>5, <1>6, MoveCovered
<1> QED BY <1>7 DEF k

\* What a slash takes from the rate is worth the stake it burns.
LEMMA SlashedRate ==
  ASSUME NEW n \in Nat, NEW max \in Nat \ {0}, n >= max, NEW bps \in 0 .. max - 1,
         NEW tot \in Nat, NEW burn, burn = (tot * bps) \div max,
         NEW rate, rate = (n * (max - bps)) \div max
  PROVE  /\ burn \in Nat /\ rate \in 1 .. n
         /\ n * burn <= tot * (n - rate)
<1> DEFINE x == tot * bps
           y == n * (max - bps)
<1>1. x \in Nat /\ y \in Nat
  BY SMTT(60)
<1>2. burn \in Nat /\ max * burn <= x
  <2> HIDE DEF x
  <2>1. burn = x \div max
    BY DEF x
  <2> QED BY <1>1, <2>1, DivBounds
<1>3. rate \in Nat /\ max * rate <= y /\ y < max * rate + max
  <2> HIDE DEF y
  <2>1. rate = y \div max
    BY DEF y
  <2> QED BY <1>1, <2>1, DivBounds
<1>4. y >= max
  BY SMTT(60)
<1>5. rate # 0
  <2> HIDE DEF y
  <2> QED BY <1>1, <1>3, <1>4, SMTT(60)
<1>6. max * rate <= max * n /\ y = max * n - n * bps
  <2>1. y = max * n - n * bps /\ n * bps \in Nat /\ max * n \in Nat
    BY SMTT(60)
  <2> DEFINE z == n * bps
             w == max * n
  <2> HIDE DEF y, z, w
  <2>2. max * rate <= w
    BY <1>1, <1>3, <2>1, SMTT(60) DEF z, w
  <2> QED BY <2>1, <2>2 DEF w, z
<1>7. rate <= n
  BY <1>3, <1>6, SMTT(60)
<1>8. max * (n - rate) >= n * bps
  <2> HIDE DEF y
  <2> QED BY <1>1, <1>3, <1>6, SMTT(60)
<1>9. tot * (max * (n - rate)) >= tot * (n * bps)
  <2> DEFINE a == max * (n - rate)
             b == n * bps
  <2>1. a \in Int /\ b \in Int /\ a >= b
    BY <1>3, <1>8, SMTT(60)
  <2> HIDE DEF a, b
  <2>2. tot * a >= tot * b
    BY <2>1, SMTT(60)
  <2> QED BY <2>2 DEF a, b
<1>10. n * (max * burn) <= n * x
  <2> HIDE DEF x
  <2> DEFINE a == max * burn
  <2>1. a \in Nat /\ a <= x
    BY <1>2, SMTT(60)
  <2> HIDE DEF a
  <2>2. n * a <= n * x
    BY <1>1, <2>1, SMTT(60)
  <2> QED BY <2>2 DEF a
<1>11. n * x = tot * (n * bps)
  BY SMTT(60)
<1>12. max * (n * burn) <= max * (tot * (n - rate))
  <2>1. n * (max * burn) = max * (n * burn)
    BY <1>2, SMTT(60)
  <2>2. tot * (max * (n - rate)) = max * (tot * (n - rate))
    BY <1>3, SMTT(60)
  <2>3. n * x \in Int /\ n * (max * burn) \in Int /\ tot * (max * (n - rate)) \in Int
    BY <1>1, <1>2, <1>3, SMTT(60)
  <2> DEFINE a == n * x
             b == n * (max * burn)
             c == tot * (max * (n - rate))
  <2>4. a \in Int /\ b \in Int /\ c \in Int /\ b <= a /\ c >= a
    BY <2>3, <1>9, <1>10, <1>11
  <2> HIDE DEF a, b, c
  <2>5. b <= c
    BY <2>4, SMTT(60)
  <2> QED BY <2>1, <2>2, <2>5 DEF b, c
<1>13. n * burn <= tot * (n - rate)
  <2> DEFINE a == n * burn
             b == tot * (n - rate)
  <2>1. a \in Int /\ b \in Int /\ max * a <= max * b
    BY <1>2, <1>3, <1>12, SMTT(60)
  <2> HIDE DEF a, b
  <2>2. a <= b
    BY <2>1, SMTT(60)
  <2> QED BY <2>2 DEF a, b
<1> QED BY <1>2, <1>3, <1>5, <1>7, <1>13, SMTT(60)

\* g is f with k more for every share delegated to a.
PerShare(s, f, g, a, k) ==
  \A q \in Pairs : /\ f[q] \in Nat
                   /\ q[1] = a => g[q] = f[q] + k * s.del[q]
                   /\ q[1] # a => g[q] = f[q]

\* A rate or an index that moves by k for one validator moves what its shares
\* are worth by k for each of them.
LEMMA WorthsMove ==
  ASSUME NEW s, SlotT(s), AddsUp(s), NEW a \in Accounts, NEW k \in Nat,
         NEW f, NEW g, PerShare(s, f, g, a, k)
  PROVE  SumFunctionOnSet(g, Pairs) = SumFunctionOnSet(f, Pairs) + k * s.delTot[a]
<1> DEFINE h == SharesIn(s, a)
<1>1. IsFiniteSet(Pairs) /\ s.delTot[a] = SumFunctionOnSet(h, Pairs)
  BY StakingAssumption DEF AddsUp
<1>2. ASSUME NEW q \in Pairs PROVE f[q] \in Nat /\ h[q] \in Nat /\ g[q] = f[q] + k * h[q]
  <2>1. /\ s.del[q] \in Nat /\ f[q] \in Nat
        /\ q[1] = a => g[q] = f[q] + k * s.del[q]
        /\ q[1] # a => g[q] = f[q]
    BY DEF SlotT, PerShare
  <2>2. h[q] = (IF q[1] = a THEN s.del[q] ELSE 0)
    BY DEF SharesIn
  <2> HIDE DEF h
  <2>3. CASE q[1] = a
    BY <2>1, <2>2, <2>3
  <2>4. CASE q[1] # a
    <3>1. h[q] = 0 /\ g[q] = f[q]
      BY <2>1, <2>2, <2>4
    <3> QED BY <2>1, <3>1, SMTT(60)
  <2> QED BY <2>3, <2>4
<1> HIDE DEF h
<1>3. SumFunctionOnSet(g, Pairs) = SumFunctionOnSet(f, Pairs) + k * SumFunctionOnSet(h, Pairs)
  BY <1>1, <1>2, SumScaled, SMTT(60)
<1> QED BY <1>1, <1>3

\* What IncreaseRewardIndex computes and writes.
Indexed(s, t, a, part, inc) ==
  /\ inc = (part * Precision) \div s.delTot[a]
  /\ t = [s EXCEPT !.rewIdx[a] = @ + inc]

\* Income is worth at least what the index adds to the delegated shares.
LEMMA IncomeCovered ==
  ASSUME NEW s, SlotT(s), AddsUp(s), NEW a \in Accounts, NEW st, NEW m \in Nat,
         Covered(s, st, m), NEW part \in Nat, s.delTot[a] > 0,
         NEW inc, NEW t, Indexed(s, t, a, part, inc)
  PROVE  SlotT(t) /\ AddsUp(t) /\ Covered(t, st, m + part)
<1> DEFINE tot == s.delTot[a]
           i == s.rewIdx[a]
           f == Worths(s, st)
           g == Worths(t, st)
<1>1. Precision \in Nat
  BY StakingAssumption
<1>2. tot \in Nat /\ tot > 0 /\ i \in Nat
  BY DEF SlotT
<1>3. inc \in Nat /\ tot * inc <= part * Precision
  <2> DEFINE x == part * Precision
  <2>1. tot \in Nat \ {0} /\ x \in Nat
    BY <1>1, <1>2, SMTT(60)
  <2> HIDE DEF tot, x
  <2>2. inc = x \div tot
    BY DEF tot, x, Indexed
  <2> QED BY <2>1, <2>2, DivBounds DEF x
<1>4. /\ SameBut(s, t, {"rewIdx"})
      /\ t.rewIdx = [s.rewIdx EXCEPT ![a] = i + inc]
  <2>1. s = [h \in Fields |-> s[h]]
    BY DEF SlotT
  <2> DEFINE z == i + inc
  <2>2. t = [s EXCEPT !.rewIdx[a] = z]
    BY DEF Indexed
  <2> HIDE DEF z
  <2>3. SameBut(s, t, {"rewIdx"}) /\ t.rewIdx = [s.rewIdx EXCEPT ![a] = z]
    BY <2>1, <2>2 DEF Fields, SameBut
  <2> QED BY <2>3 DEF z
<1>5. /\ t.self = s.self /\ t.unbondAmt = s.unbondAmt /\ t.comm = s.comm
      /\ t.jailed = s.jailed /\ t.delTot = s.delTot /\ t.rewPend = s.rewPend
      /\ t.delRate = s.delRate /\ t.del = s.del /\ t.delUnbondAmt = s.delUnbondAmt
      /\ t.rewDebt = s.rewDebt
  BY <1>4 DEF SameBut, Fields
<1>6. i + inc \in Nat
  BY <1>2, <1>3, SMTT(60)
<1>7. SlotT(t)
  <2>1. t = [h \in Fields |-> t[h]]
    BY <1>4 DEF SameBut
  <2>2. t.rewIdx \in [Accounts -> Nat]
    BY <1>4, <1>6, SMTT(60) DEF SlotT
  <2> QED BY <1>5, <2>1, <2>2 DEF SlotT
<1>8. AddsUp(t)
  BY <1>5, SharesKept
<1>9. Starts(s, st)
  BY DEF Covered
<1>10. ASSUME NEW q \in Pairs
       PROVE  /\ q[1] = a => g[q] = f[q] + inc * s.del[q]
              /\ q[1] # a => g[q] = f[q]
              /\ st[q] <= t.rewIdx[q[1]]
  <2> DEFINE e == s.delRate[q[1]]
             w == s.delUnbondAmt[q] + s.rewPend[q]
             c == s.del[q]
             y == s.rewIdx[q[1]]
             z == t.rewIdx[q[1]]
             x == st[q]
  <2>1. q[1] \in Accounts
    BY StakingAssumption
  <2>2. /\ c \in Nat /\ e \in 1 .. Precision /\ y \in Nat /\ x \in Nat /\ x <= y
        /\ s.delUnbondAmt[q] \in Nat /\ s.rewPend[q] \in Nat
    BY <1>9, <2>1 DEF SlotT, Starts
  <2>3. f[q] = Precision * w + c * e + c * (y - x)
    BY DEF Worths, Worth
  <2>4. g[q] = Precision * w + c * e + c * (z - x)
    BY <1>5 DEF Worths, Worth
  <2>5. (q[1] = a => z = y + inc) /\ (q[1] # a => z = y)
    BY <1>4, <2>1 DEF SlotT
  <2>6. w \in Nat
    BY <2>2, SMTT(60)
  <2> HIDE DEF e, w, c, y, z, x, f, g
  <2>7. CASE q[1] = a
    <3>1. z = y + inc
      BY <2>5, <2>7
    <3>2. c * (z - x) = c * (y - x) + inc * c
      BY <2>2, <3>1, <1>3, SMTT(60)
    <3>3. Precision * w \in Int /\ c * e \in Int /\ c * (y - x) \in Int /\ inc * c \in Int
      BY <1>1, <1>3, <2>2, <2>6, SMTT(60)
    <3>4. g[q] = f[q] + inc * c
      <4> DEFINE k1 == Precision * w
                 k2 == c * e
                 k3 == c * (y - x)
                 k4 == inc * c
                 k5 == c * (z - x)
      <4>1. /\ k1 \in Int /\ k2 \in Int /\ k3 \in Int /\ k4 \in Int /\ k5 = k3 + k4
            /\ f[q] = k1 + k2 + k3 /\ g[q] = k1 + k2 + k5
        BY <2>3, <2>4, <3>2, <3>3
      <4> HIDE DEF k1, k2, k3, k4, k5
      <4>2. g[q] = f[q] + k4
        BY <4>1, SMTT(60)
      <4> QED BY <4>2 DEF k4
    <3>5. x <= z
      BY <3>1, <2>2, <1>3, SMTT(60)
    <3> QED BY <2>7, <3>4, <3>5 DEF c, x, z
  <2>8. CASE q[1] # a
    BY <2>2, <2>3, <2>4, <2>5, <2>8 DEF x, z
  <2> QED BY <2>7, <2>8
<1>11. Starts(t, st)
  BY <1>5, <1>9, <1>10 DEF Starts
<1>12. SumFunctionOnSet(g, Pairs) = SumFunctionOnSet(f, Pairs) + inc * tot
  <2>1. PerShare(s, f, g, a, inc)
    <3>1. \A q \in Pairs : f[q] \in Nat
      BY <1>9, SumTypes
    <3> HIDE DEF f, g
    <3> QED BY <1>10, <3>1 DEF PerShare
  <2> HIDE DEF f, g
  <2> QED BY <1>3, <2>1, WorthsMove
<1>13. Stakes(t) = Stakes(s)
  BY <1>5, SMTT(60) DEF Stakes
<1> DEFINE b == SumFunctionOnSet(Stakes(s), Accounts)
           F == SumFunctionOnSet(f, Pairs)
           G == SumFunctionOnSet(g, Pairs)
<1>14. b \in Nat /\ F \in Nat /\ Precision * b + F <= Precision * m
  <2>1. b \in Nat /\ F \in Nat
    BY <1>9, SumTypes
  <2> QED BY <2>1 DEF Covered
<1>15. Precision * b + G <= Precision * (m + part)
  <2> HIDE DEF b, F, G, tot
  <2>1. G = F + inc * tot /\ inc * tot <= part * Precision
    <3>1. inc * tot = tot * inc
      BY <1>2, <1>3, SMTT(60)
    <3> QED BY <1>3, <1>12, <3>1 DEF F, G
  <2>2. inc * tot \in Int /\ Precision * b \in Int /\ Precision * m \in Int /\ part * Precision \in Int
        /\ Precision * (m + part) = Precision * m + part * Precision
    BY <1>1, <1>2, <1>3, <1>14, SMTT(60)
  <2> QED BY <1>14, <2>1, <2>2, SMTT(60)
<1>16. Covered(t, st, m + part)
  BY <1>11, <1>13, <1>15 DEF Covered
<1> QED BY <1>7, <1>8, <1>16

\* The validator a is jailed with the stake x and the rate r.
Cut(s, t, a, x, r) ==
  /\ SameBut(s, t, {"self", "delRate", "jailed", "cand"})
  /\ t.self = [s.self EXCEPT ![a] = x]
  /\ t.delRate = [s.delRate EXCEPT ![a] = r]
  /\ t.jailed = [s.jailed EXCEPT ![a] = TRUE]

\* The rate r takes at least db wei from the delegators.
Burnt(s, a, db, r) == Precision * db <= s.delTot[a] * (Precision - r)

\* What is burnt is no more than the claims that are cut.
LEMMA CutCovered ==
  ASSUME NEW s, SlotT(s), AddsUp(s), NEW a \in Accounts, NEW st, NEW m \in Nat,
         Covered(s, st, m), s.delRate[a] = Precision,
         NEW sb \in Nat, sb <= s.self[a], NEW db \in Nat, NEW r \in 1 .. Precision,
         Burnt(s, a, db, r),
         NEW t, NEW x \in Nat, Cut(s, t, a, x, r), x + sb = s.self[a],
         NEW n \in Nat, m <= n + (sb + db)
  PROVE  SlotT(t) /\ AddsUp(t) /\ Covered(t, st, n)
<1> DEFINE tot == s.delTot[a]
           k == Precision - r
           f == Worths(t, st)
           g == Worths(s, st)
<1>1. Precision \in Nat \ {0}
  BY StakingAssumption, SMTT(60)
<1>2. tot \in Nat /\ s.self[a] \in Nat /\ s.delRate[a] = Precision
  BY DEF SlotT
<1>7. /\ t.unbondAmt = s.unbondAmt /\ t.comm = s.comm /\ t.rewIdx = s.rewIdx
      /\ t.delTot = s.delTot /\ t.rewPend = s.rewPend
      /\ t.del = s.del /\ t.delUnbondAmt = s.delUnbondAmt /\ t.rewDebt = s.rewDebt
  BY DEF Cut, SameBut, Fields
<1>8. SlotT(t)
  <2>1. t = [h \in Fields |-> t[h]]
    BY DEF Cut, SameBut
  <2>3. s.self \in [Accounts -> Nat] /\ s.jailed \in [Accounts -> BOOLEAN]
        /\ s.delRate \in [Accounts -> 1 .. Precision]
    BY DEF SlotT
  <2>4. t.self \in [Accounts -> Nat]
    BY <2>3 DEF Cut
  <2>5. t.jailed \in [Accounts -> BOOLEAN]
    BY <2>3 DEF Cut
  <2>6. t.delRate \in [Accounts -> 1 .. Precision]
    <3> DEFINE T == 1 .. Precision
    <3> HIDE DEF T
    <3>1. s.delRate \in [Accounts -> T] /\ r \in T
      BY <2>3 DEF T
    <3>2. t.delRate \in [Accounts -> T]
      BY <3>1 DEF Cut
    <3> QED BY <3>2 DEF T
  <2>7. \A v \in Accounts : ~ t.jailed[v] => t.delRate[v] = Precision
    BY <2>3 DEF SlotT, Cut
  <2> QED BY <1>7, <2>1, <2>4, <2>5, <2>6, <2>7 DEF SlotT
<1>9. AddsUp(t)
  BY <1>7, SharesKept
<1>10. Starts(s, st) /\ Starts(t, st)
  <2>1. Starts(s, st)
    BY DEF Covered
  <2> QED BY <2>1, <1>7 DEF Starts
<1>11. k \in Nat
  BY <1>1, SMTT(60)
<1>12. \A q \in Pairs : f[q] \in Nat
  BY <1>8, <1>10, SumTypes
<1>13. ASSUME NEW q \in Pairs
       PROVE  /\ q[1] = a => g[q] = f[q] + k * s.del[q]
              /\ q[1] # a => g[q] = f[q]
  <2> DEFINE e == s.delRate[q[1]]
             h == t.delRate[q[1]]
             w == s.delUnbondAmt[q] + s.rewPend[q]
             b == s.del[q]
             y == s.rewIdx[q[1]] - st[q]
  <2>1. q[1] \in Accounts
    BY StakingAssumption
  <2>2. /\ b \in Nat /\ s.rewIdx[q[1]] \in Nat /\ st[q] \in Nat
        /\ s.delUnbondAmt[q] \in Nat /\ s.rewPend[q] \in Nat
    BY <1>10, <2>1 DEF SlotT, Starts
  <2>3. g[q] = Precision * w + b * e + b * y
    BY DEF Worths, Worth
  <2>4. f[q] = Precision * w + b * h + b * y
    BY <1>7 DEF Worths, Worth
  <2>5. (q[1] = a => e = Precision /\ h = r) /\ (q[1] # a => h = e)
    BY <2>1 DEF SlotT, Cut
  <2>6. w \in Nat /\ y \in Int
    BY <2>2, SMTT(60)
  <2> HIDE DEF e, h, w, b, y, f, g
  <2>7. CASE q[1] = a
    <3>1. e = Precision /\ h = r
      BY <2>5, <2>7
    <3>2. b * e = b * h + k * b
      BY <2>2, <3>1, <1>1, SMTT(60)
    <3>3. Precision * w \in Int /\ b * h \in Int /\ b * y \in Int /\ k * b \in Int
      BY <1>1, <1>11, <2>2, <2>6, <3>1, SMTT(60)
    <3>4. g[q] = f[q] + k * b
      <4> DEFINE k1 == Precision * w
                 k2 == b * h
                 k3 == b * y
                 k4 == k * b
                 k5 == b * e
      <4>1. /\ k1 \in Int /\ k2 \in Int /\ k3 \in Int /\ k4 \in Int /\ k5 = k2 + k4
            /\ f[q] = k1 + k2 + k3 /\ g[q] = k1 + k5 + k3
        BY <2>3, <2>4, <3>2, <3>3
      <4> HIDE DEF k1, k2, k3, k4, k5
      <4>2. g[q] = f[q] + k4
        BY <4>1, SMTT(60)
      <4> QED BY <4>2 DEF k4
    <3> QED BY <2>7, <3>4 DEF b
  <2>8. CASE q[1] # a
    BY <2>3, <2>4, <2>5, <2>8
  <2> QED BY <2>7, <2>8
<1>14. SumFunctionOnSet(g, Pairs) = SumFunctionOnSet(f, Pairs) + k * tot
  <2> HIDE DEF f, g, k
  <2>1. PerShare(s, f, g, a, k)
    BY <1>12, <1>13 DEF PerShare
  <2> QED BY <1>11, <2>1, WorthsMove
<1> DEFINE A == SumFunctionOnSet(Stakes(s), Accounts)
           B == SumFunctionOnSet(Stakes(t), Accounts)
           F == SumFunctionOnSet(f, Pairs)
           G == SumFunctionOnSet(g, Pairs)
<1>15. A \in Nat /\ G \in Nat /\ B \in Nat /\ F \in Nat
  BY <1>8, <1>10, SumTypes
<1>16. Precision * A + G <= Precision * m
  BY DEF Covered
<1>17. B + sb = A
  <2> DEFINE u == Stakes(s)
             v == Stakes(t)
  <2>1. \A b \in Accounts : u[b] \in Nat
    BY <1>10, SumTypes
  <2>2. v[a] \in Nat
    BY <1>8, <1>10, SumTypes
  <2>3. \A b \in Accounts \ {a} : t.self[b] = s.self[b]
    BY DEF Cut, SlotT
  <2>4. t.self[a] = x
    BY DEF Cut, SlotT
  <2>5. \A b \in Accounts \ {a} : v[b] = u[b]
    BY <1>7, <2>3 DEF Stakes
  <2>6. u[a] = s.self[a] + s.unbondAmt[a] /\ v[a] = x + s.unbondAmt[a]
    BY <1>7, <2>4 DEF Stakes
  <2>7. IsFiniteSet(Accounts) /\ s.unbondAmt[a] \in Nat
    BY StakingAssumption DEF SlotT
  <2> HIDE DEF u, v
  <2>8. SumFunctionOnSet(v, Accounts) + u[a] = SumFunctionOnSet(u, Accounts) + v[a]
    BY <2>1, <2>2, <2>5, <2>7, SumChange, SMTT(60)
  <2> HIDE DEF A, B
  <2>9. B + (s.self[a] + s.unbondAmt[a]) = A + (x + s.unbondAmt[a])
    BY <2>6, <2>8 DEF A, B, u, v
  <2> DEFINE y == s.self[a]
             z == s.unbondAmt[a]
  <2>10. B + (y + z) = A + (x + z) /\ x + sb = y /\ y \in Nat /\ z \in Nat
    BY <1>2, <2>7, <2>9
  <2> HIDE DEF y, z
  <2> QED BY <1>15, <2>10, SMTT(60)
<1>18. Precision * B + F <= Precision * n
  <2> HIDE DEF A, B, F, G, k, tot
  <2>1. G = F + k * tot /\ Precision * db <= k * tot
    <3>1. k * tot = tot * k
      BY <1>2, <1>11, SMTT(60)
    <3>2. Precision * db <= tot * k
      BY DEF tot, k, Burnt
    <3> QED BY <1>14, <3>1, <3>2 DEF F, G
  <2>2. Precision * A = Precision * B + Precision * sb
    BY <1>1, <1>15, <1>17, SMTT(60)
  <2>3. Precision * m <= Precision * (n + (sb + db))
    BY <1>1, SMTT(60)
  <2>4. Precision * (n + (sb + db)) = Precision * n + Precision * sb + Precision * db
    BY <1>1, SMTT(60)
  <2>5. /\ Precision * A \in Int /\ Precision * B \in Int /\ Precision * sb \in Int
        /\ Precision * db \in Int /\ Precision * m \in Int /\ Precision * n \in Int /\ k * tot \in Int
    BY <1>1, <1>2, <1>11, <1>15, SMTT(60)
  <2> DEFINE a1 == Precision * A
             a2 == Precision * B
             a3 == Precision * sb
             a4 == Precision * db
             a5 == Precision * m
             a6 == Precision * n
             a7 == k * tot
  <2>6. /\ a1 \in Int /\ a2 \in Int /\ a3 \in Int /\ a4 \in Int /\ a5 \in Int /\ a6 \in Int
        /\ a7 \in Int /\ G = F + a7 /\ a4 <= a7 /\ a1 = a2 + a3 /\ a5 <= a6 + a3 + a4
        /\ a1 + G <= a5
    BY <1>16, <2>1, <2>2, <2>3, <2>4, <2>5
  <2> HIDE DEF a1, a2, a3, a4, a5, a6, a7
  <2>7. a2 + F <= a6
    BY <1>15, <2>6, SMTT(60)
  <2> QED BY <2>7 DEF a2, a6
<1>19. Covered(t, st, n)
  BY <1>10, <1>18 DEF Covered
<1> QED BY <1>8, <1>9, <1>19

\* What SlashAndJail computes and writes.
Burns(s, a, sb, db, r) ==
  /\ sb = (s.self[a] * SelfBurnBps) \div MaxBps
  /\ db = (DelegatedTotal(s, a) * DelBurnBps) \div MaxBps
  /\ r = (IF db = 0 THEN s.delRate[a]
          ELSE (s.delRate[a] * (MaxBps - DelBurnBps)) \div MaxBps)
Slashed(s, t, a, sb, r) ==
  t = [s EXCEPT !.self[a] = @ - sb, !.delRate[a] = r,
                !.jailed[a] = TRUE, !.cand[a] = FALSE]

\* What it burns is there, and the rate pays for the delegators' part.
LEMMA BurnFacts ==
  ASSUME NEW s, SlotT(s), NEW a \in Accounts, ~ s.jailed[a],
         NEW sb, NEW db, NEW r, Burns(s, a, sb, db, r)
  PROVE  /\ sb \in Nat /\ sb <= s.self[a] /\ db \in Nat /\ r \in 1 .. Precision
         /\ Precision * db <= s.delTot[a] * (Precision - r)
<1> DEFINE tot == s.delTot[a]
           c == s.self[a]
           k == Precision - r
<1>1. /\ Precision \in Nat \ {0} /\ MaxBps \in Nat \ {0} /\ Precision >= MaxBps
      /\ SelfBurnBps \in 0 .. MaxBps /\ DelBurnBps \in 0 .. MaxBps - 1
  BY StakingAssumption, SMTT(60)
<1>2. tot \in Nat /\ c \in Nat /\ s.delRate[a] = Precision
  BY DEF SlotT
<1>3. DelegatedTotal(s, a) = tot
  <2>1. DelegatedTotal(s, a) = (tot * Precision) \div Precision
    BY <1>2 DEF DelegatedTotal, SharesToWei
  <2> HIDE DEF tot
  <2>2. (tot * Precision) \div Precision = tot
    BY <1>1, <1>2, SMTT(60)
  <2> QED BY <2>1, <2>2
<1>4. db \in Nat /\ r \in 1 .. Precision /\ Precision * db <= tot * k
  <2> DEFINE rate == (Precision * (MaxBps - DelBurnBps)) \div MaxBps
  <2>1. db = (tot * DelBurnBps) \div MaxBps
    BY <1>3 DEF Burns
  <2>2. r = (IF db = 0 THEN Precision ELSE rate)
    BY <1>2 DEF Burns
  <2>3. db \in Nat /\ rate \in 1 .. Precision /\ Precision * db <= tot * (Precision - rate)
    <3> HIDE DEF tot
    <3>1. Precision \in Nat
      BY <1>1
    <3> QED BY <1>1, <1>2, <2>1, <3>1, SlashedRate
  <2> HIDE DEF tot, rate
  <2>4. CASE db = 0
    BY <1>1, <1>2, <2>2, <2>3, <2>4, SMTT(60)
  <2>5. CASE db # 0
    BY <2>2, <2>3, <2>5
  <2> QED BY <2>4, <2>5
<1>5. sb \in Nat /\ sb <= c
  <2> DEFINE y == c * SelfBurnBps
  <2>1. y \in Nat /\ y <= MaxBps * c /\ sb = y \div MaxBps
    BY <1>1, <1>2, SMTT(60) DEF Burns
  <2> HIDE DEF y
  <2>2. sb \in Nat /\ MaxBps * sb <= y
    BY <1>1, <2>1, DivBounds
  <2> QED BY <1>1, <1>2, <2>1, <2>2, SMTT(60)
<1> QED BY <1>4, <1>5

\* A slash burns no more than the claims it cuts.
LEMMA SlashCovered ==
  ASSUME NEW s, SlotT(s), AddsUp(s), NEW a \in Accounts, NEW st, NEW m \in Nat,
         Covered(s, st, m), ~ s.jailed[a],
         NEW sb, NEW db, NEW r, Burns(s, a, sb, db, r), NEW t, Slashed(s, t, a, sb, r),
         NEW n \in Nat, m <= n + (sb + db)
  PROVE  SlotT(t) /\ AddsUp(t) /\ Covered(t, st, n)
<1> DEFINE x == s.self[a] - sb
<1>1. s.delRate[a] = Precision /\ s.self[a] \in Nat
  BY DEF SlotT
<1>2. /\ sb \in Nat /\ sb <= s.self[a] /\ db \in Nat /\ r \in 1 .. Precision
      /\ Precision * db <= s.delTot[a] * (Precision - r)
  BY BurnFacts
<1>3. Cut(s, t, a, x, r)
  <2>1. s = [h \in Fields |-> s[h]]
    BY DEF SlotT
  <2>2. t = [s EXCEPT !.self[a] = x, !.delRate[a] = r, !.jailed[a] = TRUE, !.cand[a] = FALSE]
    BY DEF Slashed
  <2> HIDE DEF x
  <2>3. SameBut(s, t, {"self", "delRate", "jailed", "cand"})
    BY <2>1, <2>2 DEF Fields, SameBut
  <2>4. /\ t.self = [s.self EXCEPT ![a] = x]
        /\ t.delRate = [s.delRate EXCEPT ![a] = r]
        /\ t.jailed = [s.jailed EXCEPT ![a] = TRUE]
    BY <2>1, <2>2 DEF Fields
  <2> QED BY <2>3, <2>4 DEF Cut
<1>4. x \in Nat /\ x + sb = s.self[a]
  BY <1>1, <1>2, SMTT(60)
<1> HIDE DEF x
<1>5. Burnt(s, a, db, r)
  BY <1>2 DEF Burnt
<1> QED BY <1>1, <1>2, <1>3, <1>4, <1>5, CutCovered

\* The account a has the stake x and y wei to be withdrawn.
Staked(s, t, a, x, y) ==
  /\ SameBut(s, t, {"self", "cand", "list", "unbondAmt", "unbondAt"})
  /\ t.self = [s.self EXCEPT ![a] = x]
  /\ t.unbondAmt = [s.unbondAmt EXCEPT ![a] = y]

\* What an account gains, the escrow must have.
LEMMA AccountCovered ==
  ASSUME NEW s, SlotT(s), AddsUp(s), NEW a \in Accounts, NEW st, NEW m \in Nat,
         Covered(s, st, m), NEW x \in Nat, NEW y \in Nat,
         NEW t, Staked(s, t, a, x, y),
         NEW n \in Nat, x + y + m <= s.self[a] + s.unbondAmt[a] + n
  PROVE  SlotT(t) /\ AddsUp(t) /\ \E u : Covered(t, u, n)
<1>1. /\ t.comm = s.comm /\ t.rewIdx = s.rewIdx /\ t.jailed = s.jailed
      /\ t.delRate = s.delRate /\ t.delTot = s.delTot /\ t.rewPend = s.rewPend
      /\ t.del = s.del /\ t.delUnbondAmt = s.delUnbondAmt /\ t.rewDebt = s.rewDebt
  BY DEF Staked, SameBut, Fields
<1>2. SlotT(t)
  <2>1. t = [f \in Fields |-> t[f]]
    BY DEF Staked, SameBut
  <2>2. s.self \in [Accounts -> Nat] /\ s.unbondAmt \in [Accounts -> Nat]
    BY DEF SlotT
  <2>3. t.self \in [Accounts -> Nat] /\ t.unbondAmt \in [Accounts -> Nat]
    BY <2>2 DEF Staked
  <2> QED BY <1>1, <2>1, <2>3 DEF SlotT
<1>3. AddsUp(t)
  BY <1>1, SharesKept
<1>4. \A b \in Accounts \ {a} : t.self[b] = s.self[b] /\ t.unbondAmt[b] = s.unbondAmt[b]
  BY DEF Staked, SlotT
<1>5. t.self[a] = x /\ t.unbondAmt[a] = y
  BY DEF Staked, SlotT
<1>6. t.self[a] + t.unbondAmt[a] + m <= s.self[a] + s.unbondAmt[a] + n
  BY <1>5
<1>7. Covered(t, st, n)
  BY <1>1, <1>2, <1>4, <1>6, StakeCovered
<1> QED BY <1>2, <1>3, <1>7

\* An empty module owes nothing.
LEMMA StakeInit ==
  ASSUME Init
  PROVE  StakeInv
<1> DEFINE st == [p \in Pairs |-> 0]
<1>1. Precision \in Nat \ {0} /\ IsFiniteSet(Accounts) /\ IsFiniteSet(Pairs)
  BY StakingAssumption, SMTT(60)
<1>2. /\ slots.self = [a \in Accounts |-> 0] /\ slots.unbondAmt = [a \in Accounts |-> 0]
      /\ slots.comm = [a \in Accounts |-> 0] /\ slots.jailed = [a \in Accounts |-> FALSE]
      /\ slots.delTot = [a \in Accounts |-> 0] /\ slots.rewIdx = [a \in Accounts |-> 0]
      /\ slots.delRate = [a \in Accounts |-> Precision]
  BY DEF Init
<1>3. /\ slots.del = [p \in Pairs |-> 0] /\ slots.delUnbondAmt = [p \in Pairs |-> 0]
      /\ slots.rewDebt = [p \in Pairs |-> 0] /\ slots.rewPend = [p \in Pairs |-> 0]
      /\ slots = [f \in Fields |-> slots[f]]
  BY DEF Init, Fields
<1>4. SlotT(slots)
  <2>1. 0 \in Nat /\ Precision \in 1 .. Precision
    BY <1>1, SMTT(60)
  <2>2. /\ slots.self \in [Accounts -> Nat] /\ slots.unbondAmt \in [Accounts -> Nat]
        /\ slots.comm \in [Accounts -> Nat] /\ slots.jailed \in [Accounts -> BOOLEAN]
        /\ slots.delTot \in [Accounts -> Nat] /\ slots.rewIdx \in [Accounts -> Nat]
        /\ slots.delRate \in [Accounts -> 1 .. Precision]
    BY <1>2, <2>1
  <2>3. /\ slots.del \in [Pairs -> Nat] /\ slots.delUnbondAmt \in [Pairs -> Nat]
        /\ slots.rewDebt \in [Pairs -> Nat] /\ slots.rewPend \in [Pairs -> Nat]
    BY <1>3, <2>1
  <2> QED BY <1>2, <1>3, <2>2, <2>3 DEF SlotT
<1>5. AddsUp(slots)
  <2> SUFFICES ASSUME NEW v \in Accounts
               PROVE  slots.delTot[v] = SumFunctionOnSet(SharesIn(slots, v), Pairs)
    BY DEF AddsUp
  <2> DEFINE f == SharesIn(slots, v)
  <2>1. \A p \in Pairs : f[p] = 0
    BY <1>3 DEF SharesIn
  <2> HIDE DEF f
  <2>2. SumFunctionOnSet(f, Pairs) = 0
    BY <1>1, <2>1, SumZero
  <2> QED BY <1>2, <2>2 DEF f
<1>6. Starts(slots, st)
  <2> SUFFICES ASSUME NEW p \in Pairs
               PROVE  st[p] <= slots.rewIdx[p[1]] /\ slots.rewDebt[p] = (slots.del[p] * st[p]) \div Precision
    BY SMTT(60) DEF Starts
  <2>1. p[1] \in Accounts
    BY StakingAssumption
  <2>2. st[p] = 0 /\ slots.rewIdx[p[1]] = 0 /\ slots.rewDebt[p] = 0 /\ slots.del[p] = 0
    BY <1>2, <1>3, <2>1, SMTT(60)
  <2>3. 0 <= 0 /\ 0 = (0 * 0) \div Precision
    BY <1>1, SMTT(60)
  <2> QED BY <2>2, <2>3
<1>7. Covered(slots, st, 0)
  <2> DEFINE f == Stakes(slots)
             g == Worths(slots, st)
  <2>1. \A a \in Accounts : f[a] = 0
    <3>1. 0 + 0 = 0
      BY SMTT(60)
    <3> QED BY <1>2, <3>1 DEF Stakes
  <2>2. \A p \in Pairs : g[p] = 0
    <3> SUFFICES ASSUME NEW p \in Pairs PROVE g[p] = 0
      OBVIOUS
    <3>1. p[1] \in Accounts
      BY StakingAssumption
    <3>2. Worth(slots, p, st[p]) = Precision * (0 + 0) + 0 * Precision + 0 * (0 - 0)
      BY <1>2, <1>3, <3>1, SMTT(60) DEF Worth
    <3>3. Precision * (0 + 0) + 0 * Precision + 0 * (0 - 0) = 0
      BY <1>1, SMTT(60)
    <3> QED BY <3>2, <3>3 DEF Worths
  <2> HIDE DEF f, g
  <2>3. SumFunctionOnSet(f, Accounts) = 0 /\ SumFunctionOnSet(g, Pairs) = 0
    BY <1>1, <2>1, <2>2, SumZero
  <2>4. Precision * 0 + 0 <= Precision * 0
    BY <1>1, SMTT(60)
  <2> QED BY <1>6, <2>3, <2>4 DEF Covered, f, g
<1>8. bal = 0 /\ unbacked = 0 /\ roundings = 0 /\ bal + unbacked + roundings = 0 /\ 0 \in Nat
  BY SMTT(60) DEF Init
<1> QED BY <1>4, <1>5, <1>7, <1>8 DEF StakeInv

\* Bond: what is owed is the value that came with the call.
LEMMA BondStep ==
  ASSUME StakeInv, NEW a \in Accounts, NEW amt \in BondAmounts, Bond(a, amt)
  PROVE  StakeInv'
<1> DEFINE m == bal + unbacked + roundings
           n == bal' + unbacked' + roundings'
           x == slots.self[a] + amt
           y == slots.unbondAmt[a]
<1>1. amt \in Nat /\ bal \in Nat /\ unbacked \in Nat /\ roundings \in Nat
  BY StakingAssumption DEF StakeInv
<1>2. /\ roundings' = roundings
      /\ \/ bal' = bal + amt /\ unbacked' = unbacked
         \/ unbacked' = unbacked + amt /\ bal' = bal
  BY DEF Bond, Receives
<1>3. /\ m \in Nat /\ n = m + amt /\ n \in Nat
      /\ bal' \in Nat /\ unbacked' \in Nat /\ roundings' \in Nat
  BY <1>1, <1>2, SMTT(60)
<1>4. x \in Nat /\ y \in Nat /\ slots.self[a] \in Nat
  <2>1. slots.self[a] \in Nat /\ slots.unbondAmt[a] \in Nat
    BY DEF StakeInv, SlotT
  <2> QED BY <1>1, <2>1, SMTT(60)
<1>5. Staked(slots, slots', a, x, y)
  <2> DEFINE s == [slots EXCEPT !.self[a] = x]
  <2>1. slots = [f \in Fields |-> slots[f]] /\ slots.unbondAmt \in [Accounts -> Nat]
    BY DEF StakeInv, SlotT
  <2>2. slots' = s \/ slots' = RegisterCandidate(s, a)
    BY DEF Bond
  <2> HIDE DEF x
  <2>3. Staked(slots, s, a, x, y)
    BY <2>1 DEF Staked, SameBut, Fields
  <2> HIDE DEF s
  <2>4. Staked(slots, RegisterCandidate(s, a), a, x, y)
    <3> DEFINE l == Append(s.list, a)
               t == RegisterCandidate(s, a)
    <3>1. t = [s EXCEPT !.cand[a] = TRUE, !.list = l]
      BY DEF RegisterCandidate
    <3> HIDE DEF t, l
    <3>2. s = [f \in Fields |-> s[f]]
      BY <2>3 DEF Staked, SameBut
    <3>3. t = [f \in Fields |-> t[f]] /\ \A f \in Fields \ {"cand", "list"} : t[f] = s[f]
      BY <3>1, <3>2 DEF Fields
    <3>4. t.self = s.self /\ t.unbondAmt = s.unbondAmt
      BY <3>3 DEF Fields
    <3> QED BY <2>3, <3>3, <3>4 DEF Staked, SameBut, t
  <2> QED BY <2>2, <2>3, <2>4
<1>6. PICK st : Covered(slots, st, m)
  BY DEF StakeInv
<1>7. x + y + m <= slots.self[a] + slots.unbondAmt[a] + n
  BY <1>1, <1>3, <1>4, SMTT(60)
<1> HIDE DEF m, n, x, y
<1>8. SlotT(slots') /\ AddsUp(slots') /\ \E u : Covered(slots', u, n)
  BY <1>3, <1>4, <1>5, <1>6, <1>7, AccountCovered DEF StakeInv
<1> QED BY <1>3, <1>8 DEF StakeInv, n

\* Unbond: stake becomes an amount to be withdrawn.
LEMMA UnbondStep ==
  ASSUME StakeInv, NEW a \in Accounts, NEW amt \in BondAmounts, Unbond(a, amt)
  PROVE  StakeInv'
<1> DEFINE m == bal + unbacked + roundings
           x == slots.self[a] - amt
           y == slots.unbondAmt[a] + amt
<1>1. /\ amt \in Nat /\ bal \in Nat /\ unbacked \in Nat /\ roundings \in Nat
      /\ slots.self[a] \in Nat /\ slots.unbondAmt[a] \in Nat
  BY StakingAssumption DEF StakeInv, SlotT
<1>2. bal' = bal /\ unbacked' = unbacked /\ roundings' = roundings /\ slots.self[a] >= amt
  BY DEF Unbond
<1>3. m \in Nat /\ x \in Nat /\ y \in Nat /\ x + y + m <= slots.self[a] + slots.unbondAmt[a] + m
  BY <1>1, <1>2, SMTT(60)
<1>4. Staked(slots, slots', a, x, y)
  <2>1. PICK b, c : slots' = [slots EXCEPT !.self[a] = x, !.cand[a] = b, !.unbondAmt[a] = y, !.unbondAt[a] = c]
    BY DEF Unbond
  <2>2. slots = [f \in Fields |-> slots[f]]
    BY DEF StakeInv, SlotT
  <2> HIDE DEF x, y
  <2>3. SameBut(slots, slots', {"self", "cand", "list", "unbondAmt", "unbondAt"})
    BY <2>1, <2>2 DEF SameBut, Fields
  <2>4. slots'.self = [slots.self EXCEPT ![a] = x] /\ slots'.unbondAmt = [slots.unbondAmt EXCEPT ![a] = y]
    BY <2>1, <2>2 DEF Fields
  <2> QED BY <2>3, <2>4 DEF Staked
<1>5. PICK st : Covered(slots, st, m)
  BY DEF StakeInv
<1> HIDE DEF m, x, y
<1>6. SlotT(slots') /\ AddsUp(slots') /\ \E u : Covered(slots', u, m)
  BY <1>3, <1>4, <1>5, AccountCovered DEF StakeInv
<1> QED BY <1>1, <1>2, <1>6 DEF StakeInv, m

\* Withdraw: the amount is paid, or forfeited by a caller that reverts.
LEMMA WithdrawStep ==
  ASSUME StakeInv, NEW a \in Accounts, Withdraw(a)
  PROVE  StakeInv'
<1> DEFINE m == bal + unbacked + roundings
           n == bal' + unbacked' + roundings'
           x == slots.self[a]
           y == slots.unbondAmt[a]
<1>1. x \in Nat /\ y \in Nat /\ bal \in Nat /\ unbacked \in Nat /\ roundings \in Nat
  BY DEF StakeInv, SlotT
<1>2. /\ roundings' = roundings /\ unbacked' = unbacked
      /\ \/ bal >= y /\ bal' = bal - y
         \/ bal' = bal
  BY DEF Withdraw, Pays
<1>3. /\ m \in Nat /\ n \in Nat /\ x + 0 + m <= x + y + n
      /\ bal' \in Nat /\ unbacked' \in Nat /\ roundings' \in Nat /\ 0 \in Nat
  BY <1>1, <1>2, SMTT(60)
<1>4. Staked(slots, slots', a, x, 0)
  <2>1. slots' = [slots EXCEPT !.unbondAmt[a] = 0, !.unbondAt[a] = 0]
    BY DEF Withdraw
  <2>2. slots = [f \in Fields |-> slots[f]] /\ slots.self \in [Accounts -> Nat]
    BY DEF StakeInv, SlotT
  <2> QED BY <2>1, <2>2 DEF Staked, SameBut, Fields
<1>5. PICK st : Covered(slots, st, m)
  BY DEF StakeInv
<1> HIDE DEF m, n
<1>6. SlotT(slots') /\ AddsUp(slots') /\ \E u : Covered(slots', u, n)
  BY <1>1, <1>3, <1>4, <1>5, AccountCovered DEF StakeInv
<1> QED BY <1>3, <1>6 DEF StakeInv, n

\* SlashAndJail: no more is burnt than the claims that end.
LEMMA SlashStep ==
  ASSUME StakeInv, NEW a \in Accounts, SlashAndJail(a)
  PROVE  StakeInv'
<1> DEFINE m == bal + unbacked + roundings
           n == bal' + unbacked' + roundings'
           sb == (slots.self[a] * SelfBurnBps) \div MaxBps
           db == (DelegatedTotal(slots, a) * DelBurnBps) \div MaxBps
           rate == (slots.delRate[a] * (MaxBps - DelBurnBps)) \div MaxBps
           r == IF db = 0 THEN slots.delRate[a] ELSE rate
<1>1. bal \in Nat /\ unbacked \in Nat /\ roundings \in Nat /\ SlotT(slots) /\ AddsUp(slots)
  BY DEF StakeInv
<1>2. ~ slots.jailed[a] /\ slots.delRate[a] = Precision
  BY <1>1 DEF SlashAndJail, SlotT
<1>3. rate # 0
  <2>1. /\ Precision \in Nat /\ MaxBps \in Nat \ {0} /\ Precision >= MaxBps
        /\ DelBurnBps \in 0 .. MaxBps - 1 /\ 0 \in Nat
    BY StakingAssumption, SMTT(60)
  <2>2. rate = (Precision * (MaxBps - DelBurnBps)) \div MaxBps
    BY <1>2
  <2>3. rate \in 1 .. Precision
    <3> DEFINE z == (0 * DelBurnBps) \div MaxBps
    <3>1. z = (0 * DelBurnBps) \div MaxBps
      OBVIOUS
    <3> HIDE DEF rate, z
    <3> QED BY <2>1, <2>2, <3>1, SlashedRate
  <2> HIDE DEF rate
  <2> QED BY <2>1, <2>3, SMTT(60)
<1>4. Burns(slots, a, sb, db, r)
  BY DEF Burns
<1>5. Slashed(slots, slots', a, sb, r)
  <2>1. slots' = [slots EXCEPT !.self[a] = @ - sb,
                    !.delRate[a] = IF db = 0 THEN @
                                   ELSE IF rate = 0 /\ DelBurnBps < MaxBps THEN 1 ELSE rate,
                    !.jailed[a] = TRUE, !.cand[a] = FALSE]
    BY DEF SlashAndJail
  <2> HIDE DEF sb, db, rate
  <2> QED BY <1>3, <2>1 DEF Slashed
<1> HIDE DEF sb, db, r, rate
<1>6. sb \in Nat /\ db \in Nat
  BY <1>1, <1>2, <1>4, BurnFacts
<1>7. unbacked' = unbacked /\ roundings' = roundings /\ bal' = Max({0, bal - (sb + db)})
  BY DEF SlashAndJail, sb, db
<1>8. bal' = (IF bal - (sb + db) > 0 THEN bal - (sb + db) ELSE 0)
  <2>1. bal - (sb + db) \in Int
    BY <1>1, <1>6, SMTT(60)
  <2> QED BY <1>7, <2>1, MaxWithZero
<1>9. /\ m \in Nat /\ n \in Nat /\ m <= n + (sb + db)
      /\ bal' \in Nat /\ unbacked' \in Nat /\ roundings' \in Nat
  BY <1>1, <1>6, <1>7, <1>8, SMTT(60)
<1>10. PICK st : Covered(slots, st, m)
  BY DEF StakeInv
<1> HIDE DEF m, n
<1>11. SlotT(slots') /\ AddsUp(slots') /\ Covered(slots', st, n)
  BY <1>1, <1>2, <1>4, <1>5, <1>9, <1>10, SlashCovered
<1> QED BY <1>9, <1>11 DEF StakeInv, n

\* DistributeProposerIncome: the index adds no more than the income.
LEMMA IncomeStep ==
  ASSUME StakeInv, NEW a \in Accounts, NEW amt \in Incomes, DistributeProposerIncome(a, amt)
  PROVE  StakeInv'
<1> DEFINE m == bal + unbacked + roundings
           n == bal' + unbacked' + roundings'
           self == slots.self[a]
           del == DelegatedTotal(slots, a)
           staked == self + del
           num == self * MaxBps + del * slots.comm[a]
           part == amt - Min({amt, (amt * num) \div (staked * MaxBps)})
           inc == (part * Precision) \div slots.delTot[a]
<1>1. bal \in Nat /\ unbacked \in Nat /\ roundings \in Nat /\ SlotT(slots) /\ AddsUp(slots)
  BY DEF StakeInv
<1>2. /\ staked > 0 /\ part > 0 /\ slots.delTot[a] > 0 /\ bal' = bal + part
      /\ unbacked' = unbacked /\ roundings' = roundings
      /\ slots' = [slots EXCEPT !.rewIdx[a] = @ + inc]
  BY DEF DistributeProposerIncome
<1>3. /\ self \in Nat /\ slots.comm[a] \in Nat /\ slots.delTot[a] \in Nat
      /\ slots.delRate[a] \in 1 .. Precision
      /\ amt \in Nat /\ Precision \in Nat \ {0} /\ MaxBps \in Nat \ {0}
  <2>1. Precision \in Nat \ {0} /\ MaxBps \in Nat \ {0} /\ amt \in Nat
    BY StakingAssumption, SMTT(60)
  <2> QED BY <1>1, <2>1 DEF SlotT
<1>4. del \in Nat
  <2> DEFINE x == slots.delTot[a] * slots.delRate[a]
  <2>1. x \in Nat /\ del = x \div Precision
    BY <1>3, SMTT(60) DEF DelegatedTotal, SharesToWei
  <2> HIDE DEF x, del
  <2> QED BY <1>3, <2>1, DivBounds
<1>5. part \in Nat
  <2> DEFINE x == amt * num
             y == staked * MaxBps
             q == x \div y
  <2> HIDE DEF self, del
  <2>1. staked \in Nat /\ num \in Nat
    BY <1>3, <1>4, SMTT(60)
  <2> HIDE DEF staked, num
  <2>2. x \in Nat /\ y \in Nat \ {0}
    BY <1>2, <1>3, <2>1, SMTT(60)
  <2>3. q \in Nat
    <3> HIDE DEF x, y
    <3> QED BY <2>2, DivBounds
  <2>4. part = amt - Min({amt, q})
    OBVIOUS
  <2> HIDE DEF q
  <2>5. amt \in Int /\ q \in Int
    BY <1>3, <2>3, SMTT(60)
  <2>6. (Min({amt, q}) = amt /\ amt <= q) \/ (Min({amt, q}) = q /\ q <= amt)
    BY <2>5, MinOfTwo
  <2> HIDE DEF part
  <2> QED BY <1>2, <1>3, <2>3, <2>4, <2>6, SMTT(60)
<1> HIDE DEF part
<1>6. m \in Nat /\ n = m + part /\ bal' \in Nat /\ unbacked' \in Nat /\ roundings' \in Nat
  BY <1>1, <1>2, <1>5, SMTT(60)
<1>7. PICK st : Covered(slots, st, m)
  BY DEF StakeInv
<1>8. Indexed(slots, slots', a, part, inc)
  BY <1>2 DEF Indexed
<1> HIDE DEF m, n, inc
<1>9. SlotT(slots') /\ AddsUp(slots') /\ Covered(slots', st, m + part)
  <2>1. slots.delTot[a] > 0
    BY <1>2
  <2> QED BY <1>1, <1>5, <1>6, <1>7, <1>8, <2>1, IncomeCovered
<1> QED BY <1>6, <1>9 DEF StakeInv, n

\* SetCommission: no claim changes.
LEMMA CommissionStep ==
  ASSUME StakeInv, NEW a \in Accounts, NEW bps \in Commissions, SetCommission(a, bps)
  PROVE  StakeInv'
<1> DEFINE m == bal + unbacked + roundings
           x == slots.self[a]
           y == slots.unbondAmt[a]
<1>1. bal' = bal /\ unbacked' = unbacked /\ roundings' = roundings
  BY DEF SetCommission
<1>2. SlotT(slots) /\ AddsUp(slots) /\ bps \in Nat
  BY StakingAssumption DEF StakeInv
<1>3. SameBut(slots, slots', {"comm"}) /\ slots'.comm = [slots.comm EXCEPT ![a] = bps]
  <2>1. slots = [f \in Fields |-> slots[f]]
    BY <1>2 DEF SlotT
  <2>2. slots' = [slots EXCEPT !.comm[a] = bps]
    BY DEF SetCommission
  <2> QED BY <2>1, <2>2 DEF SameBut, Fields
<1>4. /\ slots'.self = slots.self /\ slots'.unbondAmt = slots.unbondAmt
      /\ slots'.rewIdx = slots.rewIdx /\ slots'.jailed = slots.jailed
      /\ slots'.delRate = slots.delRate /\ slots'.delTot = slots.delTot
      /\ slots'.rewPend = slots.rewPend /\ slots'.del = slots.del
      /\ slots'.delUnbondAmt = slots.delUnbondAmt /\ slots'.rewDebt = slots.rewDebt
  BY <1>3 DEF SameBut, Fields
<1>5. SlotT(slots')
  <2>1. slots' = [f \in Fields |-> slots'[f]]
    BY <1>3 DEF SameBut
  <2>2. slots'.comm \in [Accounts -> Nat]
    BY <1>2, <1>3 DEF SlotT
  <2> QED BY <1>2, <1>4, <2>1, <2>2 DEF SlotT
<1>6. AddsUp(slots')
  BY <1>2, <1>4, SharesKept
<1>7. ASSUME NEW st, Covered(slots, st, m) PROVE Covered(slots', st, m)
  <2>1. Stakes(slots') = Stakes(slots)
    BY <1>4 DEF Stakes
  <2>2. Worths(slots', st) = Worths(slots, st)
    BY <1>4 DEF Worths, Worth
  <2>3. Starts(slots', st)
    BY <1>4, <1>7 DEF Covered, Starts
  <2> QED BY <1>7, <2>1, <2>2, <2>3 DEF Covered
<1> QED BY <1>1, <1>5, <1>6, <1>7 DEF StakeInv

\* The calls that settle a position first.
LEMMA SettledFirst ==
  ASSUME StakeInv, NEW p \in Pairs
  PROVE  \E st, k, s :
           /\ s = SettleRewards(slots, p) /\ SlotT(s) /\ AddsUp(s)
           /\ k \in Nat /\ k = bal + unbacked + roundings + Rounds(slots, p)
           /\ Rounds(slots, p) \in Nat
           /\ Covered(s, st, k) /\ st[p] = s.rewIdx[p[1]]
<1> DEFINE m == bal + unbacked + roundings
<1>1. m \in Nat /\ SlotT(slots) /\ AddsUp(slots)
  BY SMTT(60) DEF StakeInv
<1>2. PICK st : Covered(slots, st, m)
  BY DEF StakeInv
<1> HIDE DEF m
<1>3. /\ SlotT(SettleRewards(slots, p)) /\ AddsUp(SettleRewards(slots, p))
      /\ Rounds(slots, p) \in Nat
      /\ \E u : /\ Covered(SettleRewards(slots, p), u, m + Rounds(slots, p))
                /\ u[p] = SettleRewards(slots, p).rewIdx[p[1]]
  BY <1>1, <1>2, SettleCovered
<1>4. m + Rounds(slots, p) \in Nat
  BY <1>1, <1>3, SMTT(60)
<1> QED BY <1>3, <1>4 DEF m

\* Delegate: shares are worth no more than the value that came with the call.
LEMMA DelegateStep ==
  ASSUME StakeInv, NEW p \in Pairs, NEW amt \in DelAmounts, Delegate(p, amt)
  PROVE  StakeInv'
<1>1. PICK st, k, s :
        /\ s = SettleRewards(slots, p) /\ SlotT(s) /\ AddsUp(s)
        /\ k \in Nat /\ k = bal + unbacked + roundings + Rounds(slots, p)
        /\ Rounds(slots, p) \in Nat
        /\ Covered(s, st, k) /\ st[p] = s.rewIdx[p[1]]
  BY SettledFirst
<1>2. bal \in Nat /\ unbacked \in Nat /\ roundings \in Nat /\ amt \in Nat
  BY StakingAssumption DEF StakeInv
<1>3. /\ roundings' = roundings + Rounds(slots, p)
      /\ \/ bal' = bal + amt /\ unbacked' = unbacked
         \/ unbacked' = unbacked + amt /\ bal' = bal
  BY DEF Delegate, Receives
<1>4. /\ bal' + unbacked' + roundings' = k + amt
      /\ bal' \in Nat /\ unbacked' \in Nat /\ roundings' \in Nat
  BY <1>1, <1>2, <1>3, SMTT(60)
<1> DEFINE add == WeiToShares(s, p[1], amt)
           t == [s EXCEPT !.del[p] = @ + add, !.delTot[p[1]] = @ + add,
                          !.rewDebt[p] = RewardDebtForShares(s, p[1], s.del[p] + add)]
<1>5. slots' = t
  BY <1>1 DEF Delegate
<1>6. SlotT(t) /\ AddsUp(t) /\ \E u : Covered(t, u, k + amt)
  <2>1. add = WeiToShares(s, p[1], amt)
    OBVIOUS
  <2> HIDE DEF add
  <2>2. /\ SlotT(s) /\ AddsUp(s) /\ k \in Nat /\ Covered(s, st, k) /\ st[p] = s.rewIdx[p[1]]
    BY <1>1
  <2> QED BY <1>2, <2>1, <2>2, DelegateCovered
<1> HIDE DEF t
<1> QED BY <1>4, <1>5, <1>6 DEF StakeInv

\* Undelegate: one wei pays for the rounding.
LEMMA UndelegateStep ==
  ASSUME StakeInv, NEW p \in Pairs, NEW amt \in DelAmounts, Undelegate(p, amt)
  PROVE  StakeInv'
<1>1. PICK st, k, s :
        /\ s = SettleRewards(slots, p) /\ SlotT(s) /\ AddsUp(s)
        /\ k \in Nat /\ k = bal + unbacked + roundings + Rounds(slots, p)
        /\ Rounds(slots, p) \in Nat
        /\ Covered(s, st, k) /\ st[p] = s.rewIdx[p[1]]
  BY SettledFirst
<1>2. bal \in Nat /\ unbacked \in Nat /\ roundings \in Nat /\ amt \in Nat
  BY StakingAssumption DEF StakeInv
<1>3. roundings' = roundings + 1 + Rounds(slots, p) /\ bal' = bal /\ unbacked' = unbacked
  BY DEF Undelegate
<1>4. /\ bal' + unbacked' + roundings' = k + 1
      /\ bal' \in Nat /\ unbacked' \in Nat /\ roundings' \in Nat
  BY <1>1, <1>2, <1>3, SMTT(60)
<1> DEFINE sub == Min({WeiToShares(s, p[1], amt), s.del[p]})
           at == Max({s.delUnbondAt[p], now + UnbondSeconds})
           t == [s EXCEPT !.del[p] = @ - sub, !.delTot[p[1]] = @ - sub,
                          !.rewDebt[p] = RewardDebtForShares(s, p[1], s.del[p] - sub),
                          !.delUnbondAmt[p] = @ + amt, !.delUnbondAt[p] = at]
<1>5. slots' = t /\ Delegation(s, p) >= amt
  BY <1>1 DEF Undelegate
<1>6. SlotT(t) /\ AddsUp(t) /\ \E u : Covered(t, u, k + 1)
  <2>1. sub = Min({WeiToShares(s, p[1], amt), s.del[p]}) /\ Delegation(s, p) >= amt
    BY <1>5
  <2> HIDE DEF sub, at
  <2>2. /\ SlotT(s) /\ AddsUp(s) /\ k \in Nat /\ Covered(s, st, k) /\ st[p] = s.rewIdx[p[1]]
    BY <1>1
  <2> QED BY <1>2, <2>1, <2>2, UndelegateCovered
<1> HIDE DEF t
<1> QED BY <1>4, <1>5, <1>6 DEF StakeInv

\* WithdrawDelegation: the amount is paid, or forfeited by a caller that reverts.
LEMMA WithdrawDelegationStep ==
  ASSUME StakeInv, NEW p \in Pairs, WithdrawDelegation(p)
  PROVE  StakeInv'
<1> DEFINE m == bal + unbacked + roundings
           n == bal' + unbacked' + roundings'
           x == slots.delUnbondAmt[p]
           y == slots.rewPend[p]
<1>1. /\ x \in Nat /\ y \in Nat /\ bal \in Nat /\ unbacked \in Nat /\ roundings \in Nat
      /\ SlotT(slots) /\ AddsUp(slots)
  BY DEF StakeInv, SlotT
<1>2. /\ roundings' = roundings /\ unbacked' = unbacked
      /\ \/ bal >= x /\ bal' = bal - x
         \/ bal' = bal
  BY DEF WithdrawDelegation, Pays
<1>3. /\ m \in Nat /\ n \in Nat /\ 0 + y + m <= x + y + n
      /\ bal' \in Nat /\ unbacked' \in Nat /\ roundings' \in Nat /\ 0 \in Nat
  BY <1>1, <1>2, SMTT(60)
<1>4. Paid(slots, slots', p, 0, y)
  <2>1. slots' = [slots EXCEPT !.delUnbondAmt[p] = 0, !.delUnbondAt[p] = 0]
    BY DEF WithdrawDelegation
  <2>2. slots = [f \in Fields |-> slots[f]] /\ slots.rewPend \in [Pairs -> Nat]
    BY <1>1 DEF SlotT
  <2> QED BY <2>1, <2>2 DEF Paid, SameBut, Fields
<1>5. PICK st : Covered(slots, st, m)
  BY DEF StakeInv
<1> HIDE DEF m, n
<1>6. SlotT(slots') /\ AddsUp(slots') /\ \E u : Covered(slots', u, n)
  BY <1>1, <1>3, <1>4, <1>5, PayoutCovered
<1> QED BY <1>3, <1>6 DEF StakeInv, n

\* ClaimRewards: what is settled is paid, or forfeited by a caller that reverts.
LEMMA ClaimStep ==
  ASSUME StakeInv, NEW p \in Pairs, ClaimRewards(p)
  PROVE  StakeInv'
<1>1. PICK st, k, s :
        /\ s = SettleRewards(slots, p) /\ SlotT(s) /\ AddsUp(s)
        /\ k \in Nat /\ k = bal + unbacked + roundings + Rounds(slots, p)
        /\ Rounds(slots, p) \in Nat
        /\ Covered(s, st, k) /\ st[p] = s.rewIdx[p[1]]
  BY SettledFirst
<1> DEFINE n == bal' + unbacked' + roundings'
           x == s.delUnbondAmt[p]
           y == s.rewPend[p]
<1>2. bal \in Nat /\ unbacked \in Nat /\ roundings \in Nat /\ x \in Nat /\ y \in Nat
  BY <1>1 DEF StakeInv, SlotT
<1>3. /\ roundings' = roundings + Rounds(slots, p) /\ unbacked' = unbacked
      /\ \/ bal >= y /\ bal' = bal - y
         \/ bal' = bal
  BY <1>1 DEF ClaimRewards, Pays
<1>4. /\ n \in Nat /\ x + 0 + k <= x + y + n /\ 0 \in Nat
      /\ bal' \in Nat /\ unbacked' \in Nat /\ roundings' \in Nat
  <2> HIDE DEF x, y
  <2> QED BY <1>1, <1>2, <1>3, SMTT(60)
<1>5. Paid(s, slots', p, x, 0)
  <2>1. slots' = [s EXCEPT !.rewPend[p] = 0]
    BY <1>1 DEF ClaimRewards
  <2>2. s = [f \in Fields |-> s[f]] /\ s.delUnbondAmt \in [Pairs -> Nat]
    BY <1>1 DEF SlotT
  <2> QED BY <2>1, <2>2 DEF Paid, SameBut, Fields
<1>6. SlotT(s) /\ AddsUp(s) /\ k \in Nat /\ Covered(s, st, k)
  BY <1>1
<1> HIDE DEF n
<1>7. SlotT(slots') /\ AddsUp(slots') /\ \E u : Covered(slots', u, n)
  <2>1. x + 0 + k <= s.delUnbondAmt[p] + s.rewPend[p] + n
    BY <1>4
  <2>2. x \in Nat /\ 0 \in Nat /\ n \in Nat
    BY <1>2, <1>4
  <2> HIDE DEF x, y
  <2> QED BY <1>5, <1>6, <2>1, <2>2, PayoutCovered
<1> QED BY <1>4, <1>7 DEF StakeInv, n

\* PendingRewards: a position is settled and nothing else.
LEMMA PendingStep ==
  ASSUME StakeInv, NEW p \in Pairs, PendingRewards(p)
  PROVE  StakeInv'
<1>1. PICK st, k, s :
        /\ s = SettleRewards(slots, p) /\ SlotT(s) /\ AddsUp(s)
        /\ k \in Nat /\ k = bal + unbacked + roundings + Rounds(slots, p)
        /\ Rounds(slots, p) \in Nat
        /\ Covered(s, st, k) /\ st[p] = s.rewIdx[p[1]]
  BY SettledFirst
<1>2. bal \in Nat /\ unbacked \in Nat /\ roundings \in Nat
  BY DEF StakeInv
<1>3. /\ roundings' = roundings + Rounds(slots, p) /\ bal' = bal /\ unbacked' = unbacked
      /\ slots' = s
  BY <1>1 DEF PendingRewards
<1>4. bal' + unbacked' + roundings' = k /\ roundings' \in Nat
  BY <1>1, <1>2, <1>3, SMTT(60)
<1> QED BY <1>1, <1>2, <1>3, <1>4 DEF StakeInv

\* Every call keeps the totals and the cover.
LEMMA StakeStep ==
  ASSUME StakeInv, [Next]_vars
  PROVE  StakeInv'
<1>1. CASE UNCHANGED vars
  BY <1>1 DEF vars, StakeInv
<1>2. CASE Tick
  BY <1>2 DEF Tick, StakeInv
<1>3. ASSUME NEW a \in Accounts, NEW amt \in BondAmounts, Bond(a, amt) \/ Unbond(a, amt)
      PROVE  StakeInv'
  BY <1>3, BondStep, UnbondStep
<1>4. ASSUME NEW a \in Accounts,
             \/ Withdraw(a) \/ SlashAndJail(a)
             \/ \E amt \in Incomes : DistributeProposerIncome(a, amt)
             \/ \E bps \in Commissions : SetCommission(a, bps)
      PROVE  StakeInv'
  BY <1>4, WithdrawStep, SlashStep, IncomeStep, CommissionStep
<1>5. ASSUME NEW p \in Pairs, NEW amt \in DelAmounts, Delegate(p, amt) \/ Undelegate(p, amt)
      PROVE  StakeInv'
  BY <1>5, DelegateStep, UndelegateStep
<1>6. ASSUME NEW p \in Pairs, WithdrawDelegation(p) \/ ClaimRewards(p) \/ PendingRewards(p)
      PROVE  StakeInv'
  BY <1>6, WithdrawDelegationStep, ClaimStep, PendingStep
<1> QED BY <1>1, <1>2, <1>3, <1>4, <1>5, <1>6 DEF Next

\* Claims, rounded down as the calls round them, exceed what covers them by at
\* most one wei for every position.
LEMMA DustBound ==
  ASSUME StakeInv
  PROVE  EscrowShortByDust
<1> DEFINE m == bal + unbacked + roundings
           c == [p \in Pairs |-> Delegation(slots, p) + slots.delUnbondAmt[p]
                                 + slots.rewPend[p] + Accrued(slots, p)]
           n == Cardinality(Pairs)
<1>1. IsFiniteSet(Pairs) /\ Precision \in Nat \ {0}
  BY StakingAssumption, SMTT(60)
<1>2. m \in Nat /\ n \in Nat
  <2>1. m \in Nat
    BY SMTT(60) DEF StakeInv
  <2> QED BY <1>1, <2>1, FS_CardinalityType
<1>3. PICK st : Covered(slots, st, m)
  BY DEF StakeInv
<1>4. SlotT(slots) /\ Starts(slots, st)
  BY <1>3 DEF StakeInv, Covered
<1> DEFINE w == Worths(slots, st)
<1>5. ASSUME NEW p \in Pairs
      PROVE  c[p] \in Nat /\ w[p] \in Nat /\ Precision * c[p] <= w[p] + Precision
  <2> DEFINE d == slots.del[p]
             r == slots.delRate[p[1]]
             y == slots.rewIdx[p[1]] - st[p]
             e == Accrued(slots, p)
             u == slots.delUnbondAmt[p]
             v == slots.rewPend[p]
             q == Delegation(slots, p)
  <2>1. p[1] \in Accounts
    BY StakingAssumption
  <2>2. /\ d \in Nat /\ r \in 1 .. Precision /\ u \in Nat /\ v \in Nat
        /\ slots.rewIdx[p[1]] \in Nat /\ st[p] \in Nat /\ st[p] <= slots.rewIdx[p[1]]
    BY <1>4, <2>1 DEF SlotT, Starts
  <2>3. e \in Nat /\ Precision * e <= d * y + Precision
    BY <1>4, AccruedFacts
  <2>4. y \in Nat
    BY <2>2, SMTT(60)
  <2>5. q \in Nat /\ Precision * q <= d * r
    <3> DEFINE x == d * r
    <3>1. x \in Nat
      BY <1>1, <2>2, SMTT(60)
    <3>2. q = x \div Precision
      BY DEF Delegation, SharesToWei
    <3> HIDE DEF x, q
    <3>3. q \in Nat /\ Precision * q <= x
      BY <1>1, <3>1, <3>2, DivBounds
    <3> QED BY <3>3 DEF x
  <2>6. c[p] = q + u + v + e /\ w[p] = Precision * (u + v) + d * r + d * y
    BY DEF Worths, Worth
  <2> HIDE DEF c, w, d, r, y, e, u, v, q
  <2> DEFINE a == d * r
             b == d * y
  <2>7. a \in Nat /\ b \in Nat
    BY <1>1, <2>2, <2>4, SMTT(60)
  <2>8. Precision * q <= a /\ Precision * e <= b + Precision /\ w[p] = Precision * (u + v) + a + b
    BY <2>3, <2>5, <2>6
  <2> HIDE DEF a, b
  <2>9. Precision * (q + u + v + e) = Precision * q + Precision * (u + v) + Precision * e
    BY <1>1, <2>2, <2>3, <2>5, SMTT(60)
  <2>10. /\ Precision * q \in Int /\ Precision * (u + v) \in Nat /\ Precision * e \in Int
         /\ q + u + v + e \in Nat
    BY <1>1, <2>2, <2>3, <2>5, SMTT(60)
  <2>11. w[p] \in Nat /\ Precision * (q + u + v + e) <= w[p] + Precision
    <3> DEFINE a1 == Precision * q
               a2 == Precision * (u + v)
               a3 == Precision * e
               a4 == Precision * (q + u + v + e)
    <3>1. /\ a1 \in Int /\ a2 \in Nat /\ a3 \in Int /\ a4 = a1 + a2 + a3
          /\ a1 <= a /\ a3 <= b + Precision /\ w[p] = a2 + a + b
      BY <2>8, <2>9, <2>10
    <3> HIDE DEF a1, a2, a3, a4
    <3>2. w[p] \in Nat /\ a4 <= w[p] + Precision
      BY <1>1, <2>7, <3>1, SMTT(60)
    <3> QED BY <3>2 DEF a4
  <2> QED BY <2>6, <2>10, <2>11
<1> DEFINE C == SumFunctionOnSet(c, Pairs)
           W == SumFunctionOnSet(w, Pairs)
           A == SumFunctionOnSet(Stakes(slots), Accounts)
<1>6. A \in Nat /\ W \in Nat /\ C \in Nat
  <2>1. A \in Nat /\ W \in Nat
    BY <1>4, SumTypes
  <2>2. \A p \in Pairs : c[p] \in Nat
    BY <1>5
  <2> HIDE DEF c
  <2> QED BY <1>1, <2>1, <2>2, SumTake
<1>7. Precision * C <= W + Precision * n
  <2>1. Precision \in Nat
    BY <1>1
  <2> HIDE DEF c, w
  <2> QED BY <1>1, <1>5, <2>1, SumRounded, SMTT(60)
<1>8. Precision * A + W <= Precision * m
  BY <1>3 DEF Covered
<1>9. Claims = A + C
  <2>1. DOMAIN Stakes(slots) = Accounts /\ DOMAIN c = Pairs
    BY DEF Stakes
  <2> QED BY <2>1 DEF Claims, SumFunction, Stakes
<1>10. A + C <= m + n
  <2> HIDE DEF A, C, W, m, n
  <2>1. Precision * (A + C) <= Precision * (m + n)
    <3>1. /\ Precision * (A + C) = Precision * A + Precision * C
          /\ Precision * (m + n) = Precision * m + Precision * n
          /\ Precision * A \in Int /\ Precision * C \in Int
          /\ Precision * m \in Int /\ Precision * n \in Int
      BY <1>1, <1>2, <1>6, SMTT(60)
    <3> DEFINE a1 == Precision * A
               a2 == Precision * C
               a3 == Precision * m
               a4 == Precision * n
               a5 == Precision * (A + C)
               a6 == Precision * (m + n)
    <3>2. /\ a5 = a1 + a2 /\ a6 = a3 + a4 /\ a1 \in Int /\ a2 \in Int /\ a3 \in Int /\ a4 \in Int
          /\ a2 <= W + a4 /\ a1 + W <= a3
      BY <1>7, <1>8, <3>1
    <3> HIDE DEF a1, a2, a3, a4, a5, a6
    <3>3. a5 <= a6
      BY <1>6, <3>2, SMTT(60)
    <3> QED BY <3>3 DEF a5, a6
  <2> QED BY <1>1, <1>2, <1>6, <2>1, SMTT(60)
<1> QED BY <1>9, <1>10 DEF EscrowShortByDust

\* However delegations, partial exits, slashes and rewards interleave, a
\* validator's total is the sum of the shares delegated to it.
THEOREM TotalsAddUp == Spec => []SharesAddUp
<1>1. StakeInv => SharesAddUp
  <2> SUFFICES ASSUME StakeInv, NEW v \in Accounts
               PROVE  slots.delTot[v] = SumFunction(SharesIn(slots, v))
    BY DEF SharesAddUp
  <2>1. DOMAIN SharesIn(slots, v) = Pairs
    BY DEF SharesIn
  <2> QED BY <2>1 DEF StakeInv, AddsUp, SumFunction
<1> QED BY <1>1, StakeInit, StakeStep, PTL DEF Spec

\* Conversions between shares and wei, slashes and reward accrual lose the
\* escrow no more than one wei for every position and every call that rounds in
\* its caller's favour.
THEOREM EscrowIsBacked == Spec => []EscrowShortByDust
<1>1. StakeInv => EscrowShortByDust
  BY DustBound
<1> QED BY <1>1, StakeInit, StakeStep, PTL DEF Spec
=============================================================================
