---------------------------- MODULE ValidatorSet ----------------------------
(***************************************************************************)
(* Validator sets (consensus/validator.go) and how the staking module's    *)
(* active set becomes one (consensus/activeset.go): the checks of          *)
(* NewValidatorSet, the quorum test and the stake-weighted proposer.       *)
(* Powers are unsigned words of Width bits (64 in the code) and every      *)
(* product and sum wraps as it does there.                                 *)
(***************************************************************************)
EXTENDS Integers, Sequences

CONSTANT Width

ASSUME WidthAssumption == Width \in Nat \ {0} /\ 2 ^ Width \in Nat \ {0}

MaxUint == 2 ^ Width - 1
Wrap(n) == n % (2 ^ Width)

\* A validator is [addr, power]; addresses are numbers, ordered as their bytes.
\* The list in the order of its addresses, which are all different.
ByAddress(vals) ==
  LET order == CHOOSE p \in [DOMAIN vals -> DOMAIN vals] :
        \A i, j \in DOMAIN vals : i < j => vals[p[i]].addr < vals[p[j]].addr
  IN  [i \in DOMAIN vals |-> vals[order[i]]]

\* The total as the code accumulates it, after each validator.
RunningTotal(vals) ==
  LET total[i \in 0 .. Len(vals)] ==
        IF i = 0 THEN 0 ELSE Wrap(total[i - 1] + vals[i].power)
  IN  total

SumPower(vals) == RunningTotal(vals)[Len(vals)]

\* Some running total is smaller than the one before it.
SumOverflows(vals) ==
  \E i \in 1 .. Len(vals) : RunningTotal(vals)[i] < RunningTotal(vals)[i - 1]

Rejected == <<>>

\* NewValidatorSet: the validators sorted by address, or Rejected when the list
\* is empty, a power is zero, an address is repeated or the total overflows.
NewValidatorSet(vals) ==
  IF \/ vals = <<>>
     \/ \E i \in DOMAIN vals : vals[i].power = 0
     \/ \E i, j \in DOMAIN vals : i # j /\ vals[i].addr = vals[j].addr
     \/ SumOverflows(ByAddress(vals))
  THEN Rejected
  ELSE ByAddress(vals)

\* Mutant: exactly two thirds are enough.
HasQuorumWordAtTwoThirds(vote, total) ==
  total # 0 /\ Wrap(vote * 3) >= Wrap(total * 2)

\* 3 * vote > 2 * total in machine arithmetic.
HasQuorumWord(vote, total) ==
  total # 0 /\ Wrap(vote * 3) > Wrap(total * 2)

\* Mutant: the slot of a validator begins one late.
ProposerIndexLate(set, height, round) ==
  LET slot == Wrap(height + round) % SumPower(set)
      above == {i \in DOMAIN set : slot <= RunningTotal(set)[i]}
  IN  IF above = {} THEN Len(set)
      ELSE CHOOSE i \in above : \A j \in above : i <= j

\* The first validator whose cumulative power exceeds (height + round) mod
\* total, the last one if none does.
ProposerIndex(set, height, round) ==
  LET slot == Wrap(height + round) % SumPower(set)
      above == {i \in DOMAIN set : slot < RunningTotal(set)[i]}
  IN  IF above = {} THEN Len(set)
      ELSE CHOOSE i \in above : \A j \in above : i <= j

ProposerOf(set, height, round) == set[ProposerIndex(set, height, round)].addr

\* Stake in wei as voting power: saturates at the largest word.
PowerFromU256(stake) == IF stake > MaxUint THEN MaxUint ELSE stake

\* The validators that the first i entries of the active set, in rank order,
\* give.  Entries without an address or without power are left out.
Voting(active) ==
  LET vals[i \in 0 .. Len(active)] ==
        IF i = 0 THEN <<>>
        ELSE IF active[i].addr = 0 \/ active[i].stake = 0 THEN vals[i - 1]
        ELSE Append(vals[i - 1], [addr  |-> active[i].addr,
                                  power |-> PowerFromU256(active[i].stake)])
  IN  vals

ActiveSetToValidatorSet(active) == NewValidatorSet(Voting(active)[Len(active)])

ShouldRotateEpoch(height, epochLength) ==
  epochLength # 0 /\ height # 0 /\ height % epochLength = 0
=============================================================================
