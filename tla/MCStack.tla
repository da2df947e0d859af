------------------------------ MODULE MCStack -------------------------------
(* Small instances of Stack.  Before the nodes start, a genesis file is     *)
(* edited: every short list of validators over small addresses and powers, *)
(* for the validator-set functions the engines rely on.                    *)
EXTENDS Stack

CONSTANTS Addresses, Powers, MaxLen, MaxSlot

VARIABLE listed   \* the validators listed so far, <<>> while the nodes run

MCGenesisSet == <<[addr |-> 2, power |-> 1], [addr |-> 1, power |-> 1]>>

Entry(a, s) == [addr |-> a, stake |-> s]

\* A candidate that left and came back is listed twice
\* (StakingModule.registerCandidate).
MCRelisted ==
  {<<>>, <<Entry(3, 2), Entry(1, 1)>>, <<Entry(3, 1), Entry(3, 1)>>}

MCInit == StackInit /\ listed = <<>>

Run == listed = <<>> /\ StackNext /\ UNCHANGED listed

List(v) ==
  /\ StackInit /\ \A h \in DOMAIN active : active[h] = <<>>
  /\ Len(listed) < MaxLen
  /\ listed' = Append(listed, v)
  /\ UNCHANGED stackVars

Discard == listed # <<>> /\ listed' = <<>> /\ UNCHANGED stackVars

MCNext == Run \/ Discard \/ \E v \in [addr : Addresses, power : Powers] : List(v)

MCSpec == MCInit /\ [][MCNext]_<<stackVars, listed>>

----------------------------------------------------------------------------

Permuted(vals) ==
  {[i \in DOMAIN vals |-> vals[p[i]]] :
     p \in {f \in [DOMAIN vals -> DOMAIN vals] :
              \A i, j \in DOMAIN vals : f[i] = f[j] => i = j}}

\* The power of the validators in S, added up as votes are.
PowerOf(set, S) ==
  SumPower([i \in DOMAIN set |->
    [addr |-> set[i].addr, power |-> IF i \in S THEN set[i].power ELSE 0]])

\* Nodes that list the same validators in another order (the active set is
\* ranked by stake) build the same set (NewValidatorSet), and in its schedule
\* (ProposerIndex), whatever height the rounds start at, a height whose first
\* rounds fail comes to every proposer, each in proportion to its power.
ScheduleIsProportional ==
  LET set == NewValidatorSet(listed)
  IN  /\ \A other \in Permuted(listed) : NewValidatorSet(other) = set
      /\ set # Rejected =>
           \A h \in 0 .. MaxSlot, i \in DOMAIN set :
             Cardinality({r \in 0 .. SumPower(set) - 1 :
                            ProposerIndex(set, h, r) = i}) = set[i].power

\* HasQuorum: in a set that NewValidatorSet accepts, two quorums share a correct
\* validator when less than a third of the power is faulty, and all validators
\* together are a quorum.
QuorumsIntersect ==
  LET set == NewValidatorSet(listed)
      total == SumPower(set)
  IN  set # Rejected =>
        /\ HasQuorumWord(total, total)
        /\ \A S, T \in SUBSET DOMAIN set :
             /\ HasQuorumWord(PowerOf(set, S), total)
             /\ HasQuorumWord(PowerOf(set, T), total)
             => 3 * PowerOf(set, S \cap T) > total
=============================================================================
