-------------------------- MODULE ConsensusProofs ---------------------------
(***************************************************************************)
(* Proofs about DewBFT for any validator set with less than a third of its *)
(* power faulty: types, no false double-sign evidence, agreement within a  *)
(* slot, that what is committed was executed, and that the engines         *)
(* implement Decisions.  Then about the stack the engine lives in: the     *)
(* validator sets it is given and their quorums, the proposers they make,  *)
(* and that the engine keeps up with the node.                             *)
(***************************************************************************)
EXTENDS DewBFT, MCStack, SumTheorems

\* A leaf is for Zenon unless it names another prover.
USE ZenonT(90)

----------------------------------------------------------------------------
(* Quorums.                                                                *)

\* Power grows with the set.
LEMMA PowerMonotone ==
  ASSUME NEW S \in SUBSET Validators, NEW T \in SUBSET Validators, S \subseteq T
  PROVE  SetPower[S] <= SetPower[T] /\ SetPower[S] \in Nat /\ SetPower[T] \in Nat
<1>1. T = S \cup (T \ S) /\ S \cap (T \ S) = {} /\ T \ S \in SUBSET Validators
  OBVIOUS
<1>2. SetPower[T] = SetPower[S] + SetPower[T \ S]
  BY <1>1, PowerAssumption
<1>3. SetPower[S] \in Nat /\ SetPower[T] \in Nat /\ SetPower[T \ S] \in Nat
  BY <1>1, PowerAssumption
<1> QED
  BY <1>2, <1>3, SMTT(60)

\* A set that contains a quorum is a quorum.
LEMMA QuorumMonotone ==
  ASSUME NEW S \in SUBSET Validators, NEW T \in SUBSET Validators, S \subseteq T,
         HasQuorum(S)
  PROVE  HasQuorum(T)
<1>1. SetPower[Validators] \in Nat
  BY PowerAssumption
<1> QED
  BY <1>1, PowerMonotone, SMTT(60) DEF HasQuorum

\* Two quorums share a correct validator (with S = T: a quorum has one).
LEMMA QuorumsMeet ==
  ASSUME NEW S \in SUBSET Validators, NEW T \in SUBSET Validators,
         HasQuorum(S), HasQuorum(T)
  PROVE  \E w \in Correct : w \in S \cap T
<1> DEFINE I == S \cap T
<1>0. /\ Validators \in SUBSET Validators /\ I \in SUBSET Validators
      /\ S \cup T \in SUBSET Validators /\ T \ S \in SUBSET Validators
      /\ Faulty \in SUBSET Validators
  BY PowerAssumption
<1>1. SetPower[T] = SetPower[I] + SetPower[T \ S]
  <2>1. T = I \cup (T \ S) /\ I \cap (T \ S) = {}
    OBVIOUS
  <2> QED
    BY <1>0, <2>1, PowerAssumption
<1>2. SetPower[S \cup T] = SetPower[S] + SetPower[T \ S]
  <2>1. S \cup T = S \cup (T \ S) /\ S \cap (T \ S) = {}
    OBVIOUS
  <2> QED
    BY <1>0, <2>1, PowerAssumption
<1>3. SetPower[S \cup T] <= SetPower[Validators]
  BY <1>0, PowerMonotone
<1>4. /\ SetPower[S] \in Nat /\ SetPower[T] \in Nat /\ SetPower[I] \in Nat
      /\ SetPower[T \ S] \in Nat /\ SetPower[S \cup T] \in Nat
      /\ SetPower[Validators] \in Nat /\ SetPower[Faulty] \in Nat
  BY <1>0, PowerAssumption
<1>5. 3 * SetPower[I] > SetPower[Validators]
  BY <1>1, <1>2, <1>3, <1>4, SMTT(60) DEF HasQuorum
<1>6. SetPower[I] > SetPower[Faulty]
  BY <1>4, <1>5, PowerAssumption, SMTT(60)
<1>7. ~ (I \subseteq Faulty)
  BY <1>0, <1>4, <1>6, PowerMonotone, SMTT(60)
<1> QED
  BY <1>0, <1>7 DEF Correct

\* Votes counted for h by one engine come from backers of h.
LEMMA BackersMonotone ==
  ASSUME NEW ms, NEW ns, ms \subseteq ns, NEW type, NEW slot, NEW h,
         HasQuorum(BackersIn(ms, type, slot, h))
  PROVE  HasQuorum(BackersIn(ns, type, slot, h))
<1>1. BackersIn(ms, type, slot, h) \subseteq BackersIn(ns, type, slot, h)
  BY DEF BackersIn
<1>2. /\ BackersIn(ms, type, slot, h) \in SUBSET Validators
      /\ BackersIn(ns, type, slot, h) \in SUBSET Validators
  BY PowerAssumption DEF BackersIn, Correct
<1> QED
  BY <1>1, <1>2, QuorumMonotone

----------------------------------------------------------------------------
(* What one engine does to its fields, one kind of change at a time, keeps *)
(* the invariant.                                                          *)

\* The engine leaves its slot for a later one with nothing counted or locked
\* (enterNextRoundLocked, enterCommitLocked, ApplySyncedBlock).
LEMMA LeaveSlot ==
  ASSUME NEW en, NEW va, NEW ms, NEW co, NEW ve, Inv(en, va, ms, co, ve),
         NEW v \in Correct, NEW f \in EngineState, Before(en[v], f),
         f.prevotes = NoVotes, f.precommits = NoVotes, f.lockedRound = -1
  PROVE  Inv([en EXCEPT ![v] = f], va, ms, co, ve)
<1> DEFINE fn == [en EXCEPT ![v] = f]
<1>0. /\ fn \in [Correct -> EngineState] /\ en \in [Correct -> EngineState]
      /\ fn[v] = f /\ \A w \in Correct : w # v => fn[w] = en[w]
      /\ \A w \in Correct : f.prevotes[w] = None /\ f.precommits[w] = None
  BY DEF Inv, StateTypes, NoVotes, Correct
<1>1. StateTypes(fn, va, ms, co, ve)
  BY <1>0 DEF Inv, StateTypes
<1>a. \A x : x \in Calls \cup Messages =>
        (Before(x, en[v]) \/ SameSlot(x, en[v]) => Before(x, f))
  BY <1>0, SMTT(60) DEF Before, SameSlot, Calls, Messages, Proposals, Votes, EngineState
<1>2. SentIsRecorded(fn, ms)
  <2> SUFFICES ASSUME NEW m \in ms
               PROVE  /\ m.validator \in Correct
                      /\ m.type # "proposal" =>
                           \/ Before(m, fn[m.validator])
                           \/ /\ SameSlot(m, fn[m.validator])
                              /\ Recorded(m, fn[m.validator])
    BY DEF SentIsRecorded
  <2>1. /\ m.validator \in Correct
        /\ m.type # "proposal" =>
             \/ Before(m, en[m.validator])
             \/ SameSlot(m, en[m.validator]) /\ Recorded(m, en[m.validator])
    BY DEF Inv, SentIsRecorded
  <2>2. m \in Messages
    BY DEF Inv, StateTypes
  <2> QED
    BY <1>0, <1>a, <2>1, <2>2
<1>3. CountedWasSent(fn, ms)
  BY <1>0 DEF Inv, CountedWasSent
<1>4. ValidatingIsFresh(fn, va)
  <2> SUFFICES ASSUME NEW w \in Correct, NEW c \in va[w]
               PROVE  /\ \/ Before(c, fn[w])
                         \/ /\ SameSlot(c, fn[w])
                            /\ fn[w].step \in {"Prevote", "Precommit"}
                            /\ fn[w].prevotes[w] = None
                      /\ \A d \in va[w] : SameSlot(c, d) => c = d
    BY DEF ValidatingIsFresh
  <2>1. /\ \/ Before(c, en[w])
           \/ /\ SameSlot(c, en[w])
              /\ en[w].step \in {"Prevote", "Precommit"}
              /\ en[w].prevotes[w] = None
        /\ \A d \in va[w] : SameSlot(c, d) => c = d
    BY DEF Inv, ValidatingIsFresh
  <2>2. c \in Calls
    BY DEF Inv, StateTypes
  <2> QED
    BY <1>0, <1>a, <2>1, <2>2
<1>5. LockInPrecommit(fn)
  BY <1>0, SMTT(60) DEF Inv, LockInPrecommit
<1> QED
  BY <1>1, <1>2, <1>3, <1>4, <1>5 DEF Inv

\* A change that keeps the slot, the votes and the lock: a stored proposal, or
\* StartRound, which clears votes nobody relies on yet.
LEMMA StayInSlot ==
  ASSUME NEW en, NEW va, NEW ms, NEW co, NEW ve, Inv(en, va, ms, co, ve),
         NEW v \in Correct, NEW f \in EngineState, SameSlot(en[v], f),
         f.lockedRound = en[v].lockedRound,
         \/ /\ f.step = en[v].step
            /\ f.prevotes = en[v].prevotes /\ f.precommits = en[v].precommits
         \/ /\ en[v].step = "NewRound"
            /\ f.prevotes = NoVotes /\ f.precommits = NoVotes
  PROVE  Inv([en EXCEPT ![v] = f], va, ms, co, ve)
<1> DEFINE fn == [en EXCEPT ![v] = f]
<1>0. /\ fn \in [Correct -> EngineState] /\ en \in [Correct -> EngineState]
      /\ fn[v] = f /\ \A w \in Correct : w # v => fn[w] = en[w]
      /\ \A w \in Correct : NoVotes[w] = None
  BY DEF Inv, StateTypes, NoVotes, Correct
<1>1. StateTypes(fn, va, ms, co, ve)
  BY <1>0 DEF Inv, StateTypes
<1>a. \A x : /\ SameSlot(x, en[v]) => SameSlot(x, f)
             /\ Before(x, en[v]) => Before(x, f)
  BY DEF Before, SameSlot
<1>2. SentIsRecorded(fn, ms)
  <2> SUFFICES ASSUME NEW m \in ms
               PROVE  /\ m.validator \in Correct
                      /\ m.type # "proposal" =>
                           \/ Before(m, fn[m.validator])
                           \/ /\ SameSlot(m, fn[m.validator])
                              /\ Recorded(m, fn[m.validator])
    BY DEF SentIsRecorded
  <2>1. /\ m.validator \in Correct
        /\ m.type # "proposal" =>
             \/ Before(m, en[m.validator])
             \/ SameSlot(m, en[m.validator]) /\ Recorded(m, en[m.validator])
    BY DEF Inv, SentIsRecorded
  <2>2. m.type \in {"proposal", "prevote", "precommit"}
    BY DEF Inv, StateTypes, Messages, Proposals, Votes
  <2> QED
    BY <1>0, <1>a, <2>1, <2>2 DEF Recorded
<1>3. CountedWasSent(fn, ms)
  <2>1. \A type, w, h : Vote(type, w, f, h) = Vote(type, w, en[v], h)
    BY DEF Vote, SameSlot
  <2> QED
    BY <1>0, <2>1, SMTT(60) DEF Inv, CountedWasSent
<1>4. ValidatingIsFresh(fn, va)
  BY <1>0, <1>a DEF Inv, ValidatingIsFresh
<1>5. LockInPrecommit(fn)
  BY <1>0 DEF Inv, LockInPrecommit
<1> QED
  BY <1>1, <1>2, <1>3, <1>4, <1>5 DEF Inv

\* An engine that has not prevoted in its slot counts no prevote of its own,
\* one that has not precommitted no precommit of its own.
LEMMA OwnVotes ==
  ASSUME NEW en, NEW va, NEW ms, NEW co, NEW ve, Inv(en, va, ms, co, ve),
         NEW v \in Correct
  PROVE  /\ en[v].step \in {"NewRound", "Propose"} => en[v].prevotes[v] = None
         /\ en[v].step # "Precommit" => en[v].precommits[v] = None
         /\ \A m \in ms : /\ m.type # "proposal" /\ m.validator = v
                          /\ SameSlot(m, en[v])
                          => Recorded(m, en[v])
<1>0. en[v] \in EngineState
  BY DEF Inv, StateTypes
<1>1. \A m \in ms : /\ m.type # "proposal" /\ m.validator = v
                    /\ SameSlot(m, en[v])
                    => Recorded(m, en[v])
  BY <1>0, SMTT(60) DEF Inv, SentIsRecorded, Before, SameSlot, EngineState
<1>2. ASSUME en[v].prevotes[v] # None, en[v].step \in {"NewRound", "Propose"}
      PROVE  FALSE
  <2> DEFINE m == Vote("prevote", v, en[v], en[v].prevotes[v])
  <2>1. m \in ms
    BY <1>2 DEF Inv, CountedWasSent
  <2>2. m.type = "prevote" /\ m.validator = v /\ SameSlot(m, en[v])
    BY DEF Vote, SameSlot
  <2> QED
    BY <1>1, <1>2, <2>1, <2>2 DEF Recorded
<1>3. ASSUME en[v].precommits[v] # None, en[v].step # "Precommit"
      PROVE  FALSE
  <2> DEFINE m == Vote("precommit", v, en[v], en[v].precommits[v])
  <2>1. m \in ms
    BY <1>3 DEF Inv, CountedWasSent
  <2>2. m.type = "precommit" /\ m.validator = v /\ SameSlot(m, en[v])
    BY DEF Vote, SameSlot
  <2> QED
    BY <1>1, <1>3, <2>1, <2>2 DEF Recorded
<1> QED
  BY <1>1, <1>2, <1>3

\* enterPrevoteLocked up to the unlock: the step changes and a validation of
\* the slot begins.
LEMMA BeginPrevote ==
  ASSUME NEW en, NEW va, NEW ms, NEW co, NEW ve, Inv(en, va, ms, co, ve),
         NEW v \in Correct, NEW f \in EngineState, SameSlot(en[v], f),
         f.lockedRound = en[v].lockedRound,
         en[v].step \in {"NewRound", "Propose"}, f.step = "Prevote",
         f.prevotes = en[v].prevotes, f.precommits = en[v].precommits,
         NEW c \in Calls, SameSlot(c, en[v])
  PROVE  Inv([en EXCEPT ![v] = f], [va EXCEPT ![v] = @ \cup {c}], ms, co, ve)
<1> DEFINE fn == [en EXCEPT ![v] = f]
           vb == [va EXCEPT ![v] = @ \cup {c}]
<1>0. /\ fn \in [Correct -> EngineState] /\ en \in [Correct -> EngineState]
      /\ fn[v] = f /\ \A w \in Correct : w # v => fn[w] = en[w]
  BY DEF Inv, StateTypes
<1>b. /\ vb \in [Correct -> SUBSET Calls] /\ va \in [Correct -> SUBSET Calls]
      /\ vb[v] = va[v] \cup {c} /\ \A w \in Correct : w # v => vb[w] = va[w]
  BY DEF Inv, StateTypes
<1>1. StateTypes(fn, vb, ms, co, ve)
  BY <1>0, <1>b DEF Inv, StateTypes
<1>a. \A x : /\ SameSlot(x, en[v]) => SameSlot(x, f)
             /\ Before(x, en[v]) => Before(x, f)
  BY DEF Before, SameSlot
<1>2. SentIsRecorded(fn, ms)
  <2> SUFFICES ASSUME NEW m \in ms
               PROVE  /\ m.validator \in Correct
                      /\ m.type # "proposal" =>
                           \/ Before(m, fn[m.validator])
                           \/ /\ SameSlot(m, fn[m.validator])
                              /\ Recorded(m, fn[m.validator])
    BY DEF SentIsRecorded
  <2>1. /\ m.validator \in Correct
        /\ m.type # "proposal" =>
             \/ Before(m, en[m.validator])
             \/ SameSlot(m, en[m.validator]) /\ Recorded(m, en[m.validator])
    BY DEF Inv, SentIsRecorded
  <2>2. m.type \in {"proposal", "prevote", "precommit"}
    BY DEF Inv, StateTypes, Messages, Proposals, Votes
  <2> QED
    BY <1>0, <1>a, <2>1, <2>2 DEF Recorded
<1>3. CountedWasSent(fn, ms)
  <2>1. \A type, w, h : Vote(type, w, f, h) = Vote(type, w, en[v], h)
    BY DEF Vote, SameSlot
  <2> QED
    BY <1>0, <2>1, SMTT(60) DEF Inv, CountedWasSent
<1>4. ValidatingIsFresh(fn, vb)
  <2>1. f.prevotes[v] = None
    BY OwnVotes
  <2>2. \A d \in va[v] : Before(d, en[v])
    BY DEF Inv, ValidatingIsFresh
  <2>3. \A d \in va[v] : ~ SameSlot(d, c)
    BY <1>0, <1>b, <2>2, SMTT(60) DEF Before, SameSlot, Calls, EngineState
  <2>4. ASSUME NEW d \in vb[v]
        PROVE  /\ \/ Before(d, f)
                  \/ /\ SameSlot(d, f)
                     /\ f.step \in {"Prevote", "Precommit"}
                     /\ f.prevotes[v] = None
               /\ \A x \in vb[v] : SameSlot(d, x) => d = x
    <3>1. CASE d = c
      <4>1. \A x \in vb[v] : SameSlot(d, x) => d = x
        BY <1>b, <2>3, <3>1 DEF SameSlot
      <4> QED
        BY <1>a, <2>1, <3>1, <4>1
    <3>2. CASE d \in va[v]
      <4>1. \A x \in vb[v] : SameSlot(d, x) => d = x
        BY <1>b, <2>3, <3>2, SMTT(60) DEF Inv, ValidatingIsFresh
      <4> QED
        BY <1>a, <2>2, <3>2, <4>1
    <3> QED
      BY <1>b, <3>1, <3>2
  <2> QED
    BY <1>0, <1>b, <2>4 DEF Inv, ValidatingIsFresh
<1>5. LockInPrecommit(fn)
  BY <1>0 DEF Inv, LockInPrecommit
<1> QED
  BY <1>1, <1>2, <1>3, <1>4, <1>5 DEF Inv

\* addPrevoteLocked or addPrecommitLocked for a vote from the network, which a
\* correct validator has sent or a faulty one has made up.
LEMMA CountVote ==
  ASSUME NEW en, NEW va, NEW ms, NEW co, NEW ve, Inv(en, va, ms, co, ve),
         NEW v \in Correct, NEW f \in EngineState,
         NEW w \in Validators, NEW h \in Hashes, NEW type \in {"prevote", "precommit"},
         w \in Correct => Vote(type, w, en[v], h) \in ms,
         \/ /\ type = "prevote" /\ en[v].prevotes[w] = None
            /\ f = [en[v] EXCEPT !.prevotes = AddVote(@, w, h)]
         \/ /\ type = "precommit" /\ en[v].precommits[w] = None
            /\ f = [en[v] EXCEPT !.precommits = AddVote(@, w, h)]
  PROVE  Inv([en EXCEPT ![v] = f], va, ms, co, ve)
<1> DEFINE fn == [en EXCEPT ![v] = f]
<1>0. /\ fn \in [Correct -> EngineState] /\ en \in [Correct -> EngineState]
      /\ fn[v] = f /\ \A u \in Correct : u # v => fn[u] = en[u]
  BY DEF Inv, StateTypes
<1>1. StateTypes(fn, va, ms, co, ve)
  BY <1>0 DEF Inv, StateTypes
<1>b. en[v] \in EngineState /\ en[v].prevotes \in VoteSets
      /\ en[v].precommits \in VoteSets /\ None \notin Hashes
      /\ v \in Validators
  BY <1>0, BlockAssumption DEF EngineState, Hashes, Correct
<1>c. w # v
  <2> SUFFICES ASSUME w = v PROVE FALSE
    OBVIOUS
  <2> DEFINE m == Vote(type, v, en[v], h)
  <2>1. m \in ms /\ m.type = type /\ m.validator = v /\ SameSlot(m, en[v])
        /\ m.hash = h
    BY DEF Vote, SameSlot
  <2>2. Recorded(m, en[v])
    BY <2>1, OwnVotes
  <2> QED
    BY <1>b, <2>1, <2>2 DEF Recorded
<1>d. /\ f.height = en[v].height /\ f.round = en[v].round /\ f.step = en[v].step
      /\ f.lockedRound = en[v].lockedRound
      /\ \A u \in Validators : u # w => f.prevotes[u] = en[v].prevotes[u]
      /\ \A u \in Validators : u # w => f.precommits[u] = en[v].precommits[u]
      /\ type = "prevote" => f.prevotes[w] = h /\ f.precommits = en[v].precommits
      /\ type = "precommit" => f.precommits[w] = h /\ f.prevotes = en[v].prevotes
  BY <1>b, SMTT(60) DEF AddVote, VoteSets, EngineState
<1>a. \A x : /\ SameSlot(x, en[v]) => SameSlot(x, f)
             /\ Before(x, en[v]) => Before(x, f)
  BY <1>d DEF Before, SameSlot
<1>2. SentIsRecorded(fn, ms)
  <2> SUFFICES ASSUME NEW m \in ms
               PROVE  /\ m.validator \in Correct
                      /\ m.type # "proposal" =>
                           \/ Before(m, fn[m.validator])
                           \/ /\ SameSlot(m, fn[m.validator])
                              /\ Recorded(m, fn[m.validator])
    BY DEF SentIsRecorded
  <2>1. /\ m.validator \in Correct
        /\ m.type # "proposal" =>
             \/ Before(m, en[m.validator])
             \/ SameSlot(m, en[m.validator]) /\ Recorded(m, en[m.validator])
    BY DEF Inv, SentIsRecorded
  <2> QED
    BY <1>0, <1>a, <1>b, <1>c, <1>d, <2>1, SMTT(60) DEF Recorded
<1>3. CountedWasSent(fn, ms)
  <2>1. \A t, u, x : Vote(t, u, f, x) = Vote(t, u, en[v], x)
    BY <1>d DEF Vote
  <2>2. ASSUME NEW u \in Correct
        PROVE  /\ f.prevotes[u] # None =>
                    Vote("prevote", u, f, f.prevotes[u]) \in ms
               /\ f.precommits[u] # None =>
                    Vote("precommit", u, f, f.precommits[u]) \in ms
    <3>1. u \in Validators
      BY DEF Correct
    <3>2. /\ en[v].prevotes[u] # None =>
               Vote("prevote", u, en[v], en[v].prevotes[u]) \in ms
          /\ en[v].precommits[u] # None =>
               Vote("precommit", u, en[v], en[v].precommits[u]) \in ms
      BY DEF Inv, CountedWasSent
    <3> QED
      BY <1>d, <2>1, <3>1, <3>2, SMTT(60)
  <2> QED
    BY <1>0, <2>2 DEF Inv, CountedWasSent
<1>4. ValidatingIsFresh(fn, va)
  <2>1. f.prevotes[v] = en[v].prevotes[v] /\ f.step = en[v].step
    BY <1>b, <1>c, <1>d
  <2> QED
    BY <1>0, <1>a, <2>1 DEF Inv, ValidatingIsFresh
<1>5. LockInPrecommit(fn)
  BY <1>0, <1>d DEF Inv, LockInPrecommit
<1> QED
  BY <1>1, <1>2, <1>3, <1>4, <1>5 DEF Inv

\* enterPrevoteLocked after the validator, in the slot it began in: the engine
\* signs its prevote and counts it.
LEMMA CastPrevote ==
  ASSUME NEW en, NEW va, NEW ms, NEW co, NEW ve, Inv(en, va, ms, co, ve),
         NEW v \in Correct, NEW c \in va[v], SameSlot(c, en[v]),
         en[v].step = "Prevote", NEW h \in Hashes, NEW vf,
         vf \subseteq Verdicts, ve \subseteq vf, VerdictJustified(vf),
         h # Nil => \E d \in vf : SameSlot(en[v], d) /\ d.hash = h,
         NEW f \in EngineState, f = [en[v] EXCEPT !.prevotes = AddVote(@, v, h)]
  PROVE  Inv([en EXCEPT ![v] = f], [va EXCEPT ![v] = @ \ {c}],
             ms \cup {Vote("prevote", v, en[v], h)}, co, vf)
<1> DEFINE fn == [en EXCEPT ![v] = f]
           vb == [va EXCEPT ![v] = @ \ {c}]
           p == Vote("prevote", v, en[v], h)
           ns == ms \cup {p}
<1>0. /\ fn \in [Correct -> EngineState] /\ en \in [Correct -> EngineState]
      /\ fn[v] = f /\ \A u \in Correct : u # v => fn[u] = en[u]
  BY DEF Inv, StateTypes
<1>b. /\ en[v] \in EngineState /\ en[v].prevotes \in VoteSets
      /\ en[v].precommits \in VoteSets /\ None \notin Hashes
      /\ v \in Validators
  BY <1>0, BlockAssumption DEF EngineState, Hashes, Correct
<1>e. /\ vb \in [Correct -> SUBSET Calls] /\ va \in [Correct -> SUBSET Calls]
      /\ vb[v] = va[v] \ {c} /\ \A w \in Correct : w # v => vb[w] = va[w]
  BY DEF Inv, StateTypes
<1>f. /\ p.type = "prevote" /\ p.validator = v /\ p.hash = h
      /\ p.height = en[v].height /\ p.round = en[v].round
      /\ SameSlot(p, en[v]) /\ p \in Messages
  BY <1>b DEF Vote, SameSlot, Messages, Votes, EngineState
<1>1. StateTypes(fn, vb, ns, co, vf)
  BY <1>0, <1>e, <1>f DEF Inv, StateTypes
<1>c. en[v].prevotes[v] = None
  <2>1. ~ Before(c, en[v])
    BY <1>b, <1>e, SMTT(60) DEF Before, SameSlot, Calls, EngineState
  <2> QED
    BY <2>1 DEF Inv, ValidatingIsFresh
<1>d. /\ f.height = en[v].height /\ f.round = en[v].round /\ f.step = en[v].step
      /\ f.lockedRound = en[v].lockedRound /\ f.precommits = en[v].precommits
      /\ f.prevotes[v] = h
      /\ \A u \in Validators : u # v => f.prevotes[u] = en[v].prevotes[u]
  BY <1>b, <1>c DEF AddVote, VoteSets, EngineState
<1>a. \A x : /\ SameSlot(x, en[v]) => SameSlot(x, f)
             /\ Before(x, en[v]) => Before(x, f)
  BY <1>d DEF Before, SameSlot
<1>g. \A m \in ms : ~ (m.type = "prevote" /\ m.validator = v /\ SameSlot(m, en[v]))
  <2> SUFFICES ASSUME NEW m \in ms, m.type = "prevote", m.validator = v,
                      SameSlot(m, en[v])
               PROVE  FALSE
    OBVIOUS
  <2>1. Recorded(m, en[v])
    BY OwnVotes
  <2>2. m.hash \in Hashes
    BY DEF Inv, StateTypes, Messages, Proposals, Votes
  <2> QED
    BY <1>b, <1>c, <2>1, <2>2 DEF Recorded
<1>2. SentIsRecorded(fn, ns)
  <2>1. ASSUME NEW m \in ms
        PROVE  /\ m.validator \in Correct
               /\ m.type # "proposal" =>
                    \/ Before(m, fn[m.validator])
                    \/ /\ SameSlot(m, fn[m.validator])
                       /\ Recorded(m, fn[m.validator])
    <3>1. /\ m.validator \in Correct
          /\ m.type # "proposal" =>
               \/ Before(m, en[m.validator])
               \/ SameSlot(m, en[m.validator]) /\ Recorded(m, en[m.validator])
      BY DEF Inv, SentIsRecorded
    <3> QED
      BY <1>0, <1>a, <1>d, <1>g, <3>1 DEF Recorded
  <2>2. SameSlot(p, fn[v]) /\ Recorded(p, fn[v])
    BY <1>0, <1>a, <1>d, <1>f DEF Recorded
  <2> QED
    BY <1>f, <2>1, <2>2 DEF SentIsRecorded
<1>3. CountedWasSent(fn, ns)
  <2>1. \A t, u, x : Vote(t, u, f, x) = Vote(t, u, en[v], x)
    BY <1>d DEF Vote
  <2>2. ASSUME NEW u \in Correct
        PROVE  /\ f.prevotes[u] # None =>
                    Vote("prevote", u, f, f.prevotes[u]) \in ns
               /\ f.precommits[u] # None =>
                    Vote("precommit", u, f, f.precommits[u]) \in ns
    <3>1. u \in Validators
      BY DEF Correct
    <3>2. /\ en[v].prevotes[u] # None =>
               Vote("prevote", u, en[v], en[v].prevotes[u]) \in ms
          /\ en[v].precommits[u] # None =>
               Vote("precommit", u, en[v], en[v].precommits[u]) \in ms
      BY DEF Inv, CountedWasSent
    <3> QED
      BY <1>d, <2>1, <3>1, <3>2, SMTT(60)
  <2> QED
    BY <1>0, <2>2 DEF Inv, CountedWasSent
<1>4. ValidatingIsFresh(fn, vb)
  <2>1. \A d \in vb[v] : d \in va[v] /\ ~ SameSlot(d, en[v])
    BY <1>e, SMTT(60) DEF Inv, ValidatingIsFresh, SameSlot
  <2>2. \A d \in vb[v] : Before(d, f)
    BY <1>a, <2>1 DEF Inv, ValidatingIsFresh
  <2> QED
    BY <1>0, <1>e, <2>1, <2>2 DEF Inv, ValidatingIsFresh
<1>5. LockInPrecommit(fn)
  BY <1>0, <1>d DEF Inv, LockInPrecommit
<1>6. PrecommitJustified(ns) /\ CommitJustified(ns, co)
  BY <1>f, BackersMonotone DEF Inv, PrecommitJustified, CommitJustified
<1>7. PrevoteJustified(ns, vf)
  <2>1. ASSUME NEW m \in ms, m.type = "prevote", m.hash # Nil
        PROVE  \E d \in vf : SameSlot(m, d) /\ d.hash = m.hash
    BY <2>1 DEF Inv, PrevoteJustified
  <2>2. ASSUME h # Nil
        PROVE  \E d \in vf : SameSlot(p, d) /\ d.hash = p.hash
    BY <1>f, <2>2 DEF SameSlot
  <2> QED
    BY <1>f, <2>1, <2>2 DEF PrevoteJustified
<1>8. SignedOnce(ns)
  <2>1. \A m \in ms : ~ DoubleSign(m, p) /\ ~ DoubleSign(p, m)
    BY <1>f, <1>g DEF DoubleSign, SameSlot
  <2>2. ~ DoubleSign(p, p)
    BY DEF DoubleSign
  <2> QED
    BY <2>1, <2>2 DEF Inv, SignedOnce
<1> QED
  BY <1>1, <1>2, <1>3, <1>4, <1>5, <1>6, <1>7, <1>8 DEF Inv

\* A majority hash of an engine's prevotes or precommits is a hash with a
\* quorum of backers.
LEMMA MajorityHasBackers ==
  ASSUME NEW en, NEW va, NEW ms, NEW co, NEW ve, Inv(en, va, ms, co, ve),
         NEW v \in Correct, NEW h \in Hashes
  PROVE  /\ h \in MajorityHash(en[v].prevotes) =>
              HasQuorum(BackersIn(ms, "prevote", en[v], h))
         /\ h \in MajorityHash(en[v].precommits) =>
              HasQuorum(BackersIn(ms, "precommit", en[v], h))
<1>0. None # h
  BY BlockAssumption DEF Hashes
<1>1. /\ VotersFor(en[v].prevotes, h) \subseteq BackersIn(ms, "prevote", en[v], h)
      /\ VotersFor(en[v].precommits, h) \subseteq BackersIn(ms, "precommit", en[v], h)
  BY <1>0 DEF VotersFor, BackersIn, Correct, Inv, CountedWasSent, Vote
<1>2. /\ BackersIn(ms, "prevote", en[v], h) \in SUBSET Validators
      /\ BackersIn(ms, "precommit", en[v], h) \in SUBSET Validators
      /\ VotersFor(en[v].prevotes, h) \in SUBSET Validators
      /\ VotersFor(en[v].precommits, h) \in SUBSET Validators
  BY PowerAssumption DEF BackersIn, Correct, VotersFor
<1> QED
  BY <1>1, <1>2, QuorumMonotone DEF MajorityHash

\* enterPrecommitLocked up to its vote: the engine locks, signs its precommit
\* for what has a polka, and counts it.
LEMMA CastPrecommit ==
  ASSUME NEW en, NEW va, NEW ms, NEW co, NEW ve, Inv(en, va, ms, co, ve),
         NEW v \in Correct, en[v].step = "Prevote",
         NEW h \in MajorityHash(en[v].prevotes),
         NEW f \in EngineState, SameSlot(en[v], f), f.step = "Precommit",
         f.prevotes = en[v].prevotes,
         f.precommits = AddVote(en[v].precommits, v, h)
  PROVE  Inv([en EXCEPT ![v] = f], va,
             ms \cup {Vote("precommit", v, en[v], h)}, co, ve)
<1> DEFINE fn == [en EXCEPT ![v] = f]
           p == Vote("precommit", v, en[v], h)
           ns == ms \cup {p}
<1>0. /\ fn \in [Correct -> EngineState] /\ en \in [Correct -> EngineState]
      /\ fn[v] = f /\ \A u \in Correct : u # v => fn[u] = en[u]
  BY DEF Inv, StateTypes
<1>b. /\ en[v] \in EngineState /\ en[v].precommits \in VoteSets
      /\ None \notin Hashes /\ v \in Validators /\ h \in Hashes
  BY <1>0, BlockAssumption DEF EngineState, Hashes, Correct, MajorityHash
<1>f. /\ p.type = "precommit" /\ p.validator = v /\ p.hash = h
      /\ p.height = en[v].height /\ p.round = en[v].round
      /\ SameSlot(p, en[v]) /\ p \in Messages
  BY <1>b DEF Vote, SameSlot, Messages, Votes, EngineState
<1>1. StateTypes(fn, va, ns, co, ve)
  BY <1>0, <1>f DEF Inv, StateTypes
<1>c. en[v].precommits[v] = None
  BY OwnVotes
<1>d. /\ f.precommits[v] = h
      /\ \A u \in Validators : u # v => f.precommits[u] = en[v].precommits[u]
  BY <1>b, <1>c DEF AddVote, VoteSets
<1>a. \A x : /\ SameSlot(x, en[v]) => SameSlot(x, f)
             /\ Before(x, en[v]) => Before(x, f)
  BY DEF Before, SameSlot
<1>g. \A m \in ms : ~ (m.type = "precommit" /\ m.validator = v /\ SameSlot(m, en[v]))
  BY OwnVotes, SMTT(60) DEF Recorded
<1>2. SentIsRecorded(fn, ns)
  <2>1. ASSUME NEW m \in ms
        PROVE  /\ m.validator \in Correct
               /\ m.type # "proposal" =>
                    \/ Before(m, fn[m.validator])
                    \/ /\ SameSlot(m, fn[m.validator])
                       /\ Recorded(m, fn[m.validator])
    <3>1. /\ m.validator \in Correct
          /\ m.type # "proposal" =>
               \/ Before(m, en[m.validator])
               \/ SameSlot(m, en[m.validator]) /\ Recorded(m, en[m.validator])
      BY DEF Inv, SentIsRecorded
    <3> QED
      BY <1>0, <1>a, <1>g, <3>1 DEF Recorded
  <2>2. SameSlot(p, fn[v]) /\ Recorded(p, fn[v])
    BY <1>0, <1>a, <1>d, <1>f DEF Recorded
  <2> QED
    BY <1>f, <2>1, <2>2 DEF SentIsRecorded
<1>3. CountedWasSent(fn, ns)
  <2>1. \A t, u, x : Vote(t, u, f, x) = Vote(t, u, en[v], x)
    BY DEF Vote, SameSlot
  <2>2. ASSUME NEW u \in Correct
        PROVE  /\ f.prevotes[u] # None =>
                    Vote("prevote", u, f, f.prevotes[u]) \in ns
               /\ f.precommits[u] # None =>
                    Vote("precommit", u, f, f.precommits[u]) \in ns
    <3>1. u \in Validators
      BY DEF Correct
    <3>2. /\ en[v].prevotes[u] # None =>
               Vote("prevote", u, en[v], en[v].prevotes[u]) \in ms
          /\ en[v].precommits[u] # None =>
               Vote("precommit", u, en[v], en[v].precommits[u]) \in ms
      BY DEF Inv, CountedWasSent
    <3> QED
      BY <1>d, <2>1, <3>1, <3>2, SMTT(60)
  <2> QED
    BY <1>0, <2>2 DEF Inv, CountedWasSent
<1>4. ValidatingIsFresh(fn, va)
  BY <1>0, <1>a DEF Inv, ValidatingIsFresh
<1>5. LockInPrecommit(fn)
  BY <1>0 DEF Inv, LockInPrecommit
<1>6. PrecommitJustified(ns) /\ CommitJustified(ns, co)
  <2>1. HasQuorum(BackersIn(ms, "prevote", en[v], h))
    BY <1>b, MajorityHasBackers
  <2>2. BackersIn(ns, "prevote", p, h) = BackersIn(ns, "prevote", en[v], h)
    BY <1>f DEF BackersIn
  <2>3. HasQuorum(BackersIn(ns, "prevote", p, p.hash))
    BY <1>f, <2>1, <2>2, BackersMonotone, SMTT(60)
  <2> QED
    BY <2>3, BackersMonotone, SMTT(60) DEF Inv, PrecommitJustified, CommitJustified
<1>7. PrevoteJustified(ns, ve)
  BY <1>f DEF Inv, PrevoteJustified
<1>8. SignedOnce(ns)
  <2>1. \A m \in ms : ~ DoubleSign(m, p) /\ ~ DoubleSign(p, m)
    BY <1>f, <1>g DEF DoubleSign, SameSlot
  <2>2. ~ DoubleSign(p, p)
    BY DEF DoubleSign
  <2> QED
    BY <2>1, <2>2 DEF Inv, SignedOnce
<1> QED
  BY <1>1, <1>2, <1>3, <1>4, <1>5, <1>6, <1>7, <1>8 DEF Inv

\* A commit event with a quorum behind it is recorded.
LEMMA RecordCommit ==
  ASSUME NEW en, NEW va, NEW ms, NEW co, NEW ve, Inv(en, va, ms, co, ve),
         NEW c \in CommitEvents, HasQuorum(BackersIn(ms, "precommit", c, c.hash))
  PROVE  Inv(en, va, ms, co \cup {c}, ve)
BY DEF Inv, StateTypes, CommitJustified

\* A validation returns without a vote, or its proposal is broadcast.
LEMMA ReturnCall ==
  ASSUME NEW en, NEW va, NEW ms, NEW co, NEW ve, Inv(en, va, ms, co, ve),
         NEW v \in Correct, NEW c
  PROVE  Inv(en, [va EXCEPT ![v] = @ \ {c}], ms, co, ve)
<1> DEFINE vb == [va EXCEPT ![v] = @ \ {c}]
<1>1. /\ vb \in [Correct -> SUBSET Calls]
      /\ \A w \in Correct : vb[w] \subseteq va[w]
  BY DEF Inv, StateTypes
<1>2. ValidatingIsFresh(en, vb)
  BY <1>1 DEF Inv, ValidatingIsFresh
<1> QED
  BY <1>1, <1>2 DEF Inv, StateTypes

\* Proposals of a correct engine join the messages.
LEMMA SendProposal ==
  ASSUME NEW en, NEW va, NEW ms, NEW co, NEW ve, Inv(en, va, ms, co, ve),
         NEW ps, ps \subseteq Proposals, \A p \in ps : p.validator \in Correct
  PROVE  Inv(en, va, ms \cup ps, co, ve)
<1> DEFINE ns == ms \cup ps
<1>0. \A p \in ps : p.type = "proposal"
  BY DEF Proposals
<1>1. StateTypes(en, va, ns, co, ve)
  BY DEF Inv, StateTypes, Messages
<1>2. SentIsRecorded(en, ns)
  BY <1>0 DEF Inv, SentIsRecorded
<1>3. CountedWasSent(en, ns)
  BY DEF Inv, CountedWasSent
<1>4. PrecommitJustified(ns) /\ CommitJustified(ns, co)
  BY <1>0, BackersMonotone DEF Inv, PrecommitJustified, CommitJustified
<1>5. PrevoteJustified(ns, ve)
  BY <1>0 DEF Inv, PrevoteJustified
<1>6. SignedOnce(ns)
  BY <1>0 DEF Inv, SignedOnce, DoubleSign
<1> QED
  BY <1>1, <1>2, <1>3, <1>4, <1>5, <1>6 DEF Inv

----------------------------------------------------------------------------
(* The cascades that run under one acquisition of e.mu.                    *)

\* The empty vote sets are vote sets.
LEMMA NoVotesType == NoVotes \in VoteSets
BY DEF NoVotes, VoteSets

\* The functions on an engine's fields, and how they move its slot.
LEMMA EngineTypes ==
  ASSUME NEW e \in EngineState
  PROVE  /\ ResetVotes(e) \in EngineState
         /\ EnterNextRound(e) \in EngineState
         /\ Before(e, EnterNextRound(e))
         /\ EnterNextRound(e).prevotes = NoVotes
         /\ EnterNextRound(e).precommits = NoVotes
         /\ EnterNextRound(e).lockedRound = -1
         /\ \A b \in Blocks :
              /\ AdvanceHeight(e, b) \in EngineState
              /\ Before(e, AdvanceHeight(e, b))
              /\ AdvanceHeight(e, b).prevotes = NoVotes
              /\ AdvanceHeight(e, b).precommits = NoVotes
              /\ AdvanceHeight(e, b).lockedRound = -1
<1> DEFINE r == ResetVotes(e)
<1>1. /\ r \in EngineState /\ r.height = e.height /\ r.round = e.round
      /\ r.prevotes = NoVotes /\ r.precommits = NoVotes
  BY NoVotesType DEF ResetVotes, EngineState
<1>2. /\ Nil \in Hashes /\ "NewRound" \in Steps /\ e.round \in Nat /\ e.height \in Nat
      /\ e.round + 1 \in Nat /\ e.height + 1 \in Nat /\ 0 \in Nat /\ -1 \in Int
  BY SMTT(60) DEF Hashes, Steps, EngineState
<1> HIDE DEF r
<1>3. /\ EnterNextRound(e) \in EngineState
      /\ Before(e, EnterNextRound(e))
      /\ EnterNextRound(e).prevotes = NoVotes
      /\ EnterNextRound(e).precommits = NoVotes
      /\ EnterNextRound(e).lockedRound = -1
  <2> DEFINE f == [r EXCEPT !.round = e.round + 1, !.step = "NewRound",
                            !.lockedRound = -1, !.lockedHash = Nil]
  <2>1. f \in EngineState
    BY <1>1, <1>2, ZenonT(40) DEF EngineState
  <2>2. /\ f.height = r.height /\ f.round = e.round + 1
        /\ f.prevotes = r.prevotes /\ f.precommits = r.precommits
        /\ f.lockedRound = -1
    BY <1>1 DEF EngineState
  <2> QED
    BY <1>1, <1>2, <2>1, <2>2, SMTT(60) DEF EnterNextRound, Before, r
<1>4. ASSUME NEW b \in Blocks
      PROVE  /\ AdvanceHeight(e, b) \in EngineState
             /\ Before(e, AdvanceHeight(e, b))
             /\ AdvanceHeight(e, b).prevotes = NoVotes
             /\ AdvanceHeight(e, b).precommits = NoVotes
             /\ AdvanceHeight(e, b).lockedRound = -1
  <2> DEFINE f == [r EXCEPT !.height = e.height + 1, !.round = 0,
                            !.step = "NewRound", !.parent = b,
                            !.lockedRound = -1, !.lockedHash = Nil]
  <2>1. f \in EngineState
    BY <1>1, <1>2, ZenonT(40) DEF EngineState
  <2>2. /\ f.height = e.height + 1
        /\ f.prevotes = r.prevotes /\ f.precommits = r.precommits
        /\ f.lockedRound = -1
    BY <1>1 DEF EngineState
  <2> QED
    BY <1>1, <1>2, <2>1, <2>2, SMTT(60) DEF AdvanceHeight, Before, r
<1> QED
  BY <1>1, <1>3, <1>4 DEF r

\* tryAfterPrecommitLocked: nothing, the next round, or a commit.
LEMMA AfterPrecommit ==
  ASSUME NEW en, NEW va, NEW ms, NEW co, NEW ve, Inv(en, va, ms, co, ve),
         NEW v \in Correct, NEW votes
  PROVE  LET out == TryAfterPrecommit(v, en[v], votes)
         IN  /\ out.votes = votes
             /\ Inv([en EXCEPT ![v] = out.eng], va, ms, co \cup out.commits, ve)
<1> DEFINE e == en[v]
           out == TryAfterPrecommit(v, e, votes)
           M == MajorityHash(e.precommits)
<1>0. en \in [Correct -> EngineState] /\ e \in EngineState
  BY DEF Inv, StateTypes
<1>1. CASE out = Outcome(e, votes, {})
  <2>1. out.votes = votes /\ out.eng = e /\ out.commits = {}
    BY <1>1, SMTT(60) DEF Outcome
  <2>2. [en EXCEPT ![v] = e] = en /\ co \cup {} = co
    BY <1>0
  <2> QED
    BY <2>1, <2>2
<1>2. CASE out = Outcome(EnterNextRound(e), votes, {})
  <2>1. out.votes = votes /\ out.eng = EnterNextRound(e) /\ co \cup out.commits = co
    BY <1>2, SMTT(60) DEF Outcome
  <2>2. Inv([en EXCEPT ![v] = EnterNextRound(e)], va, ms, co, ve)
    BY <1>0, EngineTypes, LeaveSlot
  <2> QED
    BY <2>1, <2>2
<1>3. ASSUME NEW h \in M, h # Nil, out = EnterCommit(v, e, h, votes), e.proposal = h
      PROVE  /\ out.votes = votes
             /\ Inv([en EXCEPT ![v] = out.eng], va, ms, co \cup out.commits, ve)
  <2> DEFINE b == IF e.hasBlock THEN h ELSE e.parent
             c == [validator |-> v, height |-> e.height, round |-> e.round,
                   hash |-> h, block |-> e.hasBlock]
  <2>0. h \in Hashes /\ h \in Blocks /\ b \in Blocks
    BY <1>0, <1>3 DEF MajorityHash, Hashes, EngineState
  <2>1. out.votes = votes /\ out.eng = AdvanceHeight(e, b) /\ out.commits = {c}
    BY <1>3, SMTT(60) DEF EnterCommit, Outcome
  <2>2. Inv([en EXCEPT ![v] = AdvanceHeight(e, b)], va, ms, co, ve)
    BY <1>0, <2>0, EngineTypes, LeaveSlot
  <2>3. c \in CommitEvents
    BY <1>0, <2>0 DEF CommitEvents, EngineState, Correct
  <2>4. HasQuorum(BackersIn(ms, "precommit", c, c.hash))
    <3>1. HasQuorum(BackersIn(ms, "precommit", e, h))
      BY <1>3, <2>0, MajorityHasBackers
    <3> QED
      BY <3>1 DEF BackersIn
  <2> QED
    BY <2>1, <2>2, <2>3, <2>4, RecordCommit
<1>4. CASE e.step # "Precommit" \/ M = {}
  BY <1>1, <1>4 DEF TryAfterPrecommit
<1>5. CASE e.step = "Precommit" /\ M # {}
  <2> DEFINE h == CHOOSE x \in M : TRUE
  <2>1. h \in M
    BY <1>5
  <2>2. out = IF h = Nil THEN Outcome(EnterNextRound(e), votes, {})
                         ELSE EnterCommit(v, e, h, votes)
    BY <1>5 DEF TryAfterPrecommit
  <2>3. CASE h # Nil /\ e.proposal # h
    BY <1>1, <2>2, <2>3 DEF EnterCommit
  <2> QED
    BY <1>2, <1>3, <2>1, <2>2, <2>3
<1> QED
  BY <1>4, <1>5

\* tryAfterPrevoteLocked: nothing, or a precommit and what follows from it.
LEMMA AfterPrevote ==
  ASSUME NEW en, NEW va, NEW ms, NEW co, NEW ve, Inv(en, va, ms, co, ve),
         NEW v \in Correct, NEW votes
  PROVE  LET out == TryAfterPrevote(v, en[v], votes)
         IN  \E new : /\ out.votes = votes \cup new
                      /\ \A m \in new : m.validator = v /\ SameSlot(m, en[v])
                      /\ Inv([en EXCEPT ![v] = out.eng], va, ms \cup new,
                             co \cup out.commits, ve)
<1> DEFINE e == en[v]
           out == TryAfterPrevote(v, e, votes)
           M == MajorityHash(e.prevotes)
<1>0. en \in [Correct -> EngineState] /\ e \in EngineState
  BY DEF Inv, StateTypes
<1>1. CASE e.step # "Prevote" \/ M = {}
  <2>1. out = Outcome(e, votes, {})
    BY <1>1 DEF TryAfterPrevote
  <2>2. out.votes = votes \cup {} /\ out.eng = e /\ co \cup out.commits = co
    BY <2>1, SMTT(60) DEF Outcome
  <2>3. [en EXCEPT ![v] = e] = en /\ ms \cup {} = ms
    BY <1>0
  <2> QED
    BY <2>2, <2>3
<1>2. CASE e.step = "Prevote" /\ M # {}
  <2> DEFINE h == CHOOSE x \in M : TRUE
             p == Vote("precommit", v, e, h)
             f == [e EXCEPT
                    !.step = "Precommit",
                    !.lockedRound = IF h = Nil THEN @ ELSE e.round,
                    !.lockedHash = IF h = Nil THEN @ ELSE h,
                    !.precommits = AddVote(@, v, h)]
             fn == [en EXCEPT ![v] = f]
  <2>1. h \in M /\ h \in Hashes
    BY <1>2 DEF MajorityHash
  <2>2. out = TryAfterPrecommit(v, f, votes \cup {p})
    BY <1>2 DEF TryAfterPrevote, EnterPrecommit
  <2>3. AddVote(e.precommits, v, h) \in VoteSets
    BY <1>0, <2>1 DEF AddVote, VoteSets, EngineState, Correct
  <2> HIDE DEF h
  <2>4. /\ f \in EngineState /\ SameSlot(e, f) /\ f.step = "Precommit"
        /\ f.prevotes = e.prevotes /\ f.precommits = AddVote(e.precommits, v, h)
    <3>1. "Precommit" \in Steps /\ e.round \in Int
      BY <1>0, SMTT(60) DEF Steps, EngineState
    <3>2. f \in EngineState
      BY <1>0, <2>1, <2>3, <3>1 DEF EngineState
    <3> QED
      BY <1>0, <3>2 DEF EngineState, SameSlot
  <2> HIDE DEF f
  <2>5. Inv(fn, va, ms \cup {p}, co, ve)
    BY <1>2, <2>1, <2>4, CastPrecommit
  <2>6. fn[v] = f /\ [fn EXCEPT ![v] = out.eng] = [en EXCEPT ![v] = out.eng]
    BY <1>0
  <2>7. /\ out.votes = votes \cup {p}
        /\ Inv([fn EXCEPT ![v] = out.eng], va, ms \cup {p}, co \cup out.commits, ve)
    <3> DEFINE o == TryAfterPrecommit(v, fn[v], votes \cup {p})
    <3>1. /\ o.votes = votes \cup {p}
          /\ Inv([fn EXCEPT ![v] = o.eng], va, ms \cup {p}, co \cup o.commits, ve)
      BY <2>5, AfterPrecommit
    <3>2. o = out
      BY <2>2, <2>6
    <3> HIDE DEF o, out
    <3> QED
      BY <3>1, <3>2
  <2>8. p.validator = v /\ SameSlot(p, e)
    BY DEF Vote, SameSlot
  <2> QED
    BY <2>6, <2>7, <2>8
<1> QED
  BY <1>1, <1>2

----------------------------------------------------------------------------
(* The invariant is inductive: one lemma per handler with a cascade, then  *)
(* one step per action.                                                    *)

\* The votes a step adds are of the slot their engine was in.
NewVotesCurrent ==
  \A m \in msgs' \ msgs : m.type # "proposal" => SameSlot(m, eng[m.validator])

\* The part of the invariant about a state of the specification.
NowInv == Inv(eng, validating, msgs, commits, verdicts)

\* FinishPrevote keeps the invariant and votes for its current slot.
LEMMA FinishPrevoteStep ==
  ASSUME NowInv, NEW v \in Correct, NEW c \in validating[v], NEW ok \in BOOLEAN,
         FinishPrevote(v, c, ok)
  PROVE  NowInv' /\ NewVotesCurrent
<1> DEFINE e == eng[v]
           h == IF e.lockedRound >= 0 /\ e.lockedHash # Nil THEN e.lockedHash
                ELSE IF ok THEN c.hash ELSE Nil
           current == e.height = c.height /\ e.round = c.round /\ e.step = "Prevote"
           f == [e EXCEPT !.prevotes = AddVote(@, v, h)]
           p == Vote("prevote", v, e, h)
           out == IF current THEN TryAfterPrevote(v, f, {p}) ELSE Outcome(e, {}, {})
           prop == [type |-> "proposal", height |-> c.height, round |-> c.round,
                    validator |-> v, hash |-> c.hash, block |-> TRUE]
           ps == IF c.own THEN {prop} ELSE {}
           vb == [validating EXCEPT ![v] = @ \ {c}]
<1>0. /\ eng \in [Correct -> EngineState] /\ e \in EngineState /\ v \in Validators
      /\ c \in Calls /\ Nil \notin Blocks
  BY BlockAssumption DEF NowInv, Inv, StateTypes, Correct
<1>1. /\ validating' = vb
      /\ eng' = [eng EXCEPT ![v] = out.eng]
      /\ msgs' = msgs \cup ps \cup out.votes
      /\ commits' = commits \cup out.commits
      /\ current => ValidateProposal(e, c.hash, ok)
      /\ verdicts' = IF current /\ ok
           THEN verdicts \cup {[validator |-> v, height |-> e.height,
                  round |-> e.round, parent |-> e.parent, hash |-> c.hash]}
           ELSE verdicts
  BY DEF FinishPrevote, Flush
<1>2. ps \subseteq Proposals /\ \A x \in ps : x.validator \in Correct /\ x.type = "proposal"
  <2>1. c.height \in Nat /\ c.round \in Nat /\ (c.own => c.hash \in Blocks)
    BY <1>0 DEF Calls, Hashes
  <2>2. /\ c.own => prop \in Proposals
        /\ prop.validator = v /\ prop.type = "proposal"
    BY <1>0, <2>1 DEF Proposals
  <2> HIDE DEF prop
  <2>3. (ps = {prop} /\ c.own) \/ ps = {}
    OBVIOUS
  <2> HIDE DEF ps
  <2> QED
    BY <2>2, <2>3
<1>3. CASE ~ current
  <2>1. out.eng = e /\ out.votes = {} /\ out.commits = {}
    BY <1>3 DEF Outcome
  <2>2. /\ eng' = eng /\ msgs' = msgs \cup ps /\ commits' = commits
        /\ verdicts' = verdicts
    BY <1>0, <1>1, <1>3, <2>1
  <2>3. Inv(eng, vb, msgs, commits, verdicts)
    BY ReturnCall DEF NowInv
  <2>4. Inv(eng, vb, msgs \cup ps, commits, verdicts)
    BY <1>2, <2>3, SendProposal
  <2> QED
    BY <1>1, <1>2, <2>2, <2>4 DEF NowInv, NewVotesCurrent
<1>4. CASE current
  <2> DEFINE fn == [eng EXCEPT ![v] = f]
             d == [validator |-> v, height |-> e.height, round |-> e.round,
                   parent |-> e.parent, hash |-> c.hash]
  <2>1. h = IF ok THEN c.hash ELSE Nil
    BY <1>0, <1>4 DEF NowInv, Inv, LockInPrecommit
  <2>2. ok => <<e.parent, c.hash>> \in Executes /\ c.hash \in Blocks
    BY <1>1, <1>4, BlockAssumption DEF ValidateProposal
  <2>3. h \in Hashes
    BY <2>1, <2>2 DEF Hashes
  <2> HIDE DEF h
  <2>4. AddVote(e.prevotes, v, h) \in VoteSets
    BY <1>0, <2>3 DEF AddVote, VoteSets, EngineState
  <2>5. f \in EngineState
    BY <1>0, <2>4 DEF EngineState
  <2>6. /\ verdicts' \subseteq Verdicts /\ verdicts \subseteq verdicts'
        /\ VerdictJustified(verdicts')
        /\ h # Nil => \E x \in verdicts' : SameSlot(e, x) /\ x.hash = h
    <3>1. verdicts \subseteq Verdicts /\ VerdictJustified(verdicts)
      BY DEF NowInv, Inv, StateTypes
    <3>2. CASE ~ ok
      BY <1>1, <2>1, <3>1, <3>2
    <3>3. CASE ok
      <4>1. verdicts' = verdicts \cup {d}
        BY <1>1, <1>4, <3>3
      <4>2. d \in Verdicts
        BY <1>0, <2>2, <3>3 DEF Verdicts, EngineState
      <4>3. SameSlot(e, d) /\ d.hash = h
        BY <2>1, <3>3 DEF SameSlot
      <4> QED
        BY <2>2, <3>1, <3>3, <4>1, <4>2, <4>3, SMTT(60) DEF VerdictJustified
    <3> QED
      BY <3>2, <3>3
  <2>7. SameSlot(c, e) /\ e.step = "Prevote"
    BY <1>4 DEF SameSlot
  <2>8. Inv(fn, vb, msgs \cup {p}, commits, verdicts')
    <3> HIDE DEF f
    <3>1. f = [eng[v] EXCEPT !.prevotes = AddVote(@, v, h)]
      BY DEF f
    <3> QED
      BY <2>3, <2>5, <2>6, <2>7, <3>1, CastPrevote DEF NowInv
  <2>9. Inv(fn, vb, msgs \cup {p} \cup ps, commits, verdicts')
    BY <1>2, <2>8, SendProposal
  <2>10. fn[v] = f
    BY <1>0
  <2>11. out = TryAfterPrevote(v, fn[v], {p})
    BY <1>4, <2>10
  <2> HIDE DEF f, p, ps
  <2>12. PICK new : /\ out.votes = {p} \cup new
                    /\ \A m \in new : m.validator = v /\ SameSlot(m, fn[v])
                    /\ Inv([fn EXCEPT ![v] = out.eng], vb,
                           (msgs \cup {p} \cup ps) \cup new,
                           commits \cup out.commits, verdicts')
    <3> DEFINE o == TryAfterPrevote(v, fn[v], {p})
    <3>1. \E new : /\ o.votes = {p} \cup new
                   /\ \A m \in new : m.validator = v /\ SameSlot(m, fn[v])
                   /\ Inv([fn EXCEPT ![v] = o.eng], vb,
                          (msgs \cup {p} \cup ps) \cup new,
                          commits \cup o.commits, verdicts')
      BY <2>9, AfterPrevote
    <3> HIDE DEF o, out
    <3> QED
      BY <2>11, <3>1 DEF o
  <2> HIDE DEF out
  <2>13. /\ [fn EXCEPT ![v] = out.eng] = eng'
         /\ (msgs \cup {p} \cup ps) \cup new = msgs'
    BY <1>0, <1>1, <2>12
  <2>14. NowInv'
    BY <1>1, <2>12, <2>13 DEF NowInv
  <2>15. \A m \in {p} \cup new : m.validator = v /\ SameSlot(m, eng[v])
    BY <1>0, <2>10, <2>12, SMTT(60) DEF f, p, Vote, SameSlot, EngineState
  <2> QED
    BY <1>2, <2>13, <2>14, <2>15 DEF NewVotesCurrent
<1> QED
  BY <1>3, <1>4

\* HandleVote keeps the invariant and votes for its current slot.
LEMMA HandleVoteStep ==
  ASSUME NowInv, NEW v \in Correct, NEW m \in msgs \cup FaultyVotes,
         m.type # "proposal", HandleVote(v, m)
  PROVE  NowInv' /\ NewVotesCurrent
<1> DEFINE e == eng[v]
           w == m.validator
<1>0. /\ eng \in [Correct -> EngineState] /\ e \in EngineState
      /\ msgs \subseteq Messages
  BY DEF NowInv, Inv, StateTypes
<1>1. /\ m.type \in {"prevote", "precommit"} /\ w \in Validators
      /\ m.hash \in Hashes
      /\ m = [type |-> m.type, height |-> m.height, round |-> m.round,
              validator |-> m.validator, hash |-> m.hash]
  <2>1. m \in Votes
    BY <1>0, PowerAssumption, SMTT(60)
    DEF Messages, Proposals, Votes, FaultyVotes, Heights, Rounds
  <2> QED
    BY <2>1 DEF Votes
<1>2. m.height = e.height /\ m.round = e.round /\ validating' = validating
      /\ verdicts' = verdicts
  BY DEF HandleVote
<1>3. w \in Correct => Vote(m.type, w, e, m.hash) \in msgs
  <2>1. Vote(m.type, w, e, m.hash) = m
    BY <1>1, <1>2 DEF Vote
  <2>2. m \in FaultyVotes => w \in Faulty
    BY DEF FaultyVotes
  <2> QED
    BY <2>1, <2>2 DEF Correct
<1>4. CASE m.type = "prevote"
  <2> DEFINE f == [e EXCEPT !.prevotes = AddVote(@, w, m.hash)]
             out == TryAfterPrevote(v, f, {})
             fn == [eng EXCEPT ![v] = f]
  <2>1. /\ e.prevotes[w] = None
        /\ eng' = [eng EXCEPT ![v] = out.eng]
        /\ msgs' = msgs \cup {} \cup out.votes
        /\ commits' = commits \cup out.commits
    BY <1>4 DEF HandleVote, Flush
  <2>2. f \in EngineState
    <3>1. AddVote(e.prevotes, w, m.hash) \in VoteSets
      BY <1>0, <1>1 DEF AddVote, VoteSets, EngineState
    <3> QED
      BY <1>0, <3>1 DEF EngineState
  <2>3. Inv(fn, validating, msgs, commits, verdicts)
    <3> HIDE DEF f
    <3>1. f = [eng[v] EXCEPT !.prevotes = AddVote(@, w, m.hash)]
      BY DEF f
    <3> QED
      BY <1>1, <1>3, <1>4, <2>1, <2>2, <3>1, CountVote DEF NowInv
  <2>4. fn[v] = f /\ f.height = e.height /\ f.round = e.round
    BY <1>0 DEF EngineState
  <2>5. out = TryAfterPrevote(v, fn[v], {})
    BY <2>4
  <2> HIDE DEF f
  <2>6. PICK new : /\ out.votes = {} \cup new
                   /\ \A x \in new : x.validator = v /\ SameSlot(x, fn[v])
                   /\ Inv([fn EXCEPT ![v] = out.eng], validating, msgs \cup new,
                          commits \cup out.commits, verdicts)
    <3> DEFINE o == TryAfterPrevote(v, fn[v], {})
    <3>1. \E new : /\ o.votes = {} \cup new
                   /\ \A x \in new : x.validator = v /\ SameSlot(x, fn[v])
                   /\ Inv([fn EXCEPT ![v] = o.eng], validating, msgs \cup new,
                          commits \cup o.commits, verdicts)
      BY <2>3, AfterPrevote, ZenonT(60)
    <3> HIDE DEF o, out
    <3> QED
      BY <2>5, <3>1 DEF o
  <2> HIDE DEF out
  <2>7. [fn EXCEPT ![v] = out.eng] = eng' /\ msgs \cup new = msgs'
    BY <1>0, <2>1, <2>6
  <2> QED
    BY <1>2, <2>1, <2>4, <2>6, <2>7 DEF NowInv, NewVotesCurrent, SameSlot
<1>5. CASE m.type = "precommit"
  <2> DEFINE f == [e EXCEPT !.precommits = AddVote(@, w, m.hash)]
             out == TryAfterPrecommit(v, f, {})
             fn == [eng EXCEPT ![v] = f]
  <2>1. /\ e.precommits[w] = None
        /\ eng' = [eng EXCEPT ![v] = out.eng]
        /\ msgs' = msgs \cup {} \cup out.votes
        /\ commits' = commits \cup out.commits
    BY <1>5 DEF HandleVote, Flush
  <2>2. f \in EngineState
    <3>1. AddVote(e.precommits, w, m.hash) \in VoteSets
      BY <1>0, <1>1 DEF AddVote, VoteSets, EngineState
    <3> QED
      BY <1>0, <3>1 DEF EngineState
  <2>3. Inv(fn, validating, msgs, commits, verdicts)
    <3> HIDE DEF f
    <3>1. f = [eng[v] EXCEPT !.precommits = AddVote(@, w, m.hash)]
      BY DEF f
    <3> QED
      BY <1>1, <1>3, <1>5, <2>1, <2>2, <3>1, CountVote DEF NowInv
  <2>4. fn[v] = f
    BY <1>0
  <2> HIDE DEF f
  <2>5. /\ out.votes = {}
        /\ Inv([fn EXCEPT ![v] = out.eng], validating, msgs,
               commits \cup out.commits, verdicts)
    <3> DEFINE o == TryAfterPrecommit(v, fn[v], {})
    <3>1. /\ o.votes = {}
          /\ Inv([fn EXCEPT ![v] = o.eng], validating, msgs,
                 commits \cup o.commits, verdicts)
      BY <2>3, AfterPrecommit
    <3>2. o = out
      BY <2>4
    <3> HIDE DEF o, out
    <3> QED
      BY <3>1, <3>2
  <2> HIDE DEF out
  <2>6. [fn EXCEPT ![v] = out.eng] = eng' /\ msgs = msgs'
    BY <1>0, <2>1, <2>5
  <2> QED
    BY <1>2, <2>1, <2>5, <2>6 DEF NowInv, NewVotesCurrent
<1> QED
  BY <1>1, <1>4, <1>5

\* The engines start in IndInv.
LEMMA InitInv == Init => IndInv
<1> SUFFICES ASSUME Init PROVE IndInv
  OBVIOUS
<1>1. NewEngine(Genesis) \in EngineState
  BY BlockAssumption, NoVotesType, SMTT(60) DEF NewEngine, EngineState, Steps, Hashes
<1>2. TypeOK
  BY <1>1 DEF Init, TypeOK
<1>3. \A v \in Correct :
        /\ eng[v].lockedRound = -1
        /\ \A w \in Correct : eng[v].prevotes[w] = None /\ eng[v].precommits[w] = None
  BY DEF Init, NewEngine, NoVotes, Correct
<1> QED
  BY <1>2, <1>3, SMTT(60) DEF Init, IndInv, Inv, TypeOK, StateTypes, SentIsRecorded,
     CountedWasSent, ValidatingIsFresh, LockInPrecommit, PrecommitJustified,
     PrevoteJustified, VerdictJustified, CommitJustified, SignedOnce

\* Every action keeps the invariant and signs only for the current slot.
LEMMA StepInv ==
  ASSUME IndInv, [Next]_vars
  PROVE  IndInv' /\ NewVotesCurrent
<1>0. /\ NowInv /\ TypeOK /\ eng \in [Correct -> EngineState]
      /\ validating \in [Correct -> SUBSET Calls]
  BY DEF IndInv, NowInv, TypeOK
<1>t. NowInv' /\ (building \in [Correct -> SUBSET Slots])'
      /\ (tick \in [Correct -> BOOLEAN])'
      => IndInv'
  BY DEF NowInv, IndInv, Inv, StateTypes, TypeOK
<1>1. ASSUME NEW v \in Correct, StartRound(v)
      PROVE  IndInv' /\ NewVotesCurrent
  <2> DEFINE e == eng[v]
             r == ResetVotes(e)
             f == [r EXCEPT !.step = "Propose"]
  <2>0. e \in EngineState
    BY <1>0
  <2>1. /\ r \in EngineState /\ r.height = e.height /\ r.round = e.round
        /\ r.prevotes = NoVotes /\ r.precommits = NoVotes
        /\ r.lockedRound = e.lockedRound
    <3>1. r \in EngineState
      BY <2>0, EngineTypes
    <3> HIDE DEF e
    <3> QED
      BY <2>0, <3>1 DEF ResetVotes, EngineState
  <2>2. eng' = [eng EXCEPT ![v] = f] /\ e.step = "NewRound"
    BY <1>1 DEF StartRound
  <2> HIDE DEF r
  <2>3. /\ f \in EngineState /\ f.height = r.height /\ f.round = r.round
        /\ f.prevotes = r.prevotes /\ f.precommits = r.precommits
        /\ f.lockedRound = r.lockedRound
    BY <2>1 DEF EngineState, Steps
  <2> HIDE DEF f
  <2>4. Inv([eng EXCEPT ![v] = f], validating, msgs, commits, verdicts)
    BY <1>0, <2>1, <2>2, <2>3, StayInSlot DEF NowInv, SameSlot
  <2>5. NowInv' /\ NewVotesCurrent
    BY <1>1, <2>2, <2>4 DEF StartRound, NowInv, NewVotesCurrent
  <2>6. (building \in [Correct -> SUBSET Slots])' /\ (tick \in [Correct -> BOOLEAN])'
    <3>1. SlotOf(e) \in Slots
      BY <2>0 DEF SlotOf, Slots, EngineState
    <3> QED
      BY <1>0, <1>1, <3>1 DEF StartRound, TypeOK
  <2> QED
    BY <1>t, <2>5, <2>6
<1>2. ASSUME NEW v \in Correct, NEW b \in Blocks, BuildProposal(v, b)
      PROVE  IndInv' /\ NewVotesCurrent
  <2> DEFINE e == eng[v]
             g == [e EXCEPT !.proposal = b, !.hasBlock = TRUE]
             f == [g EXCEPT !.step = "Prevote"]
             c == [height |-> g.height, round |-> g.round, hash |-> b, own |-> TRUE]
  <2>1. /\ g \in EngineState /\ g.height = e.height /\ g.round = e.round
        /\ g.prevotes = e.prevotes /\ g.precommits = e.precommits
        /\ g.lockedRound = e.lockedRound /\ e \in EngineState
    BY <1>0 DEF EngineState
  <2>2. /\ eng' = [eng EXCEPT ![v] = f] /\ e.step = "Propose"
        /\ validating' = [validating EXCEPT ![v] = @ \cup {c}]
    BY <1>2 DEF BuildProposal, EnterPrevote
  <2> HIDE DEF g
  <2>3. /\ f \in EngineState /\ f.height = g.height /\ f.round = g.round
        /\ f.prevotes = g.prevotes /\ f.precommits = g.precommits
        /\ f.lockedRound = g.lockedRound /\ f.step = "Prevote"
    BY <2>1 DEF EngineState, Steps
  <2>4. c \in Calls /\ c.height = e.height /\ c.round = e.round
    BY <2>1, BlockAssumption DEF Calls, Hashes, EngineState
  <2> HIDE DEF f, c
  <2>5. Inv([eng EXCEPT ![v] = f], [validating EXCEPT ![v] = @ \cup {c}],
            msgs, commits, verdicts)
    BY <1>0, <2>1, <2>2, <2>3, <2>4, BeginPrevote DEF NowInv, SameSlot
  <2>6. NowInv' /\ NewVotesCurrent
    BY <1>2, <2>2, <2>5 DEF BuildProposal, NowInv, NewVotesCurrent
  <2>7. (building \in [Correct -> SUBSET Slots])' /\ (tick \in [Correct -> BOOLEAN])'
    BY <1>0, <1>2 DEF BuildProposal, TypeOK
  <2> QED
    BY <1>t, <2>6, <2>7
<1>3. ASSUME NEW v \in Correct, NEW s \in building[v], AbandonBuild(v, s)
      PROVE  IndInv' /\ NewVotesCurrent
  <2>1. NowInv' /\ NewVotesCurrent
    BY <1>0, <1>3 DEF AbandonBuild, NowInv, NewVotesCurrent
  <2>2. (building \in [Correct -> SUBSET Slots])' /\ (tick \in [Correct -> BOOLEAN])'
    BY <1>0, <1>3 DEF AbandonBuild, TypeOK
  <2> QED
    BY <1>t, <2>1, <2>2
<1>4. ASSUME NEW v \in Correct, NEW m \in msgs \cup FaultyProposals,
             m.type = "proposal", HandleProposal(v, m)
      PROVE  IndInv' /\ NewVotesCurrent
  <2> DEFINE e == eng[v]
             g == [e EXCEPT !.proposal = m.hash, !.hasBlock = m.block]
             f == [g EXCEPT !.step = "Prevote"]
             c == [height |-> g.height, round |-> g.round,
                   hash |-> IF m.block THEN m.hash ELSE Nil, own |-> FALSE]
  <2>0. m.hash \in Blocks /\ m.block \in BOOLEAN
    <3>1. msgs \subseteq Messages
      BY <1>0 DEF TypeOK
    <3> QED
      BY <1>4, <3>1 DEF Messages, Proposals, Votes, FaultyProposals
  <2>1. /\ g \in EngineState /\ g.height = e.height /\ g.round = e.round
        /\ g.prevotes = e.prevotes /\ g.precommits = e.precommits
        /\ g.lockedRound = e.lockedRound /\ e \in EngineState /\ g.step = e.step
    BY <1>0, <2>0 DEF EngineState
  <2>2. (building \in [Correct -> SUBSET Slots])' /\ (tick \in [Correct -> BOOLEAN])'
    BY <1>0, <1>4 DEF HandleProposal, TypeOK
  <2>3. CASE e.step \in {"Propose", "NewRound"}
    <3>1. /\ eng' = [eng EXCEPT ![v] = f]
          /\ validating' = [validating EXCEPT ![v] = @ \cup {c}]
      BY <1>4, <2>3 DEF HandleProposal, EnterPrevote
    <3> HIDE DEF g
    <3>2. /\ f \in EngineState /\ f.height = g.height /\ f.round = g.round
          /\ f.prevotes = g.prevotes /\ f.precommits = g.precommits
          /\ f.lockedRound = g.lockedRound /\ f.step = "Prevote"
      BY <2>1 DEF EngineState, Steps
    <3>3. c \in Calls /\ c.height = e.height /\ c.round = e.round
      BY <2>0, <2>1 DEF Calls, Hashes, EngineState
    <3> HIDE DEF f, c
    <3>4. Inv([eng EXCEPT ![v] = f], [validating EXCEPT ![v] = @ \cup {c}],
              msgs, commits, verdicts)
      BY <1>0, <2>1, <2>3, <3>2, <3>3, BeginPrevote DEF NowInv, SameSlot
    <3>5. NowInv' /\ NewVotesCurrent
      BY <1>4, <3>1, <3>4 DEF HandleProposal, NowInv, NewVotesCurrent
    <3> QED
      BY <1>t, <2>2, <3>5
  <2>4. CASE e.step \notin {"Propose", "NewRound"}
    <3>1. eng' = [eng EXCEPT ![v] = g] /\ validating' = validating
      BY <1>4, <2>4 DEF HandleProposal
    <3> HIDE DEF g
    <3>2. Inv([eng EXCEPT ![v] = g], validating, msgs, commits, verdicts)
      BY <1>0, <2>1, StayInSlot DEF NowInv, SameSlot
    <3>3. NowInv' /\ NewVotesCurrent
      BY <1>4, <3>1, <3>2 DEF HandleProposal, NowInv, NewVotesCurrent
    <3> QED
      BY <1>t, <2>2, <3>3
  <2> QED
    BY <2>3, <2>4
<1>5. ASSUME NEW v \in Correct, NEW c \in validating[v], NEW ok \in BOOLEAN,
             FinishPrevote(v, c, ok)
      PROVE  IndInv' /\ NewVotesCurrent
  <2>1. (building \in [Correct -> SUBSET Slots])' /\ (tick \in [Correct -> BOOLEAN])'
    BY <1>0, <1>5 DEF FinishPrevote, TypeOK
  <2> QED
    BY <1>0, <1>5, <1>t, <2>1, FinishPrevoteStep
<1>6. ASSUME NEW v \in Correct, NEW m \in msgs \cup FaultyVotes,
             m.type # "proposal", HandleVote(v, m)
      PROVE  IndInv' /\ NewVotesCurrent
  <2>1. (building \in [Correct -> SUBSET Slots])' /\ (tick \in [Correct -> BOOLEAN])'
    BY <1>0, <1>6 DEF HandleVote, TypeOK
  <2> QED
    BY <1>0, <1>6, <1>t, <2>1, HandleVoteStep
<1>7. ASSUME NEW v \in Correct, TimeoutTick(v)
      PROVE  IndInv' /\ NewVotesCurrent
  <2>1. NowInv' /\ NewVotesCurrent
    BY <1>0, <1>7 DEF TimeoutTick, NowInv, NewVotesCurrent
  <2>2. (building \in [Correct -> SUBSET Slots])' /\ (tick \in [Correct -> BOOLEAN])'
    BY <1>0, <1>7 DEF TimeoutTick, TypeOK
  <2> QED
    BY <1>t, <2>1, <2>2
<1>8. ASSUME NEW v \in Correct, ForceTimeoutRound(v)
      PROVE  IndInv' /\ NewVotesCurrent
  <2>1. Inv([eng EXCEPT ![v] = EnterNextRound(eng[v])], validating, msgs,
            commits, verdicts)
    BY <1>0, EngineTypes, LeaveSlot DEF NowInv
  <2>2. NowInv' /\ NewVotesCurrent
    BY <1>8, <2>1 DEF ForceTimeoutRound, NowInv, NewVotesCurrent
  <2>3. (building \in [Correct -> SUBSET Slots])' /\ (tick \in [Correct -> BOOLEAN])'
    BY <1>0, <1>8 DEF ForceTimeoutRound, TypeOK
  <2> QED
    BY <1>t, <2>2, <2>3
<1>9. ASSUME NEW v \in Correct, NEW b \in Blocks, ApplySyncedBlock(v, b)
      PROVE  IndInv' /\ NewVotesCurrent
  <2>1. Inv([eng EXCEPT ![v] = AdvanceHeight(eng[v], b)], validating, msgs,
            commits, verdicts)
    BY <1>0, EngineTypes, LeaveSlot DEF NowInv
  <2>2. NowInv' /\ NewVotesCurrent
    BY <1>9, <2>1 DEF ApplySyncedBlock, NowInv, NewVotesCurrent
  <2>3. (building \in [Correct -> SUBSET Slots])' /\ (tick \in [Correct -> BOOLEAN])'
    BY <1>0, <1>9 DEF ApplySyncedBlock, TypeOK
  <2> QED
    BY <1>t, <2>2, <2>3
<1>10. CASE UNCHANGED vars
  <2>1. NowInv' /\ NewVotesCurrent
    BY <1>0, <1>10 DEF vars, NowInv, NewVotesCurrent
  <2>2. (building \in [Correct -> SUBSET Slots])' /\ (tick \in [Correct -> BOOLEAN])'
    BY <1>0, <1>10 DEF vars, TypeOK
  <2> QED
    BY <1>t, <2>1, <2>2
<1> QED
  BY <1>1, <1>2, <1>3, <1>4, <1>5, <1>6, <1>7, <1>8, <1>9, <1>10
  DEF Next, BoundReached

----------------------------------------------------------------------------
(* The theorems.                                                           *)

\* The invariant holds in every reachable state of the engines.
THEOREM Invariance == Spec => []IndInv
<1>1. IndInv /\ [Next]_vars => IndInv'
  BY StepInv
<1> QED
  BY <1>1, InitInv, PTL DEF Spec

\* Types: every field of every engine keeps the range the code gives it.
THEOREM TypeCorrect == Spec => []TypeOK
<1>1. IndInv => TypeOK
  BY DEF IndInv
<1> QED
  BY <1>1, Invariance, PTL

\* No interleaving of handlers, timeouts, syncs and late validations makes a
\* correct validator sign two votes that VerifyDoubleSign accepts.
THEOREM Accountability == Spec => []NoFalseEvidence
<1>1. IndInv => NoFalseEvidence
  BY DEF IndInv, Inv, SignedOnce, NoFalseEvidence
<1> QED
  BY <1>1, Invariance, PTL

\* Engines that commit in one height and round commit one block.
THEOREM SlotSafety == Spec => []SlotAgreement
<1>1. ASSUME IndInv PROVE SlotAgreement
  <2> SUFFICES ASSUME NEW c \in commits, NEW d \in commits, SameSlot(c, d)
               PROVE  c.hash = d.hash
    BY DEF SlotAgreement
  <2> DEFINE S == BackersIn(msgs, "precommit", c, c.hash)
             T == BackersIn(msgs, "precommit", d, d.hash)
  <2>1. HasQuorum(S) /\ HasQuorum(T)
    BY <1>1 DEF IndInv, Inv, CommitJustified
  <2>2. S \in SUBSET Validators /\ T \in SUBSET Validators
    BY PowerAssumption DEF BackersIn, Correct
  <2> HIDE DEF S, T
  <2>3. PICK w \in Correct : w \in S /\ w \in T
    BY <2>1, <2>2, QuorumsMeet
  <2> DEFINE m == [type |-> "precommit", height |-> c.height, round |-> c.round,
                   validator |-> w, hash |-> c.hash]
             n == [type |-> "precommit", height |-> d.height, round |-> d.round,
                   validator |-> w, hash |-> d.hash]
  <2>4. m \in msgs /\ n \in msgs
    BY <2>3 DEF S, T, BackersIn, Correct
  <2>5. ~ DoubleSign(m, n)
    BY <1>1, <2>4 DEF IndInv, Inv, SignedOnce
  <2> QED
    BY <2>5 DEF DoubleSign, SameSlot
<1> QED
  BY <1>1, Invariance, PTL

\* A committed block was executed with success by a correct validator in the
\* round that committed it.
THEOREM ExecutionSafety == Spec => []CommittedWasExecuted
<1>1. ASSUME IndInv PROVE CommittedWasExecuted
  <2> SUFFICES ASSUME NEW c \in commits
               PROVE  \E d \in verdicts :
                        /\ SameSlot(c, d) /\ c.hash = d.hash
                        /\ d.validator \in Correct
                        /\ <<d.parent, d.hash>> \in Executes
    BY DEF CommittedWasExecuted
  <2> DEFINE S == BackersIn(msgs, "precommit", c, c.hash)
  <2>0. c.hash # Nil
    <3>1. c \in CommitEvents
      BY <1>1 DEF IndInv, TypeOK
    <3> QED
      BY <3>1, BlockAssumption DEF CommitEvents
  <2>1. HasQuorum(S) /\ S \in SUBSET Validators
    BY <1>1, PowerAssumption DEF IndInv, Inv, CommitJustified, BackersIn, Correct
  <2>2. PICK w \in Correct : w \in S
    BY <2>1, QuorumsMeet
  <2> DEFINE m == [type |-> "precommit", height |-> c.height, round |-> c.round,
                   validator |-> w, hash |-> c.hash]
             T == BackersIn(msgs, "prevote", c, c.hash)
  <2>3. m \in msgs
    BY <2>2 DEF BackersIn, Correct
  <2>4. HasQuorum(T) /\ T \in SUBSET Validators
    <3>1. HasQuorum(BackersIn(msgs, "prevote", m, m.hash))
      BY <1>1, <2>0, <2>3 DEF IndInv, Inv, PrecommitJustified
    <3> QED
      BY <3>1, PowerAssumption DEF BackersIn, Correct
  <2>5. PICK u \in Correct : u \in T
    BY <2>4, QuorumsMeet
  <2> DEFINE n == [type |-> "prevote", height |-> c.height, round |-> c.round,
                   validator |-> u, hash |-> c.hash]
  <2>6. n \in msgs
    BY <2>5 DEF BackersIn, Correct
  <2>7. PICK d \in verdicts : SameSlot(n, d) /\ d.hash = n.hash
    BY <1>1, <2>0, <2>6 DEF IndInv, Inv, PrevoteJustified
  <2> QED
    BY <1>1, <2>7 DEF IndInv, Inv, VerdictJustified, SameSlot
<1> QED
  BY <1>1, Invariance, PTL

\* A vote leaves an engine only for the slot the engine is in.
THEOREM CurrentVotes == Spec => VotesAreCurrent
<1>1. IndInv /\ [Next]_vars =>
        [\A m \in msgs' \ msgs :
           m.type # "proposal" => SameSlot(m, eng[m.validator])]_vars
  BY StepInv DEF NewVotesCurrent
<1> QED
  BY <1>1, Invariance, PTL DEF Spec, VotesAreCurrent

----------------------------------------------------------------------------
(* The engines implement Decisions.                                        *)

\* What a cascade of handlers does to the height of its engine: it leaves it
\* alone, or it delivers one commit event for it and moves on to the next.
Moves(v, e, out) ==
  \/ out.commits = {} /\ out.eng.height = e.height
  \/ /\ out.eng.height = e.height + 1
     /\ \E c : out.commits = {c} /\ c.validator = v /\ c.height = e.height

\* Which of the functions on an engine move its height.
LEMMA HeightMoves ==
  ASSUME NEW e \in EngineState
  PROVE  /\ e.height \in Nat
         /\ ResetVotes(e).height = e.height
         /\ EnterNextRound(e).height = e.height
         /\ \A b : AdvanceHeight(e, b).height = e.height + 1
<1> DEFINE r == ResetVotes(e)
<1>1. r \in EngineState /\ r.height = e.height /\ e.height \in Nat
  BY NoVotesType DEF ResetVotes, EngineState
<1> HIDE DEF r
<1>2. [r EXCEPT !.round = e.round + 1, !.step = "NewRound",
                !.lockedRound = -1, !.lockedHash = Nil].height = r.height
  BY <1>1 DEF EngineState
<1>3. ASSUME NEW b
      PROVE  [r EXCEPT !.height = e.height + 1, !.round = 0, !.step = "NewRound",
                       !.parent = b, !.lockedRound = -1,
                       !.lockedHash = Nil].height = e.height + 1
  BY <1>1 DEF EngineState
<1> QED
  BY <1>1, <1>2, <1>3 DEF EnterNextRound, AdvanceHeight, r

\* tryAfterPrecommitLocked, with the commit it may enter.
LEMMA PrecommitMoves ==
  ASSUME NEW v, NEW e \in EngineState, NEW votes
  PROVE  Moves(v, e, TryAfterPrecommit(v, e, votes))
<1> DEFINE out == TryAfterPrecommit(v, e, votes)
           h == CHOOSE x \in MajorityHash(e.precommits) : TRUE
           b == IF e.hasBlock THEN h ELSE e.parent
           c == [validator |-> v, height |-> e.height, round |-> e.round,
                 hash |-> h, block |-> e.hasBlock]
<1>1. \/ out = Outcome(e, votes, {})
      \/ out = Outcome(EnterNextRound(e), votes, {})
      \/ out = Outcome(AdvanceHeight(e, b), votes, {c})
  BY DEF TryAfterPrecommit, EnterCommit
<1>2. CASE out = Outcome(e, votes, {})
  BY <1>2, SMTT(60) DEF Moves, Outcome
<1>3. CASE out = Outcome(EnterNextRound(e), votes, {})
  BY <1>3, HeightMoves, SMTT(60) DEF Moves, Outcome
<1>4. CASE out = Outcome(AdvanceHeight(e, b), votes, {c})
  <2>1. c.validator = v /\ c.height = e.height
    OBVIOUS
  <2> HIDE DEF c, b
  <2>2. out.commits = {c} /\ out.eng.height = e.height + 1
    BY <1>4, HeightMoves, SMTT(60) DEF Outcome
  <2> QED
    BY <2>1, <2>2 DEF Moves
<1> QED
  BY <1>1, <1>2, <1>3, <1>4

\* tryAfterPrevoteLocked, with the precommit it may enter.
LEMMA PrevoteMoves ==
  ASSUME NEW v \in Correct, NEW e \in EngineState, NEW votes
  PROVE  Moves(v, e, TryAfterPrevote(v, e, votes))
<1> DEFINE M == MajorityHash(e.prevotes)
           out == TryAfterPrevote(v, e, votes)
<1>1. CASE e.step # "Prevote" \/ M = {}
  <2>1. out = Outcome(e, votes, {})
    BY <1>1 DEF TryAfterPrevote
  <2> QED
    BY <2>1, SMTT(60) DEF Moves, Outcome
<1>2. CASE e.step = "Prevote" /\ M # {}
  <2> DEFINE h == CHOOSE x \in M : TRUE
             f == [e EXCEPT
                    !.step = "Precommit",
                    !.lockedRound = IF h = Nil THEN @ ELSE e.round,
                    !.lockedHash = IF h = Nil THEN @ ELSE h,
                    !.precommits = AddVote(@, v, h)]
  <2>1. h \in Hashes
    BY <1>2 DEF MajorityHash
  <2>2. out = TryAfterPrecommit(v, f, votes \cup {Vote("precommit", v, e, h)})
    BY <1>2 DEF TryAfterPrevote, EnterPrecommit
  <2>3. AddVote(e.precommits, v, h) \in VoteSets /\ "Precommit" \in Steps /\ e.round \in Int
    BY <2>1, SMTT(60) DEF AddVote, VoteSets, EngineState, Correct, Steps
  <2> HIDE DEF h
  <2>4. f \in EngineState /\ f.height = e.height
    BY <2>1, <2>3 DEF EngineState
  <2> HIDE DEF f
  <2>5. Moves(v, f, out)
    BY <2>2, <2>4, PrecommitMoves
  <2> QED
    BY <2>4, <2>5 DEF Moves
<1> QED
  BY <1>1, <1>2

----------------------------------------------------------------------------
(* One step of the engines.                                                *)

\* The commit events of an engine are all of heights it has left.
CommitsBehind ==
  \A c \in commits : /\ c.validator \in Correct
                     /\ c.height < eng[c.validator].height

\* A step delivers at most one commit event, for the height its engine leaves,
\* accepts at most one validation, and moves no engine back.
Shape ==
  /\ \A w \in Correct : eng'[w].height \in Nat /\ eng[w].height <= eng'[w].height
  /\ \/ commits' = commits
     \/ \E c : /\ commits' = commits \cup {c} /\ c.validator \in Correct
               /\ c.height = eng[c.validator].height
               /\ eng'[c.validator].height = c.height + 1
  /\ verdicts' = verdicts \/ \E d : verdicts' = verdicts \cup {d}

\* A handler whose cascade moves the height by its commit event has the shape.
LEMMA MovesShape ==
  ASSUME NEW v \in Correct, eng \in [Correct -> EngineState], NEW out,
         Moves(v, eng[v], out), eng' = [eng EXCEPT ![v] = out.eng],
         commits' = commits \cup out.commits,
         verdicts' = verdicts \/ \E d : verdicts' = verdicts \cup {d}
  PROVE  Shape
<1>1. \A w \in Correct : eng[w].height \in Nat
  BY DEF EngineState
<1>2. \A w \in Correct : w # v => eng'[w] = eng[w]
  OBVIOUS
<1>3. eng'[v] = out.eng
  OBVIOUS
<1>4. CASE out.commits = {} /\ out.eng.height = eng[v].height
  <2>1. commits' = commits
    BY <1>4
  <2>2. \A w \in Correct : eng'[w].height \in Nat /\ eng[w].height <= eng'[w].height
    BY <1>1, <1>2, <1>3, <1>4, SMTT(60)
  <2> QED
    BY <2>1, <2>2 DEF Shape
<1>5. CASE /\ out.eng.height = eng[v].height + 1
           /\ \E c : out.commits = {c} /\ c.validator = v /\ c.height = eng[v].height
  <2>1. PICK c : out.commits = {c} /\ c.validator = v /\ c.height = eng[v].height
    BY <1>5
  <2>2. \A w \in Correct : eng'[w].height \in Nat /\ eng[w].height <= eng'[w].height
    BY <1>1, <1>2, <1>3, <1>5, SMTT(60)
  <2> QED
    BY <1>3, <1>5, <2>1, <2>2 DEF Shape
<1> QED
  BY <1>4, <1>5 DEF Moves

\* Every step has the shape.
LEMMA StepShape ==
  ASSUME IndInv, [Next]_vars
  PROVE  Shape
<1>0. eng \in [Correct -> EngineState] /\ msgs \subseteq Messages
  BY DEF IndInv, TypeOK
<1>s. ASSUME NEW v \in Correct, NEW f, eng' = [eng EXCEPT ![v] = f],
             f.height = eng[v].height \/ f.height = eng[v].height + 1,
             commits' = commits, verdicts' = verdicts
      PROVE  Shape
  <2>1. \A w \in Correct : eng[w].height \in Nat
    BY <1>0 DEF EngineState
  <2>2. \A w \in Correct : w # v => eng'[w] = eng[w]
    BY <1>0, <1>s
  <2>3. eng'[v] = f
    BY <1>0, <1>s
  <2> QED
    BY <1>s, <2>1, <2>2, <2>3, SMTT(60) DEF Shape
<1>u. ASSUME eng' = eng, commits' = commits, verdicts' = verdicts
      PROVE  Shape
  BY <1>0, <1>u, SMTT(60) DEF Shape, EngineState
<1>1. ASSUME NEW v \in Correct, StartRound(v)
      PROVE  Shape
  <2> DEFINE r == ResetVotes(eng[v])
             f == [r EXCEPT !.step = "Propose"]
  <2>1. r \in EngineState /\ r.height = eng[v].height
    BY <1>0, EngineTypes, HeightMoves
  <2>2. /\ eng' = [eng EXCEPT ![v] = f] /\ commits' = commits
        /\ verdicts' = verdicts
    BY <1>1 DEF StartRound
  <2> HIDE DEF r
  <2>3. f.height = r.height
    BY <2>1 DEF EngineState
  <2> QED
    BY <1>s, <2>1, <2>2, <2>3
<1>2. ASSUME NEW v \in Correct, NEW b \in Blocks, BuildProposal(v, b)
      PROVE  Shape
  <2> DEFINE g == [eng[v] EXCEPT !.proposal = b, !.hasBlock = TRUE]
             f == [g EXCEPT !.step = "Prevote"]
  <2>1. /\ eng' = [eng EXCEPT ![v] = f] /\ commits' = commits
        /\ verdicts' = verdicts
    BY <1>2 DEF BuildProposal, EnterPrevote
  <2>2. g \in EngineState /\ g.height = eng[v].height
    BY <1>0 DEF EngineState
  <2> HIDE DEF g
  <2>3. f.height = g.height
    BY <2>2 DEF EngineState
  <2> QED
    BY <1>s, <2>1, <2>2, <2>3
<1>3. ASSUME NEW v \in Correct, NEW s \in building[v], AbandonBuild(v, s)
      PROVE  Shape
  BY <1>3, <1>u DEF AbandonBuild
<1>4. ASSUME NEW v \in Correct, NEW m \in msgs \cup FaultyProposals,
             m.type = "proposal", HandleProposal(v, m)
      PROVE  Shape
  <2> DEFINE g == [eng[v] EXCEPT !.proposal = m.hash, !.hasBlock = m.block]
             f == [g EXCEPT !.step = "Prevote"]
  <2>1. /\ eng' = [eng EXCEPT ![v] = f] \/ eng' = [eng EXCEPT ![v] = g]
        /\ commits' = commits /\ verdicts' = verdicts
    BY <1>4 DEF HandleProposal, EnterPrevote
  <2>2. m.hash \in Blocks /\ m.block \in BOOLEAN
    BY <1>0, <1>4 DEF Messages, Proposals, Votes, FaultyProposals
  <2>3. g \in EngineState /\ g.height = eng[v].height
    BY <1>0, <2>2 DEF EngineState
  <2> HIDE DEF g
  <2>4. f.height = g.height
    BY <2>3 DEF EngineState
  <2> QED
    BY <1>s, <2>1, <2>3, <2>4
<1>5. ASSUME NEW v \in Correct, NEW c \in validating[v], NEW ok \in BOOLEAN,
             FinishPrevote(v, c, ok)
      PROVE  Shape
  <2> DEFINE e == eng[v]
             h == IF e.lockedRound >= 0 /\ e.lockedHash # Nil THEN e.lockedHash
                  ELSE IF ok THEN c.hash ELSE Nil
             current == e.height = c.height /\ e.round = c.round /\ e.step = "Prevote"
             f == [e EXCEPT !.prevotes = AddVote(@, v, h)]
             out == IF current
                    THEN TryAfterPrevote(v, f, {Vote("prevote", v, e, h)})
                    ELSE Outcome(e, {}, {})
  <2>1. /\ eng' = [eng EXCEPT ![v] = out.eng]
        /\ commits' = commits \cup out.commits
        /\ verdicts' = verdicts \/ \E d : verdicts' = verdicts \cup {d}
    BY <1>5 DEF FinishPrevote, Flush
  <2>2. e \in EngineState /\ h \in Hashes
    <3>1. c \in Calls
      BY DEF IndInv, TypeOK
    <3> QED
      BY <1>0, <3>1 DEF EngineState, Calls, Hashes
  <2> HIDE DEF h
  <2>3. f \in EngineState /\ f.height = e.height
    <3>1. AddVote(e.prevotes, v, h) \in VoteSets
      BY <2>2 DEF AddVote, VoteSets, EngineState, Correct
    <3> HIDE DEF e
    <3> QED
      BY <2>2, <3>1 DEF EngineState
  <2> HIDE DEF f
  <2>4. Moves(v, e, out)
    <3>1. CASE current
      <4>1. Moves(v, f, out)
        BY <2>3, <3>1, PrevoteMoves
      <4> QED
        BY <2>3, <4>1 DEF Moves
    <3>2. CASE ~ current
      BY <3>2 DEF Moves, Outcome
    <3> QED
      BY <3>1, <3>2
  <2> HIDE DEF out
  <2> QED
    BY <1>0, <2>1, <2>4, MovesShape
<1>6. ASSUME NEW v \in Correct, NEW m \in msgs \cup FaultyVotes,
             m.type # "proposal", HandleVote(v, m)
      PROVE  Shape
  <2> DEFINE e == eng[v]
             f == [e EXCEPT !.prevotes = AddVote(@, m.validator, m.hash)]
             g == [e EXCEPT !.precommits = AddVote(@, m.validator, m.hash)]
             out == IF m.type = "prevote" THEN TryAfterPrevote(v, f, {})
                                          ELSE TryAfterPrecommit(v, g, {})
  <2>1. /\ eng' = [eng EXCEPT ![v] = out.eng]
        /\ commits' = commits \cup out.commits
        /\ verdicts' = verdicts
    BY <1>6 DEF HandleVote, Flush
  <2>2. e \in EngineState /\ m.validator \in Validators /\ m.hash \in Hashes
    <3>1. m \in Votes
      BY <1>0, <1>6, PowerAssumption, SMTT(60)
      DEF Messages, Proposals, Votes, FaultyVotes, Heights, Rounds
    <3> QED
      BY <1>0, <3>1 DEF Votes
  <2>3. /\ f \in EngineState /\ f.height = e.height
        /\ g \in EngineState /\ g.height = e.height
    <3> HIDE DEF e
    <3>1. AddVote(e.prevotes, m.validator, m.hash) \in VoteSets
      BY <2>2 DEF AddVote, VoteSets, EngineState
    <3>2. AddVote(e.precommits, m.validator, m.hash) \in VoteSets
      BY <2>2 DEF AddVote, VoteSets, EngineState
    <3> QED
      BY <2>2, <3>1, <3>2 DEF EngineState
  <2> HIDE DEF f, g
  <2>4. Moves(v, e, out)
    <3>1. Moves(v, f, out) \/ Moves(v, g, out)
      BY <2>3, PrevoteMoves, PrecommitMoves
    <3> QED
      BY <2>3, <3>1 DEF Moves
  <2> HIDE DEF out
  <2> QED
    BY <1>0, <2>1, <2>4, MovesShape
<1>7. ASSUME NEW v \in Correct, TimeoutTick(v)
      PROVE  Shape
  BY <1>7, <1>u DEF TimeoutTick
<1>8. ASSUME NEW v \in Correct, ForceTimeoutRound(v)
      PROVE  Shape
  <2>1. /\ eng' = [eng EXCEPT ![v] = EnterNextRound(eng[v])]
        /\ commits' = commits /\ verdicts' = verdicts
    BY <1>8 DEF ForceTimeoutRound
  <2> QED
    BY <1>0, <1>s, <2>1, HeightMoves
<1>9. ASSUME NEW v \in Correct, NEW b \in Blocks, ApplySyncedBlock(v, b)
      PROVE  Shape
  <2>1. /\ eng' = [eng EXCEPT ![v] = AdvanceHeight(eng[v], b)]
        /\ commits' = commits /\ verdicts' = verdicts
    BY <1>9 DEF ApplySyncedBlock
  <2> QED
    BY <1>0, <1>s, <2>1, HeightMoves
<1>10. CASE UNCHANGED vars
  BY <1>10, <1>u DEF vars
<1> QED
  BY <1>1, <1>2, <1>3, <1>4, <1>5, <1>6, <1>7, <1>8, <1>9, <1>10
  DEF Next, BoundReached

----------------------------------------------------------------------------

\* Each engine commits one block per height, in the order of heights.
LEMMA StepBehind ==
  ASSUME IndInv, CommitsBehind, [Next]_vars
  PROVE  CommitsBehind'
<1>0. Shape
  BY StepShape
<1>1. /\ eng \in [Correct -> EngineState]
      /\ \A w \in Correct : eng[w].height \in Nat
      /\ \A c \in commits : c.height \in Nat
  BY DEF IndInv, TypeOK, EngineState, CommitEvents
<1>2. \A c \in commits : /\ c.validator \in Correct
                         /\ c.height < eng'[c.validator].height
  BY <1>0, <1>1, SMTT(60) DEF Shape, CommitsBehind
<1>3. CASE commits' = commits
  BY <1>2, <1>3 DEF CommitsBehind
<1>4. ASSUME NEW d, commits' = commits \cup {d}, d.validator \in Correct,
             d.height = eng[d.validator].height,
             eng'[d.validator].height = d.height + 1
      PROVE  CommitsBehind'
  <2>1. d.height < eng'[d.validator].height
    BY <1>1, <1>4, SMTT(60)
  <2> QED
    BY <1>2, <1>4, <2>1 DEF CommitsBehind
<1> QED
  BY <1>0, <1>3, <1>4 DEF Shape

\* The decisions and the validations as Decisions sees them.
Decision(c) ==
  [validator |-> c.validator, height |-> c.height, round |-> c.round,
   hash |-> c.hash]

Validation(d) == [height |-> d.height, round |-> d.round, hash |-> d.hash]

\* Every step is a step of Decisions, or changes nothing of it.
LEMMA StepRefines ==
  ASSUME IndInv, CommitsBehind, SlotAgreement', CommittedWasExecuted',
         [Next]_vars
  PROVE  Promise!Next
<1> DEFINE X == {Validation(d) : d \in verdicts}
           D == {Decision(c) : c \in commits}
<1>0. Shape
  BY StepShape
<1>1. X' = X \/ \E x \in X' : X' = X \cup {x}
  <2>1. CASE verdicts' = verdicts
    BY <2>1
  <2>2. ASSUME NEW d, verdicts' = verdicts \cup {d}
        PROVE  Validation(d) \in X' /\ X' = X \cup {Validation(d)}
    BY <2>2
  <2> QED
    BY <1>0, <2>1, <2>2 DEF Shape
<1>2. ASSUME NEW c, commits' = commits \cup {c}, c.validator \in Correct,
             c.height = eng[c.validator].height
      PROVE  \E d \in D' :
               /\ D' = D \cup {d}
               /\ \E x \in X' : Promise!SameSlot(x, d) /\ x.hash = d.hash
               /\ \A b \in D : Promise!SameSlot(b, d) => b.hash = d.hash
               /\ \A b \in D : b.validator = d.validator => b.height < d.height
  <2> DEFINE d == Decision(c)
  <2>1. d \in D' /\ D' = D \cup {d}
    BY <1>2
  <2>2. /\ d.validator = c.validator /\ d.height = c.height
        /\ d.round = c.round /\ d.hash = c.hash
    BY DEF Decision
  <2>3. \E x \in X' : Promise!SameSlot(x, d) /\ x.hash = d.hash
    <3>1. PICK y \in verdicts' : SameSlot(c, y) /\ c.hash = y.hash
      BY <1>2 DEF CommittedWasExecuted
    <3>2. /\ Validation(y) \in X' /\ Validation(y).height = y.height
          /\ Validation(y).round = y.round /\ Validation(y).hash = y.hash
      BY <3>1 DEF Validation
    <3> HIDE DEF X, d
    <3> QED
      BY <2>2, <3>1, <3>2 DEF SameSlot, Promise!SameSlot
  <2>4. ASSUME NEW b \in D
        PROVE  /\ Promise!SameSlot(b, d) => b.hash = d.hash
               /\ b.validator = d.validator => b.height < d.height
    <3>1. PICK a \in commits : b = Decision(a)
      OBVIOUS
    <3>2. /\ b.validator = a.validator /\ b.height = a.height
          /\ b.round = a.round /\ b.hash = a.hash
      BY <3>1 DEF Decision
    <3>3. SameSlot(a, c) => a.hash = c.hash
      BY <1>2 DEF SlotAgreement
    <3>4. a.validator = c.validator => a.height < c.height
      BY <1>2 DEF CommitsBehind
    <3> HIDE DEF d
    <3> QED
      BY <2>2, <3>2, <3>3, <3>4 DEF SameSlot, Promise!SameSlot
  <2> HIDE DEF d, D, X
  <2> QED
    BY <2>1, <2>3, <2>4
<1>3. CASE commits' = commits
  BY <1>1, <1>3 DEF Promise!Next, Promise!Execute, Validation
<1>4. CASE \E c : /\ commits' = commits \cup {c} /\ c.validator \in Correct
                  /\ c.height = eng[c.validator].height
  BY <1>1, <1>2, <1>4
  DEF Promise!Next, Promise!Execute, Promise!Decide, Validation, Decision
<1> QED
  BY <1>0, <1>3, <1>4 DEF Shape

\* The engines implement Decisions.  Every step of an engine is a step of the
\* abstract specification: it adds at most one validation and one decision, the
\* decision is of a block validated in its slot (ExecutionSafety) and of no
\* other than those decided there (SlotSafety), and is for a height its engine
\* has not decided yet (CommitsBehind).
THEOREM Implementation == Spec => RefinesDecisions
<1>1. Init => Promise!Init /\ CommitsBehind
  BY DEF Init, Promise!Init, CommitsBehind
<1>2. IndInv /\ CommitsBehind /\ [Next]_vars => CommitsBehind'
  BY StepBehind
<1>3. IndInv /\ CommitsBehind /\ SlotAgreement' /\ CommittedWasExecuted' /\ [Next]_vars
        => Promise!Next
  BY StepRefines
<1> QED
  BY <1>1, <1>2, <1>3, Invariance, SlotSafety, ExecutionSafety, PTL
  DEF Spec, RefinesDecisions, Promise!Spec

----------------------------------------------------------------------------
(* The stack of a node, and validator sets.                                *)

\* The values of a word, and the validators whose power is one.
Word == 0 .. MaxUint
Vals == [addr : Nat, power : Word]

\* An addition of words is exact or gives less than it began with.
LEMMA WrapIs ==
    ASSUME NEW x \in Word, NEW p \in Word
    PROVE  /\ Wrap(x + p) \in Word
           /\ x + p <= MaxUint => Wrap(x + p) = x + p
           /\ x <= Wrap(x + p) => Wrap(x + p) = x + p
<1> DEFINE t == 2 ^ Width
<1>1. t \in Nat \ {0} /\ MaxUint = t - 1 /\ Wrap(x + p) = (x + p) % t
    BY WidthAssumption DEF MaxUint, Wrap
<1> HIDE DEF t
<1>2. x \in Int /\ p \in Int /\ 0 <= x /\ x < t /\ 0 <= p /\ p < t
    BY <1>1, SMTT(60) DEF Word
<1>3. CASE x + p < t
    <2>1. (x + p) % t = x + p
        BY <1>1, <1>2, <1>3, SMTT(60)
    <2> QED
        BY <1>1, <1>2, <1>3, <2>1, SMTT(60) DEF Word
<1>4. CASE ~(x + p < t)
    <2>1. x + p \in Int /\ x + p - t \in Int /\ x + p = 1 * t + (x + p - t)
          /\ 0 <= x + p - t /\ x + p - t < t /\ 1 \in Int
        BY <1>1, <1>2, <1>4, SMTT(60)
    <2>2. (x + p) % t = x + p - t
        BY <1>1, <2>1, Remainder
    <2> QED
        BY <1>1, <1>2, <1>4, <2>2, SMTT(60) DEF Word
<1> QED
    BY <1>3, <1>4

\* The products of the quorum test are exact when they fit.
LEMMA WrapFits ==
    ASSUME NEW n \in Nat, n <= MaxUint
    PROVE  Wrap(n) = n
<1> DEFINE t == 2 ^ Width
<1>1. t \in Nat \ {0} /\ MaxUint = t - 1 /\ Wrap(n) = n % t
    BY WidthAssumption DEF MaxUint, Wrap
<1> HIDE DEF t
<1> QED
    BY <1>1, SMTT(60)

\* f gives the sums of the first powers, each cut to the word.
IsTotal(f, vals) ==
    /\ f \in [0 .. Len(vals) -> Word] /\ f[0] = 0
    /\ \A k \in 1 .. Len(vals) : f[k] = Wrap(f[k - 1] + vals[k].power)

\* The running total NewValidatorSet keeps is those sums.
LEMMA TotalIs ==
    ASSUME NEW vals \in Seq(Vals)
    PROVE  IsTotal(RunningTotal(vals), vals)
<1> DEFINE n == Len(vals)
           Add == [k \in 1 .. n |-> [x \in Word |-> Wrap(x + vals[k].power)]]
           Eq(f) == f = [i \in 0 .. n |-> IF i = 0 THEN 0 ELSE Wrap(f[i - 1] + vals[i].power)]
           R == RunningTotal(vals)
<1>1. n \in Nat /\ \A k \in 1 .. n : vals[k] \in Vals
    BY SMTT(60)
<1>2. \A k \in 1 .. n : vals[k].power \in Word
    BY <1>1 DEF Vals
<1>3. 0 \in Word
    BY WidthAssumption, SMTT(60) DEF Word, MaxUint
<1>4. Add \in [1 .. n -> [Word -> Word]]
    BY <1>2, WrapIs
<1>5. AreSteps(Add, n, Word)
    BY <1>1, <1>4 DEF AreSteps
<1>6. PICK f : Follows(f, 0, Add, n, Word)
    BY <1>3, <1>5, StepsExist
<1>7. f \in [0 .. n -> Word] /\ f[0] = 0 /\ \A k \in 1 .. n : f[k] = Add[k][f[k - 1]]
    BY <1>6 DEF Follows
<1>8. \A k \in 1 .. n : k - 1 \in 0 .. n /\ k # 0
    BY <1>1, SMTT(60)
<1>9. \A k \in 1 .. n : f[k] = Wrap(f[k - 1] + vals[k].power)
    BY <1>7, <1>8
<1>10. \A i \in 0 .. n : i = 0 \/ i \in 1 .. n
    BY <1>1, SMTT(60)
<1>11. Eq(f)
    BY <1>7, <1>9, <1>10
<1>12. R = CHOOSE g : Eq(g)
    BY DEF RunningTotal
<1>13. Eq(R)
    BY <1>11, <1>12
<1> HIDE DEF R
<1>14. R[0] = 0 /\ \A k \in 1 .. n : R[k] = Wrap(R[k - 1] + vals[k].power)
    <2>1. 0 \in 0 .. n /\ \A k \in 1 .. n : k \in 0 .. n
        BY <1>1, SMTT(60)
    <2> QED
        BY <1>13, <2>1, <1>8
<1>15. \A k \in 0 .. n : R[k] \in Word
    <2> DEFINE T == {k \in 0 .. n : R[k] \in Word}
    <2>1. 0 \in T
        BY <1>3, <1>10, <1>14, <1>1, SMTT(60)
    <2>2. ASSUME NEW k \in 1 .. n, k - 1 \in T PROVE k \in T
        <3>1. R[k] \in Word
            BY <1>2, <1>14, <2>2, WrapIs
        <3>2. k \in 0 .. n
            BY <1>1, SMTT(60)
        <3> QED
            BY <3>1, <3>2
    <2> HIDE DEF T
    <2>3. \A k \in 0 .. n : k \in T
        BY <1>1, <2>1, <2>2, UpTo
    <2> QED
        BY <2>3 DEF T
<1>16. R \in [0 .. n -> Word]
    BY <1>13, <1>15
<1> QED
    BY <1>14, <1>16 DEF IsTotal, R

\* Without overflow the running total is exact.
LEMMA TotalExact ==
    ASSUME NEW vals \in Seq(Vals), ~SumOverflows(vals),
           NEW k \in 1 .. Len(vals)
    PROVE  RunningTotal(vals)[k] = RunningTotal(vals)[k - 1] + vals[k].power
<1> DEFINE R == RunningTotal(vals)
<1>1. IsTotal(R, vals)
    BY TotalIs
<1>2. ~(R[k] < R[k - 1])
    BY DEF SumOverflows
<1> HIDE DEF R
<1>3. vals[k] \in Vals /\ k \in 0 .. Len(vals) /\ k - 1 \in 0 .. Len(vals)
    BY SMTT(60)
<1>4. vals[k].power \in Word /\ R[k] \in Word /\ R[k - 1] \in Word
      /\ R[k] = Wrap(R[k - 1] + vals[k].power)
    BY <1>1, <1>3 DEF IsTotal, Vals
<1>5. R[k - 1] <= R[k]
    BY <1>2, <1>4, SMTT(60) DEF Word
<1> QED
    BY <1>4, <1>5, WrapIs DEF R

\* All addresses of the list differ.
Distinct(vals) == \A i, j \in DOMAIN vals : i # j => vals[i].addr # vals[j].addr

\* The list is in strictly rising order of its addresses.
Rising(vals) == \A i, j \in DOMAIN vals : i < j => vals[i].addr < vals[j].addr

\* What sort.Slice leaves: the same validators in the order of their addresses.
SortedBy(p, vals, set) ==
    /\ p \in [DOMAIN vals -> DOMAIN vals]
    /\ set = [i \in DOMAIN vals |-> vals[p[i]]]

\* NewValidatorSet's sort lists the same validators in rising order.
LEMMA ByAddressIs ==
    ASSUME NEW vals \in Seq(Vals), Distinct(vals)
    PROVE  /\ \E p : SortedBy(p, vals, ByAddress(vals))
           /\ Rising(ByAddress(vals))
           /\ ByAddress(vals) \in Seq(Vals)
           /\ Len(ByAddress(vals)) = Len(vals)
           /\ DOMAIN ByAddress(vals) = DOMAIN vals
<1> DEFINE n == Len(vals)
           f == [i \in 1 .. n |-> vals[i].addr]
           Good(p) == \A i, j \in DOMAIN vals : i < j => vals[p[i]].addr < vals[p[j]].addr
           order == CHOOSE p \in [DOMAIN vals -> DOMAIN vals] : Good(p)
           set == [i \in DOMAIN vals |-> vals[order[i]]]
<1>1. n \in Nat /\ DOMAIN vals = 1 .. n /\ \A k \in 1 .. n : vals[k] \in Vals
    BY SMTT(60)
<1>2. \A k \in 1 .. n : vals[k].addr \in Nat
    BY <1>1 DEF Vals
<1>3. f \in [1 .. n -> Nat] /\ \A i, j \in 1 .. n : i # j => f[i] # f[j]
    BY <1>1, <1>2 DEF Distinct
<1>4. PICK p : Sorts(p, f, n, 1 .. n)
    <2> HIDE DEF f
    <2> QED
        BY <1>1, <1>3, SortExists
<1>5. p \in [DOMAIN vals -> DOMAIN vals] /\ Good(p)
    BY <1>1, <1>4 DEF Sorts
<1>6. order \in [DOMAIN vals -> DOMAIN vals] /\ Good(order)
    BY <1>5
<1>7. ByAddress(vals) = set
    BY DEF ByAddress
<1>8. SortedBy(order, vals, set)
    BY <1>6 DEF SortedBy
<1>9. Rising(set)
    BY <1>6 DEF Rising
<1>10. set \in [1 .. n -> Vals]
    BY <1>1, <1>6
<1>11. DOMAIN set = DOMAIN vals
    OBVIOUS
<1> HIDE DEF set
<1>12. set \in Seq(Vals) /\ Len(set) = n
    BY <1>1, <1>10, SMTT(60)
<1> QED
    BY <1>7, <1>8, <1>9, <1>11, <1>12

\* A list that NewValidatorSet accepts, sorted.
Sound(set) ==
    /\ set \in Seq(Vals) /\ Len(set) > 0 /\ Rising(set) /\ ~SumOverflows(set)
    /\ \A i \in DOMAIN set : set[i].power # 0

\* NewValidatorSet refuses a list or gives a sound set, which is the list in the
\* order of its addresses.
LEMMA AcceptedIs ==
    ASSUME NEW vals \in Seq(Vals), NewValidatorSet(vals) # Rejected
    PROVE  /\ Sound(NewValidatorSet(vals))
           /\ NewValidatorSet(vals) = ByAddress(vals) /\ Distinct(vals)
           /\ Len(NewValidatorSet(vals)) = Len(vals)
<1> DEFINE set == ByAddress(vals)
<1>1. /\ NewValidatorSet(vals) = set /\ vals # <<>> /\ ~SumOverflows(set)
      /\ \A i \in DOMAIN vals : vals[i].power # 0
      /\ ~(\E i, j \in DOMAIN vals : i # j /\ vals[i].addr = vals[j].addr)
    BY DEF NewValidatorSet
<1>2. Distinct(vals)
    BY <1>1 DEF Distinct
<1>3. /\ \E p : SortedBy(p, vals, set)
      /\ Rising(set) /\ set \in Seq(Vals) /\ Len(set) = Len(vals)
      /\ DOMAIN set = DOMAIN vals
    BY <1>2, ByAddressIs
<1>4. PICK p : SortedBy(p, vals, set)
    BY <1>3
<1>5. Len(vals) > 0
    BY <1>1, SMTT(60)
<1> HIDE DEF set
<1>6. \A i \in DOMAIN vals : p[i] \in DOMAIN vals /\ set[i] = vals[p[i]]
    BY <1>4 DEF SortedBy
<1>7. \A i \in DOMAIN vals : vals[p[i]].power # 0
    BY <1>1, <1>6
<1>8. DOMAIN set = DOMAIN vals
    BY <1>3
<1>9. \A i \in DOMAIN set : set[i].power # 0
    BY <1>6, <1>7, <1>8
<1>10. Rising(set) /\ set \in Seq(Vals) /\ Len(set) = Len(vals) /\ Len(set) > 0
    BY <1>3, <1>5
<1>11. Sound(set)
    BY <1>1, <1>9, <1>10 DEF Sound
<1> QED
    BY <1>1, <1>2, <1>10, <1>11 DEF set

\* The total of a sound set is a word above zero.
LEMMA SoundTotal ==
    ASSUME NEW set, Sound(set)
    PROVE  SumPower(set) \in Word \ {0}
<1> DEFINE n == Len(set)
           R == RunningTotal(set)
<1>1. /\ set \in Seq(Vals) /\ n \in Nat /\ n \in 1 .. n /\ n \in 0 .. n
      /\ n - 1 \in 0 .. n /\ n \in DOMAIN set /\ set[n] \in Vals
    BY SMTT(60) DEF Sound
<1>2. R[n] = R[n - 1] + set[n].power
    BY <1>1, TotalExact DEF Sound
<1>3. IsTotal(R, set)
    BY <1>1, TotalIs
<1>4. R[n] \in Word /\ R[n - 1] \in Word /\ set[n].power \in Word /\ set[n].power # 0
    BY <1>1, <1>3 DEF IsTotal, Vals, Sound
<1>5. R[n] # 0
    <2> HIDE DEF R, n
    <2> QED
        BY <1>2, <1>4, SMTT(60) DEF Word
<1>6. SumPower(set) = R[n]
    BY DEF SumPower
<1> QED
    BY <1>4, <1>5, <1>6

\* Three times the total of the set is still a word, so that HasQuorum compares
\* numbers and not remainders.
Fits(set) == 3 * SumPower(set) <= MaxUint

\* The quorum test on a total that fits is the comparison it stands for.
LEMMA QuorumIs ==
    ASSUME NEW total \in Word, 3 * total <= MaxUint,
           NEW vote \in Word, vote <= total
    PROVE  HasQuorumWord(vote, total) <=> total # 0 /\ vote * 3 > total * 2
<1>1. vote * 3 \in Nat /\ total * 2 \in Nat /\ vote * 3 <= MaxUint /\ total * 2 <= MaxUint
    <2>1. MaxUint \in Int
        BY WidthAssumption, SMTT(60) DEF MaxUint
    <2> QED
        BY <2>1, SMTT(60) DEF Word
<1>2. Wrap(vote * 3) = vote * 3
    BY <1>1, WrapFits
<1>3. Wrap(total * 2) = total * 2
    BY <1>1, WrapFits
<1> QED
    BY <1>2, <1>3 DEF HasQuorumWord

\* All validators of a sound set that fits are a quorum.
LEMMA AllAreQuorum ==
    ASSUME NEW set, Sound(set), Fits(set)
    PROVE  HasQuorumWord(SumPower(set), SumPower(set))
<1> DEFINE total == SumPower(set)
<1>1. total \in Word \ {0} /\ 3 * total <= MaxUint
    BY SoundTotal DEF Fits
<1> HIDE DEF total
<1>2. total <= total /\ total * 3 > total * 2
    BY <1>1, SMTT(60) DEF Word
<1>3. HasQuorumWord(total, total)
    BY <1>1, <1>2, QuorumIs
<1> QED
    BY <1>3 DEF total

\* The entries of an active list.
Stakes == [addr : Nat, stake : Nat]

\* A stake as voting power is a word.
LEMMA PowerIsWord ==
    ASSUME NEW s \in Nat
    PROVE  PowerFromU256(s) \in Word
<1>1. MaxUint \in Nat
    BY WidthAssumption, SMTT(60) DEF MaxUint
<1> QED
    BY <1>1, SMTT(60) DEF PowerFromU256, Word

\* The validators of an active set are a list NewValidatorSet takes.
LEMMA VotingIs ==
    ASSUME NEW l \in Seq(Stakes)
    PROVE  Voting(l)[Len(l)] \in Seq(Vals)
<1> DEFINE n == Len(l)
           Val(i) == [addr |-> l[i].addr, power |-> PowerFromU256(l[i].stake)]
           Left(i) == l[i].addr = 0 \/ l[i].stake = 0
           Put(i, x) == IF Left(i) THEN x ELSE Append(x, Val(i))
           Add == [k \in 1 .. n |-> [x \in Seq(Vals) |-> Put(k, x)]]
           Eq(f) == f = [i \in 0 .. n |-> IF i = 0 THEN <<>> ELSE Put(i, f[i - 1])]
           R == Voting(l)
<1>1. n \in Nat /\ \A k \in 1 .. n : l[k] \in Stakes
    BY SMTT(60)
<1>2. \A k \in 1 .. n : l[k].addr \in Nat /\ l[k].stake \in Nat
    BY <1>1 DEF Stakes
<1>3. \A k \in 1 .. n : Val(k) \in Vals
    BY <1>2, PowerIsWord DEF Vals
<1>4. ASSUME NEW k \in 1 .. n, NEW x \in Seq(Vals)
      PROVE  Put(k, x) \in Seq(Vals)
    <2>1. Val(k) \in Vals
        BY <1>3
    <2> HIDE DEF Val
    <2>2. Append(x, Val(k)) \in Seq(Vals)
        BY <2>1, SMTT(60)
    <2> QED
        BY <2>2
<1> HIDE DEF Put
<1>5. AreSteps(Add, n, Seq(Vals))
    BY <1>1, <1>4 DEF AreSteps
<1>6. <<>> \in Seq(Vals)
    BY SMTT(60)
<1>7. PICK f : Follows(f, <<>>, Add, n, Seq(Vals))
    BY <1>5, <1>6, StepsExist
<1>8. /\ f \in [0 .. n -> Seq(Vals)] /\ f[0] = <<>>
      /\ \A k \in 1 .. n : f[k] = Add[k][f[k - 1]]
    BY <1>7 DEF Follows
<1>9. /\ \A k \in 1 .. n : k - 1 \in 0 .. n /\ k # 0 /\ k \in 0 .. n
      /\ 0 \in 0 .. n /\ n \in 0 .. n /\ \A i \in 0 .. n : i = 0 \/ i \in 1 .. n
    BY <1>1, SMTT(60)
<1>10. \A k \in 1 .. n : f[k] = Put(k, f[k - 1])
    BY <1>8, <1>9
<1>11. Eq(f)
    BY <1>8, <1>9, <1>10
<1>12. R = CHOOSE g : Eq(g)
    BY DEF Voting, Put
<1>13. Eq(R)
    BY <1>11, <1>12
<1> HIDE DEF R
<1>14. R[0] = <<>> /\ \A k \in 1 .. n : R[k] = Put(k, R[k - 1])
    BY <1>13, <1>9
<1>15. \A k \in 0 .. n : R[k] \in Seq(Vals)
    <2> DEFINE T == {k \in 0 .. n : R[k] \in Seq(Vals)}
    <2>1. 0 \in T
        BY <1>6, <1>9, <1>14
    <2>2. \A k \in 1 .. n : k - 1 \in T => k \in T
        BY <1>4, <1>9, <1>14
    <2> HIDE DEF T
    <2>3. \A k \in 0 .. n : k \in T
        BY <1>1, <2>1, <2>2, UpTo
    <2> QED
        BY <2>3 DEF T
<1> QED
    BY <1>9, <1>15 DEF R

\* What the node's files and the staking module may give the engine: a genesis
\* set that StartStack accepts, and lists of candidates; and every set they make
\* has a total of which thrice fits a word.
SetsFit ==
    /\ GenesisSet \in Seq(Vals) /\ ActiveLists \subseteq Seq(Stakes)
    /\ NewValidatorSet(GenesisSet) # Rejected /\ Fits(NewValidatorSet(GenesisSet))
    /\ \A l \in ActiveLists : ActiveSetToValidatorSet(l) # Rejected
                              => Fits(ActiveSetToValidatorSet(l))

\* A commit event is of a block up to the bound, a rotation of a block that is
\* stored, and the engine's set is sound.
Callbacks ==
    /\ active \in [1 .. MaxBlock -> ActiveLists]
    /\ head \in [Nodes -> 0 .. MaxBlock]
    /\ height \in [Nodes -> Nat \ {0}]
    /\ delivered \in [Nodes -> SUBSET (1 .. MaxBlock)]
    /\ rotating \in [Nodes -> SUBSET (1 .. MaxBlock)]
    /\ applying \in [Nodes -> SUBSET (1 .. MaxBlock)]
    /\ \A n \in Nodes : \A h \in rotating[n] : h <= head[n]

\* The inductive invariant of QuorumStaysReachable.
SetInv == Callbacks /\ DOMAIN valSet = Nodes /\ \A n \in Nodes : Sound(valSet[n]) /\ Fits(valSet[n])

\* The genesis set is sound.
LEMMA GenesisSound ==
    ASSUME SetsFit
    PROVE  Sound(NewValidatorSet(GenesisSet)) /\ Fits(NewValidatorSet(GenesisSet))
BY AcceptedIs DEF SetsFit

\* An active set that is accepted is sound.
LEMMA ActiveSound ==
    ASSUME SetsFit, NEW l \in ActiveLists,
           ActiveSetToValidatorSet(l) # Rejected
    PROVE  Sound(ActiveSetToValidatorSet(l)) /\ Fits(ActiveSetToValidatorSet(l))
<1>1. l \in Seq(Stakes) /\ Fits(ActiveSetToValidatorSet(l))
    BY DEF SetsFit
<1>2. Voting(l)[Len(l)] \in Seq(Vals)
    BY <1>1, VotingIs
<1> QED
    BY <1>1, <1>2, AcceptedIs DEF ActiveSetToValidatorSet

\* The stack starts with no callback and the genesis set.
LEMMA SetInit ==
    ASSUME SetsFit, StackInit
    PROVE  SetInv
<1>1. 0 \in 0 .. MaxBlock /\ 1 \in Nat \ {0}
    BY StackAssumption, SMTT(60)
<1>2. Callbacks
    BY <1>1 DEF StackInit, Callbacks
<1>3. \A n \in Nodes : valSet[n] = NewValidatorSet(GenesisSet)
    BY DEF StackInit
<1>4. DOMAIN valSet = Nodes
    BY DEF StackInit
<1> QED
    BY <1>2, <1>3, <1>4, GenesisSound DEF SetInv

\* One node's set is replaced by a sound one.
LEMMA SetReplaced ==
    ASSUME SetInv, NEW n \in Nodes, NEW set, Sound(set), Fits(set),
           valSet' = [valSet EXCEPT ![n] = set]
    PROVE  DOMAIN valSet' = Nodes /\ \A m \in Nodes : Sound(valSet'[m]) /\ Fits(valSet'[m])
<1>1. valSet'[n] = set /\ DOMAIN valSet' = Nodes /\ \A m \in Nodes \ {n} : valSet'[m] = valSet[m]
    BY DEF SetInv
<1>2. \A m \in Nodes \ {n} : Sound(valSet'[m]) /\ Fits(valSet'[m])
    BY <1>1 DEF SetInv
<1>3. Sound(valSet'[n]) /\ Fits(valSet'[n])
    BY <1>1
<1> QED
    BY <1>1, <1>2, <1>3

\* A step that leaves the sets alone keeps them sound.
LEMMA SetKept ==
    ASSUME SetInv, Callbacks', valSet' = valSet
    PROVE  SetInv'
<1>1. \A n \in Nodes : Sound(valSet'[n]) /\ Fits(valSet'[n])
    BY DEF SetInv
<1> QED
    BY <1>1 DEF SetInv

\* EngineCommit: the event is of the height the engine was at.
LEMMA SetEngineCommit ==
    ASSUME SetInv, NEW n \in Nodes, EngineCommit(n)
    PROVE  SetInv'
<1>1. Callbacks
    BY DEF SetInv
<1>2. height[n] \in Nat \ {0} /\ height[n] <= MaxBlock /\ MaxBlock \in Nat
    BY StackAssumption, <1>1 DEF EngineCommit, Callbacks
<1>3. height[n] + 1 \in Nat \ {0} /\ height[n] \in 1 .. MaxBlock
    BY <1>2, SMTT(60)
<1>4. height' \in [Nodes -> Nat \ {0}]
    BY <1>1, <1>3 DEF EngineCommit, Callbacks
<1>5. delivered' \in [Nodes -> SUBSET (1 .. MaxBlock)]
    BY <1>1, <1>3 DEF EngineCommit, Callbacks
<1>6. UNCHANGED <<active, head, rotating, applying, valSet>>
    BY DEF EngineCommit
<1>7. Callbacks'
    BY <1>1, <1>4, <1>5, <1>6 DEF Callbacks
<1> QED
    BY <1>6, <1>7, SetKept

\* An import makes block h the head or leaves the head where it is.
LEMMA Imported ==
    ASSUME Callbacks, NEW n \in Nodes, NEW h \in 1 .. MaxBlock,
           head' = IF h = head[n] + 1 THEN [head EXCEPT ![n] = h] ELSE head
    PROVE  /\ head' \in [Nodes -> 0 .. MaxBlock]
           /\ \A m \in Nodes : head[m] <= head'[m]
           /\ h <= head[n] + 1 => h <= head'[n]
<1>1. h \in 0 .. MaxBlock /\ h <= h /\ \A x \in 0 .. MaxBlock : x <= x
    BY SMTT(60)
<1>2. head \in [Nodes -> 0 .. MaxBlock]
    BY DEF Callbacks
<1>3. CASE h = head[n] + 1
    <2>1. head' = [head EXCEPT ![n] = h]
        BY <1>3
    <2>2. head'[n] = h /\ \A m \in Nodes \ {n} : head'[m] = head[m]
        BY <2>1, <1>2
    <2>3. head[n] \in 0 .. MaxBlock
        BY <1>2
    <2>4. head[n] <= h
        BY <1>3, <2>3, SMTT(60)
    <2>5. head' \in [Nodes -> 0 .. MaxBlock]
        BY <1>1, <1>2, <2>1
    <2>6. \A m \in Nodes \ {n} : head[m] <= head'[m]
        BY <1>1, <1>2, <2>2
    <2>7. head[n] <= head'[n] /\ h <= head'[n]
        BY <1>1, <2>2, <2>4
    <2> QED
        BY <2>5, <2>6, <2>7
<1>4. CASE h # head[n] + 1
    <2>1. head' = head
        BY <1>4
    <2>2. head[n] \in 0 .. MaxBlock
        BY <1>2
    <2>3. h <= head[n] + 1 => h <= head[n]
        BY <1>4, <2>2, SMTT(60)
    <2>4. \A m \in Nodes : head[m] <= head'[m]
        BY <1>1, <1>2, <2>1
    <2> QED
        BY <1>2, <2>1, <2>3, <2>4
<1> QED
    BY <1>3, <1>4

\* What is below a head stays below it.
LEMMA StaysBelow ==
    ASSUME NEW a \in 1 .. MaxBlock, NEW b \in 0 .. MaxBlock, NEW c \in 0 .. MaxBlock,
           a <= b, b <= c
    PROVE  a <= c
BY SMTT(60)

\* OnCommit's import: the rotation that follows is of a stored block.
LEMMA SetOnCommitImport ==
    ASSUME SetInv, NEW n \in Nodes, NEW h \in delivered[n],
           OnCommitImport(n, h)
    PROVE  SetInv'
<1>1. Callbacks
    BY DEF SetInv
<1>2. h \in 1 .. MaxBlock
    BY <1>1 DEF Callbacks
<1>3. head' = IF h = head[n] + 1 THEN [head EXCEPT ![n] = h] ELSE head
    BY DEF OnCommitImport
<1>4. /\ head' \in [Nodes -> 0 .. MaxBlock]
      /\ \A m \in Nodes : head[m] <= head'[m]
      /\ h <= head[n] + 1 => h <= head'[n]
    BY <1>1, <1>2, <1>3, Imported
<1>5. delivered' \in [Nodes -> SUBSET (1 .. MaxBlock)]
    BY <1>1 DEF OnCommitImport, Callbacks
<1>6. UNCHANGED <<active, height, applying, valSet>>
    BY DEF OnCommitImport
<1>7. \A m \in Nodes : \A x \in rotating[m] : x <= head'[m]
    <2>1. ASSUME NEW m \in Nodes, NEW x \in rotating[m]
          PROVE  x <= head'[m]
        <3>1. x \in 1 .. MaxBlock /\ head[m] \in 0 .. MaxBlock /\ x <= head[m]
            BY <1>1 DEF Callbacks
        <3>2. head'[m] \in 0 .. MaxBlock /\ head[m] <= head'[m]
            BY <1>4
        <3> QED
            BY <3>1, <3>2, StaysBelow
    <2> QED
        BY <2>1
<1>8. CASE h <= head[n] + 1
    <2>1. rotating' = [rotating EXCEPT ![n] = @ \cup {h}]
        BY <1>8 DEF OnCommitImport
    <2>2. rotating' \in [Nodes -> SUBSET (1 .. MaxBlock)]
        BY <1>1, <1>2, <2>1 DEF Callbacks
    <2>3. /\ rotating'[n] = rotating[n] \cup {h}
          /\ \A m \in Nodes \ {n} : rotating'[m] = rotating[m]
        BY <1>1, <2>1 DEF Callbacks
    <2>4. \A x \in rotating'[n] : x <= head'[n]
        BY <1>4, <1>7, <1>8, <2>3
    <2>5. \A m \in Nodes \ {n} : \A x \in rotating'[m] : x <= head'[m]
        BY <1>7, <2>3
    <2>6. \A m \in Nodes : \A x \in rotating'[m] : x <= head'[m]
        BY <2>4, <2>5
    <2>7. Callbacks'
        BY <1>1, <1>4, <1>5, <1>6, <2>2, <2>6 DEF Callbacks
    <2> QED
        BY <1>6, <2>7, SetKept
<1>9. CASE ~(h <= head[n] + 1)
    <2>1. rotating' = rotating
        BY <1>9 DEF OnCommitImport
    <2>2. Callbacks'
        BY <1>1, <1>4, <1>5, <1>6, <1>7, <2>1 DEF Callbacks
    <2> QED
        BY <1>6, <2>2, SetKept
<1> QED
    BY <1>8, <1>9

\* Rotation: the head has a block, and the set of its state is sound or refused.
LEMMA SetOnCommitRotate ==
    ASSUME SetsFit, SetInv,
           NEW n \in Nodes, NEW h \in rotating[n], OnCommitRotate(n, h)
    PROVE  SetInv'
<1> DEFINE current == active[head[n]]
           new == IF current = <<>> THEN Rejected ELSE ActiveSetToValidatorSet(current)
<1>1. Callbacks
    BY DEF SetInv
<1>2. UNCHANGED <<active, head, height, delivered, applying>>
    BY DEF OnCommitRotate
<1>3. rotating' = [rotating EXCEPT ![n] = @ \ {h}]
    BY DEF OnCommitRotate
<1>4. rotating' \in [Nodes -> SUBSET (1 .. MaxBlock)]
      /\ \A m \in Nodes : rotating'[m] \subseteq rotating[m]
    BY <1>1, <1>3 DEF Callbacks
<1>5. Callbacks'
    BY <1>1, <1>2, <1>4 DEF Callbacks
<1>6. \/ valSet' = valSet
      \/ valSet' = [valSet EXCEPT ![n] = new] /\ new # Rejected
    BY DEF OnCommitRotate
<1>7. CASE valSet' = valSet
    BY <1>5, <1>7, SetKept
<1>8. CASE valSet' = [valSet EXCEPT ![n] = new] /\ new # Rejected
    <2>1. head[n] \in 1 .. MaxBlock
        <3>1. h \in 1 .. MaxBlock /\ h <= head[n] /\ head[n] \in 0 .. MaxBlock
            BY <1>1 DEF Callbacks
        <3> QED
            BY <3>1, SMTT(60)
    <2>2. current \in ActiveLists
        BY <1>1, <2>1 DEF Callbacks
    <2>3. new = ActiveSetToValidatorSet(current)
        BY <1>8
    <2>4. Sound(new) /\ Fits(new)
        BY <1>8, <2>2, <2>3, ActiveSound
    <2>5. PICK set : set = new
        OBVIOUS
    <2>6. DOMAIN valSet' = Nodes /\ \A m \in Nodes : Sound(valSet'[m]) /\ Fits(valSet'[m])
        BY <1>8, <2>4, <2>5, SetReplaced
    <2> QED
        BY <1>5, <2>6 DEF SetInv
<1> QED
    BY <1>6, <1>7, <1>8

\* OnBlock's import moves the head up at most.
LEMMA SetOnBlockImport ==
    ASSUME SetInv, NEW n \in Nodes, NEW h \in 1 .. MaxBlock,
           OnBlockImport(n, h)
    PROVE  SetInv'
<1>1. Callbacks
    BY DEF SetInv
<1>2. head' = IF h = head[n] + 1 THEN [head EXCEPT ![n] = h] ELSE head
    BY DEF OnBlockImport
<1>3. head' \in [Nodes -> 0 .. MaxBlock] /\ \A m \in Nodes : head[m] <= head'[m]
    BY <1>1, <1>2, Imported
<1>4. UNCHANGED <<active, height, delivered, rotating, valSet>>
    BY DEF OnBlockImport
<1>5. applying' \in [Nodes -> SUBSET (1 .. MaxBlock)]
    BY <1>1 DEF OnBlockImport, Callbacks
<1>6. \A m \in Nodes : \A x \in rotating[m] : x <= head'[m]
    <2>1. ASSUME NEW m \in Nodes, NEW x \in rotating[m]
          PROVE  x <= head'[m]
        <3>1. x \in 1 .. MaxBlock /\ head[m] \in 0 .. MaxBlock /\ x <= head[m]
            BY <1>1 DEF Callbacks
        <3>2. head'[m] \in 0 .. MaxBlock /\ head[m] <= head'[m]
            BY <1>3
        <3> QED
            BY <3>1, <3>2, StaysBelow
    <2> QED
        BY <2>1
<1>7. Callbacks'
    BY <1>1, <1>3, <1>4, <1>5, <1>6 DEF Callbacks
<1> QED
    BY <1>4, <1>7, SetKept

\* OnBlock's ApplySyncedBlock moves the engine at most.
LEMMA SetOnBlockApply ==
    ASSUME SetInv, NEW n \in Nodes, NEW h \in applying[n],
           OnBlockApply(n, h)
    PROVE  SetInv'
<1>1. Callbacks
    BY DEF SetInv
<1>2. h \in 1 .. MaxBlock
    BY <1>1 DEF Callbacks
<1>3. h + 1 \in Nat \ {0}
    BY <1>2, SMTT(60)
<1>4. height' = height \/ height' = [height EXCEPT ![n] = h + 1]
    BY DEF OnBlockApply
<1>5. height \in [Nodes -> Nat \ {0}]
    BY <1>1 DEF Callbacks
<1>6. height' \in [Nodes -> Nat \ {0}]
    <2>1. CASE height' = height
        BY <2>1, <1>5
    <2>2. CASE height' = [height EXCEPT ![n] = h + 1]
        BY <2>2, <1>3, <1>5
    <2> QED
        BY <1>4, <2>1, <2>2
<1>7. applying' \in [Nodes -> SUBSET (1 .. MaxBlock)]
    BY <1>1 DEF OnBlockApply, Callbacks
<1>8. UNCHANGED <<active, head, delivered, rotating, valSet>>
    BY DEF OnBlockApply
<1>9. Callbacks'
    BY <1>1, <1>6, <1>7, <1>8 DEF Callbacks
<1> QED
    BY <1>8, <1>9, SetKept

\* A restart puts the genesis set back.
LEMMA SetRestart ==
    ASSUME SetsFit, SetInv, NEW n \in Nodes, Restart(n)
    PROVE  SetInv'
<1>1. Callbacks
    BY DEF SetInv
<1>2. head[n] \in 0 .. MaxBlock
    BY <1>1 DEF Callbacks
<1>3. head[n] + 1 \in Nat \ {0}
    BY <1>2, SMTT(60)
<1>4. height' \in [Nodes -> Nat \ {0}]
    BY <1>1, <1>3 DEF Restart, Callbacks
<1>5. /\ delivered' \in [Nodes -> SUBSET (1 .. MaxBlock)]
      /\ applying' \in [Nodes -> SUBSET (1 .. MaxBlock)]
    BY <1>1 DEF Restart, Callbacks
<1>6. rotating' \in [Nodes -> SUBSET (1 .. MaxBlock)]
      /\ \A m \in Nodes : rotating'[m] \subseteq rotating[m]
    BY <1>1 DEF Restart, Callbacks
<1>7. UNCHANGED <<active, head>>
    BY DEF Restart
<1>8. Callbacks'
    BY <1>1, <1>4, <1>5, <1>6, <1>7 DEF Callbacks
<1>9. PICK set : set = NewValidatorSet(GenesisSet)
    OBVIOUS
<1>10. valSet' = [valSet EXCEPT ![n] = set] /\ Sound(set) /\ Fits(set)
    BY <1>9, GenesisSound DEF Restart
<1>11. DOMAIN valSet' = Nodes /\ \A m \in Nodes : Sound(valSet'[m]) /\ Fits(valSet'[m])
    BY <1>10, SetReplaced
<1> QED
    BY <1>8, <1>11 DEF SetInv

\* Every step of the stack keeps the sets sound.
LEMMA SetStep ==
    ASSUME SetsFit, SetInv, [StackNext]_stackVars
    PROVE  SetInv'
<1>1. CASE UNCHANGED stackVars
    <2>1. UNCHANGED <<active, head, height, delivered, rotating, applying, valSet>>
        BY <1>1 DEF stackVars
    <2>2. Callbacks'
        BY <2>1 DEF Callbacks, SetInv
    <2> QED
        BY <2>1, <2>2, SetKept
<1>2. CASE StackNext
    BY <1>2, SetEngineCommit, SetOnCommitImport, SetOnCommitRotate, SetOnBlockImport,
       SetOnBlockApply, SetRestart DEF StackNext
<1> QED
    BY <1>1, <1>2

\* Whatever the number of nodes, blocks and callbacks in flight and whatever
\* order they end in, every engine's validator set is one that its validators
\* together are a quorum of, provided the totals fit a word three times.
THEOREM QuorumStaysReachable ==
    ASSUME SetsFit
    PROVE  StackSpec => []QuorumReachable
<1>1. StackInit => SetInv
    BY SetInit
<1>2. SetInv /\ [StackNext]_stackVars => SetInv'
    BY SetStep
<1>3. SetInv => QuorumReachable
    <2>1. ASSUME SetInv, NEW n \in Nodes
          PROVE  /\ valSet[n] # Rejected
                 /\ HasQuorumWord(SumPower(valSet[n]), SumPower(valSet[n]))
        <3>1. Sound(valSet[n]) /\ Fits(valSet[n])
            BY <2>1 DEF SetInv
        <3>2. Len(valSet[n]) > 0
            BY <3>1 DEF Sound
        <3>3. valSet[n] # <<>>
            BY <3>2, SMTT(60)
        <3> QED
            BY <3>1, <3>3, AllAreQuorum DEF Rejected
    <2> QED
        BY <2>1 DEF QuorumReachable
<1> QED
    BY <1>1, <1>2, <1>3, PTL DEF StackSpec

\* The set with the power of the validators outside S taken away.
Masked(set, S) ==
    [i \in DOMAIN set |->
       [addr |-> set[i].addr, power |-> IF i \in S THEN set[i].power ELSE 0]]

\* The votes of S after k validators.
VotesOf(set, S) == RunningTotal(Masked(set, S))

\* v counts the votes of S: each of its validators once, never beyond the total.
Counts(v, set, S) ==
    /\ v \in [0 .. Len(set) -> Word] /\ v[0] = 0
    /\ \A k \in 0 .. Len(set) : v[k] <= RunningTotal(set)[k]
    /\ \A k \in 1 .. Len(set) : /\ k \in S => v[k] = v[k - 1] + set[k].power
                                /\ k \notin S => v[k] = v[k - 1]

\* The votes of some validators are added up without wrapping, and are never
\* more than the total.
LEMMA VotesAre ==
    ASSUME NEW set, Sound(set), NEW S
    PROVE  Counts(VotesOf(set, S), set, S) /\ PowerOf(set, S) = VotesOf(set, S)[Len(set)]
<1> DEFINE n == Len(set)
           mask == Masked(set, S)
           R == RunningTotal(set)
           M == VotesOf(set, S)
           part(k) == IF k \in S THEN set[k].power ELSE 0
<1>1. /\ set \in Seq(Vals) /\ n \in Nat /\ DOMAIN set = 1 .. n
      /\ \A k \in 1 .. n : set[k] \in Vals
    BY SMTT(60) DEF Sound
<1>2. \A k \in 1 .. n : set[k].addr \in Nat /\ set[k].power \in Word
    BY <1>1 DEF Vals
<1>3. 0 \in Word /\ MaxUint \in Nat
    BY WidthAssumption, SMTT(60) DEF Word, MaxUint
<1>4. mask \in [1 .. n -> Vals] /\ \A k \in 1 .. n : mask[k].power = part(k)
    BY <1>1, <1>2, <1>3 DEF Masked, Vals
<1> HIDE DEF mask
<1>5. mask \in Seq(Vals) /\ Len(mask) = n
    BY <1>1, <1>4, SMTT(60)
<1>6. IsTotal(M, mask)
    BY <1>5, TotalIs DEF VotesOf, mask
<1>7. IsTotal(R, set)
    BY <1>1, TotalIs
<1> HIDE DEF M, R
<1>8. /\ M \in [0 .. n -> Word] /\ M[0] = 0
      /\ \A k \in 1 .. n : M[k] = Wrap(M[k - 1] + part(k))
    BY <1>4, <1>5, <1>6 DEF IsTotal
<1>9. R \in [0 .. n -> Word] /\ R[0] = 0
    BY <1>7 DEF IsTotal
<1>10. \A k \in 1 .. n : R[k] = R[k - 1] + set[k].power
    BY <1>1, TotalExact DEF Sound, R
<1>11. \A k \in 1 .. n : k \in 0 .. n /\ k - 1 \in 0 .. n
    BY <1>1, SMTT(60)
<1>12. ASSUME NEW k \in 1 .. n
       PROVE  part(k) \in Word /\ part(k) <= set[k].power
    <2>1. set[k].power \in Word
        BY <1>2
    <2>2. 0 <= set[k].power /\ set[k].power <= set[k].power
        BY <2>1, SMTT(60) DEF Word
    <2> QED
        BY <1>3, <2>1, <2>2
<1> HIDE DEF part
<1>13. ASSUME NEW k \in 1 .. n, M[k - 1] <= R[k - 1]
       PROVE  M[k] <= R[k] /\ M[k] = M[k - 1] + part(k)
    <2>1. /\ M[k - 1] \in Word /\ R[k - 1] \in Word /\ R[k] \in Word /\ part(k) \in Word
          /\ set[k].power \in Word /\ part(k) <= set[k].power
          /\ R[k] = R[k - 1] + set[k].power
        BY <1>2, <1>8, <1>9, <1>10, <1>11, <1>12
    <2>2. M[k - 1] + part(k) <= R[k] /\ M[k - 1] + part(k) <= MaxUint
        BY <1>3, <1>13, <2>1, SMTT(60) DEF Word
    <2>3. Wrap(M[k - 1] + part(k)) = M[k - 1] + part(k)
        BY <2>1, <2>2, WrapIs
    <2> QED
        BY <1>8, <2>2, <2>3
<1>14. \A k \in 0 .. n : M[k] <= R[k]
    <2> DEFINE T == {k \in 0 .. n : M[k] <= R[k]}
    <2>1. 0 \in T
        BY <1>1, <1>8, <1>9, SMTT(60)
    <2>2. \A k \in 1 .. n : k - 1 \in T => k \in T
        BY <1>11, <1>13
    <2> HIDE DEF T
    <2>3. \A k \in 0 .. n : k \in T
        BY <1>1, <2>1, <2>2, UpTo
    <2> QED
        BY <2>3 DEF T
<1>15. \A k \in 1 .. n : M[k] = M[k - 1] + part(k)
    BY <1>11, <1>13, <1>14
<1>16. ASSUME NEW k \in 1 .. n
       PROVE  /\ k \in S => M[k] = M[k - 1] + set[k].power
              /\ k \notin S => M[k] = M[k - 1]
    <2>1. k \in S => part(k) = set[k].power
        BY DEF part
    <2>2. k \notin S => part(k) = 0
        BY DEF part
    <2>3. M[k - 1] \in Word /\ M[k] = M[k - 1] + part(k)
        BY <1>8, <1>11, <1>15
    <2>4. M[k - 1] + 0 = M[k - 1]
        BY <2>3, SMTT(60) DEF Word
    <2> QED
        BY <2>1, <2>2, <2>3, <2>4
<1>17. PowerOf(set, S) = SumPower(mask)
    BY DEF PowerOf, mask, Masked
<1>18. SumPower(mask) = M[n]
    BY <1>5 DEF SumPower, M, VotesOf, mask
<1>19. Counts(M, set, S)
    BY <1>8, <1>14, <1>16 DEF Counts, R
<1> QED
    BY <1>17, <1>18, <1>19 DEF M

\* The votes of two groups are at most the total and what both share.
LEMMA VotesOverlap ==
    ASSUME NEW set, Sound(set), NEW S, NEW T
    PROVE  PowerOf(set, S) + PowerOf(set, T) <= SumPower(set) + PowerOf(set, S \cap T)
<1> DEFINE n == Len(set)
           R == RunningTotal(set)
           A == VotesOf(set, S)
           B == VotesOf(set, T)
           C == VotesOf(set, S \cap T)
<1>1. /\ set \in Seq(Vals) /\ n \in Nat /\ 0 \in 0 .. n /\ n \in 0 .. n
      /\ \A k \in 1 .. n : k \in 0 .. n /\ k - 1 \in 0 .. n /\ set[k] \in Vals
    BY SMTT(60) DEF Sound
<1>2. IsTotal(R, set)
    BY <1>1, TotalIs
<1>3. R \in [0 .. n -> Word] /\ R[0] = 0
    BY <1>2 DEF IsTotal
<1>4. \A k \in 1 .. n : R[k] = R[k - 1] + set[k].power
    BY <1>1, TotalExact DEF Sound
<1>13. Counts(A, set, S) /\ PowerOf(set, S) = A[n]
    BY VotesAre
<1>14. Counts(B, set, T) /\ PowerOf(set, T) = B[n]
    BY VotesAre
<1>15. Counts(C, set, S \cap T) /\ PowerOf(set, S \cap T) = C[n]
    BY VotesAre
<1> HIDE DEF A, B, C
<1>5. A \in [0 .. n -> Word] /\ A[0] = 0 /\ PowerOf(set, S) = A[n]
    BY <1>13 DEF Counts
<1>16. ASSUME NEW k \in 1 .. n
       PROVE  /\ k \in S => A[k] = A[k - 1] + set[k].power
              /\ k \notin S => A[k] = A[k - 1]
    BY <1>13 DEF Counts
<1>6. B \in [0 .. n -> Word] /\ B[0] = 0 /\ PowerOf(set, T) = B[n]
    BY <1>14 DEF Counts
<1>17. ASSUME NEW k \in 1 .. n
       PROVE  /\ k \in T => B[k] = B[k - 1] + set[k].power
              /\ k \notin T => B[k] = B[k - 1]
    BY <1>14 DEF Counts
<1>7. C \in [0 .. n -> Word] /\ C[0] = 0 /\ PowerOf(set, S \cap T) = C[n]
    BY <1>15 DEF Counts
<1>18. ASSUME NEW k \in 1 .. n
       PROVE  /\ k \in S \cap T => C[k] = C[k - 1] + set[k].power
              /\ k \notin S \cap T => C[k] = C[k - 1]
    BY <1>15 DEF Counts
<1>8. SumPower(set) = R[n]
    BY DEF SumPower
<1> HIDE DEF R
<1> DEFINE U == {k \in 0 .. n : A[k] + B[k] <= R[k] + C[k]}
<1>9. 0 \in U
    BY <1>1, <1>3, <1>5, <1>6, <1>7, SMTT(60)
<1>10. ASSUME NEW k \in 1 .. n, k - 1 \in U
       PROVE  k \in U
    <2>1. /\ A[k - 1] \in Word /\ B[k - 1] \in Word /\ C[k - 1] \in Word /\ R[k - 1] \in Word
          /\ A[k - 1] + B[k - 1] <= R[k - 1] + C[k - 1]
          /\ R[k] = R[k - 1] + set[k].power
        BY <1>1, <1>3, <1>4, <1>5, <1>6, <1>7, <1>10
    <2>2. set[k].power \in Word
        BY <1>1 DEF Vals
    <2>3. k \in S => A[k] = A[k - 1] + set[k].power
        BY <1>16
    <2>4. k \notin S => A[k] = A[k - 1]
        BY <1>16
    <2>5. k \in T => B[k] = B[k - 1] + set[k].power
        BY <1>17
    <2>6. k \notin T => B[k] = B[k - 1]
        BY <1>17
    <2>7. k \in S /\ k \in T => C[k] = C[k - 1] + set[k].power
        BY <1>18
    <2>8. ~(k \in S /\ k \in T) => C[k] = C[k - 1]
        BY <1>18
    <2>9. A[k] + B[k] <= R[k] + C[k]
        <3> DEFINE a == A[k - 1]
                   b == B[k - 1]
                   c == C[k - 1]
                   r == R[k - 1]
                   p == set[k].power
        <3>1. /\ a \in Nat /\ b \in Nat /\ c \in Nat /\ r \in Nat /\ p \in Nat
              /\ a + b <= r + c
            BY <2>1, <2>2, SMTT(60) DEF Word
        <3>2. A[k] = a \/ A[k] = a + p
            BY <2>3, <2>4
        <3>3. B[k] = b \/ B[k] = b + p
            BY <2>5, <2>6
        <3>4. C[k] = c + p \/ (C[k] = c /\ (A[k] = a \/ B[k] = b))
            BY <2>4, <2>6, <2>7, <2>8
        <3>5. R[k] = r + p
            BY <2>1
        <3> HIDE DEF a, b, c, r, p
        <3> QED
            BY <3>1, <3>2, <3>3, <3>4, <3>5, SMTT(60)
    <2> QED
        BY <1>1, <2>9
<1> HIDE DEF U
<1>11. \A k \in 0 .. n : k \in U
    BY <1>1, <1>9, <1>10, UpTo
<1>12. A[n] + B[n] <= R[n] + C[n]
    BY <1>1, <1>11 DEF U
<1> QED
    BY <1>5, <1>6, <1>7, <1>8, <1>12

\* Some validators never have more votes than all.
LEMMA VotesWithin ==
    ASSUME NEW set, Sound(set), NEW S
    PROVE  PowerOf(set, S) \in Word /\ PowerOf(set, S) <= SumPower(set)
<1>1. Len(set) \in 0 .. Len(set)
    BY SMTT(60) DEF Sound
<1>2. Counts(VotesOf(set, S), set, S) /\ PowerOf(set, S) = VotesOf(set, S)[Len(set)]
    BY VotesAre
<1> QED
    BY <1>1, <1>2 DEF Counts, SumPower

\* In a sound set that fits, two quorums share more than a third of the power.
LEMMA QuorumsShare ==
    ASSUME NEW set, Sound(set), Fits(set), NEW S, NEW T,
           HasQuorumWord(PowerOf(set, S), SumPower(set)),
           HasQuorumWord(PowerOf(set, T), SumPower(set))
    PROVE  3 * PowerOf(set, S \cap T) > SumPower(set)
<1> DEFINE total == SumPower(set)
           a == PowerOf(set, S)
           b == PowerOf(set, T)
           c == PowerOf(set, S \cap T)
<1>1. total \in Word \ {0} /\ 3 * total <= MaxUint
    BY SoundTotal DEF Fits
<1>3. a \in Word /\ a <= total
    BY <1>1, VotesWithin
<1>4. b \in Word /\ b <= total
    BY <1>1, VotesWithin
<1>5. c \in Word
    BY VotesWithin
<1>6. a + b <= total + c
    BY VotesOverlap
<1> HIDE DEF total, a, b, c
<1>7. HasQuorumWord(a, total) /\ HasQuorumWord(b, total)
    BY DEF total, a, b
<1>8. a * 3 > total * 2
    BY <1>1, <1>3, <1>7, QuorumIs
<1>9. b * 3 > total * 2
    BY <1>1, <1>4, <1>7, QuorumIs
<1>10. 3 * c > total
    BY <1>1, <1>3, <1>4, <1>5, <1>6, <1>8, <1>9, SMTT(60) DEF Word
<1> QED
    BY <1>10 DEF c, total

\* The lists a genesis file may hold.
Listings == {l \in Seq([addr : Addresses, power : Powers]) : Len(l) <= MaxLen}

\* Thrice the total of each list that is accepted fits a word.
ListsFit ==
    /\ Addresses \subseteq Nat /\ Powers \subseteq Word /\ MaxLen \in Nat
    /\ \A l \in Listings : NewValidatorSet(l) # Rejected => Fits(NewValidatorSet(l))

\* Nothing is listed at first.
LEMMA ListedInit ==
    ASSUME ListsFit, MCInit
    PROVE  listed \in Listings
<1>1. <<>> \in Seq([addr : Addresses, power : Powers]) /\ Len(<<>>) <= MaxLen
    BY SMTT(60) DEF ListsFit
<1> QED
    BY <1>1 DEF Listings, MCInit

\* What is listed are validators.
LEMMA ListingIsVals ==
    ASSUME ListsFit, NEW l \in Listings
    PROVE  l \in Seq(Vals)
<1> DEFINE V == [addr : Addresses, power : Powers]
<1>1. l \in Seq(V) /\ V \subseteq Vals
    BY DEF Listings, ListsFit, Vals
<1> HIDE DEF V
<1> QED
    BY <1>1, SMTT(60)

\* What is listed is such a list.
LEMMA ListedStep ==
    ASSUME ListsFit, listed \in Listings, [MCNext]_(<<stackVars, listed>>)
    PROVE  listed' \in Listings
<1>1. CASE listed' = listed
    BY <1>1
<1>2. CASE listed' = <<>>
    <2>1. <<>> \in Seq([addr : Addresses, power : Powers]) /\ Len(<<>>) <= MaxLen
        BY SMTT(60) DEF ListsFit
    <2> QED
        BY <1>2, <2>1 DEF Listings
<1>3. ASSUME NEW v \in [addr : Addresses, power : Powers], List(v)
      PROVE  listed' \in Listings
    <2>1. Len(listed) < MaxLen /\ listed' = Append(listed, v)
        BY <1>3 DEF List
    <2>2. listed \in Seq([addr : Addresses, power : Powers]) /\ MaxLen \in Nat
        BY DEF Listings, ListsFit
    <2>3. Append(listed, v) \in Seq([addr : Addresses, power : Powers])
          /\ Len(Append(listed, v)) <= MaxLen
        <3> DEFINE V == [addr : Addresses, power : Powers]
        <3>1. v \in V /\ listed \in Seq(V)
            BY <2>2
        <3> HIDE DEF V
        <3>2. Append(listed, v) \in Seq(V) /\ Len(Append(listed, v)) <= MaxLen
            BY <2>1, <2>2, <3>1, SMTT(60)
        <3> QED
            BY <3>2 DEF V
    <2> QED
        BY <2>1, <2>3 DEF Listings
<1> QED
    BY <1>1, <1>2, <1>3 DEF MCNext, Run, Discard

\* In every validator set a genesis file can give, all validators are a quorum,
\* and two quorums share more than a third of the power, provided the totals fit
\* a word three times.
THEOREM QuorumsAlwaysIntersect ==
    ASSUME ListsFit
    PROVE  MCSpec => []QuorumsIntersect
<1>1. MCInit => listed \in Listings
    BY ListedInit
<1>2. listed \in Listings /\ [MCNext]_(<<stackVars, listed>>) => (listed \in Listings)'
    BY ListedStep
<1>3. listed \in Listings => QuorumsIntersect
    <2>1. ASSUME NEW l \in Listings, NewValidatorSet(l) # Rejected
          PROVE  Sound(NewValidatorSet(l)) /\ Fits(NewValidatorSet(l))
        <3>1. l \in Seq(Vals)
            BY ListingIsVals
        <3> QED
            BY <2>1, <3>1, AcceptedIs DEF ListsFit
    <2>2. ASSUME listed \in Listings
          PROVE  QuorumsIntersect
        <3>1. PICK l \in Listings : l = listed
            BY <2>2
        <3>2. PICK set : set = NewValidatorSet(l)
            OBVIOUS
        <3>3. set # Rejected => Sound(set) /\ Fits(set)
            BY <2>1, <3>2
        <3>4. set # Rejected =>
                /\ HasQuorumWord(SumPower(set), SumPower(set))
                /\ \A S, T \in SUBSET DOMAIN set :
                     /\ HasQuorumWord(PowerOf(set, S), SumPower(set))
                     /\ HasQuorumWord(PowerOf(set, T), SumPower(set))
                     => 3 * PowerOf(set, S \cap T) > SumPower(set)
            BY <3>3, AllAreQuorum, QuorumsShare
        <3> QED
            BY <3>1, <3>2, <3>4 DEF QuorumsIntersect
    <2> QED
        BY <2>2
<1> QED
    BY <1>1, <1>2, <1>3, PTL DEF MCSpec

\* b holds every entry of a.
Covers(a, b) == \A i \in DOMAIN a : \E j \in DOMAIN b : a[i] = b[j]

\* What covers is passed on.
LEMMA CoversMore ==
    ASSUME NEW a, NEW b, NEW c, Covers(a, b), Covers(b, c)
    PROVE  Covers(a, c)
<1>1. ASSUME NEW i \in DOMAIN a
      PROVE  \E k \in DOMAIN c : a[i] = c[k]
    <2>1. PICK j \in DOMAIN b : a[i] = b[j]
        BY DEF Covers
    <2>2. PICK k \in DOMAIN c : b[j] = c[k]
        BY DEF Covers
    <2> QED
        BY <2>1, <2>2
<1> QED
    BY <1>1 DEF Covers

\* b is a reordered by p.
Reorders(p, n, a, b) ==
    /\ DOMAIN a = 1 .. n /\ DOMAIN b = 1 .. n
    /\ p \in [1 .. n -> 1 .. n] /\ \A i \in 1 .. n : b[i] = a[p[i]]
    /\ \A k \in 1 .. n : \E i \in 1 .. n : p[i] = k

\* A list and its reordering hold the same.
LEMMA ReorderCovers ==
    ASSUME NEW p, NEW n, NEW a, NEW b, Reorders(p, n, a, b)
    PROVE  Covers(a, b) /\ Covers(b, a)
<1> USE DEF Reorders
<1>1. ASSUME NEW k \in DOMAIN a
      PROVE  \E i \in DOMAIN b : a[k] = b[i]
    <2>1. PICK i \in 1 .. n : p[i] = k
        OBVIOUS
    <2>2. b[i] = a[k] /\ i \in DOMAIN b
        BY <2>1
    <2> QED
        BY <2>2
<1>2. ASSUME NEW i \in DOMAIN b
      PROVE  \E k \in DOMAIN a : b[i] = a[k]
    <2>1. p[i] \in DOMAIN a /\ b[i] = a[p[i]]
        OBVIOUS
    <2> QED
        BY <2>1
<1> QED
    BY <1>1, <1>2 DEF Covers

\* Entries of a rising list with one address are one entry.
LEMMA RisingOnce ==
    ASSUME NEW a \in Seq(Vals), Rising(a), NEW i \in 1 .. Len(a), NEW j \in 1 .. Len(a)
    PROVE  (a[i].addr = a[j].addr => i = j) /\ (i <= j => a[i].addr <= a[j].addr)
<1>1. DOMAIN a = 1 .. Len(a) /\ a[i] \in Vals /\ a[j] \in Vals
    BY SMTT(60)
<1>2. a[i].addr \in Nat /\ a[j].addr \in Nat
    BY <1>1 DEF Vals
<1>3. i < j => a[i].addr < a[j].addr
    BY <1>1 DEF Rising
<1>4. j < i => a[j].addr < a[i].addr
    BY <1>1 DEF Rising
<1> QED
    BY <1>2, <1>3, <1>4, SMTT(60)

\* Up to the first entries that two rising lists share, the next entry of b is
\* not above that of a, which b has.
LEMMA RisingNext ==
    ASSUME NEW a \in Seq(Vals), NEW b \in Seq(Vals), Rising(a), Rising(b),
           Len(a) = Len(b), NEW k \in 1 .. Len(a), Covers(a, b),
           \A i \in 1 .. k - 1 : a[i] = b[i]
    PROVE  \E j \in 1 .. Len(a) : a[k] = b[j] /\ k <= j /\ b[k].addr <= a[k].addr
<1>1. DOMAIN a = 1 .. Len(a) /\ DOMAIN b = 1 .. Len(a) /\ k \in Nat
    BY SMTT(60)
<1>2. PICK j \in 1 .. Len(a) : a[k] = b[j]
    BY <1>1 DEF Covers
<1>3. k <= j
    <2>1. SUFFICES ASSUME j < k PROVE FALSE
        BY SMTT(60)
    <2>2. j \in 1 .. k - 1
        BY <2>1, SMTT(60)
    <2>3. a[j] = a[k]
        BY <1>2, <2>2
    <2>4. j = k
        BY <2>3, RisingOnce
    <2> QED
        BY <2>1, <2>4, SMTT(60)
<1>4. k \in 1 .. Len(b) /\ j \in 1 .. Len(b)
    OBVIOUS
<1>5. b[k].addr <= b[j].addr
    BY <1>3, <1>4, RisingOnce
<1> QED
    BY <1>2, <1>3, <1>5

\* Two rising lists of the same validators are the same list.
LEMMA RisingUnique ==
    ASSUME NEW a \in Seq(Vals), NEW b \in Seq(Vals), Rising(a), Rising(b),
           Len(a) = Len(b), Covers(a, b), Covers(b, a)
    PROVE  a = b
<1> DEFINE n == Len(a)
           T == {k \in 0 .. n : \A i \in 1 .. k : a[i] = b[i]}
<1>1. n \in Nat /\ \A k \in 1 .. n : a[k] \in Vals /\ b[k] \in Vals
    BY SMTT(60)
<1>2. 0 \in T
    BY <1>1, SMTT(60)
<1>3. ASSUME NEW k \in 1 .. n, k - 1 \in T
      PROVE  k \in T
    <2>1. \A i \in 1 .. k - 1 : a[i] = b[i]
        BY <1>3
    <2>2. \A i \in 1 .. k - 1 : b[i] = a[i]
        BY <2>1
    <2>3. PICK j \in 1 .. n : a[k] = b[j] /\ k <= j /\ b[k].addr <= a[k].addr
        BY <2>1, RisingNext
    <2>4. k \in 1 .. Len(b) /\ Len(b) = Len(a) /\ j \in 1 .. Len(b)
        OBVIOUS
    <2>5. a[k].addr <= b[k].addr
        BY <2>2, <2>4, RisingNext
    <2>6. a[k].addr \in Nat /\ b[k].addr \in Nat
        BY <1>1 DEF Vals
    <2>7. a[k].addr = b[k].addr
        BY <2>3, <2>5, <2>6, SMTT(60)
    <2>8. k = j
        BY <2>3, <2>4, <2>7, RisingOnce
    <2>9. a[k] = b[k]
        BY <2>3, <2>8
    <2>10. k \in 0 .. n /\ \A i \in 1 .. k : i = k \/ i \in 1 .. k - 1
        BY <1>1, SMTT(60)
    <2> QED
        BY <2>1, <2>9, <2>10
<1> HIDE DEF T
<1>4. \A k \in 0 .. n : k \in T
    BY <1>1, <1>2, <1>3, UpTo
<1>5. n \in 0 .. n
    BY <1>1, SMTT(60)
<1>6. \A i \in 1 .. n : a[i] = b[i]
    BY <1>4, <1>5 DEF T
<1> QED
    BY <1>1, <1>6, SMTT(60)

\* The sorted list holds what the list holds.
LEMMA SortedCovers ==
    ASSUME NEW vals \in Seq(Vals), Distinct(vals)
    PROVE  Covers(vals, ByAddress(vals)) /\ Covers(ByAddress(vals), vals)
<1> DEFINE set == ByAddress(vals)
           n == Len(vals)
<1>1. /\ Rising(set) /\ set \in Seq(Vals) /\ Len(set) = n /\ DOMAIN set = DOMAIN vals
      /\ \E p : SortedBy(p, vals, set)
    BY ByAddressIs
<1>2. PICK p : SortedBy(p, vals, set)
    BY <1>1
<1>3. Rising(set) /\ set \in Seq(Vals) /\ Len(set) = n /\ DOMAIN set = DOMAIN vals
    BY <1>1
<1>4. n \in Nat /\ DOMAIN vals = 1 .. n
    BY SMTT(60)
<1> HIDE DEF set
<1>5. p \in [1 .. n -> 1 .. n] /\ \A i \in 1 .. n : set[i] = vals[p[i]]
    BY <1>2, <1>4 DEF SortedBy
<1>6. \A i, j \in 1 .. n : p[i] = p[j] => i = j
    <2>1. ASSUME NEW i \in 1 .. n, NEW j \in 1 .. n, p[i] = p[j]
          PROVE  i = j
        <3>1. set[i] = set[j]
            BY <1>5, <2>1
        <3>2. set[i].addr = set[j].addr /\ i \in 1 .. Len(set) /\ j \in 1 .. Len(set)
            BY <1>3, <3>1
        <3> QED
            BY <1>3, <3>2, RisingOnce
    <2> QED
        BY <2>1
<1>7. \A k \in 1 .. n : \E i \in 1 .. n : p[i] = k
    BY <1>4, <1>5, <1>6, Onto
<1>8. DOMAIN set = 1 .. n
    BY <1>3, <1>4
<1>9. Reorders(p, n, vals, set)
    BY <1>4, <1>5, <1>7, <1>8 DEF Reorders
<1>10. Covers(vals, set) /\ Covers(set, vals)
    BY <1>9, ReorderCovers
<1> QED
    BY <1>10 DEF set

\* NewValidatorSet does not look at the order of its list.
LEMMA OrderIsIgnored ==
    ASSUME NEW vals \in Seq(Vals), NEW other \in Permuted(vals)
    PROVE  NewValidatorSet(other) = NewValidatorSet(vals)
<1> DEFINE n == Len(vals)
<1>1. n \in Nat /\ DOMAIN vals = 1 .. n /\ \A k \in 1 .. n : vals[k] \in Vals
    BY SMTT(60)
<1>2. PICK p \in [DOMAIN vals -> DOMAIN vals] :
        /\ \A i, j \in DOMAIN vals : p[i] = p[j] => i = j
        /\ other = [i \in DOMAIN vals |-> vals[p[i]]]
    BY DEF Permuted
<1>3. p \in [1 .. n -> 1 .. n] /\ \A i, j \in 1 .. n : p[i] = p[j] => i = j
    BY <1>1, <1>2
<1>4. \A k \in 1 .. n : \E i \in 1 .. n : p[i] = k
    BY <1>1, <1>3, Onto
<1>5. DOMAIN other = 1 .. n /\ \A i \in 1 .. n : other[i] = vals[p[i]]
    BY <1>1, <1>2
<1>6. other \in [1 .. n -> Vals]
    BY <1>1, <1>2
<1>7. other \in Seq(Vals) /\ Len(other) = n /\ Len(vals) = n
    BY <1>1, <1>6, SMTT(60)
<1>8. vals = <<>> <=> other = <<>>
    BY <1>7, SMTT(60)
<1>9. (\E i \in DOMAIN vals : vals[i].power = 0) <=> (\E i \in DOMAIN other : other[i].power = 0)
    <2>1. ASSUME NEW i \in DOMAIN vals, vals[i].power = 0
          PROVE  \E j \in DOMAIN other : other[j].power = 0
        <3>1. PICK j \in 1 .. n : p[j] = i
            BY <1>1, <1>4
        <3>2. other[j] = vals[i] /\ j \in DOMAIN other
            BY <1>5, <3>1
        <3>3. other[j].power = 0
            BY <2>1, <3>2
        <3> QED
            BY <3>2, <3>3
    <2>2. ASSUME NEW i \in DOMAIN other, other[i].power = 0
          PROVE  \E j \in DOMAIN vals : vals[j].power = 0
        <3>1. p[i] \in DOMAIN vals /\ other[i] = vals[p[i]]
            BY <1>1, <1>3, <1>5
        <3>2. vals[p[i]].power = 0
            BY <2>2, <3>1
        <3> QED
            BY <3>1, <3>2
    <2> QED
        BY <2>1, <2>2
<1>10. Distinct(vals) => Distinct(other)
    <2>1. ASSUME Distinct(vals), NEW i \in 1 .. n, NEW j \in 1 .. n, i # j
          PROVE  other[i].addr # other[j].addr
        <3>1. p[i] # p[j] /\ p[i] \in DOMAIN vals /\ p[j] \in DOMAIN vals
            BY <1>1, <1>3, <2>1
        <3>2. vals[p[i]].addr # vals[p[j]].addr
            BY <2>1, <3>1 DEF Distinct
        <3>3. other[i] = vals[p[i]] /\ other[j] = vals[p[j]]
            BY <1>5
        <3> QED
            BY <3>2, <3>3
    <2> QED
        BY <1>5, <2>1 DEF Distinct
<1>11. Distinct(other) => Distinct(vals)
    <2>1. ASSUME Distinct(other), NEW i \in 1 .. n, NEW j \in 1 .. n, i # j
          PROVE  vals[i].addr # vals[j].addr
        <3>1. PICK x \in 1 .. n : p[x] = i
            BY <1>4
        <3>2. PICK y \in 1 .. n : p[y] = j
            BY <1>4
        <3>3. x # y /\ other[x] = vals[i] /\ other[y] = vals[j]
            BY <1>5, <2>1, <3>1, <3>2
        <3>4. other[x].addr # other[y].addr
            BY <1>5, <2>1, <3>3 DEF Distinct
        <3> QED
            BY <3>3, <3>4
    <2> QED
        BY <1>1, <2>1 DEF Distinct
<1>12. Covers(vals, other) /\ Covers(other, vals)
    <2>1. Reorders(p, n, vals, other)
        BY <1>1, <1>3, <1>4, <1>5 DEF Reorders
    <2> QED
        BY <2>1, ReorderCovers
<1>13. ASSUME Distinct(vals)
       PROVE  ByAddress(other) = ByAddress(vals)
    <2> DEFINE a == ByAddress(vals)
               b == ByAddress(other)
    <2>1. Rising(a) /\ a \in Seq(Vals) /\ Len(a) = n
        BY <1>13, ByAddressIs
    <2>2. Rising(b) /\ b \in Seq(Vals) /\ Len(b) = n
        BY <1>7, <1>10, <1>13, ByAddressIs
    <2>3. Covers(vals, a) /\ Covers(a, vals)
        BY <1>13, SortedCovers
    <2>4. Covers(other, b) /\ Covers(b, other)
        BY <1>7, <1>10, <1>13, SortedCovers
    <2> HIDE DEF a, b
    <2>5. Covers(a, other) /\ Covers(b, vals)
        BY <1>12, <2>3, <2>4, CoversMore
    <2>6. Covers(a, b) /\ Covers(b, a)
        BY <2>3, <2>4, <2>5, CoversMore
    <2>7. a = b
        BY <2>1, <2>2, <2>6, RisingUnique
    <2> QED
        BY <2>7 DEF a, b
<1>14. Distinct(vals) <=> ~(\E i, j \in DOMAIN vals : i # j /\ vals[i].addr = vals[j].addr)
    BY DEF Distinct
<1>15. Distinct(other) <=> ~(\E i, j \in DOMAIN other : i # j /\ other[i].addr = other[j].addr)
    BY DEF Distinct
<1>16. CASE Distinct(vals)
    <2>1. ByAddress(other) = ByAddress(vals)
        BY <1>13, <1>16
    <2>2. Distinct(other)
        BY <1>10, <1>16
    <2> QED
        BY <1>8, <1>9, <1>14, <1>15, <1>16, <2>1, <2>2 DEF NewValidatorSet
<1>17. CASE ~Distinct(vals)
    <2>1. NewValidatorSet(vals) = Rejected
        BY <1>14, <1>17 DEF NewValidatorSet
    <2>2. NewValidatorSet(other) = Rejected
        BY <1>11, <1>15, <1>17 DEF NewValidatorSet
    <2> QED
        BY <2>1, <2>2
<1> QED
    BY <1>16, <1>17

\* The running total of a sound set begins at zero, rises with each validator by
\* its power and ends at the total.
Rises(R, set) ==
    /\ R \in [0 .. Len(set) -> Nat] /\ R[0] = 0 /\ R[Len(set)] = SumPower(set)
    /\ \A k \in 1 .. Len(set) : R[k] = R[k - 1] + set[k].power
    /\ \A i, j \in 0 .. Len(set) : i <= j => R[i] <= R[j]

\* It does.
LEMMA TotalRises ==
    ASSUME NEW set, Sound(set)
    PROVE  Rises(RunningTotal(set), set)
<1> DEFINE n == Len(set)
           R == RunningTotal(set)
<1>1. /\ set \in Seq(Vals) /\ n \in Nat
      /\ \A k \in 1 .. n : k \in 0 .. n /\ k - 1 \in 0 .. n /\ set[k] \in Vals
    BY SMTT(60) DEF Sound
<1>2. IsTotal(R, set)
    BY <1>1, TotalIs
<1>3. R \in [0 .. n -> Word] /\ R[0] = 0
    BY <1>2 DEF IsTotal
<1>4. \A k \in 1 .. n : R[k] = R[k - 1] + set[k].power
    BY <1>1, TotalExact DEF Sound
<1>5. R[n] = SumPower(set)
    BY DEF SumPower
<1>6. \A x \in Word : x \in Nat
    BY SMTT(60) DEF Word
<1> HIDE DEF R
<1>7. R \in [0 .. n -> Nat]
    BY <1>3, <1>6
<1>8. ASSUME NEW i \in 0 .. n
      PROVE  \A j \in 0 .. n : i <= j => R[i] <= R[j]
    <2> DEFINE T == {j \in 0 .. n : i <= j => R[i] <= R[j]}
    <2>1. 0 \in T
        <3>1. 0 \in 0 .. n /\ (i <= 0 => i = 0) /\ R[0] <= R[0]
            BY <1>1, <1>3, SMTT(60)
        <3> QED
            BY <3>1
    <2>2. ASSUME NEW k \in 1 .. n, k - 1 \in T
          PROVE  k \in T
        <3>1. /\ R[k - 1] \in Nat /\ R[k] \in Nat /\ R[i] \in Nat
              /\ R[k] = R[k - 1] + set[k].power /\ k \in 0 .. n
              /\ i <= k - 1 => R[i] <= R[k - 1]
            BY <1>1, <1>4, <1>7, <2>2
        <3>2. set[k].power \in Nat
            BY <1>1, <1>6 DEF Vals
        <3>3. CASE i = k
            BY <3>1, <3>3, SMTT(60)
        <3>4. CASE i # k
            <4>1. i <= k => i <= k - 1
                BY <3>4, SMTT(60)
            <4>2. i <= k - 1 => R[i] <= R[k]
                BY <3>1, <3>2, SMTT(60)
            <4> QED
                BY <3>1, <4>1, <4>2
        <3> QED
            BY <3>3, <3>4
    <2> HIDE DEF T
    <2>3. \A k \in 0 .. n : k \in T
        BY <1>1, <2>1, <2>2, UpTo
    <2> QED
        BY <2>3 DEF T
<1>9. Rises(R, set)
    BY <1>3, <1>4, <1>5, <1>7, <1>8 DEF Rises
<1> QED
    BY <1>9 DEF R

\* The proposer of a slot is the validator in whose stretch of the total it is.
LEMMA ProposerIs ==
    ASSUME NEW set, Sound(set), NEW h \in Nat, NEW r \in Nat,
           h + r <= MaxUint, NEW i \in DOMAIN set
    PROVE  ProposerIndex(set, h, r) = i
           <=> (h + r) % SumPower(set) \in RunningTotal(set)[i - 1] .. RunningTotal(set)[i] - 1
<1> DEFINE n == Len(set)
           R == RunningTotal(set)
           total == SumPower(set)
           slot == (h + r) % total
           Above(s) == {k \in DOMAIN set : s < R[k]}
           Least(s) == CHOOSE k \in Above(s) : \A j \in Above(s) : k <= j
           Index(s) == IF Above(s) = {} THEN n ELSE Least(s)
           above == Above(slot)
           least == Least(slot)
<1>1. total \in Nat \ {0}
    <2>1. total \in Word \ {0}
        BY SoundTotal
    <2> HIDE DEF total
    <2> QED
        BY <2>1, SMTT(60) DEF Word
<1>2. h + r \in Nat
    BY SMTT(60)
<1>3. Wrap(h + r) = h + r
    BY <1>2, WrapFits
<1>4. ProposerIndex(set, h, r) = IF above = {} THEN n ELSE least
    <2>1. ProposerIndex(set, h, r) = Index(Wrap(h + r) % total)
        BY DEF ProposerIndex
    <2> HIDE DEF Index
    <2>2. ProposerIndex(set, h, r) = Index(slot)
        BY <1>3, <2>1
    <2> QED
        BY <2>2 DEF Index
<1>5. Rises(R, set)
    BY TotalRises
<1>6. n \in Nat /\ DOMAIN set = 1 .. n /\ n \in 1 .. n
    BY SMTT(60) DEF Sound
<1> HIDE DEF R, total
<1>7. slot \in Nat /\ slot < total
    BY <1>1, <1>2, SMTT(60)
<1> HIDE DEF slot
<1>8. /\ R \in [0 .. n -> Nat] /\ R[0] = 0 /\ R[n] = total
      /\ \A x, y \in 0 .. n : x <= y => R[x] <= R[y]
    BY <1>5 DEF Rises, total
<1>9. \A k \in 1 .. n : k \in 0 .. n /\ k - 1 \in 0 .. n /\ k \in Nat
    BY <1>6, SMTT(60)
<1>10. above \in SUBSET Nat /\ n \in above
    BY <1>6, <1>7, <1>8, <1>9
<1>11. PICK m \in above : \A j \in above : ~(j < m)
    <2> HIDE DEF above
    <2> QED
        BY <1>10, NatMin
<1>12. \A j \in above : m <= j
    <2>1. \A j \in above : j \in Nat /\ m \in Nat /\ ~(j < m)
        BY <1>10, <1>11
    <2> HIDE DEF above
    <2> QED
        BY <2>1, SMTT(60)
<1>13. least \in above /\ \A j \in above : least <= j
    BY <1>11, <1>12
<1>14. ProposerIndex(set, h, r) = least
    BY <1>4, <1>10
<1> HIDE DEF least
<1>15. i \in 1 .. n /\ R[i] \in Nat /\ R[i - 1] \in Nat
    BY <1>6, <1>8, <1>9
<1>16. ASSUME least = i
       PROVE  slot \in R[i - 1] .. R[i] - 1
    <2>1. slot < R[i]
        BY <1>13, <1>16
    <2>2. R[i - 1] <= slot
        <3>1. CASE i = 1
            <4>1. R[i - 1] = 0
                BY <3>1, <1>8, SMTT(60)
            <4> QED
                BY <4>1, <1>7, SMTT(60)
        <3>2. CASE i # 1
            <4>1. i - 1 \in 1 .. n /\ ~(i <= i - 1)
                BY <1>15, <3>2, SMTT(60)
            <4>2. i - 1 \notin above
                BY <1>13, <1>16, <4>1
            <4>3. ~(slot < R[i - 1])
                BY <1>6, <4>1, <4>2
            <4> QED
                BY <4>3, <1>7, <1>15, SMTT(60)
        <3> QED
            BY <3>1, <3>2
    <2> QED
        BY <2>1, <2>2, <1>7, <1>15, SMTT(60)
<1>17. ASSUME slot \in R[i - 1] .. R[i] - 1
       PROVE  least = i
    <2>1. slot < R[i] /\ R[i - 1] <= slot
        BY <1>7, <1>15, <1>17, SMTT(60)
    <2>2. i \in above
        BY <1>6, <1>15, <2>1
    <2>3. least \in 1 .. n /\ slot < R[least] /\ least <= i
        BY <1>6, <1>13, <2>2
    <2>4. CASE least = i
        BY <2>4
    <2>5. CASE least # i
        <3>1. least \in 0 .. n /\ i - 1 \in 0 .. n /\ least <= i - 1
            BY <1>15, <2>3, <2>5, SMTT(60)
        <3>2. R[least] <= R[i - 1] /\ R[least] \in Nat
            BY <1>8, <3>1
        <3> QED
            BY <1>7, <1>15, <2>1, <2>3, <3>2, SMTT(60)
    <2> QED
        BY <2>4, <2>5
<1> QED
    BY <1>14, <1>16, <1>17 DEF R, slot, total

\* In a row of rounds as long as the total, a validator proposes as often as its
\* power says, whatever height the row is of.
LEMMA TurnsOfValidator ==
    ASSUME NEW set, Sound(set), NEW h \in Nat,
           h + SumPower(set) - 1 <= MaxUint, NEW i \in DOMAIN set
    PROVE  Cardinality({r \in 0 .. SumPower(set) - 1 : ProposerIndex(set, h, r) = i})
           = set[i].power
<1> DEFINE n == Len(set)
           t == SumPower(set)
           R == RunningTotal(set)
           lo == R[i - 1]
           hi == R[i]
<1>1. t \in Word \ {0} /\ MaxUint \in Int
    BY WidthAssumption, SoundTotal, SMTT(60) DEF MaxUint
<1>2. Rises(R, set)
    BY TotalRises
<1>3. n \in Nat /\ DOMAIN set = 1 .. n /\ i \in 1 .. n /\ i \in 0 .. n /\ i - 1 \in 0 .. n
      /\ n \in 0 .. n /\ i <= n /\ set[i] \in Vals
    BY SMTT(60) DEF Sound
<1> HIDE DEF t, R
<1>4. /\ lo \in Nat /\ hi \in Nat /\ hi = lo + set[i].power /\ hi <= R[n] /\ R[n] = t
    BY <1>2, <1>3 DEF Rises, t
<1>5. set[i].power \in Word \ {0}
    BY <1>3 DEF Vals, Sound
<1> HIDE DEF lo, hi
<1>6. t \in Nat \ {0} /\ lo < hi /\ hi <= t /\ hi - lo = set[i].power
    BY <1>1, <1>4, <1>5, SMTT(60) DEF Word
<1>7. ASSUME NEW r \in 0 .. t - 1
      PROVE  ProposerIndex(set, h, r) = i <=> (h + r) % t \in lo .. hi - 1
    <2>1. r \in Nat /\ h + r <= MaxUint
        <3>1. h + t - 1 <= MaxUint
            BY DEF t
        <3> QED
            BY <1>1, <1>6, <3>1, SMTT(60)
    <2> QED
        BY <2>1, ProposerIs DEF t, lo, hi, R
<1>8. {r \in 0 .. t - 1 : ProposerIndex(set, h, r) = i}
      = InStretch(t, h, lo, hi)
    BY <1>7 DEF InStretch
<1>9. Cardinality(InStretch(t, h, lo, hi)) = hi - lo
    <2>1. IsStretch(t, h, lo, hi)
        BY <1>4, <1>6 DEF IsStretch
    <2> QED
        BY <2>1, SlotsOfStretch
<1> QED
    BY <1>6, <1>8, <1>9 DEF t

\* Heights and rounds are added without wrapping, up to the highest slot.
SlotsFit ==
    /\ MaxSlot \in Nat
    /\ \A l \in Listings : NewValidatorSet(l) # Rejected
         => MaxSlot + SumPower(NewValidatorSet(l)) - 1 <= MaxUint

\* Whatever lists of validators genesis files hold, the order of a list does not
\* matter, and every validator of an accepted set proposes in proportion to its
\* power in the rounds of every height, provided height + round does not wrap.
THEOREM ScheduleStaysProportional ==
    ASSUME ListsFit, SlotsFit
    PROVE  MCSpec => []ScheduleIsProportional
<1>1. MCInit => listed \in Listings
    BY ListedInit
<1>2. listed \in Listings /\ [MCNext]_(<<stackVars, listed>>) => (listed \in Listings)'
    BY ListedStep
<1>3. ASSUME listed \in Listings
      PROVE  ScheduleIsProportional
    <2>1. PICK l \in Listings : l = listed
        BY <1>3
    <2>2. l \in Seq(Vals)
        BY ListingIsVals
    <2>3. PICK set : set = NewValidatorSet(l)
        OBVIOUS
    <2>4. \A other \in Permuted(l) : NewValidatorSet(other) = set
        BY <2>2, <2>3, OrderIsIgnored
    <2>5. ASSUME set # Rejected, NEW h \in 0 .. MaxSlot, NEW i \in DOMAIN set
          PROVE  Cardinality({r \in 0 .. SumPower(set) - 1 : ProposerIndex(set, h, r) = i})
                 = set[i].power
        <3>1. Sound(set)
            BY <2>2, <2>3, <2>5, AcceptedIs
        <3>2. MaxSlot \in Nat /\ MaxSlot + SumPower(set) - 1 <= MaxUint
            BY <2>3, <2>5 DEF SlotsFit
        <3>3. h \in Nat /\ h <= MaxSlot
            BY <3>2, SMTT(60)
        <3>4. SumPower(set) \in Nat /\ MaxUint \in Int
            <4>1. SumPower(set) \in Word
                BY <3>1, SoundTotal
            <4>2. MaxUint \in Int
                BY WidthAssumption, SMTT(60) DEF MaxUint
            <4>3. \A x \in Word : x \in Nat
                BY SMTT(60) DEF Word
            <4> QED
                BY <4>1, <4>2, <4>3
        <3>5. h + SumPower(set) - 1 <= MaxUint
            BY <3>2, <3>3, <3>4, SMTT(60)
        <3> QED
            BY <3>1, <3>3, <3>5, TurnsOfValidator
    <2> QED
        BY <2>1, <2>3, <2>4, <2>5 DEF ScheduleIsProportional
<1> QED
    BY <1>1, <1>2, <1>3, PTL DEF MCSpec

\* A commit event is of a height the engine has left.  An engine is above the
\* node's head but for the moment in which the one handler that imported the
\* head is about to move it: no other import can come in between, because the
\* next block's commit event would have to be of a height the engine is at.
KeepsUpInv ==
  /\ head \in [Nodes -> Nat]
  /\ height \in [Nodes -> Nat]
  /\ delivered \in [Nodes -> SUBSET Nat]
  /\ rotating \in [Nodes -> SUBSET Nat]
  /\ applying \in [Nodes -> SUBSET Nat]
  /\ \A n \in Nodes :
       /\ applying[n] = {} \/ \E h \in Nat : applying[n] = {h}
       /\ \A h \in delivered[n] : h < height[n]
       /\ \/ height[n] > head[n]
          \/ height[n] = head[n] /\ applying[n] = {head[n]}

\* The stack starts in step.
LEMMA KeepsUpInit ==
  ASSUME StackInit
  PROVE  KeepsUpInv
BY SMTT(60) DEF StackInit, KeepsUpInv

\* With one handler at a time, every step keeps the engine in step.
LEMMA KeepsUpStep ==
  ASSUME Handlers <= 1, KeepsUpInv, [StackNext]_stackVars
  PROVE  KeepsUpInv'
<1> USE StackAssumption
<1>1. ASSUME NEW n \in Nodes, EngineCommit(n)
      PROVE  KeepsUpInv'
  BY <1>1, SMTT(60) DEF EngineCommit, KeepsUpInv
<1>2. ASSUME NEW n \in Nodes, NEW h \in delivered[n], OnCommitImport(n, h)
      PROVE  KeepsUpInv'
  <2>1. h \in Nat /\ h < height[n] /\ head[n] \in Nat /\ height[n] \in Nat
    BY SMTT(60) DEF KeepsUpInv
  <2>2. CASE h = head[n] + 1
    <3>1. height[n] > h
      BY <2>1, SMTT(60)
    <3> QED
      BY <1>2, <2>1, <2>2, <3>1, SMTT(60) DEF OnCommitImport, KeepsUpInv
  <2>3. CASE h # head[n] + 1
    BY <1>2, <2>1, <2>3, SMTT(60) DEF OnCommitImport, KeepsUpInv
  <2> QED
    BY <2>2, <2>3, SMTT(60)
<1>3. ASSUME NEW n \in Nodes, NEW h \in rotating[n], OnCommitRotate(n, h)
      PROVE  KeepsUpInv'
  <2>1. UNCHANGED <<head, height, delivered, applying>>
    BY <1>3, SMTT(60) DEF OnCommitRotate
  <2>2. rotating' \in [Nodes -> SUBSET Nat]
    BY <1>3, SMTT(60) DEF OnCommitRotate, KeepsUpInv
  <2> QED
    BY <2>1, <2>2, SMTT(60) DEF KeepsUpInv
<1>4. ASSUME NEW n \in Nodes, NEW h \in 1 .. MaxBlock, OnBlockImport(n, h)
      PROVE  KeepsUpInv'
  <2>1. applying[n] = {}
    <3>1. Cardinality(applying[n]) < Handlers
      BY <1>4 DEF OnBlockImport
    <3>2. ASSUME NEW x \in Nat, applying[n] = {x}
          PROVE  FALSE
      <4>1. Cardinality(applying[n]) = 1
        BY <3>2, FS_Singleton
      <4> QED
        BY <4>1, <3>1, SMTT(60)
    <3> QED
      BY <3>2, SMTT(60) DEF KeepsUpInv
  <2>2. height[n] > head[n] /\ head[n] \in Nat /\ height[n] \in Nat /\ h \in Nat
    BY <2>1, SMTT(60) DEF KeepsUpInv
  <2>3. /\ applying' = [applying EXCEPT ![n] = {h}]
        /\ UNCHANGED <<height, delivered, rotating>>
        /\ \/ head' = [head EXCEPT ![n] = h] /\ h = head[n] + 1
           \/ head' = head
    BY <1>4, <2>1, SMTT(60) DEF OnBlockImport
  <2> QED
    BY <2>2, <2>3, SMTT(60) DEF KeepsUpInv
<1>5. ASSUME NEW n \in Nodes, NEW h \in applying[n], OnBlockApply(n, h)
      PROVE  KeepsUpInv'
  <2>1. applying[n] = {h} /\ h \in Nat /\ head[n] \in Nat /\ height[n] \in Nat
    BY SMTT(60) DEF KeepsUpInv
  <2>2. /\ applying' = [applying EXCEPT ![n] = {}]
        /\ UNCHANGED <<head, delivered, rotating>>
        /\ height' = IF height[n] = h THEN [height EXCEPT ![n] = h + 1] ELSE height
    <3>1. applying[n] \ {h} = {}
      BY <2>1
    <3> QED
      BY <1>5, <3>1 DEF OnBlockApply
  <2>3. CASE height[n] = h
    BY <2>1, <2>2, <2>3, SMTT(60) DEF KeepsUpInv
  <2>4. CASE height[n] # h
    BY <2>1, <2>2, <2>4, SMTT(60) DEF KeepsUpInv
  <2> QED
    BY <2>3, <2>4, SMTT(60)
<1>6. ASSUME NEW n \in Nodes, Restart(n)
      PROVE  KeepsUpInv'
  BY <1>6, SMTT(60) DEF Restart, KeepsUpInv
<1>7. CASE UNCHANGED stackVars
  BY <1>7, SMTT(60) DEF stackVars, KeepsUpInv
<1> QED
  BY <1>1, <1>2, <1>3, <1>4, <1>5, <1>6, <1>7, SMTT(60) DEF StackNext

\* With one OnBlock call at a time, an engine is never left on a height its node
\* has stored.  (With two at a time the claim is false.)
THEOREM OneHandlerKeepsUp ==
  ASSUME Handlers <= 1
  PROVE  StackSpec => []EngineKeepsUp
<1>1. KeepsUpInv /\ [StackNext]_stackVars => KeepsUpInv'
  BY KeepsUpStep
<1>2. KeepsUpInv => EngineKeepsUp
  BY SMTT(60) DEF KeepsUpInv, EngineKeepsUp, Quiet
<1> QED
  BY <1>1, <1>2, KeepsUpInit, PTL DEF StackSpec
=============================================================================
