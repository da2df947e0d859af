---------------------------- MODULE ParallelExec ----------------------------
(***************************************************************************)
(* Dew-PE, the optimistic executor of a block (core/vm/parallel.go): every *)
(* message runs on its own copy of the parent state, at most Workers at a  *)
(* time; when all have run they are taken in index order, and one whose    *)
(* accesses meet an earlier write runs again on the live state, while any  *)
(* other has its dirty entries laid over it (core/state/copy.go,           *)
(* access_track.go).  A second state is stepped along with it: the same    *)
(* messages applied one after another, which is what the result is         *)
(* compared with.                                                          *)
(*                                                                         *)
(* A state database is a record: the caches, their dirty sets and the      *)
(* access set.  An account is its balance and nonce; a contract is an      *)
(* account of nonce 1.  The EVM is external: what a message's code does is *)
(* one of a few programs.                                                  *)
(***************************************************************************)
EXTENDS CacheEntries, FiniteSets, Sequences

CONSTANTS
  SlotOf,        \* the slot a contract's program works on
  Deployed,      \* where a sender's CREATE puts its contract
  Coinbase,
  Messages,      \* the messages a block may hold; a sender deploys at most once
  Earlier,       \* the messages one of which may have run before the block
  Genesis,       \* the durable accounts
  NumMsgs,       \* bounds: messages in the block,
  Workers,       \* the workers of the executor,
  GasLimit       \* the gas of a message, in units its programs use one by one

Message ==
  [kind : {"call", "create", "createDestroy"}, from : Addrs, to : Addrs, value : Nat,
   price : Nat, op : {"none", "bump", "revert", "peek", "overspend"}, at : Addrs]

\* A program is that of a contract, and works on the contract's own slot.
ASSUME ParallelAssumption ==
  /\ Owner \in [Slots -> Addrs] /\ Addrs \cap Slots = {}
  /\ SlotOf \in [Addrs -> Slots] /\ Deployed \in [Addrs -> Addrs] /\ Coinbase \in Addrs
  /\ Genesis \in [Addrs -> {NoAccount} \cup [balance : Nat, nonce : Nat]]
  /\ NoAccount \notin [balance : Int, nonce : Int]
  /\ NumMsgs \in Nat /\ Workers \in Nat \ {0} /\ GasLimit \in Nat \ {0, 1}
  /\ \A m \in Messages \cup Earlier : m \in Message
  /\ \A m \in Messages : m.kind = "call" /\ m.op # "none" =>
       Owner[SlotOf[m.to]] = m.to /\ Genesis[m.to] # NoAccount /\ Genesis[m.to].nonce > 0

VARIABLES
  msgs,           \* the block
  live,           \* the executor's state database
  running,        \* the goroutines that hold the semaphore
  specs,          \* what each message's speculative run left, or none yet
  next,           \* the message validated next
  earlierWrites,  \* the keys the validated prefix wrote
  results,        \* one per validated message
  serial,         \* the state database of the sequential run,
  expected,       \* and its results
  stopped         \* a message failed on the validated prefix

parallelVars == <<msgs, live, running, specs, next, earlierWrites, results, serial, expected, stopped>>

Idx == 1 .. NumMsgs
NotRun == [run |-> FALSE]

----------------------------------------------------------------------------
(* The state database, with its access set.                                *)

NewDB ==
  [accounts |-> [t \in Addrs |-> NoAccount], storage |-> [k \in Slots |-> NotCached],
   accountDirty |-> {}, storageDirty |-> {}, reads |-> {}, writes |-> {}]

getAccountIn(s, t) == IF s.accounts[t] # NoAccount THEN s.accounts[t] ELSE Genesis[t]
HeldIn(s, t) == IF getAccountIn(s, t) = NoAccount THEN NewAccount ELSE getAccountIn(s, t)
GetStateIn(s, k) == IF s.storage[k] = NotCached THEN 0 ELSE s.storage[k]
Empty(s, t) == HeldIn(s, t) = NewAccount

----------------------------------------------------------------------------
(* One message.                                                            *)

CanPay(s, m) == HeldIn(s, m.from).balance >= GasLimit * m.price + m.value
Target(m) == IF m.kind = "call" THEN m.to ELSE Deployed[m.from]

\* A call of no value to an account that is not there ends at once.
Enters(s, m) == m.kind # "call" \/ getAccountIn(s, m.to) # NoAccount \/ m.value > 0

\* The programs of a contract: nothing, counting in its slot, counting and then
\* reverting, copying a third account's balance into its slot, or sending that
\* account more than the contract has.
Runs(s, m, op) == m.kind = "call" /\ Enters(s, m) /\ m.op \in op
Failed(s, m) == Runs(s, m, {"revert"})

\* What arrives: nothing if the frame is undone, and a contract that destroys
\* itself in its constructor sends it back.
Moved(s, m) == IF Failed(s, m) \/ ~ Enters(s, m) \/ m.kind = "createDestroy" THEN 0 ELSE m.value

\* Sending value is dearer where the receiver is empty, also if it then fails.
UsedGas(s, m) == 1 + (IF Runs(s, m, {"overspend"}) /\ Empty(s, m.at) THEN 1 ELSE 0)

\* Each balance moved, a zero amount included, and the sender's nonce.  The
\* proposer is paid only where gas has a price.
Touched(s, m) ==
  {m.from} \cup (IF Enters(s, m) THEN {Target(m)} ELSE {})
           \cup (IF m.price > 0 THEN {Coinbase} ELSE {})

\* The slot a program writes is dirty and was accessed also if it is reverted;
\* a write of the value the slot has is only a read.
Stored(s, m) ==
  LET old == GetStateIn(s, SlotOf[m.to])
  IN  IF Runs(s, m, {"bump", "revert"}) THEN old + 1
      ELSE IF Runs(s, m, {"peek"}) THEN HeldIn(s, m.at).balance ELSE old
SlotsWritten(s, m) ==
  IF m.kind = "call" /\ Stored(s, m) # GetStateIn(s, SlotOf[m.to]) THEN {SlotOf[m.to]} ELSE {}

\* Mutant: balances that are only looked at are not recorded.
ReadsNoBalances(s, m) ==
  {m.from, Target(m)} \cup (IF Runs(s, m, {"bump", "revert", "peek"}) THEN {SlotOf[m.to]} ELSE {})

\* The keys noted as read.  Empty notes nothing.
Reads(s, m) ==
  {m.from, Target(m)} \cup (IF Runs(s, m, {"bump", "revert", "peek"}) THEN {SlotOf[m.to]} ELSE {})
                      \cup (IF Runs(s, m, {"peek"}) THEN {m.at} ELSE {})

\* The account t at the end of the message: gas is bought and what is left
\* refunded, value is moved, a created contract has nonce 1.
After(s, m, t) ==
  LET fee == UsedGas(s, m) * m.price
  IN  [balance |-> HeldIn(s, t).balance + (IF t = Target(m) THEN Moved(s, m) ELSE 0)
                     - (IF t = m.from THEN Moved(s, m) + fee ELSE 0)
                     + (IF t = Coinbase THEN fee ELSE 0),
       nonce |-> IF t = m.from THEN HeldIn(s, t).nonce + 1
                 ELSE IF m.kind # "call" /\ t = Target(m) THEN 1 ELSE HeldIn(s, t).nonce]

\* Finalise: a destroyed contract, and a touched account that is empty, leaves
\* the cache and stays dirty.
Destroyed(m) == IF m.kind = "createDestroy" THEN {Target(m)} ELSE {}
Deleted(s, m) == Destroyed(m) \cup {t \in Touched(s, m) : After(s, m, t) = NewAccount}

\* The caches, dirty and access sets a message that can pay leaves.  A key that
\* is written is not also a read.
Executed(s, m) ==
  LET writes == Touched(s, m) \cup SlotsWritten(s, m)
  IN  [accounts |-> [t \in Addrs |-> IF t \in Deleted(s, m) THEN NoAccount
                                     ELSE IF t \in Touched(s, m) THEN After(s, m, t)
                                     ELSE s.accounts[t]],
       accountDirty |-> s.accountDirty \cup Touched(s, m),
       storage |-> [k \in Slots |-> IF k \notin SlotsWritten(s, m) THEN s.storage[k]
                                    ELSE IF Failed(s, m) THEN GetStateIn(s, k) ELSE Stored(s, m)],
       storageDirty |-> s.storageDirty \cup SlotsWritten(s, m),
       reads |-> (s.reads \cup Reads(s, m)) \ (s.writes \cup writes),
       writes |-> s.writes \cup writes]

\* A key that was written before is not noted.
NoteRead(s, key) ==
  [accounts |-> s.accounts, accountDirty |-> s.accountDirty, storage |-> s.storage,
   storageDirty |-> s.storageDirty, reads |-> s.reads \cup ({key} \ s.writes),
   writes |-> s.writes]

\* A sender that cannot pay is an error and changes nothing.
ApplyMessage(s, m) ==
  IF CanPay(s, m)
  THEN [state |-> Executed(s, m), err |-> FALSE, failed |-> Failed(s, m), used |-> UsedGas(s, m)]
  ELSE [state |-> NoteRead(s, m.from), err |-> TRUE, failed |-> FALSE, used |-> 0]

ResultOf(r) == [failed |-> r.failed, used |-> r.used]

StartAccessTracking(s) ==
  [accounts |-> s.accounts, accountDirty |-> s.accountDirty, storage |-> s.storage,
   storageDirty |-> s.storageDirty, reads |-> {}, writes |-> {}]
Copy(s) ==
  [accounts |-> s.accounts, accountDirty |-> {}, storage |-> s.storage,
   storageDirty |-> {}, reads |-> {}, writes |-> {}]

\* Dirty accounts, deleted ones included; dirty slots, zeroed where the account
\* is gone; and the account of a dirty slot that was only loaded.
ApplyOverlay(s, src) ==
  LET gone == {t \in src.accountDirty : src.accounts[t] = NoAccount}
      merged == [t \in Addrs |-> IF t \in src.accountDirty THEN src.accounts[t] ELSE s.accounts[t]]
      loaded == {Owner[k] : k \in {j \in src.storageDirty :
                   src.accounts[Owner[j]] # NoAccount /\ merged[Owner[j]] = NoAccount}}
  IN  [accounts |-> [t \in Addrs |-> IF t \in loaded THEN src.accounts[t] ELSE merged[t]],
       accountDirty |-> s.accountDirty \cup src.accountDirty \cup loaded,
       storage |-> [k \in Slots |-> IF k \notin src.storageDirty THEN s.storage[k]
                                    ELSE IF Owner[k] \in gone THEN 0 ELSE src.storage[k]],
       storageDirty |-> s.storageDirty \cup src.storageDirty,
       reads |-> s.reads, writes |-> s.writes]

\* A read or a write that meets an earlier write.
ConflictsWith(s, keys) == (s.reads \cup s.writes) \cap keys # {}

----------------------------------------------------------------------------
(* The executor.                                                           *)

\* One address per sender stands for the contract it deploys.
DeployOnce(b) ==
  \A i, j \in Idx : b[i].kind # "call" /\ b[j].kind # "call" /\ b[i].from = b[j].from => i = j

\* The state a block begins with: fresh, or left by a message before it.
ParallelInit ==
  /\ msgs \in {b \in [Idx -> Messages] : DeployOnce(b)}
  /\ live \in {NewDB} \cup {StartAccessTracking(ApplyMessage(NewDB, m).state) : m \in Earlier}
  /\ running = {}
  /\ specs = [i \in Idx |-> NotRun]
  /\ next = 1 /\ earlierWrites = {} /\ results = <<>>
  /\ serial = live /\ expected = <<>>
  /\ stopped = FALSE

\* A goroutine gets a place in the semaphore,
Acquire(i) ==
  /\ specs[i] = NotRun /\ i \notin running
  /\ Cardinality(running) < Workers
  /\ running' = running \cup {i}
  /\ UNCHANGED <<msgs, live, specs, next, earlierWrites, results, serial, expected, stopped>>

\* Mutant: the place is kept.
SpeculateKeepPlace(i) ==
  /\ i \in running /\ specs[i] = NotRun
  /\ \E fork \in {Copy(live)} : specs' = [specs EXCEPT ![i] = ApplyMessage(fork, msgs[i])]
  /\ UNCHANGED <<msgs, live, running, next, earlierWrites, results, serial, expected, stopped>>

\* runs its message on a copy, and gives the place back.
Speculate(i) ==
  /\ i \in running
  /\ \E fork \in {Copy(live)} : specs' = [specs EXCEPT ![i] = ApplyMessage(fork, msgs[i])]
  /\ running' = running \ {i}
  /\ UNCHANGED <<msgs, live, next, earlierWrites, results, serial, expected, stopped>>

\* The next message of the block, once every goroutine is done: its run is laid
\* over the live state, or it runs again there.  The Finalise after the overlay
\* finds an empty journal.  An error ends the block with the prefix applied.
\* The sequential run takes its step.
Validate ==
  LET m == msgs[next]
      accept == ~ specs[next].err /\ ~ ConflictsWith(specs[next].state, earlierWrites)
  IN  /\ \A i \in Idx : specs[i] # NotRun
      /\ next \in Idx /\ ~ stopped
      /\ \E base \in {StartAccessTracking(live)} :
         \E run \in {IF accept THEN specs[next] ELSE ApplyMessage(base, m)} :
           /\ live' = IF accept THEN ApplyOverlay(live, run.state) ELSE run.state
           /\ stopped' = run.err
           /\ IF run.err THEN UNCHANGED <<next, results, earlierWrites>>
              ELSE /\ next' = next + 1
                   /\ results' = Append(results, ResultOf(run))
                   /\ earlierWrites' = earlierWrites \cup run.state.writes
      /\ \E seq \in {ApplyMessage(serial, m)} :
           /\ serial' = seq.state
           /\ expected' = IF seq.err THEN expected ELSE Append(expected, ResultOf(seq))
      /\ UNCHANGED <<msgs, running, specs>>

ParallelNext == (\E i \in Idx : Acquire(i) \/ Speculate(i)) \/ Validate

\* The scheduler runs every goroutine, and the caller of wg.Wait.
ParallelSpec ==
  /\ ParallelInit /\ [][ParallelNext]_parallelVars
  /\ WF_parallelVars(\E i \in Idx : Acquire(i) \/ Speculate(i))
  /\ WF_parallelVars(Validate)

----------------------------------------------------------------------------
(* Properties.                                                             *)

\* What the EVM reads, what a commit would write, and what the root is made of.
Reading(s) == [account |-> [t \in Addrs |-> getAccountIn(s, t)], slot |-> [k \in Slots |-> GetStateIn(s, k)]]
FlushDirtyTo(s) ==
  [account |-> [t \in Addrs |-> IF t \in s.accountDirty THEN getAccountIn(s, t) ELSE Genesis[t]],
   slot |-> [k \in Slots |-> IF k \in s.storageDirty THEN s.storage[k] ELSE 0]]

\* "Final state is equivalent to sequential ApplyMessage in index order": after
\* every validated message the live state reads, and flushes, as the sequential
\* one does, and the results are the same; an error stops both.
SerialEquivalent ==
  /\ Reading(live) = Reading(serial)
  /\ FlushDirtyTo(live) = FlushDirtyTo(serial)
  /\ results = expected

\* The semaphore never starves a message and the wait ends: every block is
\* executed, or stopped by a message that cannot pay.
Terminates == <>(next > NumMsgs \/ stopped)

=============================================================================
