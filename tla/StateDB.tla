------------------------------ MODULE StateDB -------------------------------
(***************************************************************************)
(* The state cache of a node (core/state): accounts and storage slots over *)
(* the durable database, the journal that undoes EVM frames, and the ways  *)
(* the node uses them: a block is a snapshot, transactions that each end   *)
(* with Finalise, and a flush (node/import.go, persist.go); eth_call is a  *)
(* snapshot, one message without Finalise and a revert (node/node.go).     *)
(*                                                                         *)
(* An account is its balance and nonce; code, self-destruction, refunds,   *)
(* logs and access lists are left out.                                     *)
(***************************************************************************)
EXTENDS CacheEntries, Sequences

CONSTANTS
  Values,         \* of a storage slot; 0 is an empty slot
  MaxBalance,     \* bounds: of a balance,
  MaxJournal,     \* of the journal
  MaxRevision,    \* and of the snapshots taken in one block
  NativeSlots     \* the slots of the native modules, 0x101 and 0x102

ASSUME StateAssumption ==
  /\ Owner \in [Slots -> Addrs]
  /\ 0 \in Values /\ Values \subseteq Nat
  /\ MaxBalance \in Nat /\ MaxJournal \in Nat /\ MaxRevision \in Nat
  /\ NativeSlots \subseteq Slots
  /\ NoAccount \notin [balance : Nat, nonce : Nat]

VARIABLES
  dbAccounts, dbStorage,    \* the durable database
  accounts, storage,        \* the caches
  accountDirty, storageDirty,
  journal, dirties,         \* the undo entries, the addresses they touch
  revisions, nextRevision,  \* valid snapshots: id, journal index and, as
                            \* history, what was read then
  phase,                    \* what the node is doing
  blockSnap,                \* the snapshot the block was begun with
  panicked

vars == <<dbAccounts, dbStorage, accounts, storage, accountDirty, storageDirty,
          journal, dirties, revisions, nextRevision, phase, blockSnap, panicked>>

Account == [balance : 0 .. MaxBalance, nonce : 0 .. 1]

Init ==
  /\ dbAccounts \in [Addrs -> {NoAccount} \cup
                              {[balance |-> b, nonce |-> 0] : b \in 1 .. MaxBalance}]
  /\ dbStorage = [k \in Slots |-> 0]
  /\ accounts = [a \in Addrs |-> NoAccount]
  /\ storage = [k \in Slots |-> NotCached]
  /\ accountDirty = {} /\ storageDirty = {}
  /\ journal = <<>> /\ dirties = {}
  /\ revisions = <<>> /\ nextRevision = 0
  /\ phase = "idle" /\ blockSnap = 0
  /\ panicked = FALSE

----------------------------------------------------------------------------
(* Reading: the cache first, then the database.                            *)

getAccount(a) == IF accounts[a] # NoAccount THEN accounts[a] ELSE dbAccounts[a]
Exist(a) == getAccount(a) # NoAccount
GetOrNewAccount(a) == IF Exist(a) THEN getAccount(a) ELSE NewAccount
GetBalance(a) == GetOrNewAccount(a).balance
GetNonce(a) == GetOrNewAccount(a).nonce
GetState(k) == IF storage[k] # NotCached THEN storage[k] ELSE dbStorage[k]

\* What the EVM reads.
Readings ==
  [balance |-> [a \in Addrs |-> GetBalance(a)],
   nonce |-> [a \in Addrs |-> GetNonce(a)],
   slot |-> [k \in Slots \ NativeSlots |-> GetState(k)]]

----------------------------------------------------------------------------
(* Writing, during a transaction or a call.                                *)

Executing == phase \in {"tx", "call"} /\ ~ panicked

AppendEntry(entry) ==
  /\ Len(journal) < MaxJournal
  /\ journal' = Append(journal, entry)
  /\ dirties' = dirties \cup entry.touches

\* The account object is created in the cache without an entry of its own.
PutAccount(a, acc) ==
  /\ accounts' = [accounts EXCEPT ![a] = acc]
  /\ accountDirty' = accountDirty \cup {a}

\* SubBalance and AddBalancePrev, an amount of zero included.
SetBalanceTo(a, b) ==
  /\ Executing
  /\ AppendEntry([kind |-> "balance", key |-> a, prev |-> GetBalance(a), touches |-> {a}])
  /\ PutAccount(a, [GetOrNewAccount(a) EXCEPT !.balance = b])
  /\ UNCHANGED <<dbAccounts, dbStorage, storage, storageDirty, revisions,
                 nextRevision, phase, blockSnap, panicked>>

SetNonceJournaled(a) ==
  /\ Executing
  /\ AppendEntry([kind |-> "nonce", key |-> a, prev |-> GetNonce(a), touches |-> {a}])
  /\ PutAccount(a, [GetOrNewAccount(a) EXCEPT !.nonce = 1])
  /\ UNCHANGED <<dbAccounts, dbStorage, storage, storageDirty, revisions,
                 nextRevision, phase, blockSnap, panicked>>

\* The EVM creates only accounts that do not exist.
CreateAccount(a) ==
  /\ Executing
  /\ ~ Exist(a)
  /\ AppendEntry([kind |-> "create", key |-> a, prev |-> 0, touches |-> {a}])
  /\ PutAccount(a, NewAccount)
  /\ UNCHANGED <<dbAccounts, dbStorage, storage, storageDirty, revisions,
                 nextRevision, phase, blockSnap, panicked>>

\* The slot's account is made to exist, again without an entry.
PutSlot(k, v) ==
  /\ storage' = [storage EXCEPT ![k] = v]
  /\ storageDirty' = storageDirty \cup {k}
  /\ IF Exist(Owner[k]) THEN UNCHANGED <<accounts, accountDirty>>
     ELSE PutAccount(Owner[k], NewAccount)

SetStateJournaled(k, v) ==
  /\ Executing
  /\ GetState(k) # v
  /\ AppendEntry([kind |-> "storage", key |-> k, prev |-> GetState(k),
                  touches |-> {Owner[k]}])
  /\ PutSlot(k, v)
  /\ UNCHANGED <<dbAccounts, dbStorage, revisions, nextRevision, phase, blockSnap,
                 panicked>>

\* SetState, as the staking module and the order book use it.
SetState(k, v) ==
  /\ Executing
  /\ PutSlot(k, v)
  /\ UNCHANGED <<dbAccounts, dbStorage, journal, dirties, revisions, nextRevision,
                 phase, blockSnap, panicked>>

----------------------------------------------------------------------------
(* Snapshots.                                                              *)

TakeSnapshot ==
  /\ nextRevision < MaxRevision
  /\ revisions' = Append(revisions,
       [id |-> nextRevision, index |-> Len(journal), readings |-> Readings])
  /\ nextRevision' = nextRevision + 1

\* The caches and their dirty sets.
Cache ==
  [accounts |-> accounts, dirty |-> accountDirty, storage |-> storage,
   slots |-> storageDirty]

\* GetOrNewAccount, of a cache.
Held(c, a) ==
  IF c.accounts[a] # NoAccount THEN c.accounts[a]
  ELSE IF dbAccounts[a] # NoAccount THEN dbAccounts[a] ELSE NewAccount

\* A cache with another entry for an account.
Put(c, a, acc, dirty) ==
  [accounts |-> [c.accounts EXCEPT ![a] = acc], dirty |-> dirty,
   storage |-> c.storage, slots |-> c.slots]

\* The effect of one entry's revert on the caches.  The loss of a created object
\* is one of the cache only.
Undo(c, e) ==
  CASE e.kind = "balance" ->
         Put(c, e.key, [Held(c, e.key) EXCEPT !.balance = e.prev], c.dirty \cup {e.key})
    [] e.kind = "nonce" ->
         Put(c, e.key, [Held(c, e.key) EXCEPT !.nonce = e.prev], c.dirty \cup {e.key})
    [] e.kind = "create" -> Put(c, e.key, NoAccount, c.dirty \ {e.key})
    [] e.kind = "storage" ->
         [accounts |-> c.accounts, dirty |-> c.dirty,
          storage |-> [c.storage EXCEPT ![e.key] = e.prev], slots |-> c.slots \cup {e.key}]

\* What is left when the last n entries are undone, the latest first.
Undone(n) ==
  LET undone[i \in 0 .. n] ==
        IF i = 0 THEN Cache ELSE Undo(undone[i - 1], journal[Len(journal) + 1 - i])
  IN  undone[n]

\* Mutant: the first entry of the frame is left.
UndoToAbove(index) ==
  IF index = Len(journal) THEN Cache ELSE Undone(Len(journal) - index - 1)

UndoTo(index) == Undone(Len(journal) - index)

\* The addresses an undone entry touched stay in dirties.
RevertTo(i) ==
  LET c == UndoTo(revisions[i].index)
  IN  /\ accounts' = c.accounts /\ accountDirty' = c.dirty
      /\ storage' = c.storage /\ storageDirty' = c.slots
      /\ journal' = SubSeq(journal, 1, revisions[i].index)
      /\ revisions' = SubSeq(revisions, 1, i - 1)
      /\ UNCHANGED dirties

\* A frame of the EVM begins, or fails.  The first snapshot of a call is the
\* node's own.
Snapshot ==
  /\ Executing
  /\ TakeSnapshot
  /\ UNCHANGED <<dbAccounts, dbStorage, accounts, storage, accountDirty,
                 storageDirty, journal, dirties, phase, blockSnap, panicked>>

RevertToSnapshot(i) ==
  /\ Executing
  /\ phase = "call" => i > 1
  /\ RevertTo(i)
  /\ UNCHANGED <<dbAccounts, dbStorage, nextRevision, phase, blockSnap, panicked>>

----------------------------------------------------------------------------
(* The node.                                                               *)

\* importCommittedBlockLocked begins.
BeginBlock ==
  /\ phase = "idle" /\ ~ panicked
  /\ TakeSnapshot
  /\ phase' = "block"
  /\ blockSnap' = nextRevision
  /\ UNCHANGED <<dbAccounts, dbStorage, accounts, storage, accountDirty,
                 storageDirty, journal, dirties, panicked>>

BeginTx ==
  /\ phase = "block" /\ ~ panicked
  /\ phase' = "tx"
  /\ UNCHANGED <<dbAccounts, dbStorage, accounts, storage, accountDirty,
                 storageDirty, journal, dirties, revisions, nextRevision,
                 blockSnap, panicked>>

\* Finalise(true): accounts that the transaction touched and left empty leave
\* the cache, and the journal starts anew.
Finalise ==
  /\ phase = "tx" /\ ~ panicked
  /\ accounts' = [a \in Addrs |->
       IF a \in dirties /\ GetOrNewAccount(a) = NewAccount
       THEN NoAccount ELSE accounts[a]]
  /\ accountDirty' = accountDirty \cup {a \in dirties : GetOrNewAccount(a) = NewAccount}
  /\ journal' = <<>> /\ dirties' = {} /\ revisions' = <<>>
  /\ phase' = "block"
  /\ UNCHANGED <<dbAccounts, dbStorage, storage, storageDirty, nextRevision,
                 blockSnap, panicked>>

\* Mutant: an emptied slot is not deleted from the database.
PersistBlockSkipZero ==
  /\ phase = "block" /\ ~ panicked
  /\ dbAccounts' = [a \in Addrs |->
       IF a \in accountDirty /\ accounts[a] # NoAccount
       THEN accounts[a] ELSE dbAccounts[a]]
  /\ dbStorage' = [k \in Slots |->
       IF k \in storageDirty /\ storage[k] # 0 THEN storage[k] ELSE dbStorage[k]]
  /\ accountDirty' = {} /\ storageDirty' = {}
  /\ phase' = "idle"
  /\ nextRevision' = 0 /\ revisions' = <<>> /\ journal' = <<>>
  /\ UNCHANGED <<accounts, storage, dirties, blockSnap, panicked>>

\* persistBlockLocked: FlushDirtyTo in one batch, then ClearDirty.  An account
\* that is dirty and not in the cache is skipped.  Snapshot ids only matter
\* within a block and start over.
PersistBlock ==
  /\ phase = "block" /\ ~ panicked
  /\ dbAccounts' = [a \in Addrs |->
       IF a \in accountDirty /\ accounts[a] # NoAccount
       THEN accounts[a] ELSE dbAccounts[a]]
  /\ dbStorage' = [k \in Slots |->
       IF k \in storageDirty THEN storage[k] ELSE dbStorage[k]]
  /\ accountDirty' = {} /\ storageDirty' = {}
  /\ phase' = "idle"
  /\ nextRevision' = 0 /\ revisions' = <<>> /\ journal' = <<>>
  /\ UNCHANGED <<accounts, storage, dirties, blockSnap, panicked>>

\* A transaction, the gas or the state root is not what the header says:
\* RevertToSnapshot(snap), which panics on an id that is no longer valid.
RejectBlock ==
  /\ phase = "block" /\ ~ panicked
  /\ IF \E i \in DOMAIN revisions : revisions[i].id = blockSnap
     THEN /\ RevertTo(1)
          /\ phase' = "idle"
          /\ nextRevision' = 0
          /\ UNCHANGED panicked
     ELSE /\ panicked' = TRUE
          /\ UNCHANGED <<accounts, accountDirty, storage, storageDirty, journal,
                         revisions, dirties, phase, nextRevision>>
  /\ UNCHANGED <<dbAccounts, dbStorage, blockSnap>>

\* Node.Call: the message runs on the live state, which is then reverted.
BeginCall ==
  /\ phase = "idle" /\ ~ panicked
  /\ TakeSnapshot
  /\ phase' = "call"
  /\ UNCHANGED <<dbAccounts, dbStorage, accounts, storage, accountDirty,
                 storageDirty, journal, dirties, blockSnap, panicked>>

EndCall ==
  /\ phase = "call" /\ ~ panicked
  /\ RevertTo(1)
  /\ phase' = "idle"
  /\ nextRevision' = 0
  /\ UNCHANGED <<dbAccounts, dbStorage, blockSnap, panicked>>

\* The process dies, of a panic or at any other moment, and opens the database
\* again.
Restart ==
  /\ accounts' = [a \in Addrs |-> NoAccount]
  /\ storage' = [k \in Slots |-> NotCached]
  /\ accountDirty' = {} /\ storageDirty' = {}
  /\ journal' = <<>> /\ dirties' = {}
  /\ revisions' = <<>> /\ nextRevision' = 0
  /\ phase' = "idle" /\ blockSnap' = 0
  /\ panicked' = FALSE
  /\ UNCHANGED <<dbAccounts, dbStorage>>

Next ==
  \/ \E a \in Addrs :
       \/ \E b \in 0 .. MaxBalance : SetBalanceTo(a, b)
       \/ SetNonceJournaled(a)
       \/ CreateAccount(a)
  \/ \E v \in Values :
       \/ \E k \in Slots \ NativeSlots : SetStateJournaled(k, v)
       \/ \E k \in NativeSlots : SetState(k, v)
  \/ Snapshot
  \/ \E i \in DOMAIN revisions : RevertToSnapshot(i)
  \/ BeginBlock \/ BeginTx \/ Finalise \/ PersistBlock \/ RejectBlock
  \/ BeginCall \/ EndCall
  \/ Restart

Spec == Init /\ [][Next]_vars

----------------------------------------------------------------------------
(* Properties.                                                             *)

\* docs/protocol/state.md:88: "EVM calls need snapshot/revert (gas OOG, `REVERT`,
\* failed subcalls). Journal / copy-on-write on the cache layer matches Ethereum
\* semantics."  After a frame or an eth_call is reverted, every balance, nonce
\* and EVM slot reads as it did when its snapshot was taken, whatever inner
\* frames were begun and undone since.  (Native slots do not: SetState.)
RevertRestores ==
  [][/\ \A i \in DOMAIN revisions :
          RevertToSnapshot(i) => Readings' = revisions[i].readings
     /\ EndCall => Readings' = revisions[1].readings]_vars

\* What the cache holds and the database does not is marked dirty, through
\* reverts, calls, deletions, rejected blocks and crashes; so a block's one batch
\* (persistBlockLocked) leaves nothing behind, and a restart reads the same state.
CleanIsDurable ==
  /\ \A a \in Addrs \ accountDirty :
       accounts[a] # NoAccount => accounts[a] = dbAccounts[a]
  /\ \A k \in Slots \ storageDirty :
       storage[k] # NotCached => storage[k] = dbStorage[k]
=============================================================================
