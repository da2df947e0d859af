-------------------------- MODULE ExecutionProofs ---------------------------
(***************************************************************************)
(* The state a block is executed on, for any accounts, slots and journals: *)
(* what is not dirty is durable, and a revert restores what was read; and  *)
(* the parallel executor does what the sequential one does.                *)
(***************************************************************************)
EXTENDS StateDB, ParallelExec, SumTheorems

\* A leaf is for Zenon unless it names another prover.
USE ZenonT(90)

----------------------------------------------------------------------------
(* Types.                                                                  *)

Entry ==
  [kind : {"balance"}, key : Addrs, prev : 0 .. MaxBalance, touches : SUBSET Addrs]
    \cup
  [kind : {"nonce"}, key : Addrs, prev : 0 .. 1, touches : SUBSET Addrs]
    \cup
  [kind : {"create"}, key : Addrs, prev : {0}, touches : SUBSET Addrs]
    \cup
  [kind : {"storage"}, key : Slots \ NativeSlots, prev : Values, touches : SUBSET Addrs]

Caches ==
  [accounts : [Addrs -> {NoAccount} \cup Account], dirty : SUBSET Addrs,
   storage : [Slots -> Values \cup {NotCached}], slots : SUBSET Slots]

ReadingSet ==
  [balance : [Addrs -> 0 .. MaxBalance], nonce : [Addrs -> 0 .. 1],
   slot : [Slots \ NativeSlots -> Values]]

Revision == [id : Nat, index : Nat, readings : ReadingSet]

\* An account is never the mark for none.
LEMMA AccountTypes ==
  /\ NoAccount \notin Account
  /\ NewAccount \in Account
  /\ \A acc \in Account :
       /\ acc.balance \in 0 .. MaxBalance /\ acc.nonce \in 0 .. 1
       /\ \A b \in 0 .. MaxBalance : [acc EXCEPT !.balance = b] \in Account
       /\ \A b \in 0 .. 1 : [acc EXCEPT !.nonce = b] \in Account
       /\ \A b : [acc EXCEPT !.balance = b].balance = b
                 /\ [acc EXCEPT !.balance = b].nonce = acc.nonce
       /\ \A b : [acc EXCEPT !.nonce = b].nonce = b
                 /\ [acc EXCEPT !.nonce = b].balance = acc.balance
<1>1. \A acc \in Account : acc \in [balance : Nat, nonce : Nat]
  BY SMTT(60) DEF Account
<1>2. NewAccount \in Account
  BY StateAssumption, SMTT(60) DEF Account, NewAccount
<1>3. NoAccount \notin Account
  BY <1>1, StateAssumption
<1>4. ASSUME NEW acc \in Account
      PROVE  /\ acc.balance \in 0 .. MaxBalance /\ acc.nonce \in 0 .. 1
             /\ \A b \in 0 .. MaxBalance : [acc EXCEPT !.balance = b] \in Account
             /\ \A b \in 0 .. 1 : [acc EXCEPT !.nonce = b] \in Account
             /\ \A b : [acc EXCEPT !.balance = b].balance = b
                       /\ [acc EXCEPT !.balance = b].nonce = acc.nonce
             /\ \A b : [acc EXCEPT !.nonce = b].nonce = b
                       /\ [acc EXCEPT !.nonce = b].balance = acc.balance
  BY SMTT(60) DEF Account
<1> QED BY <1>2, <1>3, <1>4

----------------------------------------------------------------------------
(* What is read, over a database, and what it was before an entry.         *)

AccountIn(db, acc, a) ==
  IF acc[a] # NoAccount THEN acc[a] ELSE IF db[a] # NoAccount THEN db[a] ELSE NewAccount

SlotIn(st, sto, k) == IF sto[k] # NotCached THEN sto[k] ELSE st[k]

ReadIn(db, st, acc, sto) ==
  [balance |-> [a \in Addrs |-> AccountIn(db, acc, a).balance],
   nonce |-> [a \in Addrs |-> AccountIn(db, acc, a).nonce],
   slot |-> [k \in Slots \ NativeSlots |-> SlotIn(st, sto, k)]]

AccountSet == {NoAccount} \cup Account

\* Readings in these terms.
LEMMA ReadingsAre ==
  /\ Readings = ReadIn(dbAccounts, dbStorage, accounts, storage)
  /\ \A a : GetOrNewAccount(a) = AccountIn(dbAccounts, accounts, a)
<1>1. ASSUME NEW a PROVE GetOrNewAccount(a) = AccountIn(dbAccounts, accounts, a)
  BY DEF GetOrNewAccount, AccountIn, Exist, getAccount
<1> QED
  BY <1>1 DEF Readings, ReadIn, GetBalance, GetNonce, GetState, SlotIn

\* Reading an account gives an account.
LEMMA AccountInType ==
  ASSUME NEW db \in [Addrs -> AccountSet], NEW acc \in [Addrs -> AccountSet], NEW a \in Addrs
  PROVE  AccountIn(db, acc, a) \in Account
BY AccountTypes DEF AccountIn, AccountSet

\* What is read of a typed cache has its type.
LEMMA ReadInType ==
  ASSUME NEW db \in [Addrs -> AccountSet], NEW acc \in [Addrs -> AccountSet],
         NEW st \in [Slots -> Values], NEW sto \in [Slots -> Values \cup {NotCached}]
  PROVE  ReadIn(db, st, acc, sto) \in ReadingSet
<1>1. \A a \in Addrs : AccountIn(db, acc, a) \in Account
  BY AccountInType
<1>2. \A a \in Addrs : /\ AccountIn(db, acc, a).balance \in 0 .. MaxBalance
                       /\ AccountIn(db, acc, a).nonce \in 0 .. 1
  BY <1>1, AccountTypes
<1>3. [a \in Addrs |-> AccountIn(db, acc, a).balance] \in [Addrs -> 0 .. MaxBalance]
  BY <1>2
<1>4. [a \in Addrs |-> AccountIn(db, acc, a).nonce] \in [Addrs -> 0 .. 1]
  BY <1>2
<1>5. [k \in Slots \ NativeSlots |-> SlotIn(st, sto, k)] \in [Slots \ NativeSlots -> Values]
  BY DEF SlotIn
<1> QED BY <1>3, <1>4, <1>5 DEF ReadIn, ReadingSet

\* What was read before an entry, given what is read after it.
BackBalance(db, r, e, a) ==
  IF e.kind = "balance" /\ a = e.key THEN e.prev
  ELSE IF e.kind = "create" /\ a = e.key /\ db[a] = NoAccount THEN 0
  ELSE IF e.kind = "create" /\ a = e.key THEN db[a].balance ELSE r.balance[a]
BackNonce(db, r, e, a) ==
  IF e.kind = "nonce" /\ a = e.key THEN e.prev
  ELSE IF e.kind = "create" /\ a = e.key /\ db[a] = NoAccount THEN 0
  ELSE IF e.kind = "create" /\ a = e.key THEN db[a].nonce ELSE r.nonce[a]
BackSlot(r, e, k) == IF e.kind = "storage" /\ k = e.key THEN e.prev ELSE r.slot[k]

Back(db, r, e) ==
  [balance |-> [a \in Addrs |-> BackBalance(db, r, e, a)],
   nonce |-> [a \in Addrs |-> BackNonce(db, r, e, a)],
   slot |-> [k \in Slots \ NativeSlots |-> BackSlot(r, e, k)]]

\* What is not dirty is in the database, and a dirty slot is cached.
Durable(c, db, st) ==
  /\ \A a \in Addrs : a \notin c.dirty /\ c.accounts[a] # NoAccount => c.accounts[a] = db[a]
  /\ \A k \in Slots : k \notin c.slots /\ c.storage[k] # NotCached => c.storage[k] = st[k]
  /\ \A k \in c.slots : c.storage[k] # NotCached

\* The types of the database.
DbTypes ==
  dbAccounts \in [Addrs -> AccountSet] /\ dbStorage \in [Slots -> Values]

ReadOf(c) == ReadIn(dbAccounts, dbStorage, c.accounts, c.storage)

\* Undoing an entry of one of the four kinds.
LEMMA UndoCases ==
  ASSUME NEW c \in Caches, NEW e \in Entry, DbTypes
  PROVE  /\ e.kind \in {"balance", "nonce", "create"} => e.key \in Addrs
         /\ e.kind \in {"balance", "nonce", "create", "storage"}
         /\ e.kind = "balance" =>
              \E acc \in Account :
                /\ acc.balance = e.prev
                /\ acc.nonce = AccountIn(dbAccounts, c.accounts, e.key).nonce
                /\ Undo(c, e) = [accounts |-> [c.accounts EXCEPT ![e.key] = acc],
                                 dirty |-> c.dirty \cup {e.key},
                                 storage |-> c.storage, slots |-> c.slots]
         /\ e.kind = "nonce" =>
              \E acc \in Account :
                /\ acc.nonce = e.prev
                /\ acc.balance = AccountIn(dbAccounts, c.accounts, e.key).balance
                /\ Undo(c, e) = [accounts |-> [c.accounts EXCEPT ![e.key] = acc],
                                 dirty |-> c.dirty \cup {e.key},
                                 storage |-> c.storage, slots |-> c.slots]
         /\ e.kind = "create" =>
              Undo(c, e) = [accounts |-> [c.accounts EXCEPT ![e.key] = NoAccount],
                            dirty |-> c.dirty \ {e.key},
                            storage |-> c.storage, slots |-> c.slots]
         /\ e.kind = "storage" =>
              /\ e.key \in Slots \ NativeSlots /\ e.prev \in Values
              /\ Undo(c, e) = [accounts |-> c.accounts, dirty |-> c.dirty,
                               storage |-> [c.storage EXCEPT ![e.key] = e.prev],
                               slots |-> c.slots \cup {e.key}]
<1>1. /\ c.accounts \in [Addrs -> AccountSet]
      /\ c = [accounts |-> c.accounts, dirty |-> c.dirty, storage |-> c.storage,
              slots |-> c.slots]
  BY SMTT(60) DEF Caches, AccountSet
<1>2. /\ e.kind \in {"balance", "nonce", "create"} => e.key \in Addrs
      /\ e.kind \in {"balance", "nonce", "create", "storage"}
      /\ e.kind = "balance" => e.prev \in 0 .. MaxBalance
      /\ e.kind = "nonce" => e.prev \in 0 .. 1
      /\ e.kind = "storage" => e.key \in Slots \ NativeSlots /\ e.prev \in Values
  BY SMTT(60) DEF Entry
<1>3. \A a : Held(c, a) = AccountIn(dbAccounts, c.accounts, a)
  BY DEF Held, AccountIn
<1>4. CASE e.kind = "balance"
  <2> DEFINE old == AccountIn(dbAccounts, c.accounts, e.key)
             acc == [old EXCEPT !.balance = e.prev]
  <2>1. old \in Account
    BY <1>1, <1>2, <1>4, AccountInType DEF DbTypes
  <2>2. acc \in Account /\ acc.balance = e.prev /\ acc.nonce = old.nonce
    BY <1>2, <1>4, <2>1, AccountTypes
  <2>3. Undo(c, e) = Put(c, e.key, acc, c.dirty \cup {e.key})
    BY <1>3, <1>4 DEF Undo
  <2>4. Undo(c, e) = [accounts |-> [c.accounts EXCEPT ![e.key] = acc],
                      dirty |-> c.dirty \cup {e.key},
                      storage |-> c.storage, slots |-> c.slots]
    <3> HIDE DEF acc
    <3> QED BY <1>1, <2>3 DEF Put
  <2> HIDE DEF acc, old
  <2> QED BY <1>2, <1>4, <2>2, <2>4 DEF old
<1>5. CASE e.kind = "nonce"
  <2> DEFINE old == AccountIn(dbAccounts, c.accounts, e.key)
             acc == [old EXCEPT !.nonce = e.prev]
  <2>1. old \in Account
    BY <1>1, <1>2, <1>5, AccountInType DEF DbTypes
  <2>2. acc \in Account /\ acc.nonce = e.prev /\ acc.balance = old.balance
    BY <1>2, <1>5, <2>1, AccountTypes
  <2>3. Undo(c, e) = Put(c, e.key, acc, c.dirty \cup {e.key})
    BY <1>3, <1>5 DEF Undo
  <2>4. Undo(c, e) = [accounts |-> [c.accounts EXCEPT ![e.key] = acc],
                      dirty |-> c.dirty \cup {e.key},
                      storage |-> c.storage, slots |-> c.slots]
    <3> HIDE DEF acc
    <3> QED BY <1>1, <2>3 DEF Put
  <2> HIDE DEF acc, old
  <2> QED BY <1>2, <1>5, <2>2, <2>4 DEF old
<1>6. CASE e.kind = "create"
  <2>1. Undo(c, e) = Put(c, e.key, NoAccount, c.dirty \ {e.key})
    BY <1>6 DEF Undo
  <2> QED BY <1>1, <1>2, <1>6, <2>1 DEF Put
<1>7. CASE e.kind = "storage"
  <2>1. Undo(c, e) = [accounts |-> c.accounts, dirty |-> c.dirty,
                      storage |-> [c.storage EXCEPT ![e.key] = e.prev],
                      slots |-> c.slots \cup {e.key}]
    BY <1>7 DEF Undo
  <2> QED BY <1>1, <1>2, <1>7, <2>1
<1> QED BY <1>2, <1>4, <1>5, <1>6, <1>7

\* Undoing an entry leaves a cache that is no less durable, and reads as before it.
LEMMA UndoOne ==
  ASSUME NEW c \in Caches, Durable(c, dbAccounts, dbStorage), NEW e \in Entry, DbTypes
  PROVE  /\ Undo(c, e) \in Caches
         /\ Durable(Undo(c, e), dbAccounts, dbStorage)
         /\ ReadOf(Undo(c, e)) = Back(dbAccounts, ReadOf(c), e)
<1> DEFINE u == Undo(c, e)
<1>1. /\ c.accounts \in [Addrs -> AccountSet] /\ c.dirty \in SUBSET Addrs
      /\ c.storage \in [Slots -> Values \cup {NotCached}] /\ c.slots \in SUBSET Slots
  BY SMTT(60) DEF Caches, AccountSet
<1>2. NoAccount \notin Account /\ NotCached \notin Values
  <2>1. NotCached \notin Values
    BY StateAssumption, SMTT(60) DEF NotCached
  <2> QED BY <2>1, AccountTypes
<1>3. ReadOf(c) = ReadIn(dbAccounts, dbStorage, c.accounts, c.storage)
  BY DEF ReadOf
<1> DEFINE r == ReadOf(c)
<1>4. /\ \A a \in Addrs : r.balance[a] = AccountIn(dbAccounts, c.accounts, a).balance
      /\ \A a \in Addrs : r.nonce[a] = AccountIn(dbAccounts, c.accounts, a).nonce
      /\ \A k \in Slots \ NativeSlots :
           r.slot[k] = SlotIn(dbStorage, c.storage, k)
  BY <1>3, SMTT(60) DEF ReadIn
\* An account is written.
<1>5. ASSUME NEW a \in Addrs, NEW acc \in Account,
             u = [accounts |-> [c.accounts EXCEPT ![a] = acc], dirty |-> c.dirty \cup {a},
                  storage |-> c.storage, slots |-> c.slots]
      PROVE  /\ u \in Caches /\ Durable(u, dbAccounts, dbStorage)
             /\ \A b \in Addrs : AccountIn(dbAccounts, u.accounts, b) =
                  IF b = a THEN acc ELSE AccountIn(dbAccounts, c.accounts, b)
             /\ u.storage = c.storage
  <2>1. /\ u.accounts = [c.accounts EXCEPT ![a] = acc] /\ u.dirty = c.dirty \cup {a}
        /\ u.storage = c.storage /\ u.slots = c.slots
    BY <1>5, SMTT(60)
  <2>2. u \in Caches
    BY <1>1, <1>5, SMTT(60) DEF Caches, AccountSet
  <2>3. Durable(u, dbAccounts, dbStorage)
    <3> HIDE DEF u
    <3> QED BY <1>1, <2>1 DEF Durable
  <2>4. \A b \in Addrs : u.accounts[b] = IF b = a THEN acc ELSE c.accounts[b]
    <3> HIDE DEF u
    <3> QED BY <1>1, <2>1
  <2> HIDE DEF u
  <2>5. acc # NoAccount
    BY <1>2
  <2> QED BY <2>1, <2>2, <2>3, <2>4, <2>5 DEF AccountIn
<1>6. CASE e.kind = "balance"
  <2>1. PICK acc \in Account :
          /\ acc.balance = e.prev
          /\ acc.nonce = AccountIn(dbAccounts, c.accounts, e.key).nonce
          /\ u = [accounts |-> [c.accounts EXCEPT ![e.key] = acc], dirty |-> c.dirty \cup {e.key},
                  storage |-> c.storage, slots |-> c.slots]
    BY <1>6, UndoCases
  <2>2. e.key \in Addrs
    BY <1>6, UndoCases
  <2>3. /\ u \in Caches /\ Durable(u, dbAccounts, dbStorage)
        /\ \A b \in Addrs : AccountIn(dbAccounts, u.accounts, b) =
             IF b = e.key THEN acc ELSE AccountIn(dbAccounts, c.accounts, b)
        /\ u.storage = c.storage
    BY <1>5, <2>1, <2>2
  <2> HIDE DEF u, r
  <2>4. ReadOf(u) = Back(dbAccounts, r, e)
    <3>1. \A a \in Addrs : AccountIn(dbAccounts, u.accounts, a).balance =
                              BackBalance(dbAccounts, r, e, a)
      BY <1>4, <1>6, <2>1, <2>2, <2>3 DEF BackBalance
    <3>2. \A a \in Addrs : AccountIn(dbAccounts, u.accounts, a).nonce =
                              BackNonce(dbAccounts, r, e, a)
      BY <1>4, <1>6, <2>1, <2>2, <2>3 DEF BackNonce
    <3>3. \A k \in Slots \ NativeSlots :
            SlotIn(dbStorage, u.storage, k) = BackSlot(r, e, k)
      BY <1>4, <1>6, <2>1, <2>2, <2>3 DEF BackSlot
    <3>4. ReadIn(dbAccounts, dbStorage, u.accounts, u.storage) = Back(dbAccounts, r, e)
      BY <3>1, <3>2, <3>3 DEF ReadIn, Back
    <3> QED BY <3>4 DEF ReadOf
  <2> QED BY <2>3, <2>4 DEF u, r
<1>7. CASE e.kind = "nonce"
  <2>1. PICK acc \in Account :
          /\ acc.nonce = e.prev
          /\ acc.balance = AccountIn(dbAccounts, c.accounts, e.key).balance
          /\ u = [accounts |-> [c.accounts EXCEPT ![e.key] = acc], dirty |-> c.dirty \cup {e.key},
                  storage |-> c.storage, slots |-> c.slots]
    BY <1>7, UndoCases
  <2>2. e.key \in Addrs
    BY <1>7, UndoCases
  <2>3. /\ u \in Caches /\ Durable(u, dbAccounts, dbStorage)
        /\ \A b \in Addrs : AccountIn(dbAccounts, u.accounts, b) =
             IF b = e.key THEN acc ELSE AccountIn(dbAccounts, c.accounts, b)
        /\ u.storage = c.storage
    BY <1>5, <2>1, <2>2
  <2> HIDE DEF u, r
  <2>4. ReadOf(u) = Back(dbAccounts, r, e)
    <3>1. \A a \in Addrs : AccountIn(dbAccounts, u.accounts, a).balance =
                              BackBalance(dbAccounts, r, e, a)
      BY <1>4, <1>7, <2>1, <2>2, <2>3 DEF BackBalance
    <3>2. \A a \in Addrs : AccountIn(dbAccounts, u.accounts, a).nonce =
                              BackNonce(dbAccounts, r, e, a)
      BY <1>4, <1>7, <2>1, <2>2, <2>3 DEF BackNonce
    <3>3. \A k \in Slots \ NativeSlots :
            SlotIn(dbStorage, u.storage, k) = BackSlot(r, e, k)
      BY <1>4, <1>7, <2>1, <2>2, <2>3 DEF BackSlot
    <3>4. ReadIn(dbAccounts, dbStorage, u.accounts, u.storage) = Back(dbAccounts, r, e)
      BY <3>1, <3>2, <3>3 DEF ReadIn, Back
    <3> QED BY <3>4 DEF ReadOf
  <2> QED BY <2>3, <2>4 DEF u, r
<1>8. CASE e.kind = "create"
  <2>1. u = [accounts |-> [c.accounts EXCEPT ![e.key] = NoAccount], dirty |-> c.dirty \ {e.key},
             storage |-> c.storage, slots |-> c.slots]
    BY <1>8, UndoCases
  <2>2. e.key \in Addrs
    BY <1>8, UndoCases
  <2>3. u \in Caches
    <3>1. [c.accounts EXCEPT ![e.key] = NoAccount] \in [Addrs -> {NoAccount} \cup Account]
      BY <1>1 DEF AccountSet
    <3>2. c.dirty \ {e.key} \in SUBSET Addrs
      BY <1>1
    <3> QED BY <1>1, <2>1, <3>1, <3>2, SMTT(60) DEF Caches
  <2>4. /\ u.accounts = [c.accounts EXCEPT ![e.key] = NoAccount] /\ u.dirty = c.dirty \ {e.key}
        /\ u.storage = c.storage /\ u.slots = c.slots
    BY <2>1, SMTT(60)
  <2> HIDE DEF u, r
  <2>5. \A b \in Addrs : u.accounts[b] = IF b = e.key THEN NoAccount ELSE c.accounts[b]
    BY <1>1, <2>4
  <2>6. Durable(u, dbAccounts, dbStorage)
    BY <2>4, <2>5 DEF Durable
  <2>7. \A b \in Addrs : AccountIn(dbAccounts, u.accounts, b) =
          IF b # e.key THEN AccountIn(dbAccounts, c.accounts, b)
          ELSE IF dbAccounts[b] # NoAccount THEN dbAccounts[b] ELSE NewAccount
    BY <2>5 DEF AccountIn
  <2>8. NewAccount.balance = 0 /\ NewAccount.nonce = 0
    BY DEF NewAccount
  <2>9. ReadOf(u) = Back(dbAccounts, r, e)
    <3>1. \A a \in Addrs : AccountIn(dbAccounts, u.accounts, a).balance =
                              BackBalance(dbAccounts, r, e, a)
      BY <1>4, <1>8, <2>4, <2>7, <2>8 DEF BackBalance
    <3>2. \A a \in Addrs : AccountIn(dbAccounts, u.accounts, a).nonce =
                              BackNonce(dbAccounts, r, e, a)
      BY <1>4, <1>8, <2>4, <2>7, <2>8 DEF BackNonce
    <3>3. \A k \in Slots \ NativeSlots :
            SlotIn(dbStorage, u.storage, k) = BackSlot(r, e, k)
      BY <1>4, <1>8, <2>4, <2>7, <2>8 DEF BackSlot
    <3>4. ReadIn(dbAccounts, dbStorage, u.accounts, u.storage) = Back(dbAccounts, r, e)
      BY <3>1, <3>2, <3>3 DEF ReadIn, Back
    <3> QED BY <3>4 DEF ReadOf
  <2> QED BY <2>3, <2>6, <2>9 DEF u, r
<1>9. CASE e.kind = "storage"
  <2>1. /\ e.key \in Slots \ NativeSlots /\ e.prev \in Values
        /\ u = [accounts |-> c.accounts, dirty |-> c.dirty,
                storage |-> [c.storage EXCEPT ![e.key] = e.prev],
                slots |-> c.slots \cup {e.key}]
    BY <1>9, UndoCases
  <2>2. u \in Caches
    BY <1>1, <2>1, SMTT(60) DEF Caches, AccountSet
  <2>3. /\ u.accounts = c.accounts /\ u.dirty = c.dirty
        /\ u.storage = [c.storage EXCEPT ![e.key] = e.prev] /\ u.slots = c.slots \cup {e.key}
    BY <2>1, SMTT(60)
  <2> HIDE DEF u, r
  <2>4. \A k \in Slots : u.storage[k] = IF k = e.key THEN e.prev ELSE c.storage[k]
    BY <1>1, <2>3
  <2>5. Durable(u, dbAccounts, dbStorage)
    BY <1>1, <1>2, <2>1, <2>3, <2>4, SMTT(60) DEF Durable
  <2>6. ReadOf(u) = Back(dbAccounts, r, e)
    <3>1. \A a \in Addrs : AccountIn(dbAccounts, u.accounts, a).balance =
                              BackBalance(dbAccounts, r, e, a)
      BY <1>4, <1>9, <2>3 DEF BackBalance
    <3>2. \A a \in Addrs : AccountIn(dbAccounts, u.accounts, a).nonce =
                              BackNonce(dbAccounts, r, e, a)
      BY <1>4, <1>9, <2>3 DEF BackNonce
    <3>3. \A k \in Slots \ NativeSlots :
            SlotIn(dbStorage, u.storage, k) = BackSlot(r, e, k)
      BY <1>2, <1>4, <1>9, <2>1, <2>4 DEF BackSlot, SlotIn
    <3>4. ReadIn(dbAccounts, dbStorage, u.accounts, u.storage) = Back(dbAccounts, r, e)
      BY <3>1, <3>2, <3>3 DEF ReadIn, Back
    <3> QED BY <3>4 DEF ReadOf
  <2> QED BY <2>2, <2>5, <2>6 DEF u, r
<1> QED BY <1>6, <1>7, <1>8, <1>9, UndoCases

----------------------------------------------------------------------------
(* The journal.                                                            *)

\* h has what was read at each length of the journal, r what is read now.
Track(h, db, r, j) ==
  h[Len(j)] = r /\ \A k \in 1 .. Len(j) : h[k - 1] = Back(db, h[k], j[k])

\* Two functions are the same up to n.
SameTo(n, g, h) == \A k \in 0 .. n : g[k] = h[k]

\* A new entry goes on from what was read.
LEMMA TrackAppend ==
  ASSUME NEW h, NEW db, NEW r, NEW j \in Seq(Entry), Track(h, db, r, j),
         NEW e \in Entry, NEW s, Back(db, s, e) = r
  PROVE  \E g : Track(g, db, s, Append(j, e)) /\ SameTo(Len(j), g, h)
<1> DEFINE n == Len(j)
           g == [k \in 0 .. n + 1 |-> IF k = n + 1 THEN s ELSE h[k]]
<1>1. /\ n \in Nat /\ Len(Append(j, e)) = n + 1 /\ Append(j, e)[n + 1] = e
      /\ \A k \in 1 .. n : Append(j, e)[k] = j[k]
  BY SMTT(60)
<1>2. /\ \A k \in 0 .. n : k \in 0 .. n + 1 /\ k # n + 1
      /\ n + 1 \in 0 .. n + 1 /\ n \in 0 .. n /\ (n + 1) - 1 = n
      /\ \A k \in 1 .. n + 1 : k = n + 1 \/ k \in 1 .. n
      /\ \A k \in 1 .. n : k \in 0 .. n /\ k - 1 \in 0 .. n
  BY <1>1, SMTT(60)
<1> HIDE DEF n
<1>3. (\A k \in 0 .. n : g[k] = h[k]) /\ g[n + 1] = s
  BY <1>2
<1> HIDE DEF g
<1>4. \A k \in 1 .. n : h[k - 1] = Back(db, h[k], j[k])
  BY DEF Track, n
<1>5. h[n] = r
  BY DEF Track, n
<1>6. ASSUME NEW k \in 1 .. n + 1 PROVE g[k - 1] = Back(db, g[k], Append(j, e)[k])
  <2>1. CASE k = n + 1
    BY <1>1, <1>2, <1>3, <1>5, <2>1
  <2>2. CASE k \in 1 .. n
    BY <1>1, <1>2, <1>3, <1>4, <2>2
  <2> QED BY <1>2, <2>1, <2>2
<1> QED BY <1>1, <1>3, <1>6 DEF Track, SameTo, n

\* A journal that is cut back.
LEMMA TrackCut ==
  ASSUME NEW h, NEW db, NEW r, NEW j \in Seq(Entry), Track(h, db, r, j),
         NEW n \in 0 .. Len(j)
  PROVE  Track(h, db, h[n], SubSeq(j, 1, n)) /\ Len(SubSeq(j, 1, n)) = n
<1>1. /\ Len(SubSeq(j, 1, n)) = n
      /\ \A k \in 1 .. n : SubSeq(j, 1, n)[k] = j[k] /\ k \in 1 .. Len(j)
  BY SMTT(60)
<1> QED BY <1>1 DEF Track

\* What is undone, entry by entry.
LEMMA UndoneIs ==
  ASSUME DbTypes, Cache \in Caches, Durable(Cache, dbAccounts, dbStorage),
         journal \in Seq(Entry), NEW n \in 0 .. Len(journal),
         NEW h, Track(h, dbAccounts, Readings, journal)
  PROVE  /\ Undone(n) \in Caches
         /\ Durable(Undone(n), dbAccounts, dbStorage)
         /\ ReadOf(Undone(n)) = h[Len(journal) - n]
<1> DEFINE V == {c \in Caches : Durable(c, dbAccounts, dbStorage)}
           At(k) == journal[Len(journal) + 1 - k]
           Body(f, k) == IF k = 0 THEN Cache ELSE Undo(f[k - 1], At(k))
           Is(f) == f = [k \in 0 .. n |-> Body(f, k)]
           f == CHOOSE g : Is(g)
           G == [k \in 1 .. n |-> [c \in V |-> Undo(c, At(k))]]
<1>1. n \in Nat /\ \A k \in 1 .. n : At(k) \in Entry
  BY SMTT(60)
<1>2. Cache \in V
  OBVIOUS
<1>3. \A c \in V, e \in Entry : Undo(c, e) \in V
  BY UndoOne
<1>4. Undone(n) = f[n]
  BY DEF Undone
<1> HIDE DEF At, V
<1>5. G \in [1 .. n -> [V -> V]]
  BY <1>1, <1>3
<1>6. PICK g : Follows(g, Cache, G, n, V)
  <2>1. AreSteps(G, n, V)
    BY <1>1, <1>5 DEF AreSteps
  <2> HIDE DEF G
  <2> QED BY <1>2, <2>1, StepsExist
<1>7. /\ 0 \in 0 .. n /\ n \in 0 .. n
      /\ \A k \in 1 .. n : k \in 0 .. n /\ k - 1 \in 0 .. n /\ k # 0
      /\ \A k \in 0 .. n : k = 0 \/ k \in 1 .. n
  BY <1>1, SMTT(60)
<1>8. g \in [0 .. n -> V] /\ g[0] = Cache
  BY <1>6 DEF Follows
<1>9. \A k \in 1 .. n : g[k] = Undo(g[k - 1], At(k))
  BY <1>6, <1>7, <1>8 DEF Follows
<1>10. Is(g)
  <2>1. \A k \in 0 .. n : g[k] = Body(g, k)
    BY <1>7, <1>8, <1>9
  <2> HIDE DEF Body
  <2> QED BY <1>8, <2>1
<1>11. Is(f)
  BY <1>10
<1> HIDE DEF f, G
<1>12. f[0] = Cache /\ \A k \in 1 .. n : f[k] = Undo(f[k - 1], At(k))
  BY <1>7, <1>11
<1> DEFINE T == {k \in 0 .. n : f[k] \in V /\ ReadOf(f[k]) = h[Len(journal) - k]}
<1>13. 0 \in T
  <2>1. Len(journal) - 0 = Len(journal) /\ h[Len(journal)] = Readings
    <3>1. Len(journal) \in Nat
      BY SMTT(60)
    <3> QED BY <3>1, SMTT(60) DEF Track
  <2>2. ReadOf(Cache) = Readings
    BY ReadingsAre, SMTT(60) DEF ReadOf, Cache
  <2> QED BY <1>2, <1>7, <1>12, <2>1, <2>2
<1>14. ASSUME NEW k \in 1 .. n, k - 1 \in T PROVE k \in T
  <2>1. /\ Len(journal) - (k - 1) \in 1 .. Len(journal)
        /\ Len(journal) - (k - 1) = Len(journal) + 1 - k
        /\ (Len(journal) + 1 - k) - 1 = Len(journal) - k
    BY SMTT(60)
  <2>2. f[k - 1] \in V /\ ReadOf(f[k - 1]) = h[Len(journal) + 1 - k] /\ At(k) \in Entry
    BY <1>1, <1>14, <2>1
  <2>3. ReadOf(Undo(f[k - 1], At(k))) = Back(dbAccounts, ReadOf(f[k - 1]), At(k))
    BY <2>2, UndoOne DEF V
  <2>4. h[(Len(journal) + 1 - k) - 1] =
          Back(dbAccounts, h[Len(journal) + 1 - k], journal[Len(journal) + 1 - k])
    BY <2>1 DEF Track
  <2>5. h[Len(journal) - k] = Back(dbAccounts, h[Len(journal) + 1 - k], At(k))
    BY <2>1, <2>4 DEF At
  <2>6. Undo(f[k - 1], At(k)) \in V
    BY <1>3, <2>2
  <2> QED BY <1>7, <1>12, <2>2, <2>3, <2>5, <2>6
<1> HIDE DEF T
<1>15. \A k \in 0 .. n : k \in T
  BY <1>1, <1>13, <1>14, UpTo
<1> QED BY <1>4, <1>7, <1>15 DEF T, V

\* The journal leads back from what is read now to what was read at each
\* snapshot, and a later snapshot is of a journal no shorter.
History(db, r, j, revs) ==
  /\ j \in Seq(Entry)
  /\ revs \in Seq(Revision)
  /\ \A i \in DOMAIN revs : revs[i].index <= Len(j)
  /\ \A i, k \in DOMAIN revs : i < k => revs[i].index <= revs[k].index
  /\ \E h : /\ Track(h, db, r, j)
            /\ \A i \in DOMAIN revs : h[revs[i].index] = revs[i].readings

\* An empty journal leads nowhere.
LEMMA HistoryNew ==
  ASSUME NEW db, NEW r
  PROVE  History(db, r, <<>>, <<>>)
<1> DEFINE h == [k \in {0} |-> r]
<1>1. /\ Len(<<>>) = 0 /\ 1 .. 0 = {} /\ DOMAIN <<>> = {}
      /\ <<>> \in Seq(Entry) /\ <<>> \in Seq(Revision)
  BY SMTT(60)
<1>2. Track(h, db, r, <<>>)
  BY <1>1 DEF Track
<1> QED BY <1>1, <1>2 DEF History

\* A write that an entry leads back from.
LEMMA HistoryAppend ==
  ASSUME NEW db, NEW r, NEW j, NEW revs, History(db, r, j, revs),
         NEW e \in Entry, NEW s, Back(db, s, e) = r
  PROVE  History(db, s, Append(j, e), revs)
<1>1. /\ j \in Seq(Entry) /\ revs \in Seq(Revision)
      /\ \A i \in DOMAIN revs : revs[i].index <= Len(j)
  BY DEF History
<1>2. Append(j, e) \in Seq(Entry) /\ Len(Append(j, e)) = Len(j) + 1 /\ Len(j) \in Nat
  BY <1>1, SMTT(60)
<1>3. \A i \in DOMAIN revs : revs[i].index \in Nat
  <2>1. \A i \in DOMAIN revs : revs[i] \in Revision
    BY <1>1, SMTT(60)
  <2> QED BY <2>1, SMTT(60) DEF Revision
<1>4. \A i \in DOMAIN revs : revs[i].index <= Len(Append(j, e)) /\ revs[i].index \in 0 .. Len(j)
  BY <1>1, <1>2, <1>3, SMTT(60)
<1>5. PICK h : /\ Track(h, db, r, j)
               /\ \A i \in DOMAIN revs : h[revs[i].index] = revs[i].readings
  BY DEF History
<1>6. PICK g : Track(g, db, s, Append(j, e)) /\ SameTo(Len(j), g, h)
  BY <1>1, <1>5, TrackAppend
<1>7. \A i \in DOMAIN revs : g[revs[i].index] = revs[i].readings
  BY <1>4, <1>5, <1>6 DEF SameTo
<1>8. \A i, k \in DOMAIN revs : i < k => revs[i].index <= revs[k].index
  BY DEF History
<1> QED BY <1>1, <1>2, <1>4, <1>6, <1>7, <1>8 DEF History

\* A snapshot.
LEMMA HistorySnapshot ==
  ASSUME NEW db, NEW r \in ReadingSet, NEW j, NEW revs, History(db, r, j, revs), NEW id \in Nat
  PROVE  History(db, r, j, Append(revs, [id |-> id, index |-> Len(j), readings |-> r]))
<1> DEFINE rev == [id |-> id, index |-> Len(j), readings |-> r]
           n == Len(revs)
           all == Append(revs, rev)
<1>1. /\ j \in Seq(Entry) /\ revs \in Seq(Revision)
      /\ \A i \in DOMAIN revs : revs[i].index <= Len(j)
      /\ \A i, k \in DOMAIN revs : i < k => revs[i].index <= revs[k].index
  BY DEF History
<1>2. Len(j) \in Nat /\ n \in Nat
  BY <1>1, SMTT(60)
<1>3. rev \in Revision /\ rev.index = Len(j) /\ rev.readings = r
  BY <1>2, SMTT(60) DEF Revision
<1>4. PICK h : /\ Track(h, db, r, j)
               /\ \A i \in DOMAIN revs : h[revs[i].index] = revs[i].readings
  BY DEF History
<1>5. h[Len(j)] = r
  BY <1>4 DEF Track
<1> HIDE DEF rev
<1>6. /\ all \in Seq(Revision) /\ DOMAIN all = 1 .. n + 1 /\ DOMAIN revs = 1 .. n
      /\ all[n + 1] = rev /\ \A i \in 1 .. n : all[i] = revs[i]
  BY <1>1, <1>3, SMTT(60)
<1>7. \A i \in 1 .. n + 1 : i = n + 1 \/ i \in 1 .. n
  BY <1>2, SMTT(60)
<1> HIDE DEF all, n
<1>8. \A i \in DOMAIN all : all[i].index <= Len(j) /\ h[all[i].index] = all[i].readings
  <2>1. Len(j) <= Len(j)
    BY <1>2, SMTT(60)
  <2> QED BY <1>1, <1>3, <1>4, <1>5, <1>6, <1>7, <2>1
<1>9. ASSUME NEW i \in DOMAIN all, NEW k \in DOMAIN all, i < k
      PROVE  all[i].index <= all[k].index
  <2>1. i \in 1 .. n
    BY <1>2, <1>6, <1>9, SMTT(60)
  <2>2. CASE k = n + 1
    BY <1>3, <1>6, <1>8, <2>2
  <2>3. CASE k \in 1 .. n
    BY <1>1, <1>6, <1>9, <2>1, <2>3
  <2> QED BY <1>6, <1>7, <2>2, <2>3
<1>10. History(db, r, j, all)
  BY <1>1, <1>4, <1>6, <1>8, <1>9 DEF History
<1> QED BY <1>10 DEF all, rev

\* A revert cuts the journal back to a snapshot, at which was read what is now.
LEMMA HistoryCut ==
  ASSUME NEW db, NEW r, NEW j, NEW revs, History(db, r, j, revs), NEW i \in DOMAIN revs
  PROVE  History(db, revs[i].readings, SubSeq(j, 1, revs[i].index), SubSeq(revs, 1, i - 1))
<1> DEFINE n == revs[i].index
           cut == SubSeq(revs, 1, i - 1)
<1>1. /\ j \in Seq(Entry) /\ revs \in Seq(Revision)
      /\ \A k \in DOMAIN revs : revs[k].index <= Len(j)
      /\ \A k, l \in DOMAIN revs : k < l => revs[k].index <= revs[l].index
  BY DEF History
<1>2. n \in Nat /\ Len(j) \in Nat
  <2>1. revs[i] \in Revision
    BY <1>1, SMTT(60)
  <2>2. Len(j) \in Nat
    BY <1>1, SMTT(60)
  <2> QED BY <2>1, <2>2, SMTT(60) DEF Revision
<1>3. n \in 0 .. Len(j)
  BY <1>1, <1>2, SMTT(60)
<1>4. SubSeq(j, 1, n) \in Seq(Entry)
  BY <1>1, <1>3, SMTT(60)
<1>5. PICK h : /\ Track(h, db, r, j)
               /\ \A k \in DOMAIN revs : h[revs[k].index] = revs[k].readings
  BY DEF History
<1>6. /\ cut \in Seq(Revision) /\ DOMAIN cut = 1 .. i - 1
      /\ \A k \in 1 .. i - 1 : cut[k] = revs[k] /\ k \in DOMAIN revs /\ k < i
  BY <1>1, SMTT(60)
<1>7. Track(h, db, h[n], SubSeq(j, 1, n)) /\ Len(SubSeq(j, 1, n)) = n
  BY <1>1, <1>3, <1>5, TrackCut
<1> HIDE DEF cut
<1>8. \A k \in DOMAIN cut : cut[k].index <= n /\ h[cut[k].index] = cut[k].readings
  BY <1>1, <1>5, <1>6
<1>9. ASSUME NEW k \in DOMAIN cut, NEW l \in DOMAIN cut, k < l
      PROVE  cut[k].index <= cut[l].index
  <2>1. cut[k] = revs[k] /\ cut[l] = revs[l] /\ k \in DOMAIN revs /\ l \in DOMAIN revs
    BY <1>6
  <2> QED BY <1>1, <1>9, <2>1
<1>10. h[n] = revs[i].readings
  BY <1>5
<1> HIDE DEF n
<1>11. History(db, h[n], SubSeq(j, 1, n), cut)
  BY <1>4, <1>6, <1>7, <1>8, <1>9 DEF History
<1> QED BY <1>10, <1>11 DEF n, cut

----------------------------------------------------------------------------
(* The invariant.                                                          *)

StateInv ==
  /\ DbTypes
  /\ Cache \in Caches
  /\ Durable(Cache, dbAccounts, dbStorage)
  /\ dirties \in SUBSET Addrs
  /\ nextRevision \in Nat
  /\ phase = "call" => revisions # <<>>
  /\ History(dbAccounts, Readings, journal, revisions)

\* The parts of the invariant, in the variables.
CacheTypes(acc, dirty, sto, slots) ==
  /\ acc \in [Addrs -> AccountSet] /\ dirty \in SUBSET Addrs
  /\ sto \in [Slots -> Values \cup {NotCached}] /\ slots \in SUBSET Slots

DurableIn(acc, dirty, sto, slots, db, st) ==
  /\ \A a \in Addrs : a \notin dirty /\ acc[a] # NoAccount => acc[a] = db[a]
  /\ \A k \in Slots : k \notin slots /\ sto[k] # NotCached => sto[k] = st[k]
  /\ \A k \in slots : sto[k] # NotCached

\* A cache and its parts.
LEMMA CacheParts ==
  ASSUME NEW acc, NEW dirty, NEW sto, NEW slots, NEW db, NEW st, NEW c,
         c = [accounts |-> acc, dirty |-> dirty, storage |-> sto, slots |-> slots]
  PROVE  /\ c \in Caches <=> CacheTypes(acc, dirty, sto, slots)
         /\ Durable(c, db, st) <=> DurableIn(acc, dirty, sto, slots, db, st)
<1>1. c.accounts = acc /\ c.dirty = dirty /\ c.storage = sto /\ c.slots = slots
  BY SMTT(60)
<1>2. c \in Caches <=> CacheTypes(acc, dirty, sto, slots)
  BY SMTT(60) DEF Caches, CacheTypes, AccountSet
<1> QED BY <1>1, <1>2 DEF Durable, DurableIn

\* The invariant in these terms, before and after a step.
LEMMA InvParts ==
  /\ Cache \in Caches <=> CacheTypes(accounts, accountDirty, storage, storageDirty)
  /\ Cache' \in Caches <=> CacheTypes(accounts', accountDirty', storage', storageDirty')
  /\ Durable(Cache, dbAccounts, dbStorage) <=>
       DurableIn(accounts, accountDirty, storage, storageDirty, dbAccounts, dbStorage)
  /\ Durable(Cache', dbAccounts', dbStorage') <=>
       DurableIn(accounts', accountDirty', storage', storageDirty', dbAccounts', dbStorage')
  /\ Readings = ReadIn(dbAccounts, dbStorage, accounts, storage)
  /\ Readings' = ReadIn(dbAccounts', dbStorage', accounts', storage')
  /\ \A a : GetOrNewAccount(a) = AccountIn(dbAccounts, accounts, a)
  /\ \A k : GetState(k) = SlotIn(dbStorage, storage, k)
<1>1. \A a : GetOrNewAccount(a)' = AccountIn(dbAccounts', accounts', a)
  BY DEF GetOrNewAccount, AccountIn, Exist, getAccount
<1>2. Readings' = ReadIn(dbAccounts', dbStorage', accounts', storage')
  BY <1>1 DEF Readings, ReadIn, GetBalance, GetNonce, GetState, SlotIn
<1>3. /\ Cache = [accounts |-> accounts, dirty |-> accountDirty, storage |-> storage,
                  slots |-> storageDirty]
      /\ Cache' = [accounts |-> accounts', dirty |-> accountDirty', storage |-> storage',
                   slots |-> storageDirty']
  BY DEF Cache
<1>4. \A k : GetState(k) = SlotIn(dbStorage, storage, k)
  BY DEF GetState, SlotIn
<1> QED BY <1>2, <1>3, <1>4, CacheParts, ReadingsAre

\* The node starts with an empty cache.
LEMMA InitInv ==
  Init => StateInv
<1> SUFFICES ASSUME Init PROVE StateInv
  OBVIOUS
<1>1. DbTypes
  <2>1. \A b \in 1 .. MaxBalance : [balance |-> b, nonce |-> 0] \in Account
    BY StateAssumption, SMTT(60) DEF Account
  <2>2. {NoAccount} \cup {[balance |-> b, nonce |-> 0] : b \in 1 .. MaxBalance}
          \subseteq AccountSet
    BY <2>1 DEF AccountSet
  <2>3. dbAccounts \in [Addrs -> AccountSet]
    BY <2>2 DEF Init
  <2> QED BY <2>3, StateAssumption DEF Init, DbTypes
<1>2. CacheTypes(accounts, accountDirty, storage, storageDirty)
  BY DEF Init, CacheTypes, AccountSet
<1>3. DurableIn(accounts, accountDirty, storage, storageDirty, dbAccounts, dbStorage)
  BY DEF Init, DurableIn
<1>4. History(dbAccounts, Readings, journal, revisions)
  BY HistoryNew DEF Init
<1>5. dirties \in SUBSET Addrs /\ nextRevision \in Nat /\ phase # "call"
  BY SMTT(60) DEF Init
<1> QED BY <1>1, <1>2, <1>3, <1>4, <1>5, InvParts DEF StateInv

\* What an account in the cache changes.
LEMMA PutRead ==
  ASSUME StateInv, NEW a \in Addrs, NEW acc \in Account, PutAccount(a, acc),
         UNCHANGED <<dbAccounts, dbStorage, storage, storageDirty>>
  PROVE  /\ CacheTypes(accounts', accountDirty', storage', storageDirty')
         /\ DurableIn(accounts', accountDirty', storage', storageDirty', dbAccounts', dbStorage')
         /\ \A b \in Addrs : AccountIn(dbAccounts', accounts', b) =
              IF b = a THEN acc ELSE AccountIn(dbAccounts, accounts, b)
<1>1. /\ CacheTypes(accounts, accountDirty, storage, storageDirty)
      /\ DurableIn(accounts, accountDirty, storage, storageDirty, dbAccounts, dbStorage)
  BY InvParts DEF StateInv
<1>2. /\ accounts' = [accounts EXCEPT ![a] = acc] /\ accountDirty' = accountDirty \cup {a}
      /\ dbAccounts' = dbAccounts /\ dbStorage' = dbStorage
      /\ storage' = storage /\ storageDirty' = storageDirty
  BY DEF PutAccount
<1>3. \A b \in Addrs : accounts'[b] = IF b = a THEN acc ELSE accounts[b]
  BY <1>1, <1>2 DEF CacheTypes
<1>4. CacheTypes(accounts', accountDirty', storage', storageDirty')
  BY <1>1, <1>2 DEF CacheTypes, AccountSet
<1>5. DurableIn(accounts', accountDirty', storage', storageDirty', dbAccounts', dbStorage')
  BY <1>1, <1>2, <1>3 DEF DurableIn
<1>6. acc # NoAccount
  BY AccountTypes
<1>7. \A b \in Addrs : AccountIn(dbAccounts', accounts', b) =
        IF b = a THEN acc ELSE AccountIn(dbAccounts, accounts, b)
  BY <1>2, <1>3, <1>6 DEF AccountIn
<1> QED BY <1>4, <1>5, <1>7

\* A journaled write keeps the invariant when its entry leads back.
LEMMA WriteInv ==
  ASSUME StateInv, NEW e \in Entry, AppendEntry(e),
         Back(dbAccounts, Readings', e) = Readings,
         CacheTypes(accounts', accountDirty', storage', storageDirty'),
         DurableIn(accounts', accountDirty', storage', storageDirty', dbAccounts', dbStorage'),
         UNCHANGED <<dbAccounts, dbStorage, revisions, nextRevision, phase>>
  PROVE  StateInv'
<1>1. /\ dbAccounts' = dbAccounts /\ dbStorage' = dbStorage /\ revisions' = revisions
      /\ nextRevision' = nextRevision /\ phase' = phase
      /\ journal' = Append(journal, e) /\ dirties' = dirties \cup e.touches
  BY DEF AppendEntry
<1>2. e.touches \in SUBSET Addrs
  BY SMTT(60) DEF Entry
<1>3. History(dbAccounts', Readings', journal', revisions')
  BY <1>1, HistoryAppend DEF StateInv
<1> QED BY <1>1, <1>2, <1>3, InvParts DEF StateInv, DbTypes

\* SubBalance and AddBalance.
LEMMA BalanceInv ==
  ASSUME StateInv, NEW a \in Addrs, NEW b \in 0 .. MaxBalance, SetBalanceTo(a, b)
  PROVE  StateInv'
<1> DEFINE old == AccountIn(dbAccounts, accounts, a)
           e == [kind |-> "balance", key |-> a, prev |-> old.balance, touches |-> {a}]
           acc == [old EXCEPT !.balance = b]
<1>1. /\ AppendEntry(e) /\ PutAccount(a, acc)
      /\ UNCHANGED <<dbAccounts, dbStorage, storage, storageDirty, revisions, nextRevision, phase>>
  BY InvParts DEF SetBalanceTo, GetBalance
<1>2. old \in Account
  BY InvParts, AccountInType DEF StateInv, DbTypes, CacheTypes
<1>3. /\ acc \in Account /\ acc.balance = b /\ acc.nonce = old.nonce
      /\ old.balance \in 0 .. MaxBalance
  BY <1>2, AccountTypes
<1>4. e \in Entry /\ e.kind = "balance" /\ e.key = a /\ e.prev = old.balance
  BY <1>3, SMTT(60) DEF Entry
<1> HIDE DEF acc, e
<1>5. /\ CacheTypes(accounts', accountDirty', storage', storageDirty')
      /\ DurableIn(accounts', accountDirty', storage', storageDirty', dbAccounts', dbStorage')
      /\ \A c \in Addrs : AccountIn(dbAccounts', accounts', c) =
           IF c = a THEN acc ELSE AccountIn(dbAccounts, accounts, c)
  BY <1>1, <1>3, PutRead
<1>6. Back(dbAccounts, Readings', e) = Readings
  <2> DEFINE r == Readings'
  <2>1. r = ReadIn(dbAccounts', dbStorage', accounts', storage')
    BY InvParts
  <2> HIDE DEF r
  <2>2. /\ \A c \in Addrs : r.nonce[c] = AccountIn(dbAccounts', accounts', c).nonce
        /\ \A c \in Addrs : r.balance[c] = AccountIn(dbAccounts', accounts', c).balance
        /\ \A k \in Slots \ NativeSlots : r.slot[k] = SlotIn(dbStorage, storage, k)
    BY <1>1, <2>1, SMTT(60) DEF ReadIn
  <2>3. \A c \in Addrs : BackBalance(dbAccounts, r, e, c) = AccountIn(dbAccounts, accounts, c).balance
    BY <1>4, <1>5, <2>2 DEF BackBalance
  <2>4. \A c \in Addrs : BackNonce(dbAccounts, r, e, c) = AccountIn(dbAccounts, accounts, c).nonce
    BY <1>3, <1>4, <1>5, <2>2 DEF BackNonce
  <2>5. \A k \in Slots \ NativeSlots : BackSlot(r, e, k) = SlotIn(dbStorage, storage, k)
    BY <1>4, <2>2 DEF BackSlot
  <2>6. Back(dbAccounts, r, e) = ReadIn(dbAccounts, dbStorage, accounts, storage)
    BY <2>3, <2>4, <2>5 DEF Back, ReadIn
  <2> QED BY <2>6, InvParts DEF r
<1> QED BY <1>1, <1>4, <1>5, <1>6, WriteInv

\* SetNonceJournaled.
LEMMA NonceInv ==
  ASSUME StateInv, NEW a \in Addrs, SetNonceJournaled(a)
  PROVE  StateInv'
<1> DEFINE old == AccountIn(dbAccounts, accounts, a)
           e == [kind |-> "nonce", key |-> a, prev |-> old.nonce, touches |-> {a}]
           acc == [old EXCEPT !.nonce = 1]
<1>1. /\ AppendEntry(e) /\ PutAccount(a, acc)
      /\ UNCHANGED <<dbAccounts, dbStorage, storage, storageDirty, revisions, nextRevision, phase>>
  BY InvParts DEF SetNonceJournaled, GetNonce
<1>2. old \in Account
  BY InvParts, AccountInType DEF StateInv, DbTypes, CacheTypes
<1>3. /\ acc \in Account /\ acc.balance = old.balance
      /\ old.nonce \in 0 .. 1
  <2>1. 1 \in 0 .. 1
    BY SMTT(60)
  <2> QED BY <1>2, <2>1, AccountTypes
<1>4. e \in Entry /\ e.kind = "nonce" /\ e.key = a /\ e.prev = old.nonce
  BY <1>3, SMTT(60) DEF Entry
<1> HIDE DEF acc, e
<1>5. /\ CacheTypes(accounts', accountDirty', storage', storageDirty')
      /\ DurableIn(accounts', accountDirty', storage', storageDirty', dbAccounts', dbStorage')
      /\ \A c \in Addrs : AccountIn(dbAccounts', accounts', c) =
           IF c = a THEN acc ELSE AccountIn(dbAccounts, accounts, c)
  BY <1>1, <1>3, PutRead
<1>6. Back(dbAccounts, Readings', e) = Readings
  <2> DEFINE r == Readings'
  <2>1. r = ReadIn(dbAccounts', dbStorage', accounts', storage')
    BY InvParts
  <2> HIDE DEF r
  <2>2. /\ \A c \in Addrs : r.nonce[c] = AccountIn(dbAccounts', accounts', c).nonce
        /\ \A c \in Addrs : r.balance[c] = AccountIn(dbAccounts', accounts', c).balance
        /\ \A k \in Slots \ NativeSlots : r.slot[k] = SlotIn(dbStorage, storage, k)
    BY <1>1, <2>1, SMTT(60) DEF ReadIn
  <2>3. \A c \in Addrs : BackBalance(dbAccounts, r, e, c) = AccountIn(dbAccounts, accounts, c).balance
    BY <1>3, <1>4, <1>5, <2>2 DEF BackBalance
  <2>4. \A c \in Addrs : BackNonce(dbAccounts, r, e, c) = AccountIn(dbAccounts, accounts, c).nonce
    BY <1>4, <1>5, <2>2 DEF BackNonce
  <2>5. \A k \in Slots \ NativeSlots : BackSlot(r, e, k) = SlotIn(dbStorage, storage, k)
    BY <1>4, <2>2 DEF BackSlot
  <2>6. Back(dbAccounts, r, e) = ReadIn(dbAccounts, dbStorage, accounts, storage)
    BY <2>3, <2>4, <2>5 DEF Back, ReadIn
  <2> QED BY <2>6, InvParts DEF r
<1> QED BY <1>1, <1>4, <1>5, <1>6, WriteInv

\* An account that is not there reads as a new one.
LEMMA NotThere ==
  ASSUME NEW a \in Addrs, ~ Exist(a)
  PROVE  /\ dbAccounts[a] = NoAccount
         /\ AccountIn(dbAccounts, accounts, a) = NewAccount
BY DEF Exist, getAccount, AccountIn

\* CreateAccount.
LEMMA CreateInv ==
  ASSUME StateInv, NEW a \in Addrs, CreateAccount(a)
  PROVE  StateInv'
<1> DEFINE e == [kind |-> "create", key |-> a, prev |-> 0, touches |-> {a}]
<1>1. /\ AppendEntry(e) /\ PutAccount(a, NewAccount)
      /\ UNCHANGED <<dbAccounts, dbStorage, storage, storageDirty, revisions, nextRevision, phase>>
      /\ dbAccounts[a] = NoAccount
      /\ AccountIn(dbAccounts, accounts, a) = NewAccount
  BY NotThere DEF CreateAccount
<1>2. NewAccount \in Account /\ NewAccount.balance = 0 /\ NewAccount.nonce = 0
  BY AccountTypes DEF NewAccount
<1>4. e \in Entry /\ e.kind = "create" /\ e.key = a
  BY SMTT(60) DEF Entry
<1> HIDE DEF e
<1>5. /\ CacheTypes(accounts', accountDirty', storage', storageDirty')
      /\ DurableIn(accounts', accountDirty', storage', storageDirty', dbAccounts', dbStorage')
      /\ \A c \in Addrs : AccountIn(dbAccounts', accounts', c) =
           IF c = a THEN NewAccount ELSE AccountIn(dbAccounts, accounts, c)
  BY <1>1, <1>2, PutRead
<1>6. Back(dbAccounts, Readings', e) = Readings
  <2> DEFINE r == Readings'
  <2>1. r = ReadIn(dbAccounts', dbStorage', accounts', storage')
    BY InvParts
  <2> HIDE DEF r
  <2>2. /\ \A c \in Addrs : r.nonce[c] = AccountIn(dbAccounts', accounts', c).nonce
        /\ \A c \in Addrs : r.balance[c] = AccountIn(dbAccounts', accounts', c).balance
        /\ \A k \in Slots \ NativeSlots : r.slot[k] = SlotIn(dbStorage, storage, k)
    BY <1>1, <2>1, SMTT(60) DEF ReadIn
  <2>3. \A c \in Addrs : BackBalance(dbAccounts, r, e, c) = AccountIn(dbAccounts, accounts, c).balance
    BY <1>1, <1>2, <1>4, <1>5, <2>2 DEF BackBalance
  <2>4. \A c \in Addrs : BackNonce(dbAccounts, r, e, c) = AccountIn(dbAccounts, accounts, c).nonce
    BY <1>1, <1>2, <1>4, <1>5, <2>2 DEF BackNonce
  <2>5. \A k \in Slots \ NativeSlots : BackSlot(r, e, k) = SlotIn(dbStorage, storage, k)
    BY <1>4, <2>2 DEF BackSlot
  <2>6. Back(dbAccounts, r, e) = ReadIn(dbAccounts, dbStorage, accounts, storage)
    BY <2>3, <2>4, <2>5 DEF Back, ReadIn
  <2> QED BY <2>6, InvParts DEF r
<1> QED BY <1>1, <1>4, <1>5, <1>6, WriteInv

\* What a slot in the cache changes, and the account made for it does not.
LEMMA PutSlotRead ==
  ASSUME StateInv, NEW k \in Slots, NEW v \in Values, PutSlot(k, v),
         UNCHANGED <<dbAccounts, dbStorage>>
  PROVE  /\ CacheTypes(accounts', accountDirty', storage', storageDirty')
         /\ DurableIn(accounts', accountDirty', storage', storageDirty', dbAccounts', dbStorage')
         /\ \A b \in Addrs : AccountIn(dbAccounts', accounts', b) =
                             AccountIn(dbAccounts, accounts, b)
         /\ \A l \in Slots : SlotIn(dbStorage', storage', l) =
              IF l = k THEN v ELSE SlotIn(dbStorage, storage, l)
<1> DEFINE a == Owner[k]
<1>1. /\ CacheTypes(accounts, accountDirty, storage, storageDirty)
      /\ DurableIn(accounts, accountDirty, storage, storageDirty, dbAccounts, dbStorage)
  BY InvParts DEF StateInv
<1>2. a \in Addrs
  BY StateAssumption
<1>3. /\ storage' = [storage EXCEPT ![k] = v] /\ storageDirty' = storageDirty \cup {k}
      /\ dbAccounts' = dbAccounts /\ dbStorage' = dbStorage
  BY DEF PutSlot
<1>4. v # NotCached
  BY StateAssumption, SMTT(60) DEF NotCached
<1>5. \A l \in Slots : storage'[l] = IF l = k THEN v ELSE storage[l]
  BY <1>1, <1>3 DEF CacheTypes
<1>6. /\ storage' \in [Slots -> Values \cup {NotCached}]
      /\ storageDirty' \in SUBSET Slots
  BY <1>1, <1>3 DEF CacheTypes
<1>7. /\ \A l \in Slots : l \notin storageDirty' /\ storage'[l] # NotCached
            => storage'[l] = dbStorage'[l]
      /\ \A l \in storageDirty' : storage'[l] # NotCached
  <2>1. \A l \in storageDirty' : l \in Slots
    BY <1>6
  <2> QED BY <1>1, <1>3, <1>4, <1>5, <2>1 DEF DurableIn
<1>8. \A l \in Slots : SlotIn(dbStorage', storage', l) =
        IF l = k THEN v ELSE SlotIn(dbStorage, storage, l)
  BY <1>3, <1>4, <1>5 DEF SlotIn
<1>9. CASE Exist(a)
  <2>1. accounts' = accounts /\ accountDirty' = accountDirty
    BY <1>9 DEF PutSlot
  <2>2. \A b \in Addrs : b \notin accountDirty' /\ accounts'[b] # NoAccount
          => accounts'[b] = dbAccounts'[b]
    BY <1>1, <1>3, <2>1 DEF DurableIn
  <2> QED BY <1>1, <1>3, <1>6, <1>7, <1>8, <2>1, <2>2 DEF CacheTypes, DurableIn
<1>10. CASE ~ Exist(a)
  <2>1. accounts' = [accounts EXCEPT ![a] = NewAccount] /\ accountDirty' = accountDirty \cup {a}
    BY <1>10 DEF PutSlot, PutAccount
  <2>2. AccountIn(dbAccounts, accounts, a) = NewAccount
    BY <1>2, <1>10, NotThere
  <2>3. \A b \in Addrs : accounts'[b] = IF b = a THEN NewAccount ELSE accounts[b]
    BY <1>1, <2>1 DEF CacheTypes
  <2>4. NewAccount \in Account /\ NewAccount # NoAccount
    BY AccountTypes
  <2> HIDE DEF a
  <2>5. \A b \in Addrs : AccountIn(dbAccounts', accounts', b) = AccountIn(dbAccounts, accounts, b)
    BY <1>3, <2>2, <2>3, <2>4 DEF AccountIn
  <2>6. accounts' \in [Addrs -> AccountSet] /\ accountDirty' \in SUBSET Addrs
    BY <1>1, <1>2, <2>1, <2>4 DEF CacheTypes, AccountSet
  <2>7. \A b \in Addrs : b \notin accountDirty' /\ accounts'[b] # NoAccount
          => accounts'[b] = dbAccounts'[b]
    BY <1>1, <1>3, <2>1, <2>3 DEF DurableIn
  <2> QED BY <1>6, <1>7, <1>8, <2>5, <2>6, <2>7 DEF CacheTypes, DurableIn
<1> QED BY <1>9, <1>10

\* SetStateJournaled.
LEMMA SlotInv ==
  ASSUME StateInv, NEW k \in Slots \ NativeSlots, NEW v \in Values, SetStateJournaled(k, v)
  PROVE  StateInv'
<1> DEFINE e == [kind |-> "storage", key |-> k, prev |-> SlotIn(dbStorage, storage, k),
                 touches |-> {Owner[k]}]
<1>1. /\ AppendEntry(e) /\ PutSlot(k, v)
      /\ UNCHANGED <<dbAccounts, dbStorage, revisions, nextRevision, phase>>
  BY InvParts DEF SetStateJournaled
<1>2. /\ CacheTypes(accounts', accountDirty', storage', storageDirty')
      /\ DurableIn(accounts', accountDirty', storage', storageDirty', dbAccounts', dbStorage')
      /\ \A b \in Addrs : AccountIn(dbAccounts', accounts', b) = AccountIn(dbAccounts, accounts, b)
      /\ \A l \in Slots : SlotIn(dbStorage', storage', l) =
           IF l = k THEN v ELSE SlotIn(dbStorage, storage, l)
  BY <1>1, PutSlotRead
<1>3. SlotIn(dbStorage, storage, k) \in Values
  BY InvParts DEF StateInv, DbTypes, CacheTypes, SlotIn
<1>4. e \in Entry /\ e.kind = "storage" /\ e.key = k /\ e.prev = SlotIn(dbStorage, storage, k)
  <2>1. {Owner[k]} \in SUBSET Addrs
    BY StateAssumption
  <2> QED BY <1>3, <2>1, SMTT(60) DEF Entry
<1> HIDE DEF e
<1>6. Back(dbAccounts, Readings', e) = Readings
  <2> DEFINE r == Readings'
  <2>1. r = ReadIn(dbAccounts', dbStorage', accounts', storage')
    BY InvParts
  <2> HIDE DEF r
  <2>2. /\ \A c \in Addrs : r.nonce[c] = AccountIn(dbAccounts', accounts', c).nonce
        /\ \A c \in Addrs : r.balance[c] = AccountIn(dbAccounts', accounts', c).balance
        /\ \A l \in Slots \ NativeSlots : r.slot[l] = SlotIn(dbStorage', storage', l)
    BY <2>1, SMTT(60) DEF ReadIn
  <2>3. \A c \in Addrs : BackBalance(dbAccounts, r, e, c) = AccountIn(dbAccounts, accounts, c).balance
    BY <1>2, <1>4, <2>2 DEF BackBalance
  <2>4. \A c \in Addrs : BackNonce(dbAccounts, r, e, c) = AccountIn(dbAccounts, accounts, c).nonce
    BY <1>2, <1>4, <2>2 DEF BackNonce
  <2>5. \A l \in Slots \ NativeSlots : BackSlot(r, e, l) = SlotIn(dbStorage, storage, l)
    BY <1>2, <1>4, <2>2 DEF BackSlot
  <2>6. Back(dbAccounts, r, e) = ReadIn(dbAccounts, dbStorage, accounts, storage)
    BY <2>3, <2>4, <2>5 DEF Back, ReadIn
  <2> QED BY <2>6, InvParts DEF r
<1> QED BY <1>1, <1>2, <1>4, <1>6, WriteInv

\* SetState of a native slot: nothing the EVM reads changes.
LEMMA NativeInv ==
  ASSUME StateInv, NEW k \in NativeSlots, NEW v \in Values, SetState(k, v)
  PROVE  StateInv'
<1>1. /\ PutSlot(k, v) /\ dbAccounts' = dbAccounts /\ dbStorage' = dbStorage
      /\ journal' = journal /\ dirties' = dirties /\ revisions' = revisions
      /\ nextRevision' = nextRevision /\ phase' = phase
  BY DEF SetState
<1>2. k \in Slots
  BY StateAssumption
<1>3. /\ CacheTypes(accounts', accountDirty', storage', storageDirty')
      /\ DurableIn(accounts', accountDirty', storage', storageDirty', dbAccounts', dbStorage')
      /\ \A b \in Addrs : AccountIn(dbAccounts', accounts', b) = AccountIn(dbAccounts, accounts, b)
      /\ \A l \in Slots : SlotIn(dbStorage', storage', l) =
           IF l = k THEN v ELSE SlotIn(dbStorage, storage, l)
  BY <1>1, <1>2, PutSlotRead
<1>4. \A l \in Slots \ NativeSlots : SlotIn(dbStorage', storage', l) = SlotIn(dbStorage, storage, l)
  BY <1>3
<1>5. ReadIn(dbAccounts', dbStorage', accounts', storage') =
        ReadIn(dbAccounts, dbStorage, accounts, storage)
  BY <1>3, <1>4 DEF ReadIn
<1>6. Readings' = Readings
  BY <1>5, InvParts
<1> QED BY <1>1, <1>3, <1>6, InvParts DEF StateInv, DbTypes

\* What is read has its type.
LEMMA ReadingsType ==
  StateInv => Readings \in ReadingSet
BY InvParts, ReadInType DEF StateInv, DbTypes, CacheTypes

\* A step that only takes a snapshot, or changes nothing of the state.
LEMMA SnapshotInv ==
  ASSUME StateInv, TakeSnapshot,
         UNCHANGED <<dbAccounts, dbStorage, accounts, storage, accountDirty, storageDirty,
                     journal, dirties>>
  PROVE  StateInv'
<1> DEFINE rev == [id |-> nextRevision, index |-> Len(journal), readings |-> Readings]
<1>1. /\ revisions' = Append(revisions, rev) /\ nextRevision' = nextRevision + 1
      /\ dbAccounts' = dbAccounts /\ dbStorage' = dbStorage /\ accounts' = accounts
      /\ storage' = storage /\ accountDirty' = accountDirty /\ storageDirty' = storageDirty
      /\ journal' = journal /\ dirties' = dirties
  BY DEF TakeSnapshot
<1>2. Readings' = Readings /\ Cache' = Cache /\ DbTypes'
  BY <1>1, InvParts DEF Cache, DbTypes, StateInv
<1>3. History(dbAccounts, Readings, journal, Append(revisions, rev))
  BY HistorySnapshot, ReadingsType DEF StateInv
<1> HIDE DEF rev
<1>4. revisions' # <<>>
  <2>1. revisions \in Seq(Revision)
    BY DEF StateInv, History
  <2>2. Len(Append(revisions, rev)) = Len(revisions) + 1 /\ Len(revisions) \in Nat /\ Len(<<>>) = 0
    BY <2>1, SMTT(60)
  <2>3. Len(revisions) + 1 # 0
    BY <2>2, SMTT(60)
  <2> QED BY <1>1, <2>2, <2>3
<1>5. nextRevision' \in Nat
  BY <1>1, SMTT(60) DEF StateInv
<1> QED BY <1>1, <1>2, <1>3, <1>4, <1>5 DEF StateInv

\* A revert: what is read is what was read at the snapshot.
LEMMA RevertIs ==
  ASSUME StateInv, NEW i \in DOMAIN revisions, RevertTo(i), UNCHANGED <<dbAccounts, dbStorage>>
  PROVE  /\ DbTypes' /\ Cache' \in Caches /\ Durable(Cache', dbAccounts', dbStorage')
         /\ dirties' \in SUBSET Addrs
         /\ Readings' = revisions[i].readings
         /\ History(dbAccounts', Readings', journal', revisions')
<1> DEFINE n == revisions[i].index
           c == UndoTo(n)
<1>1. /\ dbAccounts' = dbAccounts /\ dbStorage' = dbStorage /\ dirties' = dirties
      /\ accounts' = c.accounts /\ accountDirty' = c.dirty
      /\ storage' = c.storage /\ storageDirty' = c.slots
      /\ journal' = SubSeq(journal, 1, n) /\ revisions' = SubSeq(revisions, 1, i - 1)
  BY DEF RevertTo
<1>2. History(dbAccounts, Readings, journal, revisions)
  BY DEF StateInv
<1>3. PICK h : /\ Track(h, dbAccounts, Readings, journal)
               /\ \A k \in DOMAIN revisions : h[revisions[k].index] = revisions[k].readings
  BY <1>2 DEF History
<1>4. journal \in Seq(Entry) /\ n <= Len(journal) /\ n \in Nat
  <2>1. revisions \in Seq(Revision) /\ journal \in Seq(Entry) /\ n <= Len(journal)
    BY <1>2 DEF History
  <2>2. revisions[i] \in Revision
    BY <2>1, SMTT(60)
  <2> QED BY <2>1, <2>2, SMTT(60) DEF Revision
<1>5. Len(journal) - n \in 0 .. Len(journal) /\ Len(journal) - (Len(journal) - n) = n
  <2>1. Len(journal) \in Nat
    BY <1>4, SMTT(60)
  <2> QED BY <1>4, <2>1, SMTT(60)
<1>6. /\ c \in Caches /\ Durable(c, dbAccounts, dbStorage)
      /\ ReadOf(c) = h[n]
  BY <1>3, <1>4, <1>5, UndoneIs DEF UndoTo, StateInv
<1> HIDE DEF c
<1>7. c = [accounts |-> c.accounts, dirty |-> c.dirty, storage |-> c.storage, slots |-> c.slots]
  BY <1>6, SMTT(60) DEF Caches
<1>8. Cache' = c
  BY <1>1, <1>7 DEF Cache
<1>9. Readings' = ReadOf(c)
  BY <1>1, InvParts DEF ReadOf
<1>10. Readings' = revisions[i].readings
  BY <1>3, <1>6, <1>9
<1>11. History(dbAccounts, revisions[i].readings, SubSeq(journal, 1, n), SubSeq(revisions, 1, i - 1))
  BY <1>2, HistoryCut
<1> HIDE DEF n
<1>12. DbTypes' /\ dirties' \in SUBSET Addrs
  BY <1>1 DEF StateInv, DbTypes
<1> QED BY <1>1, <1>6, <1>8, <1>10, <1>11, <1>12

\* A frame fails.
LEMMA RevertInv ==
  ASSUME StateInv, NEW i \in DOMAIN revisions, RevertToSnapshot(i)
  PROVE  StateInv' /\ Readings' = revisions[i].readings
<1>1. /\ RevertTo(i) /\ UNCHANGED <<dbAccounts, dbStorage>>
      /\ nextRevision' = nextRevision /\ phase' = phase /\ (phase = "call" => i > 1)
  BY DEF RevertToSnapshot
<1>2. phase' = "call" => revisions' # <<>>
  <2> SUFFICES ASSUME phase' = "call" PROVE revisions' # <<>>
    OBVIOUS
  <2>1. revisions' = SubSeq(revisions, 1, i - 1) /\ i > 1
    BY <1>1 DEF RevertTo
  <2>2. revisions \in Seq(Revision)
    BY DEF StateInv, History
  <2>3. Len(SubSeq(revisions, 1, i - 1)) = i - 1 /\ i - 1 # 0 /\ Len(<<>>) = 0
    BY <2>1, <2>2, SMTT(60)
  <2> QED BY <2>1, <2>3
<1> QED BY <1>1, <1>2, RevertIs DEF StateInv

\* Nothing but the phase changes.
LEMMA PhaseInv ==
  ASSUME StateInv, phase' # "call" \/ phase' = phase,
         UNCHANGED <<dbAccounts, dbStorage, accounts, storage, accountDirty, storageDirty,
                     journal, dirties, revisions, nextRevision>>
  PROVE  StateInv'
<1>1. Readings' = Readings /\ Cache' = Cache /\ DbTypes'
  BY InvParts DEF Cache, DbTypes, StateInv
<1> QED BY <1>1 DEF StateInv

\* An eth_call ends: the state reads as it did when the call began.
LEMMA EndCallInv ==
  ASSUME StateInv, EndCall
  PROVE  StateInv' /\ Readings' = revisions[1].readings
<1>1. 1 \in DOMAIN revisions
  <2>1. revisions \in Seq(Revision) /\ revisions # <<>>
    BY DEF StateInv, History, EndCall
  <2> QED BY <2>1, SMTT(60)
<1>2. /\ RevertTo(1) /\ UNCHANGED <<dbAccounts, dbStorage>>
      /\ nextRevision' = 0 /\ phase' # "call"
  BY DEF EndCall
<1>3. 0 \in Nat
  BY SMTT(60)
<1> QED BY <1>1, <1>2, <1>3, RevertIs DEF StateInv

\* A block is rejected.
LEMMA RejectInv ==
  ASSUME StateInv, RejectBlock
  PROVE  StateInv'
<1>1. CASE \E i \in DOMAIN revisions : revisions[i].id = blockSnap
  <2>1. 1 \in DOMAIN revisions
    <3>1. revisions \in Seq(Revision)
      BY DEF StateInv, History
    <3> QED BY <1>1, <3>1, SMTT(60)
  <2>2. /\ RevertTo(1) /\ UNCHANGED <<dbAccounts, dbStorage>>
        /\ nextRevision' = 0 /\ phase' # "call"
    BY <1>1 DEF RejectBlock
  <2>3. 0 \in Nat
    BY SMTT(60)
  <2> QED BY <2>1, <2>2, <2>3, RevertIs DEF StateInv
<1>2. CASE ~ \E i \in DOMAIN revisions : revisions[i].id = blockSnap
  BY <1>2, PhaseInv DEF RejectBlock
<1> QED BY <1>1, <1>2

\* The transaction ends: the journal starts anew, over accounts that are kept,
\* or leave the cache marked dirty.
LEMMA FinaliseInv ==
  ASSUME StateInv, Finalise
  PROVE  StateInv'
<1> DEFINE gone == {a \in dirties : GetOrNewAccount(a) = NewAccount}
<1>1. /\ CacheTypes(accounts, accountDirty, storage, storageDirty)
      /\ DurableIn(accounts, accountDirty, storage, storageDirty, dbAccounts, dbStorage)
      /\ dirties \in SUBSET Addrs
  BY InvParts DEF StateInv
<1>2. /\ \A a \in Addrs : accounts'[a] = IF a \in gone THEN NoAccount ELSE accounts[a]
      /\ accountDirty' = accountDirty \cup gone
      /\ accounts' = [a \in Addrs |-> IF a \in gone THEN NoAccount ELSE accounts[a]]
      /\ gone \in SUBSET Addrs
  BY <1>1 DEF Finalise
<1>3. /\ dbAccounts' = dbAccounts /\ dbStorage' = dbStorage /\ storage' = storage
      /\ storageDirty' = storageDirty /\ journal' = <<>> /\ revisions' = <<>>
      /\ dirties' = {} /\ nextRevision' = nextRevision /\ phase' # "call"
  BY DEF Finalise
<1> HIDE DEF gone
<1>4. CacheTypes(accounts', accountDirty', storage', storageDirty')
  <2>1. \A a \in Addrs : (IF a \in gone THEN NoAccount ELSE accounts[a]) \in AccountSet
    BY <1>1 DEF CacheTypes, AccountSet
  <2>2. accounts' \in [Addrs -> AccountSet]
    BY <1>2, <2>1
  <2> QED BY <1>1, <1>2, <1>3, <2>2 DEF CacheTypes
<1>5. DurableIn(accounts', accountDirty', storage', storageDirty', dbAccounts', dbStorage')
  BY <1>1, <1>2, <1>3 DEF DurableIn
<1>6. History(dbAccounts', Readings', journal', revisions')
  BY <1>3, HistoryNew
<1>7. DbTypes' /\ nextRevision' \in Nat /\ dirties' \in SUBSET Addrs
  BY <1>3 DEF StateInv, DbTypes
<1> QED BY <1>3, <1>4, <1>5, <1>6, <1>7, InvParts DEF StateInv

\* The batch makes everything durable.
LEMMA PersistInv ==
  ASSUME StateInv, PersistBlock
  PROVE  StateInv'
<1>1. /\ CacheTypes(accounts, accountDirty, storage, storageDirty)
      /\ DurableIn(accounts, accountDirty, storage, storageDirty, dbAccounts, dbStorage)
      /\ DbTypes
  BY InvParts DEF StateInv
<1>2. /\ dbAccounts' = [a \in Addrs |-> IF a \in accountDirty /\ accounts[a] # NoAccount
                                        THEN accounts[a] ELSE dbAccounts[a]]
      /\ dbStorage' = [k \in Slots |-> IF k \in storageDirty THEN storage[k] ELSE dbStorage[k]]
      /\ accountDirty' = {} /\ storageDirty' = {} /\ phase' # "call"
      /\ nextRevision' = 0 /\ revisions' = <<>> /\ journal' = <<>>
      /\ accounts' = accounts /\ storage' = storage /\ dirties' = dirties
  BY DEF PersistBlock
<1>3. /\ \A a \in Addrs : dbAccounts'[a] = IF a \in accountDirty /\ accounts[a] # NoAccount
                                           THEN accounts[a] ELSE dbAccounts[a]
      /\ \A k \in Slots : dbStorage'[k] = IF k \in storageDirty THEN storage[k] ELSE dbStorage[k]
  BY <1>2
<1>4. dbAccounts' \in [Addrs -> AccountSet]
  BY <1>1, <1>2, <1>3 DEF CacheTypes, DbTypes
<1>5. dbStorage' \in [Slots -> Values]
  <2>1. \A k \in Slots : dbStorage'[k] \in Values
    BY <1>1, <1>3 DEF CacheTypes, DbTypes, DurableIn
  <2> QED BY <1>2, <2>1
<1>6. CacheTypes(accounts', accountDirty', storage', storageDirty')
  BY <1>1, <1>2 DEF CacheTypes
<1>7. DurableIn(accounts', accountDirty', storage', storageDirty', dbAccounts', dbStorage')
  <2>1. \A a \in Addrs : accounts[a] # NoAccount => accounts[a] = dbAccounts'[a]
    BY <1>1, <1>3 DEF DurableIn
  <2>2. \A k \in Slots : storage[k] # NotCached => storage[k] = dbStorage'[k]
    BY <1>1, <1>3 DEF DurableIn
  <2> QED BY <1>2, <2>1, <2>2 DEF DurableIn
<1>8. History(dbAccounts', Readings', journal', revisions')
  BY <1>2, HistoryNew
<1>9. DbTypes' /\ nextRevision' \in Nat /\ dirties' \in SUBSET Addrs
  <2>1. 0 \in Nat
    BY SMTT(60)
  <2> QED BY <1>2, <1>4, <1>5, <2>1 DEF StateInv, DbTypes
<1> QED BY <1>2, <1>6, <1>7, <1>8, <1>9, InvParts DEF StateInv

\* The database is opened again.
LEMMA RestartInv ==
  ASSUME StateInv, Restart
  PROVE  StateInv'
<1>1. CacheTypes(accounts', accountDirty', storage', storageDirty')
  BY DEF Restart, CacheTypes, AccountSet
<1>2. DurableIn(accounts', accountDirty', storage', storageDirty', dbAccounts', dbStorage')
  BY DEF Restart, DurableIn
<1>3. History(dbAccounts', Readings', journal', revisions')
  BY HistoryNew DEF Restart
<1>4. DbTypes' /\ dirties' \in SUBSET Addrs /\ phase' # "call"
  BY DEF Restart, StateInv, DbTypes
<1>5. nextRevision' \in Nat
  <2>1. 0 \in Nat
    BY SMTT(60)
  <2> QED BY <2>1 DEF Restart
<1> QED BY <1>1, <1>2, <1>3, <1>4, <1>5, InvParts DEF StateInv

\* Every step keeps the invariant, and a revert restores.
LEMMA StepInv ==
  ASSUME StateInv, [Next]_vars
  PROVE  StateInv'
<1>1. ASSUME NEW a \in Addrs, NEW b \in 0 .. MaxBalance, SetBalanceTo(a, b)
      PROVE  StateInv'
  BY <1>1, BalanceInv
<1>2. ASSUME NEW a \in Addrs, SetNonceJournaled(a) \/ CreateAccount(a)
      PROVE  StateInv'
  BY <1>2, NonceInv, CreateInv
<1>3. ASSUME NEW v \in Values, NEW k \in Slots \ NativeSlots, SetStateJournaled(k, v)
      PROVE  StateInv'
  BY <1>3, SlotInv
<1>4. ASSUME NEW v \in Values, NEW k \in NativeSlots, SetState(k, v)
      PROVE  StateInv'
  BY <1>4, NativeInv
<1>5. CASE Snapshot
  BY <1>5, SnapshotInv DEF Snapshot
<1>6. ASSUME NEW i \in DOMAIN revisions, RevertToSnapshot(i)
      PROVE  StateInv'
  BY <1>6, RevertInv
<1>7. CASE BeginBlock
  BY <1>7, SnapshotInv DEF BeginBlock
<1>8. CASE BeginTx
  BY <1>8, PhaseInv DEF BeginTx
<1>9. CASE Finalise
  BY <1>9, FinaliseInv
<1>10. CASE PersistBlock
  BY <1>10, PersistInv
<1>11. CASE RejectBlock
  BY <1>11, RejectInv
<1>12. CASE BeginCall
  BY <1>12, SnapshotInv DEF BeginCall
<1>13. CASE EndCall
  BY <1>13, EndCallInv
<1>14. CASE Restart
  BY <1>14, RestartInv
<1>15. CASE UNCHANGED vars
  BY <1>15, PhaseInv DEF vars
<1> QED
  BY <1>1, <1>2, <1>3, <1>4, <1>5, <1>6, <1>7, <1>8, <1>9, <1>10, <1>11, <1>12, <1>13,
     <1>14, <1>15 DEF Next

\* The invariant holds throughout.
LEMMA StateInvariant ==
  Spec => []StateInv
BY InitInv, StepInv, PTL DEF Spec

\* What the cache of a node holds and its database does not is marked dirty,
\* for any accounts, slots, journals and nesting of frames: FlushDirtyTo of a
\* block leaves nothing behind.
THEOREM CleanDurable ==
  Spec => []CleanIsDurable
<1>1. StateInv => CleanIsDurable
  BY InvParts DEF StateInv, DurableIn, CleanIsDurable
<1> QED BY <1>1, StateInvariant, PTL

\* After RevertToSnapshot in a frame, and after an eth_call, every balance,
\* nonce and EVM slot reads as it did when the snapshot was taken, whatever was
\* written, begun and undone since.
THEOREM RevertsRestore ==
  Spec => RevertRestores
<1>1. ASSUME StateInv, [Next]_vars
      PROVE  [/\ \A i \in DOMAIN revisions :
                   RevertToSnapshot(i) => Readings' = revisions[i].readings
              /\ EndCall => Readings' = revisions[1].readings]_vars
  BY <1>1, RevertInv, EndCallInv
<1> QED BY <1>1, StateInvariant, PTL DEF Spec, RevertRestores

----------------------------------------------------------------------------
(* The parallel executor, over the same accounts and slots.                *)

\* Value is only sent to accounts that cannot be empty: Empty notes no read, and
\* without this the claim is false.
ReceiversStand ==
  \A m \in Messages :
    m.kind = "call" /\ m.op = "overspend" => Genesis[m.at] # NoAccount /\ Genesis[m.at].nonce > 0

Contract(t) == Genesis[t] # NoAccount /\ Genesis[t].nonce > 0
Numbers == [balance : Int, nonce : Int]

\* The accounts of a state database, in which a contract of the genesis stays one.
Sound(s) ==
  /\ \A t \in Addrs : s.accounts[t] \in {NoAccount} \cup Numbers
  /\ \A t \in Addrs : Contract(t) => HeldIn(s, t).nonce \in Nat \ {0}

\* Two databases that read the same at some keys.
Agree(s, z, keys) ==
  /\ \A t \in Addrs : t \in keys => s.accounts[t] = z.accounts[t]
  /\ \A k \in Slots : k \in keys => s.storage[k] = z.storage[k]

\* What a message reads and writes.
KeysOf(s, m) == Reads(s, m) \cup Touched(s, m) \cup SlotsWritten(s, m)

\* What a written slot is left with.
WrittenTo(s, m, k) == IF Failed(s, m) THEN GetStateIn(s, k) ELSE Stored(s, m)

\* A message has the same effect.
Alike(s, z, m) ==
  /\ CanPay(s, m) <=> CanPay(z, m)
  /\ Failed(s, m) <=> Failed(z, m)
  /\ UsedGas(s, m) = UsedGas(z, m)
  /\ Touched(s, m) = Touched(z, m)
  /\ Deleted(s, m) = Deleted(z, m)
  /\ SlotsWritten(s, m) = SlotsWritten(z, m)
  /\ \A t \in Touched(s, m) : After(s, m, t) = After(z, m, t)
  /\ \A k \in SlotsWritten(s, m) : WrittenTo(s, m, k) = WrittenTo(z, m, k)

\* What the assumption says of a message.
LEMMA MessageTypes ==
  ASSUME NEW m \in Messages \cup Earlier
  PROVE  /\ m.from \in Addrs /\ m.to \in Addrs /\ m.at \in Addrs
         /\ m.value \in Nat /\ m.price \in Nat
         /\ m.kind \in {"call", "create", "createDestroy"}
         /\ Target(m) \in Addrs /\ SlotOf[m.to] \in Slots
         /\ Coinbase \in Addrs
<1>1. m \in Message
  BY ParallelAssumption
<1>2. /\ m.from \in Addrs /\ m.to \in Addrs /\ m.at \in Addrs
      /\ m.value \in Nat /\ m.price \in Nat
      /\ m.kind \in {"call", "create", "createDestroy"}
  BY <1>1, SMTT(60) DEF Message
<1> QED BY ParallelAssumption, <1>2 DEF Target

\* In a sound state the receiver of value is not empty.
LEMMA NotEmpty ==
  ASSUME ReceiversStand, NEW m \in Messages, NEW s, Sound(s)
  PROVE  UsedGas(s, m) = 1
<1>1. ~ (Runs(s, m, {"overspend"}) /\ Empty(s, m.at))
  <2> SUFFICES ASSUME Runs(s, m, {"overspend"}), Empty(s, m.at) PROVE FALSE
    OBVIOUS
  <2>1. Contract(m.at)
    BY DEF Runs, ReceiversStand, Contract
  <2>2. HeldIn(s, m.at).nonce \in Nat \ {0}
    BY <2>1, MessageTypes DEF Sound
  <2>3. HeldIn(s, m.at).nonce = 0
    <3>1. NewAccount.nonce = 0
      BY DEF NewAccount
    <3> QED BY <3>1 DEF Empty
  <2> QED BY <2>2, <2>3
<1>2. UsedGas(s, m) = 1 + 0
  BY <1>1 DEF UsedGas
<1> QED BY <1>2, SMTT(60)

\* The effect of a message depends on what it reads and writes alone.
LEMMA Depends ==
  ASSUME ReceiversStand, NEW m \in Messages,
         NEW s, Sound(s), NEW z, Sound(z), Agree(s, z, KeysOf(s, m))
  PROVE  Alike(s, z, m)
<1> DEFINE k == SlotOf[m.to]
           slotted == {"bump", "revert", "peek"}
<1>1. /\ m.from \in Addrs /\ m.to \in Addrs /\ m.at \in Addrs /\ Coinbase \in Addrs
      /\ Target(m) \in Addrs /\ k \in Slots
  BY MessageTypes
<1>2. \A t \in Addrs : t \in KeysOf(s, m) =>
        getAccountIn(s, t) = getAccountIn(z, t) /\ HeldIn(s, t) = HeldIn(z, t)
  BY DEF Agree, getAccountIn, HeldIn
<1>3. \A j \in Slots : j \in KeysOf(s, m) => GetStateIn(s, j) = GetStateIn(z, j)
  BY DEF Agree, GetStateIn
<1>4. m.from \in KeysOf(s, m) /\ Target(m) \in KeysOf(s, m)
  BY DEF KeysOf, Reads
<1>5. CanPay(s, m) <=> CanPay(z, m)
  BY <1>1, <1>2, <1>4 DEF CanPay
<1>6. Enters(s, m) <=> Enters(z, m)
  BY <1>1, <1>2, <1>4 DEF Enters, Target
<1>7. \A op : Runs(s, m, op) <=> Runs(z, m, op)
  BY <1>6 DEF Runs
<1>8. Failed(s, m) <=> Failed(z, m)
  BY <1>7 DEF Failed
<1>9. UsedGas(s, m) = UsedGas(z, m)
  BY NotEmpty
<1>10. Moved(s, m) = Moved(z, m)
  BY <1>6, <1>8 DEF Moved
<1>11. Touched(s, m) = Touched(z, m) /\ Touched(s, m) \subseteq Addrs
  BY <1>1, <1>6 DEF Touched
<1>12. \A t \in Touched(s, m) : After(s, m, t) = After(z, m, t)
  <2>1. \A t \in Touched(s, m) : HeldIn(s, t) = HeldIn(z, t)
    BY <1>2, <1>11 DEF KeysOf
  <2> QED BY <1>9, <1>10, <2>1 DEF After
<1>13. Deleted(s, m) = Deleted(z, m)
  BY <1>11, <1>12 DEF Deleted
<1>14. CASE Runs(s, m, slotted)
  <2>1. k \in KeysOf(s, m)
    BY <1>14 DEF KeysOf, Reads
  <2>2. GetStateIn(s, k) = GetStateIn(z, k)
    BY <1>1, <1>3, <2>1
  <2>3. Runs(s, m, {"peek"}) => HeldIn(s, m.at) = HeldIn(z, m.at)
    <3>1. Runs(s, m, {"peek"}) => m.at \in KeysOf(s, m)
      BY DEF KeysOf, Reads
    <3> QED BY <1>1, <1>2, <3>1
  <2>4. Stored(s, m) = Stored(z, m)
    BY <1>7, <2>2, <2>3 DEF Stored
  <2>5. SlotsWritten(s, m) = SlotsWritten(z, m) /\ \A j \in SlotsWritten(s, m) : j = k
    BY <2>2, <2>4 DEF SlotsWritten
  <2>6. \A j \in SlotsWritten(s, m) : WrittenTo(s, m, j) = WrittenTo(z, m, j)
    BY <1>8, <2>2, <2>4, <2>5 DEF WrittenTo
  <2> QED BY <1>5, <1>8, <1>9, <1>11, <1>12, <1>13, <2>5, <2>6 DEF Alike
<1>15. CASE ~ Runs(s, m, slotted)
  <2>1. /\ ~ Runs(s, m, {"bump", "revert"}) /\ ~ Runs(s, m, {"peek"})
        /\ ~ Runs(z, m, {"bump", "revert"}) /\ ~ Runs(z, m, {"peek"})
    <3>1. ~ Runs(s, m, {"bump", "revert"}) /\ ~ Runs(s, m, {"peek"})
      BY <1>15 DEF Runs
    <3> QED BY <1>7, <3>1
  <2>2. SlotsWritten(s, m) = {} /\ SlotsWritten(z, m) = {}
    BY <2>1 DEF SlotsWritten, Stored
  <2> QED BY <1>5, <1>8, <1>9, <1>11, <1>12, <1>13, <2>2 DEF Alike
<1> QED BY <1>14, <1>15

AccountsAfter(s, m) ==
  [t \in Addrs |-> IF t \in Deleted(s, m) THEN NoAccount
                   ELSE IF t \in Touched(s, m) THEN After(s, m, t) ELSE s.accounts[t]]

StorageAfter(s, m) ==
  [k \in Slots |-> IF k \notin SlotsWritten(s, m) THEN s.storage[k] ELSE WrittenTo(s, m, k)]

\* What a message leaves, field by field.
LEMMA ExecutedIs ==
  ASSUME NEW s, NEW m
  PROVE  /\ Executed(s, m).accounts = AccountsAfter(s, m)
         /\ Executed(s, m).accountDirty = s.accountDirty \cup Touched(s, m)
         /\ Executed(s, m).storage = StorageAfter(s, m)
         /\ Executed(s, m).storageDirty = s.storageDirty \cup SlotsWritten(s, m)
         /\ Executed(s, m).reads = (s.reads \cup Reads(s, m)) \
              (s.writes \cup (Touched(s, m) \cup SlotsWritten(s, m)))
         /\ Executed(s, m).writes = s.writes \cup (Touched(s, m) \cup SlotsWritten(s, m))
BY SMTT(60) DEF Executed, AccountsAfter, StorageAfter, WrittenTo

\* A deleted account is a touched one.
LEMMA DeletedTouched ==
  ASSUME NEW s, NEW m
  PROVE  Deleted(s, m) \subseteq Touched(s, m)
<1>1. \A t \in Destroyed(m) : t \in Touched(s, m)
  <2>1. \A t \in Destroyed(m) : t = Target(m) /\ m.kind = "createDestroy"
    BY DEF Destroyed
  <2>2. m.kind = "createDestroy" => Enters(s, m)
    BY DEF Enters
  <2> QED BY <2>1, <2>2 DEF Touched
<1> QED BY <1>1 DEF Deleted

\* What an account reads as is numbers.
LEMMA HeldType ==
  ASSUME NEW s, Sound(s), NEW t \in Addrs
  PROVE  HeldIn(s, t) \in Numbers
<1>1. NewAccount \in Numbers
  BY SMTT(60) DEF NewAccount, Numbers
<1>2. Genesis[t] \in {NoAccount} \cup Numbers
  <2>1. Genesis[t] \in {NoAccount} \cup [balance : Nat, nonce : Nat]
    BY ParallelAssumption
  <2>2. \A x \in [balance : Nat, nonce : Nat] : x \in Numbers
    BY SMTT(60) DEF Numbers
  <2> QED BY <2>1, <2>2
<1> QED BY <1>1, <1>2 DEF HeldIn, getAccountIn, Sound

\* A touched account is left with numbers, and a contract stays one.
LEMMA AfterType ==
  ASSUME NEW s, Sound(s), NEW t \in Addrs, NEW m \in Messages \cup Earlier
  PROVE  /\ After(s, m, t) \in Numbers
         /\ After(s, m, t) # NoAccount
         /\ Contract(t) => After(s, m, t).nonce \in Nat \ {0}
<1> DEFINE fee == UsedGas(s, m) * m.price
           b == HeldIn(s, t).balance + (IF t = Target(m) THEN Moved(s, m) ELSE 0)
                     - (IF t = m.from THEN Moved(s, m) + fee ELSE 0)
                     + (IF t = Coinbase THEN fee ELSE 0)
           n == IF t = m.from THEN HeldIn(s, t).nonce + 1
                ELSE IF m.kind # "call" /\ t = Target(m) THEN 1 ELSE HeldIn(s, t).nonce
<1>1. After(s, m, t) = [balance |-> b, nonce |-> n]
  BY DEF After
<1>2. m.value \in Nat /\ m.price \in Nat
  BY MessageTypes
<1>3. UsedGas(s, m) \in Int
  BY SMTT(60) DEF UsedGas
<1>4. fee \in Int
  <2>1. \A x, y \in Int : x * y \in Int
    BY SMTT(60)
  <2>2. m.price \in Int
    BY <1>2, SMTT(60)
  <2> QED BY <1>3, <2>1, <2>2
<1>5. Moved(s, m) \in Int
  <2>1. m.value \in Int /\ 0 \in Int
    BY <1>2, SMTT(60)
  <2> QED BY <2>1 DEF Moved
<1>6. HeldIn(s, t).balance \in Int /\ HeldIn(s, t).nonce \in Int
  <2>1. \A x \in Numbers : x.balance \in Int /\ x.nonce \in Int
    BY SMTT(60) DEF Numbers
  <2> QED BY <2>1, HeldType
<1> HIDE DEF fee
<1>7. b \in Int
  BY <1>4, <1>5, <1>6, SMTT(60)
<1>8. n \in Int
  BY <1>6, SMTT(60)
<1>9. Contract(t) => n \in Nat \ {0}
  <2>1. Contract(t) => HeldIn(s, t).nonce \in Nat \ {0}
    BY DEF Sound
  <2> QED BY <2>1, SMTT(60)
<1> HIDE DEF b, n
<1>10. [balance |-> b, nonce |-> n] \in Numbers
  BY <1>7, <1>8, SMTT(60) DEF Numbers
<1>11. NoAccount \notin Numbers
  BY ParallelAssumption DEF Numbers
<1>12. [balance |-> b, nonce |-> n].nonce = n
  OBVIOUS
<1> QED BY <1>1, <1>9, <1>10, <1>11, <1>12

\* Sound is about the accounts.
LEMMA SoundSame ==
  ASSUME NEW s, Sound(s), NEW z, z.accounts = s.accounts
  PROVE  Sound(z)
BY DEF Sound, HeldIn, getAccountIn

\* A message leaves a sound state.
LEMMA SoundExecuted ==
  ASSUME NEW s, Sound(s), NEW m \in Messages \cup Earlier
  PROVE  Sound(Executed(s, m))
<1> DEFINE e == Executed(s, m)
<1>1. \A t \in Addrs : e.accounts[t] =
        IF t \in Deleted(s, m) THEN NoAccount
        ELSE IF t \in Touched(s, m) THEN After(s, m, t) ELSE s.accounts[t]
  <2>1. e.accounts = AccountsAfter(s, m)
    BY ExecutedIs
  <2> HIDE DEF e
  <2> QED BY <2>1 DEF AccountsAfter
<1> HIDE DEF e
<1>2. ASSUME NEW t \in Addrs PROVE e.accounts[t] \in {NoAccount} \cup Numbers
  <2>1. After(s, m, t) \in Numbers
    BY AfterType
  <2>2. s.accounts[t] \in {NoAccount} \cup Numbers
    BY DEF Sound
  <2> QED BY <1>1, <2>1, <2>2
<1>3. ASSUME NEW t \in Addrs, Contract(t)
      PROVE  HeldIn(e, t).nonce \in Nat \ {0}
  <2>1. Genesis[t] # NoAccount /\ Genesis[t].nonce \in Nat \ {0}
    <3>1. Genesis[t] # NoAccount /\ Genesis[t].nonce > 0
      BY <1>3 DEF Contract
    <3>2. Genesis[t] \in [balance : Nat, nonce : Nat]
      BY ParallelAssumption, <3>1
    <3>3. Genesis[t].nonce \in Nat
      BY <3>2, SMTT(60)
    <3> QED BY <3>1, <3>3, SMTT(60)
  <2>2. CASE e.accounts[t] = NoAccount
    BY <2>1, <2>2 DEF HeldIn, getAccountIn
  <2>3. CASE e.accounts[t] # NoAccount /\ t \in Touched(s, m)
    <3>1. HeldIn(e, t) = After(s, m, t)
      BY <1>1, <2>3 DEF HeldIn, getAccountIn
    <3> QED BY <1>3, <3>1, AfterType
  <2>4. CASE e.accounts[t] # NoAccount /\ t \notin Touched(s, m)
    <3>1. HeldIn(e, t) = HeldIn(s, t)
      BY <1>1, <2>4 DEF HeldIn, getAccountIn
    <3> QED BY <1>3, <3>1 DEF Sound
  <2> QED BY <2>2, <2>3, <2>4
<1>4. Sound(e)
  BY <1>2, <1>3 DEF Sound
<1> QED BY <1>4 DEF e

\* The account of a slot that is written is touched and stays.
LEMMA OwnerStays ==
  ASSUME NEW m \in Messages, NEW s, Sound(s),
         NEW k \in SlotsWritten(s, m)
  PROVE  /\ k \in Slots /\ Owner[k] \in Addrs
         /\ Owner[k] \in Touched(s, m)
         /\ AccountsAfter(s, m)[Owner[k]] # NoAccount
<1>1. m.kind = "call" /\ k = SlotOf[m.to] /\ Stored(s, m) # GetStateIn(s, SlotOf[m.to])
  BY DEF SlotsWritten
<1>2. Runs(s, m, {"bump", "revert"}) \/ Runs(s, m, {"peek"})
  BY <1>1 DEF Stored
<1>3. Enters(s, m) /\ m.op # "none"
  <2>1. Enters(s, m) /\ m.op \in {"bump", "revert", "peek"}
    BY <1>2 DEF Runs
  <2> QED BY <2>1
<1>4. Owner[k] = m.to /\ Contract(m.to)
  BY ParallelAssumption, <1>1, <1>3 DEF Contract
<1>5. m.to \in Addrs /\ SlotOf[m.to] \in Slots
  BY MessageTypes
<1>6. m.to \in Touched(s, m)
  BY <1>1, <1>3 DEF Touched, Target
<1>7. After(s, m, m.to) # NoAccount /\ After(s, m, m.to).nonce \in Nat \ {0}
  BY <1>4, <1>5, AfterType
<1>8. m.to \notin Deleted(s, m)
  <2>1. NewAccount.nonce = 0
    BY DEF NewAccount
  <2>2. After(s, m, m.to) # NewAccount
    BY <1>7, <2>1
  <2> QED BY <1>1, <2>2 DEF Deleted, Destroyed
<1>9. AccountsAfter(s, m)[m.to] = After(s, m, m.to)
  BY <1>5, <1>6, <1>8 DEF AccountsAfter
<1> QED BY <1>1, <1>4, <1>5, <1>6, <1>7, <1>9

\* What a speculative run that is laid over a state leaves.
OverAccounts(l, s, m) ==
  [t \in Addrs |-> IF t \in Touched(s, m) THEN AccountsAfter(s, m)[t] ELSE l.accounts[t]]

OverStorage(l, s, m) ==
  [k \in Slots |-> IF k \notin SlotsWritten(s, m) THEN l.storage[k] ELSE WrittenTo(s, m, k)]

\* Nothing is zeroed or loaded beyond it: the overlay writes what the run wrote.
LEMMA OverlayIs ==
  ASSUME NEW m \in Messages, NEW s, Sound(s),
         s.accountDirty = {}, s.storageDirty = {}, NEW l
  PROVE  /\ ApplyOverlay(l, Executed(s, m)).accounts = OverAccounts(l, s, m)
         /\ ApplyOverlay(l, Executed(s, m)).accountDirty = l.accountDirty \cup Touched(s, m)
         /\ ApplyOverlay(l, Executed(s, m)).storage = OverStorage(l, s, m)
         /\ ApplyOverlay(l, Executed(s, m)).storageDirty =
              l.storageDirty \cup SlotsWritten(s, m)
<1> DEFINE src == Executed(s, m)
           gone == {t \in src.accountDirty : src.accounts[t] = NoAccount}
           merged == [t \in Addrs |-> IF t \in src.accountDirty THEN src.accounts[t] ELSE l.accounts[t]]
           loaded == {Owner[k] : k \in {j \in src.storageDirty :
                        src.accounts[Owner[j]] # NoAccount /\ merged[Owner[j]] = NoAccount}}
           acc == [t \in Addrs |-> IF t \in loaded THEN src.accounts[t] ELSE merged[t]]
           sto == [k \in Slots |-> IF k \notin src.storageDirty THEN l.storage[k]
                                   ELSE IF Owner[k] \in gone THEN 0 ELSE src.storage[k]]
<1>1. /\ src.accounts = AccountsAfter(s, m) /\ src.accountDirty = Touched(s, m)
      /\ src.storage = StorageAfter(s, m) /\ src.storageDirty = SlotsWritten(s, m)
  <2>1. src.accounts = AccountsAfter(s, m) /\ src.storage = StorageAfter(s, m)
    BY ExecutedIs
  <2>2. src.accountDirty = s.accountDirty \cup Touched(s, m)
    BY ExecutedIs
  <2>3. src.storageDirty = s.storageDirty \cup SlotsWritten(s, m)
    BY ExecutedIs
  <2> HIDE DEF src
  <2> QED BY <2>1, <2>2, <2>3
<1>2. ApplyOverlay(l, src) =
        [accounts |-> acc, accountDirty |-> l.accountDirty \cup src.accountDirty \cup loaded,
         storage |-> sto, storageDirty |-> l.storageDirty \cup src.storageDirty,
         reads |-> l.reads, writes |-> l.writes]
  BY DEF ApplyOverlay
<1> HIDE DEF src
<1>a. ASSUME NEW j \in src.storageDirty
      PROVE  /\ Owner[j] \in Addrs /\ Owner[j] \in src.accountDirty
             /\ src.accounts[Owner[j]] # NoAccount
  <2>1. j \in SlotsWritten(s, m)
    BY <1>1
  <2>2. /\ Owner[j] \in Addrs /\ Owner[j] \in Touched(s, m)
        /\ AccountsAfter(s, m)[Owner[j]] # NoAccount
    BY <2>1, OwnerStays
  <2> QED BY <1>1, <2>2
<1>3. loaded = {}
  <2>1. \A j \in src.storageDirty : merged[Owner[j]] = src.accounts[Owner[j]]
    BY <1>a
  <2> HIDE DEF merged
  <2>2. {j \in src.storageDirty :
           src.accounts[Owner[j]] # NoAccount /\ merged[Owner[j]] = NoAccount} = {}
    BY <1>a, <2>1
  <2> QED BY <2>2
<1>4. \A k \in src.storageDirty : Owner[k] \notin gone
  BY <1>a
<1> HIDE DEF gone, loaded
<1>5. acc = OverAccounts(l, s, m)
  BY <1>1, <1>3 DEF OverAccounts
<1>6. sto = OverStorage(l, s, m)
  <2>1. \A k \in Slots : k \in src.storageDirty => src.storage[k] = WrittenTo(s, m, k)
    BY <1>1 DEF StorageAfter
  <2> QED BY <1>1, <1>4, <2>1 DEF OverStorage
<1> HIDE DEF acc, sto, merged
<1>7. /\ ApplyOverlay(l, src).accounts = acc
      /\ ApplyOverlay(l, src).accountDirty = l.accountDirty \cup src.accountDirty \cup loaded
      /\ ApplyOverlay(l, src).storage = sto
      /\ ApplyOverlay(l, src).storageDirty = l.storageDirty \cup src.storageDirty
  BY <1>2, SMTT(60)
<1>8. l.accountDirty \cup src.accountDirty \cup loaded = l.accountDirty \cup Touched(s, m)
  BY <1>1, <1>3
<1> QED BY <1>1, <1>5, <1>6, <1>7, <1>8 DEF src

\* The same caches and dirty sets.
SameDB(s, z) ==
  /\ s.accounts = z.accounts /\ s.accountDirty = z.accountDirty
  /\ s.storage = z.storage /\ s.storageDirty = z.storageDirty

\* Laying a run over a state is running it there, when it has the same effect.
LEMMA OverlayRuns ==
  ASSUME NEW m \in Messages, NEW s, Sound(s),
         s.accountDirty = {}, s.storageDirty = {}, NEW l, NEW z, SameDB(l, z), Alike(s, z, m)
  PROVE  SameDB(ApplyOverlay(l, Executed(s, m)), Executed(z, m))
<1>1. /\ Touched(s, m) = Touched(z, m) /\ Deleted(s, m) = Deleted(z, m)
      /\ SlotsWritten(s, m) = SlotsWritten(z, m)
      /\ \A t \in Touched(s, m) : After(s, m, t) = After(z, m, t)
      /\ \A k \in SlotsWritten(s, m) : WrittenTo(s, m, k) = WrittenTo(z, m, k)
  BY DEF Alike
<1>2. /\ l.accounts = z.accounts /\ l.accountDirty = z.accountDirty
      /\ l.storage = z.storage /\ l.storageDirty = z.storageDirty
  BY DEF SameDB
<1>3. Deleted(z, m) \subseteq Touched(z, m)
  BY DeletedTouched
<1>4. OverAccounts(l, s, m) = AccountsAfter(z, m)
  <2>1. ASSUME NEW t \in Addrs
        PROVE  (IF t \in Touched(s, m) THEN AccountsAfter(s, m)[t] ELSE l.accounts[t]) =
               (IF t \in Deleted(z, m) THEN NoAccount
                ELSE IF t \in Touched(z, m) THEN After(z, m, t) ELSE z.accounts[t])
    <3>1. CASE t \in Touched(s, m)
      BY <1>1, <3>1 DEF AccountsAfter
    <3>2. CASE t \notin Touched(s, m)
      BY <1>1, <1>2, <1>3, <3>2
    <3> QED BY <3>1, <3>2
  <2> QED BY <2>1 DEF OverAccounts, AccountsAfter
<1>5. OverStorage(l, s, m) = StorageAfter(z, m)
  <2>1. \A k \in Slots :
          (IF k \notin SlotsWritten(s, m) THEN l.storage[k] ELSE WrittenTo(s, m, k)) =
          (IF k \notin SlotsWritten(z, m) THEN z.storage[k] ELSE WrittenTo(z, m, k))
    BY <1>1, <1>2
  <2> QED BY <2>1 DEF OverStorage, StorageAfter
<1> DEFINE o == ApplyOverlay(l, Executed(s, m))
<1>6. /\ o.accounts = AccountsAfter(z, m) /\ o.accountDirty = z.accountDirty \cup Touched(z, m)
      /\ o.storage = StorageAfter(z, m)
      /\ o.storageDirty = z.storageDirty \cup SlotsWritten(z, m)
  <2>1. /\ o.accounts = OverAccounts(l, s, m)
        /\ o.accountDirty = l.accountDirty \cup Touched(s, m)
        /\ o.storage = OverStorage(l, s, m)
        /\ o.storageDirty = l.storageDirty \cup SlotsWritten(s, m)
    BY OverlayIs
  <2> HIDE DEF o
  <2> QED BY <1>1, <1>2, <1>4, <1>5, <2>1
<1> DEFINE e == Executed(z, m)
<1>7. e.accounts = AccountsAfter(z, m) /\ e.storage = StorageAfter(z, m)
  BY ExecutedIs
<1>8. e.accountDirty = z.accountDirty \cup Touched(z, m)
  BY ExecutedIs
<1>9. e.storageDirty = z.storageDirty \cup SlotsWritten(z, m)
  BY ExecutedIs
<1> HIDE DEF o, e
<1>10. SameDB(o, e)
  BY <1>6, <1>7, <1>8, <1>9 DEF SameDB
<1> QED BY <1>10 DEF o, e

\* Running a message twice, on the same caches.
LEMMA RunsSame ==
  ASSUME NEW m \in Messages, NEW s, NEW z, SameDB(s, z), Alike(s, z, m)
  PROVE  SameDB(Executed(s, m), Executed(z, m))
<1> DEFINE d == Executed(s, m)
           e == Executed(z, m)
<1>1. /\ Touched(s, m) = Touched(z, m) /\ Deleted(s, m) = Deleted(z, m)
      /\ SlotsWritten(s, m) = SlotsWritten(z, m)
      /\ \A t \in Touched(s, m) : After(s, m, t) = After(z, m, t)
      /\ \A k \in SlotsWritten(s, m) : WrittenTo(s, m, k) = WrittenTo(z, m, k)
  BY DEF Alike
<1>2. /\ s.accounts = z.accounts /\ s.accountDirty = z.accountDirty
      /\ s.storage = z.storage /\ s.storageDirty = z.storageDirty
  BY DEF SameDB
<1>3. AccountsAfter(s, m) = AccountsAfter(z, m)
  BY <1>1, <1>2 DEF AccountsAfter
<1>4. StorageAfter(s, m) = StorageAfter(z, m)
  BY <1>1, <1>2 DEF StorageAfter
<1>5. /\ d.accounts = AccountsAfter(s, m) /\ d.storage = StorageAfter(s, m)
      /\ e.accounts = AccountsAfter(z, m) /\ e.storage = StorageAfter(z, m)
  BY ExecutedIs
<1>6. /\ d.accountDirty = s.accountDirty \cup Touched(s, m)
      /\ e.accountDirty = z.accountDirty \cup Touched(z, m)
  BY ExecutedIs
<1>7. /\ d.storageDirty = s.storageDirty \cup SlotsWritten(s, m)
      /\ e.storageDirty = z.storageDirty \cup SlotsWritten(z, m)
  BY ExecutedIs
<1> HIDE DEF d, e
<1>8. SameDB(d, e)
  BY <1>1, <1>2, <1>3, <1>4, <1>5, <1>6, <1>7 DEF SameDB
<1> QED BY <1>8 DEF d, e

----------------------------------------------------------------------------
(* The executor's invariant.                                               *)

\* The block began with a state that every speculative run began with too, and
\* that the live one still agrees with wherever nothing has been written since.
Forked(parent) ==
  /\ Sound(parent)
  /\ \A i \in Idx : specs[i] # NotRun => specs[i] = ApplyMessage(Copy(parent), msgs[i])
  /\ \A t \in Addrs : t \notin earlierWrites => live.accounts[t] = parent.accounts[t]
  /\ \A k \in Slots : k \notin earlierWrites => live.storage[k] = parent.storage[k]
  /\ (\E i \in Idx : specs[i] = NotRun) => live = parent

ParallelInv ==
  /\ msgs \in [Idx -> Messages]
  /\ specs = [i \in Idx |-> specs[i]]
  /\ \A i \in running : i \in Idx /\ specs[i] = NotRun
  /\ SameDB(live, serial)
  /\ results = expected
  /\ Sound(live)
  /\ \E parent : Forked(parent)

\* A message that is applied leaves a sound state, with or without an error.
LEMMA SoundApplied ==
  ASSUME NEW s, Sound(s), NEW m \in Messages \cup Earlier
  PROVE  Sound(ApplyMessage(s, m).state)
<1>1. CASE CanPay(s, m)
  <2>1. ApplyMessage(s, m).state = Executed(s, m)
    BY <1>1 DEF ApplyMessage
  <2>2. Sound(Executed(s, m))
    BY SoundExecuted
  <2> QED BY <2>1, <2>2
<1>2. CASE ~ CanPay(s, m)
  <2>1. ApplyMessage(s, m).state = NoteRead(s, m.from)
    BY <1>2 DEF ApplyMessage
  <2>2. NoteRead(s, m.from).accounts = s.accounts
    BY DEF NoteRead
  <2> QED BY <2>1, <2>2, SoundSame
<1> QED BY <1>1, <1>2

\* A block begins with the live state for a parent.
LEMMA ParallelStart ==
  ASSUME ParallelInit
  PROVE  ParallelInv
<1>1. Sound(NewDB)
  <2>1. \A t \in Addrs : NewDB.accounts[t] = NoAccount
    BY DEF NewDB
  <2>2. ASSUME NEW t \in Addrs, Contract(t)
        PROVE  HeldIn(NewDB, t).nonce \in Nat \ {0}
    <3>1. Genesis[t] # NoAccount /\ Genesis[t].nonce > 0
      BY <2>2 DEF Contract
    <3>2. Genesis[t] \in [balance : Nat, nonce : Nat]
      BY ParallelAssumption, <3>1
    <3>3. Genesis[t].nonce \in Nat
      BY <3>2, SMTT(60)
    <3>4. HeldIn(NewDB, t) = Genesis[t]
      BY <2>1, <3>1 DEF HeldIn, getAccountIn
    <3>5. Genesis[t].nonce \in Nat \ {0}
      BY <3>1, <3>3, SMTT(60)
    <3> QED BY <3>4, <3>5
  <2> QED BY <2>1, <2>2 DEF Sound
<1>2. ASSUME NEW m \in Earlier
      PROVE  Sound(StartAccessTracking(ApplyMessage(NewDB, m).state))
  <2> DEFINE s == ApplyMessage(NewDB, m).state
  <2>1. Sound(s)
    BY <1>1, SoundApplied
  <2> HIDE DEF s
  <2>2. StartAccessTracking(s).accounts = s.accounts
    BY DEF StartAccessTracking
  <2>3. Sound(StartAccessTracking(s))
    BY <2>1, <2>2, SoundSame
  <2> QED BY <2>3 DEF s
<1>3. Sound(live)
  <2>1. \/ live = NewDB
        \/ \E m \in Earlier : live = StartAccessTracking(ApplyMessage(NewDB, m).state)
    BY DEF ParallelInit
  <2>2. CASE live = NewDB
    BY <1>1, <2>2
  <2>3. ASSUME NEW m \in Earlier, live = StartAccessTracking(ApplyMessage(NewDB, m).state)
        PROVE  Sound(live)
    <3>1. Sound(StartAccessTracking(ApplyMessage(NewDB, m).state))
      BY <1>2
    <3> QED BY <2>3, <3>1
  <2> QED BY <2>1, <2>2, <2>3
<1>4. /\ msgs \in [Idx -> Messages] /\ specs = [i \in Idx |-> NotRun] /\ running = {}
      /\ serial = live /\ results = expected
  BY DEF ParallelInit
<1>5. \A i \in Idx : specs[i] = NotRun
  BY <1>4
<1>6. Forked(live)
  BY <1>3, <1>5 DEF Forked
<1> QED BY <1>3, <1>4, <1>5, <1>6 DEF ParallelInv, SameDB

\* A goroutine gets its place.
LEMMA AcquireInv ==
  ASSUME ParallelInv, NEW i \in Idx, Acquire(i)
  PROVE  ParallelInv'
<1>1. /\ specs[i] = NotRun /\ running' = running \cup {i}
      /\ msgs' = msgs /\ live' = live /\ specs' = specs /\ earlierWrites' = earlierWrites
      /\ results' = results /\ serial' = serial /\ expected' = expected
  BY DEF Acquire
<1>2. PICK parent : Forked(parent)
  BY DEF ParallelInv
<1>3. Forked(parent)'
  BY <1>1, <1>2 DEF Forked
<1> QED BY <1>1, <1>3 DEF ParallelInv, SameDB

\* A message runs on its copy.
LEMMA SpeculateInv ==
  ASSUME ParallelInv, NEW i \in Idx, Speculate(i)
  PROVE  ParallelInv'
<1>1. /\ i \in running /\ running' = running \ {i}
      /\ specs' = [specs EXCEPT ![i] = ApplyMessage(Copy(live), msgs[i])]
      /\ msgs' = msgs /\ live' = live /\ earlierWrites' = earlierWrites
      /\ results' = results /\ serial' = serial /\ expected' = expected
  BY DEF Speculate
<1> DEFINE a == ApplyMessage(Copy(live), msgs[i])
<1>2. PICK parent : Forked(parent)
  BY DEF ParallelInv
<1>3. specs[i] = NotRun /\ specs = [j \in Idx |-> specs[j]]
  BY <1>1 DEF ParallelInv
<1>4. live = parent
  BY <1>2, <1>3 DEF Forked
<1> HIDE DEF a
<1>5. \A j \in Idx : specs'[j] = IF j = i THEN a ELSE specs[j]
  BY <1>1, <1>3 DEF a
<1>6. specs' = [j \in Idx |-> specs'[j]]
  BY <1>1, <1>3
<1>7. \A j \in Idx : specs'[j] # NotRun => specs'[j] = ApplyMessage(Copy(parent), msgs[j])
  <2>1. a = ApplyMessage(Copy(parent), msgs[i])
    BY <1>4 DEF a
  <2>2. \A j \in Idx : specs[j] # NotRun => specs[j] = ApplyMessage(Copy(parent), msgs[j])
    BY <1>2 DEF Forked
  <2> QED BY <1>5, <2>1, <2>2
<1>8. Forked(parent)'
  BY <1>1, <1>2, <1>4, <1>7 DEF Forked
<1>9. \A j \in running' : j \in Idx /\ specs'[j] = NotRun
  BY <1>1, <1>5 DEF ParallelInv
<1> QED BY <1>1, <1>6, <1>8, <1>9 DEF ParallelInv, SameDB

\* The next message is validated: accepted or run again, the live state and the
\* sequential one take the same step.
LEMMA ValidateInv ==
  ASSUME ReceiversStand, ParallelInv, Validate
  PROVE  ParallelInv'
<1> DEFINE m == msgs[next]
           base == StartAccessTracking(live)
           accept == ~ specs[next].err /\ ~ ConflictsWith(specs[next].state, earlierWrites)
           run == IF accept THEN specs[next] ELSE ApplyMessage(base, m)
           seq == ApplyMessage(serial, m)
<1>1. /\ next \in Idx /\ \A i \in Idx : specs[i] # NotRun
      /\ live' = IF accept THEN ApplyOverlay(live, run.state) ELSE run.state
      /\ IF run.err THEN results' = results /\ earlierWrites' = earlierWrites
         ELSE /\ results' = Append(results, ResultOf(run))
              /\ earlierWrites' = earlierWrites \cup run.state.writes
      /\ serial' = seq.state
      /\ expected' = IF seq.err THEN expected ELSE Append(expected, ResultOf(seq))
      /\ msgs' = msgs /\ running' = running /\ specs' = specs
  BY DEF Validate
<1>2. PICK parent : Forked(parent)
  BY DEF ParallelInv
<1> DEFINE fork == Copy(parent)
<1>3. m \in Messages /\ SameDB(live, serial) /\ Sound(live) /\ results = expected
  BY <1>1 DEF ParallelInv
<1>4. /\ fork.accounts = parent.accounts /\ fork.storage = parent.storage
      /\ fork.accountDirty = {} /\ fork.storageDirty = {} /\ fork.reads = {} /\ fork.writes = {}
  BY SMTT(60) DEF Copy
<1>5. /\ base.accounts = live.accounts /\ base.storage = live.storage
      /\ base.accountDirty = live.accountDirty /\ base.storageDirty = live.storageDirty
      /\ base.reads = {} /\ base.writes = {}
  BY SMTT(60) DEF StartAccessTracking
<1>6. specs[next] = ApplyMessage(fork, m)
  BY <1>1, <1>2 DEF Forked
<1> HIDE DEF fork, base, m
<1>7. Sound(fork) /\ Sound(base) /\ Sound(serial)
  <2>1. Sound(parent)
    BY <1>2 DEF Forked
  <2>2. serial.accounts = live.accounts
    BY <1>3 DEF SameDB
  <2> QED BY <1>3, <1>4, <1>5, <2>1, <2>2, SoundSame
\* What a run that can pay is.
<1>8. \A s : CanPay(s, m) =>
        /\ ApplyMessage(s, m).state = Executed(s, m) /\ ApplyMessage(s, m).err = FALSE
        /\ ResultOf(ApplyMessage(s, m)) =
             [failed |-> Failed(s, m), used |-> UsedGas(s, m)]
  BY DEF ApplyMessage, ResultOf
<1>9. \A s : ~ CanPay(s, m) =>
        /\ ApplyMessage(s, m).state = NoteRead(s, m.from) /\ ApplyMessage(s, m).err = TRUE
  BY DEF ApplyMessage
\* Running again.
<1>10. SameDB(base, serial) /\ Alike(base, serial, m)
  <2>1. SameDB(base, serial)
    BY <1>3, <1>5 DEF SameDB
  <2>2. Agree(base, serial, KeysOf(base, m))
    BY <2>1 DEF Agree, SameDB
  <2> QED BY <1>3, <1>7, <2>1, <2>2, Depends
<1>11. CASE accept
  <2>1. CanPay(fork, m)
    <3>1. ~ specs[next].err
      BY <1>11
    <3> QED BY <1>6, <1>9, <3>1
  <2>2. run = ApplyMessage(fork, m) /\ run.state = Executed(fork, m) /\ run.err = FALSE
    BY <1>6, <1>8, <1>11, <2>1
  <2> DEFINE e == Executed(fork, m)
             writes == Touched(fork, m) \cup SlotsWritten(fork, m)
  <2>3. /\ e.reads = (fork.reads \cup Reads(fork, m)) \ (fork.writes \cup writes)
        /\ e.writes = fork.writes \cup writes
    BY ExecutedIs
  <2>4. (e.reads \cup e.writes) \cap earlierWrites = {}
    BY <1>11, <1>6, <2>1, <1>8 DEF ConflictsWith
  <2> HIDE DEF e
  <2>5. \A key \in KeysOf(fork, m) : key \notin earlierWrites
    BY <1>4, <2>3, <2>4 DEF KeysOf
  <2>6. Agree(fork, serial, KeysOf(fork, m))
    <3>1. /\ \A t \in Addrs : t \notin earlierWrites => live.accounts[t] = parent.accounts[t]
          /\ \A k \in Slots : k \notin earlierWrites => live.storage[k] = parent.storage[k]
      BY <1>2 DEF Forked
    <3>2. live.accounts = serial.accounts /\ live.storage = serial.storage
      BY <1>3 DEF SameDB
    <3> QED BY <1>4, <2>5, <3>1, <3>2 DEF Agree
  <2>7. Alike(fork, serial, m)
    BY <1>3, <1>7, <2>6, Depends
  <2>8. SameDB(ApplyOverlay(live, Executed(fork, m)), Executed(serial, m))
    BY <1>3, <1>4, <1>7, <2>7, OverlayRuns
  <2>9. CanPay(serial, m) /\ ResultOf(ApplyMessage(fork, m)) = ResultOf(ApplyMessage(serial, m))
    <3>1. /\ CanPay(serial, m) /\ UsedGas(fork, m) = UsedGas(serial, m)
          /\ Failed(fork, m) <=> Failed(serial, m)
      BY <2>1, <2>7 DEF Alike
    <3>2. Failed(fork, m) = Failed(serial, m)
      BY <3>1 DEF Failed, Runs
    <3> QED BY <1>8, <2>1, <3>1, <3>2
  <2>10. live' = ApplyOverlay(live, Executed(fork, m)) /\ serial' = Executed(serial, m)
    BY <1>1, <1>8, <1>11, <2>2, <2>9
  <2>11. SameDB(live', serial')
    BY <2>8, <2>10
  <2>12. results' = expected'
    BY <1>1, <1>3, <1>8, <2>2, <2>9
  <2>13. Sound(live')
    <3>1. Sound(Executed(serial, m))
      BY <1>3, <1>7, SoundExecuted
    <3> QED BY <2>10, <2>11, <3>1, SoundSame DEF SameDB
  <2>14. earlierWrites' = earlierWrites \cup writes
    BY <1>1, <1>4, <2>2, <2>3 DEF e
  <2>15. live'.accounts = OverAccounts(live, fork, m) /\ live'.storage = OverStorage(live, fork, m)
    <3> DEFINE o == ApplyOverlay(live, Executed(fork, m))
    <3>0. m \in Messages /\ Sound(fork) /\ fork.accountDirty = {} /\ fork.storageDirty = {}
      BY <1>3, <1>4, <1>7
    <3>1. o.accounts = OverAccounts(live, fork, m)
      BY <3>0, OverlayIs
    <3>2. o.storage = OverStorage(live, fork, m)
      BY <3>0, OverlayIs
    <3> QED BY <2>10, <3>1, <3>2
  <2>16. Forked(parent)'
    <3>1. \A t \in Addrs : t \notin earlierWrites' => live'.accounts[t] = parent.accounts[t]
      <4>1. \A t \in Addrs : t \notin writes => live'.accounts[t] = live.accounts[t]
        BY <2>15 DEF OverAccounts
      <4> QED BY <1>2, <2>14, <4>1 DEF Forked
    <3>2. \A k \in Slots : k \notin earlierWrites' => live'.storage[k] = parent.storage[k]
      <4>1. \A k \in Slots : k \notin writes => live'.storage[k] = live.storage[k]
        BY <2>15 DEF OverStorage
      <4> QED BY <1>2, <2>14, <4>1 DEF Forked
    <3> QED BY <1>1, <1>2, <3>1, <3>2 DEF Forked
  <2> QED BY <1>1, <2>11, <2>12, <2>13, <2>16 DEF ParallelInv
<1>12. CASE ~ accept /\ CanPay(base, m)
  <2>1. /\ run = ApplyMessage(base, m) /\ run.state = Executed(base, m) /\ run.err = FALSE
        /\ CanPay(serial, m)
    BY <1>8, <1>10, <1>12 DEF Alike
  <2>2. live' = Executed(base, m) /\ serial' = Executed(serial, m)
    BY <1>1, <1>8, <1>12, <2>1
  <2>3. SameDB(live', serial')
    BY <1>3, <1>10, <2>2, RunsSame
  <2>4. ResultOf(ApplyMessage(base, m)) = ResultOf(ApplyMessage(serial, m))
    <3>1. UsedGas(base, m) = UsedGas(serial, m) /\ (Failed(base, m) <=> Failed(serial, m))
      BY <1>10 DEF Alike
    <3>2. Failed(base, m) = Failed(serial, m)
      BY <3>1 DEF Failed, Runs
    <3> QED BY <1>8, <1>12, <2>1, <3>1, <3>2
  <2>5. results' = expected'
    BY <1>1, <1>3, <1>8, <2>1, <2>4
  <2>6. Sound(live')
    BY <1>3, <1>7, <2>2, SoundExecuted
  <2> DEFINE e == Executed(base, m)
             writes == Touched(base, m) \cup SlotsWritten(base, m)
  <2>7. e.accounts = AccountsAfter(base, m) /\ e.storage = StorageAfter(base, m)
    BY ExecutedIs
  <2>8. e.writes = base.writes \cup writes
    BY ExecutedIs
  <2>9. earlierWrites' = earlierWrites \cup writes
    BY <1>1, <1>5, <2>1, <2>8
  <2>10. Forked(parent)'
    <3>1. \A t \in Addrs : t \notin earlierWrites' => live'.accounts[t] = parent.accounts[t]
      <4>1. \A t \in Addrs : t \notin writes => live'.accounts[t] = live.accounts[t]
        <5>1. Deleted(base, m) \subseteq Touched(base, m)
          BY DeletedTouched
        <5> QED BY <1>5, <2>2, <2>7, <5>1 DEF AccountsAfter
      <4> QED BY <1>2, <2>9, <4>1 DEF Forked
    <3>2. \A k \in Slots : k \notin earlierWrites' => live'.storage[k] = parent.storage[k]
      <4>1. \A k \in Slots : k \notin writes => live'.storage[k] = live.storage[k]
        BY <1>5, <2>2, <2>7 DEF StorageAfter
      <4> QED BY <1>2, <2>9, <4>1 DEF Forked
    <3> QED BY <1>1, <1>2, <3>1, <3>2 DEF Forked
  <2> QED BY <1>1, <2>3, <2>5, <2>6, <2>10 DEF ParallelInv
<1>13. CASE ~ accept /\ ~ CanPay(base, m)
  <2>1. ~ CanPay(serial, m)
    BY <1>10, <1>13 DEF Alike
  <2>2. /\ live' = NoteRead(base, m.from) /\ serial' = NoteRead(serial, m.from)
        /\ results' = results /\ earlierWrites' = earlierWrites /\ expected' = expected
    BY <1>1, <1>9, <1>13, <2>1
  <2>3. \A s : LET d == NoteRead(s, m.from)
               IN  /\ d.accounts = s.accounts /\ d.storage = s.storage
                   /\ d.accountDirty = s.accountDirty /\ d.storageDirty = s.storageDirty
    BY DEF NoteRead
  <2>4. SameDB(live', serial') /\ live'.accounts = live.accounts /\ live'.storage = live.storage
    BY <1>5, <1>10, <2>2, <2>3 DEF SameDB
  <2>5. Sound(live')
    BY <1>3, <2>4, SoundSame
  <2>6. Forked(parent)'
    BY <1>1, <1>2, <2>2, <2>4 DEF Forked
  <2> QED BY <1>1, <1>3, <2>2, <2>4, <2>5, <2>6 DEF ParallelInv
<1> QED BY <1>11, <1>12, <1>13

\* "Final state is equivalent to sequential ApplyMessage in index order"
\* (core/vm/parallel.go): for any accounts, contracts, blocks, number of workers
\* and order in which the speculative runs end, the state after each validated
\* message reads and flushes as the sequential one, with the same results.
THEOREM ParallelIsSerial ==
  ASSUME ReceiversStand
  PROVE  ParallelSpec => []SerialEquivalent
<1>1. ParallelInit => ParallelInv
  BY ParallelStart
<1>2. ASSUME ParallelInv, [ParallelNext]_parallelVars PROVE ParallelInv'
  <2>1. ASSUME NEW i \in Idx, Acquire(i) \/ Speculate(i) PROVE ParallelInv'
    BY <1>2, <2>1, AcquireInv, SpeculateInv
  <2>2. CASE Validate
    BY <1>2, <2>2, ValidateInv
  <2>3. CASE UNCHANGED parallelVars
    <3>1. /\ msgs' = msgs /\ live' = live /\ running' = running /\ specs' = specs
          /\ earlierWrites' = earlierWrites /\ results' = results /\ serial' = serial
          /\ expected' = expected
      BY <2>3 DEF parallelVars
    <3>2. PICK parent : Forked(parent)
      BY <1>2 DEF ParallelInv
    <3>3. Forked(parent)'
      BY <3>1, <3>2 DEF Forked
    <3> QED BY <1>2, <3>1, <3>3 DEF ParallelInv
  <2> QED BY <1>2, <2>1, <2>2, <2>3 DEF ParallelNext
<1>3. ParallelInv => SerialEquivalent
  BY DEF ParallelInv, SameDB, SerialEquivalent, Reading, FlushDirtyTo, getAccountIn,
     GetStateIn
<1> QED BY <1>1, <1>2, <1>3, PTL DEF ParallelSpec
=============================================================================
