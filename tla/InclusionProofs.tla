-------------------------- MODULE InclusionProofs ---------------------------
(***************************************************************************)
(* The transaction pool stays in order for any number of senders and any   *)
(* limits, and admission never loses a transaction without putting the     *)
(* newcomer in its place; the state is the head's, a proposal on it        *)
(* validates, and nothing submitted is lost, for any chain.                *)
(***************************************************************************)
EXTENDS Inclusion, SumTheorems

\* A leaf is for Zenon unless it names another prover.
USE ZenonT(90)

\* The nonces of which a sender has a transaction in bySender.
Used(b, s) == {n \in Nonces : b[s][n] # NoTx}

\* The parts of PoolInOrder, of the two indexes.
Linked(h, b) ==
  /\ h \subseteq Txs
  /\ b \in [Senders -> [Nonces -> Txs \cup {NoTx}]]
  /\ \A t \in h : b[t.from][t.nonce] = t
  /\ \A s \in Senders, n \in Nonces :
       b[s][n] # NoTx => b[s][n] \in h /\ b[s][n].from = s /\ b[s][n].nonce = n
Bounded(h, b) ==
  /\ IsFiniteSet(h)
  /\ Cardinality(h) <= MaxGlobal
  /\ \A s \in Senders : Cardinality(Used(b, s)) <= MaxPerSender

\* The order of the pool, in its two parts.
LEMMA OrderParts ==
  ASSUME NEW p
  PROVE  PoolInOrder(p) <=> Linked(p.byHash, p.bySender) /\ Bounded(p.byHash, p.bySender)
BY DEF PoolInOrder, Linked, Bounded, SenderCount, Used

\* The nonces in use are a finite set.
LEMMA UsedFinite ==
  ASSUME NEW b, NEW s
  PROVE  IsFiniteSet(Used(b, s)) /\ Cardinality(Used(b, s)) \in Nat
<1>1. Used(b, s) \in SUBSET Nonces
  BY DEF Used
<1>2. IsFiniteSet(Used(b, s))
  BY <1>1, FS_Subset, TxPoolAssumption
<1> QED
  BY <1>2, FS_CardinalityType

\* A new pool is in order.
LEMMA EmptyInOrder == PoolInOrder(EmptyPool)
<1> DEFINE b == [s \in Senders |-> [n \in Nonces |-> NoTx]]
<1>1. Linked({}, b)
  BY DEF Linked
<1>2. \A s \in Senders : Used(b, s) = {}
  BY DEF Used
<1>3. Bounded({}, b)
  BY <1>2, FS_EmptySet, TxPoolAssumption, SMTT(60) DEF Bounded
<1> QED
  BY <1>1, <1>3, OrderParts DEF EmptyPool

\* Taking entries out keeps the pool in order: removeLocked deletes a nonce
\* only together with the transaction that held it.
LEMMA RemoveInOrder ==
  ASSUME NEW p, PoolInOrder(p), NEW hashes
  PROVE  PoolInOrder(RemoveLocked(p, hashes))
<1> DEFINE h == p.byHash
           b == p.bySender
           gone == h \cap hashes
           b2 == [s \in Senders |-> [n \in Nonces |->
                    IF \E t \in gone : t.from = s /\ t.nonce = n
                    THEN NoTx ELSE b[s][n]]]
<1>0. Linked(h, b) /\ Bounded(h, b)
  BY OrderParts
<1>1. RemoveLocked(p, hashes) = [byHash |-> h \ hashes, bySender |-> b2]
  BY DEF RemoveLocked
<1>2. \A s \in Senders, n \in Nonces :
        b2[s][n] = IF \E t \in gone : t.from = s /\ t.nonce = n
                   THEN NoTx ELSE b[s][n]
  OBVIOUS
<1>3. b2 \in [Senders -> [Nonces -> Txs \cup {NoTx}]]
  <2>1. \A s \in Senders, n \in Nonces : b[s][n] \in Txs \cup {NoTx}
    BY <1>0 DEF Linked
  <2> QED
    BY <2>1
<1> HIDE DEF b2
<1>4. Linked(h \ hashes, b2)
  <2>1. \A t \in h \ hashes : b2[t.from][t.nonce] = t
    <3> TAKE t \in h \ hashes
    <3>1. t \in Txs /\ t.from \in Senders /\ t.nonce \in Nonces
      BY <1>0, TxPoolAssumption DEF Linked
    <3>2. ~ \E u \in gone : u.from = t.from /\ u.nonce = t.nonce
      BY <1>0, SMTT(60) DEF Linked
    <3> QED
      BY <3>1, <3>2, <1>2, <1>0, SMTT(60) DEF Linked
  <2>2. ASSUME NEW s \in Senders, NEW n \in Nonces, b2[s][n] # NoTx
        PROVE  b2[s][n] \in h \ hashes /\ b2[s][n].from = s /\ b2[s][n].nonce = n
    <3>1. b2[s][n] = b[s][n] /\ ~ \E t \in gone : t.from = s /\ t.nonce = n
      BY <2>2, <1>2
    <3>2. b[s][n] \in h /\ b[s][n].from = s /\ b[s][n].nonce = n
      BY <3>1, <2>2, <1>0 DEF Linked
    <3> QED
      BY <3>1, <3>2
  <2> QED
    BY <2>1, <2>2, <1>3, <1>0 DEF Linked
<1>5. Bounded(h \ hashes, b2)
  <2>1. IsFiniteSet(h \ hashes) /\ Cardinality(h \ hashes) <= Cardinality(h)
    BY <1>0, FS_Subset DEF Bounded
  <2>2. Cardinality(h) \in Nat /\ Cardinality(h \ hashes) \in Nat
    BY <2>1, <1>0, FS_CardinalityType DEF Bounded
  <2>3. ASSUME NEW s \in Senders
        PROVE  Cardinality(Used(b2, s)) <= MaxPerSender
    <3>1. Used(b2, s) \in SUBSET Used(b, s)
      BY <1>2 DEF Used
    <3>2. Cardinality(Used(b2, s)) <= Cardinality(Used(b, s))
      BY <3>1, UsedFinite, FS_Subset
    <3> QED
      BY <3>2, UsedFinite, <1>0, TxPoolAssumption, SMTT(60) DEF Bounded
  <2> QED
    BY <2>1, <2>2, <2>3, <1>0, TxPoolAssumption, SMTT(60) DEF Bounded
<1> QED
  BY <1>1, <1>4, <1>5, OrderParts, SMTT(60)

\* Putting a transaction into a free slot keeps the pool in order when its
\* sender and the pool are below their limits.
LEMMA InsertInOrder ==
  ASSUME NEW p, PoolInOrder(p), NEW e \in Txs,
         p.bySender[e.from][e.nonce] = NoTx,
         SenderCount(p, e.from) < MaxPerSender,
         Cardinality(p.byHash) < MaxGlobal
  PROVE  PoolInOrder(Insert(p, e))
<1> DEFINE h == p.byHash
           b == p.bySender
           b2 == [b EXCEPT ![e.from][e.nonce] = e]
<1>0. Linked(h, b) /\ Bounded(h, b)
  BY OrderParts
<1>1. e.from \in Senders /\ e.nonce \in Nonces /\ e # NoTx
  BY TxPoolAssumption
<1>2. Insert(p, e) = [byHash |-> h \cup {e}, bySender |-> b2]
  BY DEF Insert
<1>3. b2 \in [Senders -> [Nonces -> Txs \cup {NoTx}]]
  BY <1>0, <1>1 DEF Linked
<1>4. \A s \in Senders, n \in Nonces :
        b2[s][n] = IF s = e.from /\ n = e.nonce THEN e ELSE b[s][n]
  BY <1>0, <1>1, SMTT(60) DEF Linked
<1> HIDE DEF b2
<1>5. Linked(h \cup {e}, b2)
  <2>1. \A t \in h \cup {e} : b2[t.from][t.nonce] = t
    <3> TAKE t \in h \cup {e}
    <3>1. t \in Txs /\ t.from \in Senders /\ t.nonce \in Nonces /\ t # NoTx
      BY <1>0, TxPoolAssumption, SMTT(60) DEF Linked
    <3>2. CASE t = e
      BY <3>2, <1>1, <1>4
    <3>3. CASE t \in h
      <4>1. b[t.from][t.nonce] = t
        BY <3>3, <1>0 DEF Linked
      <4>2. ~(t.from = e.from /\ t.nonce = e.nonce)
        BY <4>1, <3>1
      <4> QED
        BY <4>1, <4>2, <3>1, <1>4
    <3> QED
      BY <3>2, <3>3
  <2>2. ASSUME NEW s \in Senders, NEW n \in Nonces, b2[s][n] # NoTx
        PROVE  b2[s][n] \in h \cup {e} /\ b2[s][n].from = s /\ b2[s][n].nonce = n
    BY <2>2, <1>4, <1>0, SMTT(60) DEF Linked
  <2> QED
    BY <2>1, <2>2, <1>3, <1>0 DEF Linked
<1>6. Bounded(h \cup {e}, b2)
  <2>1. IsFiniteSet(h) /\ Cardinality(h) \in Nat
    BY <1>0, FS_CardinalityType DEF Bounded
  <2>2. IsFiniteSet(h \cup {e}) /\ Cardinality(h \cup {e}) <= MaxGlobal
    <3>1. /\ IsFiniteSet(h \cup {e})
          /\ Cardinality(h \cup {e}) = IF e \in h THEN Cardinality(h) ELSE Cardinality(h) + 1
      BY <2>1, FS_AddElement, ZenonT(40)
    <3> HIDE DEF h
    <3>2. Cardinality(h) < MaxGlobal
      BY DEF h
    <3> QED
      BY <2>1, <3>1, <3>2, TxPoolAssumption, SMTT(60)
  <2>3. ASSUME NEW s \in Senders
        PROVE  Cardinality(Used(b2, s)) <= MaxPerSender
    <3>1. CASE s = e.from
      <4>1. Used(b2, s) = Used(b, s) \cup {e.nonce}
        BY <3>1, <1>1, <1>4 DEF Used
      <4>2. Cardinality(Used(b, s)) < MaxPerSender
        BY <3>1 DEF SenderCount, Used
      <4>3. Cardinality(Used(b2, s)) = IF e.nonce \in Used(b, s)
                                       THEN Cardinality(Used(b, s))
                                       ELSE Cardinality(Used(b, s)) + 1
        BY <4>1, UsedFinite, FS_AddElement, ZenonT(40)
      <4> HIDE DEF b
      <4> QED
        BY <4>2, <4>3, UsedFinite, TxPoolAssumption, SMTT(60)
    <3>2. CASE s # e.from
      <4>1. Used(b2, s) = Used(b, s)
        BY <3>2, <1>4 DEF Used
      <4> QED
        BY <4>1, <1>0 DEF Bounded
    <3> QED
      BY <3>1, <3>2
  <2> QED
    BY <2>2, <2>3 DEF Bounded
<1> QED
  BY <1>2, <1>5, <1>6, OrderParts, SMTT(60)

\* Taking out the entry in a transaction's slot: the slot is free, and when
\* there was an entry, both limits have room.
LEMMA MakeWayInOrder ==
  ASSUME NEW p, PoolInOrder(p), NEW e \in Txs
  PROVE  LET q == MakeWay(p, e)
             old == p.bySender[e.from][e.nonce]
         IN /\ PoolInOrder(q)
            /\ q.bySender[e.from][e.nonce] = NoTx
            /\ old = NoTx => q = p
            /\ old # NoTx => /\ old \in p.byHash
                             /\ old.from = e.from /\ old.nonce = e.nonce
                             /\ q.byHash = p.byHash \ {old}
                             /\ SenderCount(q, e.from) < MaxPerSender
                             /\ Cardinality(q.byHash) < MaxGlobal
<1> DEFINE q == MakeWay(p, e)
           old == p.bySender[e.from][e.nonce]
<1>0. Linked(p.byHash, p.bySender) /\ Bounded(p.byHash, p.bySender)
  BY OrderParts
<1>1. e.from \in Senders /\ e.nonce \in Nonces
  BY TxPoolAssumption
<1>2. CASE old = NoTx
  BY <1>2 DEF MakeWay
<1>3. CASE old # NoTx
  <2>1. old \in p.byHash /\ old.from = e.from /\ old.nonce = e.nonce
    BY <1>0, <1>1, <1>3, SMTT(60) DEF Linked
  <2>2. q = RemoveLocked(p, {old})
    BY <1>3, <2>1 DEF MakeWay
  <2>3. PoolInOrder(q)
    BY <2>2, RemoveInOrder
  <2>4. q.byHash = p.byHash \ {old}
    BY <2>2, SMTT(60) DEF RemoveLocked
  <2>5. \A s \in Senders, n \in Nonces :
          q.bySender[s][n] = IF \E t \in p.byHash \cap {old} : t.from = s /\ t.nonce = n
                             THEN NoTx ELSE p.bySender[s][n]
    BY <2>2, SMTT(60) DEF RemoveLocked
  <2>6. q.bySender[e.from][e.nonce] = NoTx
    BY <2>5, <2>1, <1>1, SMTT(60)
  <2> HIDE DEF q
  <2>7. Used(q.bySender, e.from) = Used(p.bySender, e.from) \ {e.nonce}
    BY <2>5, <2>1, <1>1, SMTT(60) DEF Used
  <2>8. e.nonce \in Used(p.bySender, e.from)
    BY <1>1, <1>3 DEF Used
  <2>9. Cardinality(Used(q.bySender, e.from)) < MaxPerSender
    <3>1. Cardinality(Used(p.bySender, e.from)) <= MaxPerSender
      BY <1>0, <1>1 DEF Bounded
    <3>2. Cardinality(Used(q.bySender, e.from)) = Cardinality(Used(p.bySender, e.from)) - 1
      BY <2>7, <2>8, UsedFinite, FS_RemoveElement, ZenonT(60)
    <3> QED
      BY <3>1, <3>2, UsedFinite, TxPoolAssumption, SMTT(60)
  <2>10. SenderCount(q, e.from) < MaxPerSender
    BY <2>9 DEF SenderCount, Used
  <2>11. Cardinality(q.byHash) < MaxGlobal
    <3>1. IsFiniteSet(p.byHash) /\ Cardinality(p.byHash) <= MaxGlobal
      BY <1>0 DEF Bounded
    <3>2. Cardinality(p.byHash) \in Nat
      BY <3>1, FS_CardinalityType
    <3> HIDE DEF old
    <3>3. Cardinality(p.byHash \ {old}) = IF old \in p.byHash
                                          THEN Cardinality(p.byHash) - 1
                                          ELSE Cardinality(p.byHash)
      BY <3>1, FS_RemoveElement, ZenonT(40)
    <3> QED
      BY <3>1, <3>2, <3>3, <2>1, <2>4, TxPoolAssumption, SMTT(60)
  <2> QED
    BY <1>3, <2>1, <2>3, <2>4, <2>6, <2>10, <2>11 DEF q
<1> QED
  BY <1>2, <1>3

\* Eviction makes room: taking out one entry of a full pool.
LEMMA EvictInOrder ==
  ASSUME NEW p, PoolInOrder(p), NEW w \in p.byHash
  PROVE  LET q == RemoveLocked(p, {w})
         IN /\ PoolInOrder(q)
            /\ q.byHash = p.byHash \ {w}
            /\ Cardinality(q.byHash) < MaxGlobal
            /\ \A s \in Senders, n \in Nonces :
                 p.bySender[s][n] = NoTx => q.bySender[s][n] = NoTx
            /\ \A s \in Senders : SenderCount(q, s) <= SenderCount(p, s)
<1> DEFINE q == RemoveLocked(p, {w})
<1>0. Linked(p.byHash, p.bySender) /\ Bounded(p.byHash, p.bySender)
  BY OrderParts
<1>1. PoolInOrder(q)
  BY RemoveInOrder
<1>2. q.byHash = p.byHash \ {w}
  BY DEF RemoveLocked
<1>3. \A s \in Senders, n \in Nonces :
        q.bySender[s][n] \in {NoTx, p.bySender[s][n]}
  BY DEF RemoveLocked
<1> HIDE DEF q
<1>4. Cardinality(q.byHash) < MaxGlobal
  <2>1. IsFiniteSet(p.byHash) /\ Cardinality(p.byHash) <= MaxGlobal
    BY <1>0 DEF Bounded
  <2>2. Cardinality(p.byHash) \in Nat
    BY <2>1, FS_CardinalityType
  <2>3. Cardinality(p.byHash \ {w}) = IF w \in p.byHash
                                      THEN Cardinality(p.byHash) - 1
                                      ELSE Cardinality(p.byHash)
    BY <2>1, FS_RemoveElement, ZenonT(40)
  <2> QED
    BY <2>1, <2>2, <2>3, <1>2, TxPoolAssumption, SMTT(60)
<1>5. ASSUME NEW s \in Senders
      PROVE  SenderCount(q, s) <= SenderCount(p, s)
  <2>1. Used(q.bySender, s) \in SUBSET Used(p.bySender, s)
    BY <1>3 DEF Used
  <2>2. Cardinality(Used(q.bySender, s)) <= Cardinality(Used(p.bySender, s))
    BY <2>1, UsedFinite, FS_Subset
  <2> QED
    BY <2>2 DEF SenderCount, Used
<1> QED
  BY <1>1, <1>2, <1>3, <1>4, <1>5 DEF q

\* Every pool that Place returns is in order and holds the newcomer; what it
\* evicted is a single, strictly cheaper entry.
LEMMA PlaceInOrder ==
  ASSUME NEW p, PoolInOrder(p), NEW e \in Txs,
         p.bySender[e.from][e.nonce] = NoTx,
         NEW r \in Place(p, e)
  PROVE  /\ PoolInOrder(r)
         /\ e \in r.byHash
         /\ \/ r.byHash = p.byHash \cup {e}
            \/ \E w \in p.byHash : /\ Price(w) < Price(e)
                                   /\ r.byHash = (p.byHash \ {w}) \cup {e}
                                   /\ Cardinality(p.byHash) >= MaxGlobal
<1>0. IsFiniteSet(p.byHash) /\ Cardinality(p.byHash) \in Nat
  BY OrderParts, FS_CardinalityType DEF Bounded
<1>1. e.from \in Senders /\ e.nonce \in Nonces
  BY TxPoolAssumption
<1>2. SenderCount(p, e.from) \in Nat
  BY UsedFinite DEF SenderCount, Used
<1>3. SenderCount(p, e.from) < MaxPerSender
  BY <1>2, TxPoolAssumption, SMTT(60) DEF Place
<1>4. CASE Cardinality(p.byHash) < MaxGlobal
  <2>1. r = Insert(p, e)
    BY <1>2, <1>3, <1>4, TxPoolAssumption DEF Place
  <2>2. PoolInOrder(r)
    BY <2>1, <1>3, <1>4, InsertInOrder
  <2> QED
    BY <2>1, <2>2 DEF Insert
<1>5. CASE ~(Cardinality(p.byHash) < MaxGlobal)
  <2>1. PICK w \in Evictable(p, Price(e)) : r = Insert(RemoveLocked(p, {w}), e)
    BY <1>2, <1>3, <1>5, TxPoolAssumption DEF Place
  <2>2. w \in p.byHash /\ Price(w) < Price(e)
    BY DEF Evictable
  <2> DEFINE q == RemoveLocked(p, {w})
  <2>3. /\ PoolInOrder(q)
        /\ q.byHash = p.byHash \ {w}
        /\ Cardinality(q.byHash) < MaxGlobal
        /\ q.bySender[e.from][e.nonce] = NoTx
        /\ SenderCount(q, e.from) <= SenderCount(p, e.from)
    <3>1. /\ PoolInOrder(q)
          /\ q.byHash = p.byHash \ {w}
          /\ Cardinality(q.byHash) < MaxGlobal
          /\ \A s \in Senders, n \in Nonces :
               p.bySender[s][n] = NoTx => q.bySender[s][n] = NoTx
          /\ \A s \in Senders : SenderCount(q, s) <= SenderCount(p, s)
      BY <2>2, EvictInOrder, ZenonT(40)
    <3> HIDE DEF q
    <3> QED
      BY <3>1, <1>1
  <2>4. SenderCount(q, e.from) \in Nat
    BY UsedFinite DEF SenderCount, Used
  <2> HIDE DEF q
  <2>5. SenderCount(q, e.from) < MaxPerSender
    BY <2>3, <2>4, <1>2, <1>3, TxPoolAssumption, SMTT(60)
  <2>6. r = Insert(q, e)
    BY <2>1 DEF q
  <2>7. PoolInOrder(r)
    BY <2>3, <2>5, <2>6, InsertInOrder
  <2> QED
    BY <2>2, <2>3, <2>6, <2>7, <1>0, <1>5, TxPoolAssumption, SMTT(60) DEF Insert
<1> QED
  BY <1>4, <1>5

\* Pool.add keeps the pool in order.  It leaves the pool as it was or lets the
\* newcomer in, and then takes out at most one entry: the one the newcomer
\* replaces, at the bumped price, or one strictly cheaper.  So the entry that
\* add takes out before it checks its limits is never lost.
THEOREM AddLosesNothing ==
  ASSUME NEW p, PoolInOrder(p), NEW e \in Txs, NEW r \in Add(p, e)
  PROVE  /\ PoolInOrder(r)
         /\ \/ r = p
            \/ /\ e \in r.byHash /\ e \notin p.byHash
               /\ \/ r.byHash = p.byHash \cup {e}
                  \/ \E t \in p.byHash :
                       /\ r.byHash = (p.byHash \ {t}) \cup {e}
                       /\ \/ /\ t.from = e.from /\ t.nonce = e.nonce
                             /\ Price(e) >= MinReplacePrice(t)
                          \/ Price(t) < Price(e)
<1>1. CASE e \in p.byHash \/ ~MayReplace(p, e)
  BY <1>1 DEF Add
<1>2. CASE ~(e \in p.byHash \/ ~MayReplace(p, e))
  <2> DEFINE q == MakeWay(p, e)
             old == p.bySender[e.from][e.nonce]
  <2>1. r \in IF Place(q, e) = {} THEN {q} ELSE Place(q, e)
    BY <1>2 DEF Add
  <2>2. /\ PoolInOrder(q)
        /\ q.bySender[e.from][e.nonce] = NoTx
        /\ old = NoTx => q = p
        /\ old # NoTx => /\ old \in p.byHash
                         /\ old.from = e.from /\ old.nonce = e.nonce
                         /\ q.byHash = p.byHash \ {old}
                         /\ SenderCount(q, e.from) < MaxPerSender
                         /\ Cardinality(q.byHash) < MaxGlobal
    BY MakeWayInOrder, ZenonT(40)
  <2>3. old # NoTx /\ old \in p.byHash => Price(e) >= MinReplacePrice(old)
    BY <1>2 DEF MayReplace
  <2> HIDE DEF q, old
  <2>4. CASE Place(q, e) = {}
    <3>1. r = q
      BY <2>1, <2>4
    <3>2. old = NoTx
      <4> SUFFICES ASSUME old # NoTx PROVE FALSE
        OBVIOUS
      <4>1. SenderCount(q, e.from) < MaxPerSender /\ Cardinality(q.byHash) < MaxGlobal
        BY <2>2
      <4>2. SenderCount(q, e.from) \in Nat
        BY UsedFinite DEF SenderCount, Used
      <4>3. Insert(q, e) \in Place(q, e)
        BY <4>1, <4>2, TxPoolAssumption, SMTT(60) DEF Place
      <4> QED
        BY <4>3, <2>4
    <3> QED
      BY <3>1, <3>2, <2>2
  <2>5. CASE Place(q, e) # {}
    <3>1. r \in Place(q, e)
      BY <2>1, <2>5
    <3>2. /\ PoolInOrder(r)
          /\ e \in r.byHash
          /\ \/ r.byHash = q.byHash \cup {e}
             \/ \E w \in q.byHash : /\ Price(w) < Price(e)
                                    /\ r.byHash = (q.byHash \ {w}) \cup {e}
                                    /\ Cardinality(q.byHash) >= MaxGlobal
      BY <2>2, <3>1, PlaceInOrder, ZenonT(40)
    <3>3. CASE old = NoTx
      BY <3>2, <3>3, <2>2, <1>2
    <3>4. CASE old # NoTx
      <4>1. IsFiniteSet(q.byHash)
        BY <2>2, OrderParts DEF Bounded
      <4>2. ~(Cardinality(q.byHash) >= MaxGlobal)
        BY <4>1, <2>2, <3>4, FS_CardinalityType, TxPoolAssumption, SMTT(60)
      <4>3. r.byHash = (p.byHash \ {old}) \cup {e}
        BY <4>2, <3>2, <3>4, <2>2
      <4> QED
        BY <4>3, <3>2, <3>4, <2>2, <2>3, <1>2
    <3> QED
      BY <3>3, <3>4
  <2> QED
    BY <2>4, <2>5
<1> QED
  BY <1>1, <1>2

\* Every step of the node leaves the pool in order: submission with or without
\* a seal, the import of a block, a restart.
LEMMA StepInOrder ==
  ASSUME PoolConsistent, [Next]_vars
  PROVE  PoolConsistent'
<1> USE DEF PoolConsistent
<1>1. ASSUME NEW p, NEW txs, NEW root, PoolInOrder(p), Commit(p, txs, root)
      PROVE  PoolInOrder(pool')
  BY <1>1, RemoveInOrder DEF Commit
<1>2. ASSUME NEW t \in Txs, NEW S, NEW p \in Add(pool, t),
             \/ \E txs \in S : Seal(p, txs)
             \/ pool' = p
      PROVE  PoolInOrder(pool')
  <2>1. PoolInOrder(p)
    BY <1>2, AddLosesNothing
  <2> QED
    BY <1>2, <2>1, <1>1 DEF Seal
<1>3. ASSUME NEW t \in Txs, SendRawTransaction(t)
      PROVE  PoolInOrder(pool')
  BY <1>2, <1>3 DEF SendRawTransaction, Submit
<1>4. ASSUME NEW t \in Txs, SendDewRawTransaction(t)
      PROVE  PoolInOrder(pool')
  BY <1>2, <1>4 DEF SendDewRawTransaction, Submit
<1>5. CASE BuildBlockFromPool
  BY <1>5 DEF BuildBlockFromPool
<1>6. CASE ImportOwn
  BY <1>6, <1>1 DEF ImportOwn, ImportCommittedBlock
<1>7. CASE ImportPeers
  BY <1>7, <1>1 DEF ImportPeers, ImportCommittedBlock
<1>8. CASE Restart
  BY <1>8, EmptyInOrder DEF Restart
<1>9. CASE UNCHANGED vars
  BY <1>9 DEF vars
<1> QED
  BY <1>3, <1>4, <1>5, <1>6, <1>7, <1>8, <1>9 DEF Next

\* In every behaviour of the node, its pool is in order: one transaction per
\* sender and nonce, both indexes the same, both limits kept.
THEOREM PoolStaysConsistent == Spec => []PoolConsistent
<1>1. Init => PoolConsistent
  BY EmptyInOrder DEF Init, PoolConsistent
<1>2. PoolConsistent /\ [Next]_vars => PoolConsistent'
  BY StepInOrder
<1> QED
  BY <1>1, <1>2, PTL DEF Spec

----------------------------------------------------------------------------
(* Executing a block.                                                      *)

States == [nonce : [Accounts -> Nat], bal : [Accounts -> Int]]
Results == [ok : BOOLEAN, ran : Nat, st : States]

\* The fields of a transaction that execution uses.
LEMMA TxType ==
  ASSUME NEW t \in Txs
  PROVE  /\ t.from \in Accounts /\ t.to \in Accounts
         /\ t.fee \in Nat /\ t.tip \in Nat /\ t.gas \in Nat /\ t.value \in Nat
BY TxPoolAssumption, InclusionAssumption

\* A fee is a natural.
LEMMA FeeType ==
  ASSUME NEW t \in Txs
  PROVE  Fee(t) \in Nat
<1>1. BaseFee \in Nat /\ DefaultDewFee \in Nat
  BY InclusionAssumption
<1> DEFINE g == t.gas
           e == EffectiveGasPrice(t)
<1>2. e \in Nat
  BY <1>1, TxType, SMTT(60) DEF EffectiveGasPrice
<1>3. g \in Nat
  BY TxType
<1>4. Fee(t) = IF ~IsDew(t) THEN g * e ELSE IF t.fee = 0 THEN DefaultDewFee ELSE t.fee
  BY DEF Fee
<1> HIDE DEF g, e
<1>5. g * e \in Nat
  BY <1>2, <1>3, SMTT(60)
<1> QED BY <1>1, <1>4, <1>5, TxType

\* A transfer between accounts leaves balances.
LEMMA MoveType ==
  ASSUME NEW bal \in [Accounts -> Int], NEW from \in Accounts, NEW to \in Accounts,
         NEW amount \in Int
  PROVE  Move(bal, from, to, amount) \in [Accounts -> Int]
<1> DEFINE out == [bal EXCEPT ![from] = @ - amount]
<1>1. out \in [Accounts -> Int]
  BY SMTT(60)
<1>2. Move(bal, from, to, amount) = [out EXCEPT ![to] = @ + amount]
  BY DEF Move
<1> HIDE DEF out
<1> QED BY <1>1, <1>2, SMTT(60)

\* A transaction leaves a state, with its sender's nonce one higher.
LEMMA ExecuteType ==
  ASSUME NEW s \in States, NEW t \in Txs
  PROVE  /\ Execute(s, t) \in States
         /\ Execute(s, t).nonce = [s.nonce EXCEPT ![t.from] = @ + 1]
<1> DEFINE fee == Fee(t)
           b == Move(s.bal, t.from, Proposer, fee)
           c == Move(b, t.from, t.to, t.value)
           n == [s.nonce EXCEPT ![t.from] = @ + 1]
<1>1. Execute(s, t) = [nonce |-> n, bal |-> c]
  BY DEF Execute
<1>2. s.nonce \in [Accounts -> Nat] /\ s.bal \in [Accounts -> Int]
  BY DEF States
<1>3. t.from \in Accounts /\ t.to \in Accounts /\ Proposer \in Accounts
  BY TxType, InclusionAssumption
<1>4. fee \in Int /\ t.value \in Int
  BY FeeType, TxType, SMTT(60)
<1> HIDE DEF fee
<1>5. b \in [Accounts -> Int]
  BY <1>2, <1>3, <1>4, MoveType
<1> HIDE DEF b
<1>6. c \in [Accounts -> Int]
  BY <1>3, <1>4, <1>5, MoveType
<1>7. n \in [Accounts -> Nat]
  BY <1>2, <1>3, SMTT(60)
<1> HIDE DEF c, n
<1>8. Execute(s, t) \in States /\ Execute(s, t).nonce = n
  BY <1>1, <1>6, <1>7, SMTT(60) DEF States
<1> QED BY <1>8 DEF n

\* One transaction of a block, from a result to a result.
LEMMA RunOneType ==
  ASSUME NEW r \in Results, NEW t \in Txs
  PROVE  /\ RunOne(r, t) \in Results
         /\ r.ok /\ Executes(r.st, t)
              => RunOne(r, t) = [ok |-> TRUE, ran |-> r.ran + 1, st |-> Execute(r.st, t)]
         /\ ~(r.ok /\ Executes(r.st, t))
              => /\ RunOne(r, t).ok = FALSE
                 /\ RunOne(r, t).ran = r.ran /\ RunOne(r, t).st = r.st
<1>1. r.ran \in Nat /\ r.st \in States
  BY DEF Results
<1>2. CASE r.ok /\ Executes(r.st, t)
  <2>1. RunOne(r, t) = [ok |-> TRUE, ran |-> r.ran + 1, st |-> Execute(r.st, t)]
    BY <1>2 DEF RunOne
  <2>2. r.ran + 1 \in Nat /\ Execute(r.st, t) \in States
    <3>1. r.ran + 1 \in Nat
      BY <1>1, SMTT(60)
    <3> QED BY <1>1, <3>1, ExecuteType
  <2>3. RunOne(r, t) \in Results
    BY <2>1, <2>2, SMTT(60) DEF Results
  <2> QED BY <1>2, <2>1, <2>3
<1>3. CASE ~(r.ok /\ Executes(r.st, t))
  <2>1. RunOne(r, t) = [r EXCEPT !.ok = FALSE]
    BY <1>3 DEF RunOne
  <2>2. /\ [r EXCEPT !.ok = FALSE] \in Results
        /\ [r EXCEPT !.ok = FALSE].ok = FALSE
        /\ [r EXCEPT !.ok = FALSE].ran = r.ran /\ [r EXCEPT !.ok = FALSE].st = r.st
    BY <1>1 DEF Results
  <2> QED BY <1>3, <2>1, <2>2
<1> QED BY <1>2, <1>3

\* f has the result after each transaction of a block.
IsRun(f, s, txs) ==
  /\ f \in [0 .. Len(txs) -> Results]
  /\ f[0] = [ok |-> TRUE, ran |-> 0, st |-> s]
  /\ \A k \in 1 .. Len(txs) : f[k] = RunOne(f[k - 1], txs[k])

\* executeBlockTxsLocked runs a block to the result after its last one.
LEMMA RunIs ==
  ASSUME NEW s \in States, NEW txs \in Seq(Txs)
  PROVE  \E f : IsRun(f, s, txs) /\ ExecuteBlockTxs(s, txs) = f[Len(txs)]
<1> DEFINE n == Len(txs)
           base == [ok |-> TRUE, ran |-> 0, st |-> s]
           Body(h, k) == IF k = 0 THEN base ELSE RunOne(h[k - 1], txs[k])
           Is(h) == h = [k \in 0 .. n |-> Body(h, k)]
           f == CHOOSE h : Is(h)
           G == [k \in 1 .. n |-> [r \in Results |-> RunOne(r, txs[k])]]
<1>1. n \in Nat /\ \A k \in 1 .. n : txs[k] \in Txs
  BY SMTT(60)
<1>2. base \in Results
  BY DEF Results
<1>3. G \in [1 .. n -> [Results -> Results]]
  BY <1>1, RunOneType
<1>4. ExecuteBlockTxs(s, txs) = f[n]
  BY DEF ExecuteBlockTxs
<1> HIDE DEF n, base
<1>5. PICK h : Follows(h, base, G, n, Results)
  <2>1. AreSteps(G, n, Results)
    BY <1>1, <1>3 DEF AreSteps
  <2> HIDE DEF G
  <2> QED BY <1>2, <2>1, StepsExist
<1>6. /\ 0 \in 0 .. n
      /\ \A k \in 1 .. n : k \in 0 .. n /\ k - 1 \in 0 .. n /\ k # 0
      /\ \A k \in 0 .. n : k = 0 \/ k \in 1 .. n
  BY <1>1, SMTT(60)
<1>7. h \in [0 .. n -> Results] /\ h[0] = base
  BY <1>5 DEF Follows
<1>8. \A k \in 1 .. n : h[k] = RunOne(h[k - 1], txs[k])
  BY <1>5, <1>6, <1>7 DEF Follows
<1>9. Is(h)
  <2>1. \A k \in 0 .. n : h[k] = Body(h, k)
    BY <1>6, <1>7, <1>8
  <2> HIDE DEF Body
  <2> QED BY <1>7, <2>1
<1>10. Is(f)
  BY <1>9
<1> HIDE DEF f, G
<1>11. f[0] = base /\ \A k \in 1 .. n : f[k] = RunOne(f[k - 1], txs[k])
  BY <1>6, <1>10
<1>12. f \in [0 .. n -> Results]
  <2> DEFINE T == {k \in 0 .. n : f[k] \in Results}
  <2>1. 0 \in T
    BY <1>2, <1>6, <1>11
  <2>2. ASSUME NEW k \in 1 .. n, k - 1 \in T PROVE k \in T
    <3>1. f[k - 1] \in Results /\ txs[k] \in Txs
      BY <1>1, <2>2
    <3>2. RunOne(f[k - 1], txs[k]) \in Results
      BY <3>1, RunOneType
    <3> QED BY <1>6, <1>11, <3>2
  <2> HIDE DEF T
  <2>3. \A k \in 0 .. n : k \in T
    BY <1>1, <2>1, <2>2, UpTo
  <2>4. \A k \in 0 .. n : f[k] \in Results
    BY <2>3 DEF T
  <2>5. f = [k \in 0 .. n |-> Body(f, k)]
    BY <1>10
  <2> HIDE DEF Body
  <2> QED BY <2>4, <2>5
<1> QED BY <1>4, <1>11, <1>12 DEF IsRun, n, base

\* Whether the nonces of u are nowhere below those of s.
NoLower(s, u) == \A a \in Accounts : s.nonce[a] <= u.nonce[a]

\* Whether some nonce of u is above that of s.
Higher(s, u) == \E a \in Accounts : s.nonce[a] < u.nonce[a]

\* What a run that started from s says of the state after k transactions.
RunFacts(s, k, r) ==
  /\ r.ok => r.ran = k
  /\ r.ran = 0 => r.st = s
  /\ NoLower(s, r.st)
  /\ r.ran # 0 => Higher(s, r.st)

\* They hold after one transaction more: it counts and raises a nonce, or it
\* ends the block and leaves no trace.
LEMMA FactsStep ==
  ASSUME NEW s \in States, NEW k \in Nat, NEW r \in Results, NEW t \in Txs,
         RunFacts(s, k, r)
  PROVE  RunFacts(s, k + 1, RunOne(r, t))
<1>1. r.ran \in Nat /\ r.st \in States
  BY DEF Results
<1>2. CASE r.ok /\ Executes(r.st, t)
  <2> DEFINE u == Execute(r.st, t)
  <2>1. RunOne(r, t) = [ok |-> TRUE, ran |-> r.ran + 1, st |-> u]
    BY <1>2, RunOneType
  <2>2. u.nonce = [r.st.nonce EXCEPT ![t.from] = @ + 1]
    BY <1>1, ExecuteType
  <2>3. t.from \in Accounts
    BY TxType
  <2>4. s.nonce \in [Accounts -> Nat] /\ r.st.nonce \in [Accounts -> Nat]
    BY <1>1 DEF States
  <2>5. r.ran = k /\ NoLower(s, r.st)
    BY <1>2 DEF RunFacts
  <2> HIDE DEF u
  <2>6. \A a \in Accounts : u.nonce[a] = IF a = t.from THEN r.st.nonce[a] + 1 ELSE r.st.nonce[a]
    BY <2>2, <2>3, <2>4
  <2>7. \A a \in Accounts : s.nonce[a] \in Nat /\ r.st.nonce[a] \in Nat /\ s.nonce[a] <= r.st.nonce[a]
    BY <2>4, <2>5 DEF NoLower
  <2>8. NoLower(s, u)
    BY <2>6, <2>7, SMTT(60) DEF NoLower
  <2>9. s.nonce[t.from] < u.nonce[t.from]
    BY <2>3, <2>6, <2>7, SMTT(60)
  <2>10. Higher(s, u)
    BY <2>3, <2>9 DEF Higher
  <2>11. k + 1 # 0
    BY SMTT(60)
  <2>12. RunOne(r, t).ran = k + 1 /\ RunOne(r, t).st = u
    BY <2>1, <2>5, SMTT(60)
  <2> QED BY <2>8, <2>10, <2>11, <2>12 DEF RunFacts
<1>3. CASE ~(r.ok /\ Executes(r.st, t))
  <2>1. RunOne(r, t).ok = FALSE /\ RunOne(r, t).ran = r.ran /\ RunOne(r, t).st = r.st
    BY <1>3, RunOneType
  <2> QED BY <2>1 DEF RunFacts
<1> QED BY <1>2, <1>3

\* executeBlockTxsLocked: a block that ran ran whole; what ran nothing changed
\* nothing; what ran something raised a nonce.
LEMMA RunKnown ==
  ASSUME NEW s \in States, NEW txs \in Seq(Txs)
  PROVE  /\ ExecuteBlockTxs(s, txs) \in Results
         /\ RunFacts(s, Len(txs), ExecuteBlockTxs(s, txs))
<1> DEFINE n == Len(txs)
<1>1. n \in Nat /\ \A k \in 1 .. n : txs[k] \in Txs
  BY SMTT(60)
<1>2. PICK f : IsRun(f, s, txs) /\ ExecuteBlockTxs(s, txs) = f[n]
  BY RunIs
<1>3. /\ f \in [0 .. n -> Results]
      /\ f[0] = [ok |-> TRUE, ran |-> 0, st |-> s]
      /\ \A k \in 1 .. n : f[k] = RunOne(f[k - 1], txs[k])
  BY <1>2 DEF IsRun
<1> DEFINE T == {k \in 0 .. n : RunFacts(s, k, f[k])}
<1> HIDE DEF n
<1>4. 0 \in T
  <2>1. 0 \in 0 .. n
    BY <1>1, SMTT(60)
  <2>2. NoLower(s, s)
    <3>1. \A a \in Accounts : s.nonce[a] \in Nat
      BY DEF States
    <3> QED BY <3>1, SMTT(60) DEF NoLower
  <2>3. f[0].ran = 0 /\ f[0].st = s
    BY <1>3, SMTT(60)
  <2>4. RunFacts(s, 0, f[0])
    BY <2>2, <2>3 DEF RunFacts
  <2> QED BY <2>1, <2>4
<1>5. ASSUME NEW k \in 1 .. n, k - 1 \in T PROVE k \in T
  <2>1. k \in 0 .. n /\ k - 1 \in 0 .. n /\ k - 1 \in Nat /\ (k - 1) + 1 = k
    BY <1>1, SMTT(60)
  <2>2. f[k - 1] \in Results /\ RunFacts(s, k - 1, f[k - 1]) /\ txs[k] \in Txs
    BY <1>1, <1>3, <1>5, <2>1
  <2>3. RunFacts(s, (k - 1) + 1, RunOne(f[k - 1], txs[k]))
    BY <2>1, <2>2, FactsStep
  <2>4. RunFacts(s, k, f[k])
    BY <1>3, <2>1, <2>3
  <2> QED BY <2>1, <2>4
<1> HIDE DEF T
<1>6. n \in 0 .. n
  BY <1>1, SMTT(60)
<1>7. n \in T
  BY <1>1, <1>4, <1>5, <1>6, UpTo
<1>8. RunFacts(s, n, f[n]) /\ f[n] \in Results
  BY <1>3, <1>6, <1>7 DEF T
<1> QED BY <1>2, <1>8 DEF n

\* A block with one transaction more runs as before and then that one.
LEMMA RunExtends ==
  ASSUME NEW s \in States, NEW txs \in Seq(Txs), NEW t \in Txs
  PROVE  ExecuteBlockTxs(s, Append(txs, t)) = RunOne(ExecuteBlockTxs(s, txs), t)
<1> DEFINE n == Len(txs)
           long == Append(txs, t)
<1>1. /\ n \in Nat /\ long \in Seq(Txs) /\ Len(long) = n + 1
      /\ long[n + 1] = t
      /\ \A k \in 1 .. n : long[k] = txs[k]
  BY SMTT(60)
<1>2. PICK f : IsRun(f, s, txs) /\ ExecuteBlockTxs(s, txs) = f[n]
  BY RunIs
<1> HIDE DEF long
<1>3. PICK g : IsRun(g, s, long) /\ ExecuteBlockTxs(s, long) = g[n + 1]
  BY <1>1, RunIs
<1>4. f[0] = [ok |-> TRUE, ran |-> 0, st |-> s] /\ \A k \in 1 .. n : f[k] = RunOne(f[k - 1], txs[k])
  BY <1>2 DEF IsRun
<1>5. g[0] = [ok |-> TRUE, ran |-> 0, st |-> s] /\ \A k \in 1 .. n + 1 : g[k] = RunOne(g[k - 1], long[k])
  BY <1>1, <1>3 DEF IsRun
<1> DEFINE T == {k \in 0 .. n : f[k] = g[k]}
<1> HIDE DEF n
<1>6. 0 \in 0 .. n /\ n \in 0 .. n /\ n + 1 \in 1 .. n + 1 /\ (n + 1) - 1 = n
  BY <1>1, SMTT(60)
<1>7. 0 \in T
  BY <1>4, <1>5, <1>6
<1>8. ASSUME NEW k \in 1 .. n, k - 1 \in T PROVE k \in T
  <2>1. k \in 0 .. n /\ k \in 1 .. n + 1
    BY <1>1, SMTT(60)
  <2>2. f[k - 1] = g[k - 1]
    BY <1>8
  <2>3. f[k] = g[k]
    BY <1>1, <1>4, <1>5, <2>1, <2>2
  <2> QED BY <2>1, <2>3
<1> HIDE DEF T
<1>9. n \in T
  BY <1>1, <1>6, <1>7, <1>8, UpTo
<1>10. f[n] = g[n]
  BY <1>9 DEF T
<1> QED BY <1>1, <1>2, <1>3, <1>5, <1>6, <1>10 DEF long

\* An empty block runs and changes nothing.
LEMMA RunEmpty ==
  ASSUME NEW s \in States
  PROVE  ExecuteBlockTxs(s, <<>>) = [ok |-> TRUE, ran |-> 0, st |-> s]
<1>1. <<>> \in Seq(Txs) /\ Len(<<>>) = 0
  BY SMTT(60)
<1>2. PICK f : IsRun(f, s, <<>>) /\ ExecuteBlockTxs(s, <<>>) = f[0]
  BY <1>1, RunIs
<1> QED BY <1>2 DEF IsRun

----------------------------------------------------------------------------
(* Simulating a selection.                                                 *)

Sims == [kept : Seq(Txs), failed : SUBSET Txs, st : States]

\* A block that runs from s to u.
RunsTo(s, txs, u) ==
  txs \in Seq(Txs) /\ ExecuteBlockTxs(s, txs).ok /\ ExecuteBlockTxs(s, txs).st = u

\* What is kept so far runs to the state so far.
KeptRuns(s, r) == r \in Sims /\ RunsTo(s, r.kept, r.st)

\* One transaction more: it runs on the state so far and is kept, or it leaves
\* no trace.
LEMMA SimStep ==
  ASSUME NEW s \in States, NEW t \in Txs, NEW r, KeptRuns(s, r)
  PROVE  KeptRuns(s, SimulateOne(r, t))
<1> DEFINE q == SimulateOne(r, t)
           run == ExecuteBlockTxs(s, r.kept)
<1>1. r.kept \in Seq(Txs) /\ r.failed \in SUBSET Txs /\ r.st \in States /\ r \in Sims
  BY DEF KeptRuns, Sims
<1>2. run.ok /\ run.st = r.st /\ run \in Results
  BY <1>1, RunKnown DEF KeptRuns, RunsTo
<1>3. CASE Executes(r.st, t)
  <2> DEFINE kept == Append(r.kept, t)
             u == Execute(r.st, t)
  <2>1. kept \in Seq(Txs)
    BY <1>1, SMTT(60)
  <2>2. u \in States
    BY <1>1, ExecuteType
  <2>3. ExecuteBlockTxs(s, kept) = RunOne(run, t)
    BY <1>1, RunExtends
  <2> HIDE DEF run, kept
  <2>4. RunOne(run, t) = [ok |-> TRUE, ran |-> run.ran + 1, st |-> u]
    BY <1>2, <1>3, RunOneType
  <2>5. q = [r EXCEPT !.kept = kept, !.st = u]
    BY <1>3 DEF SimulateOne, kept
  <2> HIDE DEF q, u
  <2>6. q \in Sims /\ q.kept = kept /\ q.st = u
    <3>1. r = [kept |-> r.kept, failed |-> r.failed, st |-> r.st]
      BY <1>1, SMTT(60) DEF Sims
    <3>2. q = [kept |-> kept, failed |-> r.failed, st |-> u]
      BY <2>5, <3>1
    <3>3. q.kept = kept /\ q.st = u
      BY <3>2
    <3> QED BY <1>1, <2>1, <2>2, <3>2, <3>3 DEF Sims
  <2>7. ExecuteBlockTxs(s, kept).ok /\ ExecuteBlockTxs(s, kept).st = u
    BY <2>3, <2>4, SMTT(60)
  <2>8. KeptRuns(s, q)
    BY <2>1, <2>6, <2>7 DEF KeptRuns, RunsTo
  <2> QED BY <2>8 DEF q
<1>4. CASE ~Executes(r.st, t)
  <2>1. q = [r EXCEPT !.failed = r.failed \cup {t}]
    BY <1>4 DEF SimulateOne
  <2> HIDE DEF q
  <2>2. q \in Sims /\ q.kept = r.kept /\ q.st = r.st
    BY <1>1, <2>1, SMTT(60) DEF Sims
  <2>3. KeptRuns(s, q)
    BY <2>2 DEF KeptRuns
  <2> QED BY <2>3 DEF q
<1> QED BY <1>3, <1>4

\* simulateAndFilterLocked: what it keeps runs, in order, to the state it ends
\* with, although what failed is gone from in between.
LEMMA SimKeeps ==
  ASSUME NEW s \in States, NEW txs \in Seq(Txs)
  PROVE  KeptRuns(s, SimulateAndFilter(s, txs))
<1> DEFINE n == Len(txs)
           base == [kept |-> <<>>, failed |-> {}, st |-> s]
           V == {r \in Sims : KeptRuns(s, r)}
           Body(h, k) == IF k = 0 THEN base ELSE SimulateOne(h[k - 1], txs[k])
           Is(h) == h = [k \in 0 .. n |-> Body(h, k)]
           f == CHOOSE h : Is(h)
           G == [k \in 1 .. n |-> [r \in V |-> SimulateOne(r, txs[k])]]
<1>1. n \in Nat /\ \A k \in 1 .. n : txs[k] \in Txs
  BY SMTT(60)
<1>2. base \in V
  <2>1. base \in Sims /\ base.kept = <<>> /\ base.st = s /\ <<>> \in Seq(Txs)
    BY SMTT(60) DEF Sims
  <2> HIDE DEF base
  <2>2. ExecuteBlockTxs(s, <<>>).ok /\ ExecuteBlockTxs(s, <<>>).st = s
    BY RunEmpty, SMTT(60)
  <2> QED BY <2>1, <2>2 DEF KeptRuns, RunsTo
<1>3. \A k \in 1 .. n, r \in V : SimulateOne(r, txs[k]) \in V
  <2> TAKE k \in 1 .. n, r \in V
  <2>1. KeptRuns(s, SimulateOne(r, txs[k]))
    BY <1>1, SimStep
  <2> QED BY <2>1 DEF KeptRuns
<1>4. SimulateAndFilter(s, txs) = f[n]
  BY DEF SimulateAndFilter
<1> HIDE DEF n, base, V
<1>5. PICK h : Follows(h, base, G, n, V)
  <2>1. AreSteps(G, n, V)
    BY <1>1, <1>3 DEF AreSteps
  <2> HIDE DEF G
  <2> QED BY <1>2, <2>1, StepsExist
<1>6. /\ 0 \in 0 .. n /\ n \in 0 .. n
      /\ \A k \in 1 .. n : k \in 0 .. n /\ k - 1 \in 0 .. n /\ k # 0
      /\ \A k \in 0 .. n : k = 0 \/ k \in 1 .. n
  BY <1>1, SMTT(60)
<1>7. h \in [0 .. n -> V] /\ h[0] = base
  BY <1>5 DEF Follows
<1>8. \A k \in 1 .. n : h[k] = SimulateOne(h[k - 1], txs[k])
  BY <1>5, <1>6, <1>7 DEF Follows
<1>9. Is(h)
  <2>1. \A k \in 0 .. n : h[k] = Body(h, k)
    BY <1>6, <1>7, <1>8
  <2> HIDE DEF Body
  <2> QED BY <1>7, <2>1
<1>10. Is(f)
  BY <1>9
<1> HIDE DEF f, G
<1>11. f[0] = base /\ \A k \in 1 .. n : f[k] = SimulateOne(f[k - 1], txs[k])
  BY <1>6, <1>10
<1> DEFINE T == {k \in 0 .. n : f[k] \in V}
<1>12. 0 \in T
  BY <1>2, <1>6, <1>11
<1>13. ASSUME NEW k \in 1 .. n, k - 1 \in T PROVE k \in T
  BY <1>3, <1>6, <1>11, <1>13
<1> HIDE DEF T
<1>14. n \in T
  BY <1>1, <1>6, <1>12, <1>13, UpTo
<1> QED BY <1>4, <1>14 DEF T, V

----------------------------------------------------------------------------
(* Selecting transactions.                                                 *)

Picks == [out : Seq(Txs), gas : Nat, next : [Accounts -> Nat], candidates : SUBSET Txs]

\* A turn of the selection loop keeps the list a list of transactions.
LEMMA SelectOneType ==
  ASSUME NEW s \in Picks
  PROVE  SelectOne(s) \in SUBSET Picks
<1>1. /\ s.out \in Seq(Txs) /\ s.gas \in Nat
      /\ s.next \in [Accounts -> Nat] /\ s.candidates \in SUBSET Txs
  BY DEF Picks
<1>2. s = [out |-> s.out, gas |-> s.gas, next |-> s.next, candidates |-> s.candidates]
  BY SMTT(60) DEF Picks
<1> DEFINE best == PickBestReady(s.candidates, s.next)
           take(t) == [s EXCEPT !.out = Append(@, t),
                                !.gas = @ + t.gas,
                                !.next[t.from] = @ + 1]
           skip(t) == [s EXCEPT !.candidates = {u \in @ : u.from # t.from}]
<1>3. best \in SUBSET Txs
  BY <1>1 DEF PickBestReady, Ready
<1>4. ASSUME NEW t \in Txs PROVE take(t) \in Picks
  <2> DEFINE out == Append(s.out, t)
             gas == s.gas + t.gas
             next == [s.next EXCEPT ![t.from] = @ + 1]
  <2> DEFINE q == take(t)
  <2>1. q = [s EXCEPT !.out = out, !.gas = gas, !.next = next]
    OBVIOUS
  <2>2. out \in Seq(Txs)
    BY <1>1, SMTT(60)
  <2>3. gas \in Nat /\ next \in [Accounts -> Nat]
    BY <1>1, TxType, SMTT(60)
  <2> HIDE DEF out, gas, next, q
  <2>4. q = [out |-> out, gas |-> gas, next |-> next, candidates |-> s.candidates]
    BY <1>2, <2>1
  <2>5. q \in Picks
    BY <1>1, <2>2, <2>3, <2>4 DEF Picks
  <2> QED BY <2>5 DEF q
<1>5. ASSUME NEW t \in Txs PROVE skip(t) \in Picks
  <2> DEFINE c == {u \in s.candidates : u.from # t.from}
  <2> DEFINE q == skip(t)
  <2>1. q = [s EXCEPT !.candidates = c]
    OBVIOUS
  <2>2. c \in SUBSET Txs
    BY <1>1
  <2> HIDE DEF c, q
  <2>3. q = [out |-> s.out, gas |-> s.gas, next |-> s.next, candidates |-> c]
    BY <1>2, <2>1
  <2>4. q \in Picks
    BY <1>1, <2>2, <2>3 DEF Picks
  <2> QED BY <2>4 DEF q
<1>6. \/ SelectOne(s) = {s}
      \/ SelectOne(s) = {IF ~IsDew(t) /\ s.gas + t.gas > GasLimit THEN skip(t) ELSE take(t)
                           : t \in best}
  BY DEF SelectOne
<1> HIDE DEF best, take, skip
<1>7. \A t \in best : skip(t) \in Picks /\ take(t) \in Picks
  BY <1>3, <1>4, <1>5
<1> QED BY <1>6, <1>7

\* What selectPendingTxsForBlockLocked returns is a list of transactions.
LEMMA SelectionsType ==
  ASSUME NEW candidates \in SUBSET Txs, IsFiniteSet(candidates), st \in States,
         NEW txs \in Selections(candidates)
  PROVE  txs \in Seq(Txs)
<1> DEFINE n == MaxTxsPerBlock + Cardinality({t.from : t \in candidates})
           base == {[out |-> <<>>, gas |-> 0, next |-> st.nonce, candidates |-> candidates]}
           V == SUBSET Picks
           Body(h, k) == IF k = 0 THEN base ELSE UNION {SelectOne(s) : s \in h[k - 1]}
           Is(h) == h = [k \in 0 .. n |-> Body(h, k)]
           f == CHOOSE h : Is(h)
           G == [k \in 1 .. n |-> [S \in V |-> UNION {SelectOne(s) : s \in S}]]
<1>1. n \in Nat
  <2>1. IsFiniteSet({t.from : t \in candidates})
    <3> DEFINE from == [t \in candidates |-> t.from]
    <3>1. {from[t] : t \in candidates} = {t.from : t \in candidates}
      OBVIOUS
    <3>2. from \in [candidates -> {from[t] : t \in candidates}]
      OBVIOUS
    <3>3. from \in Surjection(candidates, {from[t] : t \in candidates})
      BY <3>2 DEF Surjection
    <3>4. IsFiniteSet({from[t] : t \in candidates})
      <4> HIDE DEF from
      <4> QED BY <3>3, FS_Surjection
    <3> QED BY <3>1, <3>4
  <2>2. Cardinality({t.from : t \in candidates}) \in Nat
    BY <2>1, FS_CardinalityType
  <2> QED BY <2>2, InclusionAssumption, SMTT(60)
<1>2. base \in V
  <2>1. <<>> \in Seq(Txs) /\ 0 \in Nat /\ st.nonce \in [Accounts -> Nat]
    <3>1. <<>> \in Seq(Txs)
      BY SMTT(60)
    <3> QED BY <3>1 DEF States
  <2> QED BY <2>1, SMTT(60) DEF Picks
<1>3. \A S \in V : UNION {SelectOne(s) : s \in S} \in V
  BY SelectOneType
<1>4. Selections(candidates) = {s.out : s \in f[n]}
  BY DEF Selections
<1> HIDE DEF n, base, V
<1>5. PICK h : Follows(h, base, G, n, V)
  <2>1. AreSteps(G, n, V)
    BY <1>1, <1>3 DEF AreSteps
  <2> HIDE DEF G
  <2> QED BY <1>2, <2>1, StepsExist
<1>6. /\ 0 \in 0 .. n /\ n \in 0 .. n
      /\ \A k \in 1 .. n : k \in 0 .. n /\ k - 1 \in 0 .. n /\ k # 0
      /\ \A k \in 0 .. n : k = 0 \/ k \in 1 .. n
  BY <1>1, SMTT(60)
<1>7. h \in [0 .. n -> V] /\ h[0] = base
  BY <1>5 DEF Follows
<1>8. \A k \in 1 .. n : h[k] = UNION {SelectOne(s) : s \in h[k - 1]}
  BY <1>5, <1>6, <1>7 DEF Follows
<1>9. Is(h)
  <2>1. \A k \in 0 .. n : h[k] = Body(h, k)
    BY <1>6, <1>7, <1>8
  <2> HIDE DEF Body
  <2> QED BY <1>7, <2>1
<1>10. Is(f)
  BY <1>9
<1> HIDE DEF f, G
<1>11. f[0] = base /\ \A k \in 1 .. n : f[k] = UNION {SelectOne(s) : s \in f[k - 1]}
  BY <1>6, <1>10
<1> DEFINE T == {k \in 0 .. n : f[k] \in V}
<1>12. 0 \in T
  BY <1>2, <1>6, <1>11
<1>13. ASSUME NEW k \in 1 .. n, k - 1 \in T PROVE k \in T
  BY <1>3, <1>6, <1>11, <1>13
<1> HIDE DEF T
<1>14. n \in T
  BY <1>1, <1>6, <1>12, <1>13, UpTo
<1>15. f[n] \in SUBSET Picks
  BY <1>14 DEF T, V
<1>16. PICK s \in f[n] : txs = s.out
  BY <1>4
<1> QED BY <1>15, <1>16 DEF Picks

\* So is what is selected from a pool that is in order.
LEMMA PendingType ==
  ASSUME st \in States, NEW p, PoolInOrder(p), NEW exclude, NEW txs,
         txs \in SelectPendingTxs(p, exclude) \/ txs \in SelectPendingDewTxs(p)
  PROVE  txs \in Seq(Txs)
<1>1. p.byHash \in SUBSET Txs /\ IsFiniteSet(p.byHash)
  BY DEF PoolInOrder
<1>2. ASSUME NEW c \in SUBSET p.byHash, txs \in Selections(c)
      PROVE  txs \in Seq(Txs)
  <2>1. c \in SUBSET Txs /\ IsFiniteSet(c)
    BY <1>1, FS_Subset
  <2> QED BY <1>2, <2>1, SelectionsType
<1> DEFINE c == {t \in p.byHash : ~IsDew(t)} \ exclude
           d == {t \in p.byHash : IsDew(t)}
<1>3. c \in SUBSET p.byHash /\ d \in SUBSET p.byHash
  OBVIOUS
<1>4. txs \in Selections(c) \/ txs \in Selections(d)
  BY DEF SelectPendingTxs, SelectPendingDewTxs
<1> HIDE DEF c, d
<1> QED BY <1>2, <1>3, <1>4

----------------------------------------------------------------------------
(* Building a proposal.                                                    *)

\* An attempt's result: the transactions settled for run to its root.
Builds ==
  {b \in [done : BOOLEAN, exclude : SUBSET Txs, txs : Seq(Txs), root : States] :
     RunsTo(st, b.txs, b.root)}

\* One attempt.
LEMMA BuildStepType ==
  ASSUME st \in States, PoolConsistent, NEW b \in Builds
  PROVE  BuildStep(b) \in SUBSET Builds
<1>1. /\ b.done \in BOOLEAN /\ b.exclude \in SUBSET Txs /\ b.txs \in Seq(Txs)
      /\ b.root \in States /\ RunsTo(st, b.txs, b.root)
  BY DEF Builds
<1>2. b = [done |-> b.done, exclude |-> b.exclude, txs |-> b.txs, root |-> b.root]
  BY SMTT(60) DEF Builds
<1>3. ASSUME NEW cand \in SelectPendingTxs(pool, b.exclude)
      PROVE  cand \in Seq(Txs)
  BY <1>3, PendingType DEF PoolConsistent
<1>4. ASSUME NEW cand \in Seq(Txs)
      PROVE  LET sim == SimulateAndFilter(st, cand)
             IN /\ [b EXCEPT !.done = TRUE] \in Builds
                /\ [b EXCEPT !.done = TRUE, !.txs = sim.kept, !.root = sim.st] \in Builds
                /\ [b EXCEPT !.exclude = @ \cup sim.failed] \in Builds
  <2> DEFINE sim == SimulateAndFilter(st, cand)
  <2>1. KeptRuns(st, sim)
    BY <1>4, SimKeeps
  <2> HIDE DEF sim
  <2>2. /\ sim.kept \in Seq(Txs) /\ sim.failed \in SUBSET Txs /\ sim.st \in States
        /\ RunsTo(st, sim.kept, sim.st)
    BY <2>1 DEF KeptRuns, Sims
  <2>3. ASSUME NEW d \in BOOLEAN, NEW x \in SUBSET Txs, NEW t \in Seq(Txs), NEW u \in States,
               RunsTo(st, t, u)
        PROVE  [done |-> d, exclude |-> x, txs |-> t, root |-> u] \in Builds
    BY <2>3 DEF Builds
  <2>4. ASSUME NEW q, q = [b EXCEPT !.done = TRUE] PROVE q \in Builds
    <3>1. q = [done |-> TRUE, exclude |-> b.exclude, txs |-> b.txs, root |-> b.root]
      BY <1>2, <2>4
    <3> QED BY <1>1, <2>3, <3>1
  <2>5. ASSUME NEW q, q = [b EXCEPT !.done = TRUE, !.txs = sim.kept, !.root = sim.st]
        PROVE  q \in Builds
    <3>1. q = [done |-> TRUE, exclude |-> b.exclude, txs |-> sim.kept, root |-> sim.st]
      BY <1>2, <2>5
    <3> QED BY <1>1, <2>2, <2>3, <3>1
  <2>6. ASSUME NEW q, q = [b EXCEPT !.exclude = @ \cup sim.failed] PROVE q \in Builds
    <3>1. b.exclude \cup sim.failed \in SUBSET Txs
      BY <1>1, <2>2
    <3> DEFINE x == b.exclude \cup sim.failed
    <3>2. q = [b EXCEPT !.exclude = x]
      BY <2>6
    <3> HIDE DEF x
    <3>3. q = [done |-> b.done, exclude |-> x, txs |-> b.txs, root |-> b.root]
      BY <1>2, <3>2
    <3> QED BY <1>1, <2>3, <3>1, <3>3 DEF x
  <2> QED BY <2>4, <2>5, <2>6 DEF sim
<1>5. CASE b.done
  BY <1>5 DEF BuildStep
<1>6. CASE ~b.done
  <2> SUFFICES ASSUME NEW cand \in SelectPendingTxs(pool, b.exclude)
               PROVE  LET sim == SimulateAndFilter(st, cand)
                      IN (IF cand = <<>> THEN [b EXCEPT !.done = TRUE]
                          ELSE IF sim.kept # <<>>
                          THEN [b EXCEPT !.done = TRUE, !.txs = sim.kept, !.root = sim.st]
                          ELSE [b EXCEPT !.exclude = @ \cup sim.failed]) \in Builds
    BY <1>6 DEF BuildStep
  <2>1. cand \in Seq(Txs)
    BY <1>3
  <2> QED BY <1>4, <2>1
<1> QED BY <1>5, <1>6

\* BuildBlockFromPool: what it proposes on the head runs from the head's state
\* to the root it names.
LEMMA ProposalRuns ==
  ASSUME st \in States, st = head.root, PoolConsistent, NEW block \in Proposals
  PROVE  RunsTo(st, block.txs, block.root)
<1> DEFINE n == MaxProposalSimAttempts
           base == {[done |-> FALSE, exclude |-> {}, txs |-> <<>>, root |-> head.root]}
           V == SUBSET Builds
           Body(h, k) == IF k = 0 THEN base ELSE UNION {BuildStep(b) : b \in h[k - 1]}
           Is(h) == h = [k \in 0 .. n |-> Body(h, k)]
           f == CHOOSE h : Is(h)
           G == [k \in 1 .. n |-> [S \in V |-> UNION {BuildStep(b) : b \in S}]]
<1>1. n \in Nat
  BY InclusionAssumption
<1>2. base \in V
  <2>1. <<>> \in Seq(Txs) /\ {} \in SUBSET Txs /\ FALSE \in BOOLEAN
    BY SMTT(60)
  <2>2. ExecuteBlockTxs(st, <<>>).ok /\ ExecuteBlockTxs(st, <<>>).st = st
    BY RunEmpty, SMTT(60)
  <2>3. RunsTo(st, <<>>, st)
    BY <2>1, <2>2 DEF RunsTo
  <2> DEFINE b == [done |-> FALSE, exclude |-> {}, txs |-> <<>>, root |-> st]
  <2>4. b \in [done : BOOLEAN, exclude : SUBSET Txs, txs : Seq(Txs), root : States]
    BY <2>1, SMTT(60)
  <2>5. b.txs = <<>> /\ b.root = st
    OBVIOUS
  <2>6. base = {b}
    OBVIOUS
  <2> HIDE DEF b
  <2> QED BY <2>3, <2>4, <2>5, <2>6 DEF Builds
<1>3. \A S \in V : UNION {BuildStep(b) : b \in S} \in V
  BY BuildStepType
<1>4. Proposals = {[txs |-> b.txs, parent |-> head.root, root |-> b.root] : b \in f[n]}
  BY DEF Proposals
<1> HIDE DEF n, base, V
<1>5. PICK h : Follows(h, base, G, n, V)
  <2>1. AreSteps(G, n, V)
    BY <1>1, <1>3 DEF AreSteps
  <2> HIDE DEF G
  <2> QED BY <1>2, <2>1, StepsExist
<1>6. /\ 0 \in 0 .. n /\ n \in 0 .. n
      /\ \A k \in 1 .. n : k \in 0 .. n /\ k - 1 \in 0 .. n /\ k # 0
      /\ \A k \in 0 .. n : k = 0 \/ k \in 1 .. n
  BY <1>1, SMTT(60)
<1>7. h \in [0 .. n -> V] /\ h[0] = base
  BY <1>5 DEF Follows
<1>8. \A k \in 1 .. n : h[k] = UNION {BuildStep(b) : b \in h[k - 1]}
  BY <1>5, <1>6, <1>7 DEF Follows
<1>9. Is(h)
  <2>1. \A k \in 0 .. n : h[k] = Body(h, k)
    BY <1>6, <1>7, <1>8
  <2> HIDE DEF Body
  <2> QED BY <1>7, <2>1
<1>10. Is(f)
  BY <1>9
<1> HIDE DEF f, G
<1>11. f[0] = base /\ \A k \in 1 .. n : f[k] = UNION {BuildStep(b) : b \in f[k - 1]}
  BY <1>6, <1>10
<1> DEFINE T == {k \in 0 .. n : f[k] \in V}
<1>12. 0 \in T
  BY <1>2, <1>6, <1>11
<1>13. ASSUME NEW k \in 1 .. n, k - 1 \in T PROVE k \in T
  BY <1>3, <1>6, <1>11, <1>13
<1> HIDE DEF T
<1>14. n \in T
  BY <1>1, <1>6, <1>12, <1>13, UpTo
<1>15. PICK b \in Builds : block = [txs |-> b.txs, parent |-> head.root, root |-> b.root]
  BY <1>4, <1>14 DEF T, V
<1>16. block.txs = b.txs /\ block.root = b.root
  BY <1>15
<1> QED BY <1>16 DEF Builds

----------------------------------------------------------------------------
(* The node's state and its head.                                          *)

\* The state is the head's until a seal panics, and then only ahead of it; only
\* a node that auto-mines seals, and it proposes nothing; what a proposer has
\* proposed runs on the state that it has.
StateInv ==
  /\ st \in States /\ head.root \in States
  /\ NoLower(head.root, st)
  /\ StateIsHeads
  /\ panicked => autoMine
  /\ autoMine => proposal = NoBlock
  /\ proposal # NoBlock => RunsTo(st, proposal.txs, proposal.root)

\* The inductive invariant.
NodeInv == PoolConsistent /\ StateInv

\* No nonce is below itself.
LEMMA NotLowerSelf ==
  ASSUME NEW s \in States
  PROVE  NoLower(s, s)
<1>1. \A a \in Accounts : s.nonce[a] \in Nat
  BY DEF States
<1> QED BY <1>1, SMTT(60) DEF NoLower

\* A block that ran from a state no lower than the head's leads to another.
LEMMA RunLeaves ==
  ASSUME NEW h \in States, NEW s \in States, NEW u \in States, NoLower(h, s)
  PROVE  /\ NoLower(s, u) => NoLower(h, u)
         /\ Higher(s, u) => h # u
<1>1. \A a \in Accounts : /\ h.nonce[a] \in Nat /\ s.nonce[a] \in Nat /\ u.nonce[a] \in Nat
                          /\ h.nonce[a] <= s.nonce[a]
  BY DEF States, NoLower
<1>2. ASSUME NoLower(s, u) PROVE NoLower(h, u)
  BY <1>1, <1>2, SMTT(60) DEF NoLower
<1>3. ASSUME Higher(s, u) PROVE h # u
  BY <1>1, <1>3, SMTT(60) DEF Higher
<1> QED BY <1>2, <1>3

\* A block becomes the head.
LEMMA CommitState ==
  ASSUME StateInv, NEW p, NEW txs, NEW root \in States, Commit(p, txs, root),
         UNCHANGED <<autoMine, panicked>>
  PROVE  StateInv'
<1>1. st' = root /\ proposal' = NoBlock /\ autoMine' = autoMine /\ panicked' = panicked
  BY DEF Commit
<1>2. head'.root = root
  BY DEF Commit
<1>3. NoLower(root, root)
  BY NotLowerSelf
<1>4. st' \in States /\ head'.root \in States /\ st' = head'.root
  BY <1>1, <1>2
<1>5. NoLower(head'.root, st')
  BY <1>1, <1>2, <1>3
<1>6. panicked' => autoMine'
  <2>1. panicked => autoMine
    BY DEF StateInv
  <2> QED BY <1>1, <2>1, SMTT(60)
<1> QED BY <1>1, <1>4, <1>5, <1>6 DEF StateInv, StateIsHeads

\* sealReadyFromPoolLocked, whether its block runs or not.
LEMMA SealState ==
  ASSUME StateInv, autoMine, NEW p, NEW txs \in Seq(Txs), Seal(p, txs)
  PROVE  StateInv'
<1> DEFINE run == ExecuteBlockTxs(st, txs)
<1>1. st \in States /\ head.root \in States /\ NoLower(head.root, st) /\ StateIsHeads
  BY DEF StateInv
<1>2. run \in Results /\ RunFacts(st, Len(txs), run)
  BY <1>1, RunKnown
<1>3. run.st \in States /\ run.ran \in Nat
  BY <1>2 DEF Results
<1>4. CASE Commit(p, txs, run.st) /\ UNCHANGED <<autoMine, panicked>>
  BY <1>3, <1>4, CommitState
<1>5. CASE /\ st' = run.st
           /\ panicked' = (panicked \/ run.ran > 0)
           /\ UNCHANGED <<head, proposal, autoMine>>
  <2>1. NoLower(head.root, run.st)
    BY <1>1, <1>2, <1>3, RunLeaves DEF RunFacts
  <2>2. run.ran > 0 \/ run.st = st
    <3>1. run.ran > 0 \/ run.ran = 0
      BY <1>3, SMTT(60)
    <3> QED BY <1>2, <3>1 DEF RunFacts
  <2>3. panicked' \/ st' = head'.root
    BY <1>1, <1>5, <2>2 DEF StateIsHeads
  <2>4. proposal' = NoBlock /\ autoMine'
    BY <1>5 DEF StateInv
  <2> QED BY <1>1, <1>3, <1>5, <2>1, <2>3, <2>4 DEF StateInv, StateIsHeads
<1>6. \/ Commit(p, txs, run.st) /\ UNCHANGED <<autoMine, panicked>>
      \/ /\ st' = run.st
         /\ panicked' = (panicked \/ run.ran > 0)
         /\ UNCHANGED <<head, proposal, autoMine>>
  BY DEF Seal
<1> QED BY <1>4, <1>5, <1>6

\* A step that touches none of it.
LEMMA SameState ==
  ASSUME StateInv, UNCHANGED <<st, head, proposal, autoMine, panicked>>
  PROVE  StateInv'
<1>1. /\ st' = st /\ head' = head /\ proposal' = proposal
      /\ autoMine' = autoMine /\ panicked' = panicked
  OBVIOUS
<1>2. (panicked' => autoMine') /\ (panicked' \/ st' = head'.root)
  <2>1. (panicked => autoMine) /\ (panicked \/ st = head.root)
    BY DEF StateInv, StateIsHeads
  <2> QED BY <1>1, <2>1, SMTT(60)
<1>3. autoMine' => proposal' = NoBlock
  <2>1. autoMine => proposal = NoBlock
    BY DEF StateInv
  <2> QED BY <1>1, <2>1, SMTT(60)
<1> QED BY <1>1, <1>2, <1>3 DEF StateInv, StateIsHeads

\* SendRawTransaction and SendDewRawTransaction, with or without a seal.
LEMMA SubmitState ==
  ASSUME NodeInv, NEW t \in Txs, Submit(t)
  PROVE  StateInv'
<1>1. StateInv /\ st \in States /\ PoolInOrder(pool)
  BY DEF NodeInv, StateInv, PoolConsistent
<1>2. PICK p \in Add(pool, t) :
        \/ /\ autoMine
           /\ \E txs \in IF IsDew(t) THEN SelectPendingDewTxs(p)
                                     ELSE SelectPendingTxs(p, {}) : Seal(p, txs)
        \/ UNCHANGED <<st, head, proposal, autoMine, panicked>>
  BY DEF Submit
<1>3. PoolInOrder(p)
  BY <1>1, AddLosesNothing
<1>4. ASSUME autoMine, NEW txs, Seal(p, txs),
             txs \in SelectPendingTxs(p, {}) \/ txs \in SelectPendingDewTxs(p)
      PROVE  StateInv'
  <2>1. txs \in Seq(Txs)
    BY <1>1, <1>3, <1>4, PendingType
  <2> QED BY <1>1, <1>4, <2>1, SealState
<1> QED BY <1>1, <1>2, <1>4, SameState

\* ImportCommittedBlock, of whichever block.
LEMMA ImportState ==
  ASSUME NodeInv, NEW txs \in Seq(Txs), NEW root, ImportCommittedBlock(txs, root)
  PROVE  StateInv'
<1>1. StateInv /\ st \in States
  BY DEF NodeInv, StateInv
<1>2. ExecuteBlockTxs(st, txs) \in Results
  BY <1>1, RunKnown
<1>3. /\ ExecuteBlockTxs(st, txs).st = root
      /\ Commit(pool, txs, root)
      /\ UNCHANGED <<autoMine, panicked>>
  BY DEF ImportCommittedBlock
<1>4. root \in States
  BY <1>2, <1>3 DEF Results
<1> QED BY <1>1, <1>3, <1>4, CommitState

\* BuildBlockFromPool, on a node that does not seal.
LEMMA BuildState ==
  ASSUME NodeInv, BuildBlockFromPool
  PROVE  StateInv'
<1>1. /\ st \in States /\ head.root \in States /\ NoLower(head.root, st)
      /\ PoolConsistent /\ (panicked \/ st = head.root) /\ (panicked => autoMine)
  BY DEF NodeInv, StateInv, StateIsHeads
<1>2. /\ ~autoMine /\ proposal' \in Proposals
      /\ st' = st /\ head' = head /\ autoMine' = autoMine /\ panicked' = panicked
  BY DEF BuildBlockFromPool
<1>3. ~panicked /\ st = head.root
  BY <1>1, <1>2
<1>4. RunsTo(st, proposal'.txs, proposal'.root)
  BY <1>1, <1>2, <1>3, ProposalRuns
<1>5. ~autoMine' /\ ~panicked'
  BY <1>2, <1>3, SMTT(60)
<1> QED BY <1>1, <1>2, <1>3, <1>4, <1>5 DEF StateInv, StateIsHeads

\* A restart reads the head's state back.
LEMMA RestartState ==
  ASSUME NodeInv, Restart
  PROVE  StateInv'
<1>1. head.root \in States /\ NoLower(head.root, head.root)
  BY NotLowerSelf DEF NodeInv, StateInv
<1>2. st' = head.root /\ head' = head /\ proposal' = NoBlock /\ panicked' = FALSE
  BY DEF Restart
<1>3. ~panicked'
  BY <1>2
<1> QED BY <1>1, <1>2, <1>3 DEF StateInv, StateIsHeads

\* Every step keeps the invariant.
LEMMA NodeStep ==
  ASSUME NodeInv, [Next]_vars
  PROVE  NodeInv'
<1>1. StateInv /\ PoolConsistent /\ st \in States
  BY DEF NodeInv, StateInv
<1>2. SUFFICES StateInv'
  BY <1>1, StepInOrder DEF NodeInv
<1>3. ASSUME NEW t \in Txs, SendRawTransaction(t) \/ SendDewRawTransaction(t)
      PROVE  StateInv'
  BY <1>3, SubmitState DEF SendRawTransaction, SendDewRawTransaction
<1>4. CASE BuildBlockFromPool
  BY <1>4, BuildState
<1>5. CASE ImportOwn
  <2>1. proposal.txs \in Seq(Txs) /\ ImportCommittedBlock(proposal.txs, proposal.root)
    BY <1>5 DEF ImportOwn, NodeInv, StateInv, RunsTo
  <2> QED BY <2>1, ImportState
<1>6. CASE ImportPeers
  <2>1. PICK txs \in PeerBlocks :
          ImportCommittedBlock(txs, ExecuteBlockTxs(head.root, txs).st)
    BY <1>6 DEF ImportPeers
  <2>2. txs \in Seq(Txs)
    BY InclusionAssumption
  <2> QED BY <2>1, <2>2, ImportState
<1>7. CASE Restart
  BY <1>7, RestartState
<1>8. CASE UNCHANGED vars
  <2>1. UNCHANGED <<st, head, proposal, autoMine, panicked>>
    BY <1>8 DEF vars
  <2> QED BY <1>1, <2>1, SameState
<1> QED BY <1>3, <1>4, <1>5, <1>6, <1>7, <1>8 DEF Next

\* It holds when the node starts.
LEMMA NodeInit == Init => NodeInv
<1> SUFFICES ASSUME Init PROVE NodeInv
  OBVIOUS
<1>1. PoolConsistent
  BY EmptyInOrder DEF Init, PoolConsistent
<1>2. Genesis \in States
  <2>1. Funds \in [Accounts -> Int]
    BY InclusionAssumption, SMTT(60)
  <2> QED BY <2>1, SMTT(60) DEF Genesis, States
<1>3. st = Genesis /\ proposal = NoBlock /\ panicked = FALSE
  BY DEF Init
<1>4. head.root = Genesis
  BY DEF Init
<1>5. NoLower(Genesis, Genesis)
  BY <1>2, NotLowerSelf
<1> QED BY <1>1, <1>2, <1>3, <1>4, <1>5 DEF NodeInv, StateInv, StateIsHeads

\* Between handlers a node's state is its head's, until a seal panics halfway:
\* for every pool, every block and every selection.
THEOREM StateStaysHeads == Spec => []StateIsHeads
<1>1. Init => NodeInv
  BY NodeInit
<1>2. NodeInv /\ [Next]_vars => NodeInv'
  BY NodeStep
<1>3. NodeInv => StateIsHeads
  BY DEF NodeInv, StateInv
<1> QED
  BY <1>1, <1>2, <1>3, PTL DEF Spec

\* Whatever BuildBlockFromPool proposes passes ValidateAndExecuteBlock for as
\* long as it stands: dropping what failed leaves a block that still runs.
THEOREM ProposalsAreValid == Spec => []ProposalValidates
<1>1. Init => NodeInv
  BY NodeInit
<1>2. NodeInv /\ [Next]_vars => NodeInv'
  BY NodeStep
<1>3. NodeInv => ProposalValidates
  BY DEF NodeInv, StateInv, ProposalValidates, Validates, RunsTo
<1> QED
  BY <1>1, <1>2, <1>3, PTL DEF Spec

----------------------------------------------------------------------------
(* Pending transactions.                                                   *)

\* What Replaced asks, of what was pending and what is pending or sealed now.
MadeWay(old, now) ==
  \A t \in old \ now :
    /\ old \ now = {t}
    /\ \E e \in now \ old :
         \/ /\ e.from = t.from /\ e.nonce = t.nonce
            /\ Price(e) >= MinReplacePrice(t)
         \/ Price(t) < Price(e)

\* Replaced is about the pool and the sealed block together.
LEMMA ReplacedIs == Replaced <=> MadeWay(pool.byHash, pool'.byHash \cup Sealed)
BY DEF Replaced, MadeWay

\* One call of Pool.add, when all it left in the pool is still there or sealed.
LEMMA AddMakesWay ==
  ASSUME NEW p, PoolInOrder(p), NEW e \in Txs, NEW r \in Add(p, e),
         NEW now, r.byHash \subseteq now
  PROVE  MadeWay(p.byHash, now)
<1>1. \/ r = p
      \/ /\ e \in r.byHash /\ e \notin p.byHash
         /\ \/ r.byHash = p.byHash \cup {e}
            \/ \E t \in p.byHash :
                 /\ r.byHash = (p.byHash \ {t}) \cup {e}
                 /\ \/ /\ t.from = e.from /\ t.nonce = e.nonce
                       /\ Price(e) >= MinReplacePrice(t)
                    \/ Price(t) < Price(e)
  BY AddLosesNothing
<1>2. CASE p.byHash \subseteq r.byHash
  <2>1. p.byHash \ now = {}
    BY <1>2
  <2> QED BY <2>1 DEF MadeWay
<1>3. CASE /\ e \in r.byHash /\ e \notin p.byHash
           /\ \E t \in p.byHash :
                 /\ r.byHash = (p.byHash \ {t}) \cup {e}
                 /\ \/ /\ t.from = e.from /\ t.nonce = e.nonce
                       /\ Price(e) >= MinReplacePrice(t)
                    \/ Price(t) < Price(e)
  <2>1. PICK t \in p.byHash :
           /\ r.byHash = (p.byHash \ {t}) \cup {e}
           /\ \/ /\ t.from = e.from /\ t.nonce = e.nonce
                 /\ Price(e) >= MinReplacePrice(t)
              \/ Price(t) < Price(e)
    BY <1>3
  <2>2. \A u \in p.byHash \ now : u = t
    BY <2>1
  <2>3. e \in now \ p.byHash
    BY <1>3
  <2>4. ASSUME NEW u \in p.byHash \ now
        PROVE  p.byHash \ now = {u}
    BY <2>2
  <2> QED BY <2>1, <2>2, <2>3, <2>4 DEF MadeWay
<1> QED BY <1>1, <1>2, <1>3

\* A block that becomes the head is not the head already, unless it is empty:
\* it raised a nonce.  What it holds leaves the pool.
LEMMA SealedIs ==
  ASSUME StateInv, NEW p, NEW txs \in Seq(Txs),
         ExecuteBlockTxs(st, txs).ok,
         Commit(p, txs, ExecuteBlockTxs(st, txs).st)
  PROVE  /\ Sealed = Range(txs)
         /\ p.byHash \subseteq pool'.byHash \cup Sealed
<1> DEFINE run == ExecuteBlockTxs(st, txs)
<1>1. st \in States /\ head.root \in States /\ NoLower(head.root, st)
  BY DEF StateInv
<1>2. run \in Results /\ RunFacts(st, Len(txs), run) /\ run.ok
  BY <1>1, RunKnown
<1> HIDE DEF run
<1>3. run.st \in States
  BY <1>2 DEF Results
<1>4. head'.txs = txs /\ head'.root = run.st
  BY DEF Commit, run
<1>5. Sealed = Range(txs)
  <2>1. CASE Len(txs) = 0
    <3>1. Range(txs) = {}
      BY <2>1, SMTT(60) DEF Range
    <3> QED BY <1>4, <3>1 DEF Sealed
  <2>2. CASE Len(txs) # 0
    <3>1. Higher(st, run.st)
      BY <1>2, <2>2 DEF RunFacts
    <3>2. head.root # run.st
      BY <1>1, <1>3, <3>1, RunLeaves
    <3>3. head' # head
      BY <1>4, <3>2
    <3> QED BY <1>4, <3>3 DEF Sealed
  <2> QED BY <2>1, <2>2
<1>6. pool'.byHash = p.byHash \ Range(txs)
  BY DEF Commit, RemoveLocked
<1> QED BY <1>5, <1>6

\* Submission: what add left in the pool is there still, or sealed.
LEMMA SubmitReplaces ==
  ASSUME NodeInv, NEW t \in Txs, Submit(t)
  PROVE  Replaced
<1>1. StateInv /\ st \in States /\ PoolInOrder(pool)
  BY DEF NodeInv, StateInv, PoolConsistent
<1>2. PICK p \in Add(pool, t) :
        \/ \E txs \in IF IsDew(t) THEN SelectPendingDewTxs(p)
                                  ELSE SelectPendingTxs(p, {}) : Seal(p, txs)
        \/ pool' = p
  BY DEF Submit
<1>3. PoolInOrder(p)
  BY <1>1, AddLosesNothing
<1>4. p.byHash \subseteq pool'.byHash \cup Sealed
  <2>1. CASE pool' = p
    BY <2>1
  <2>2. ASSUME NEW txs, Seal(p, txs),
               txs \in SelectPendingTxs(p, {}) \/ txs \in SelectPendingDewTxs(p)
        PROVE  p.byHash \subseteq pool'.byHash \cup Sealed
    <3>1. txs \in Seq(Txs)
      BY <1>1, <1>3, <2>2, PendingType
    <3>2. \/ pool' = p
          \/ ExecuteBlockTxs(st, txs).ok /\ Commit(p, txs, ExecuteBlockTxs(st, txs).st)
      BY <2>2 DEF Seal
    <3> QED BY <1>1, <2>1, <3>1, <3>2, SealedIs
  <2> QED BY <1>2, <2>1, <2>2
<1>5. MadeWay(pool.byHash, pool'.byHash \cup Sealed)
  BY <1>1, <1>4, AddMakesWay
<1> QED BY <1>5, ReplacedIs

\* Import: all that leaves the pool is in the block.
LEMMA ImportReplaces ==
  ASSUME NodeInv, NEW txs \in Seq(Txs), NEW root, ImportCommittedBlock(txs, root)
  PROVE  Replaced
<1>1. StateInv
  BY DEF NodeInv
<1>2. ExecuteBlockTxs(st, txs).ok /\ Commit(pool, txs, ExecuteBlockTxs(st, txs).st)
  BY DEF ImportCommittedBlock
<1>3. pool.byHash \subseteq pool'.byHash \cup Sealed
  BY <1>1, <1>2, SealedIs
<1>4. pool.byHash \ (pool'.byHash \cup Sealed) = {}
  BY <1>3
<1> QED BY <1>4 DEF Replaced

\* Every step but a restart.
LEMMA StepReplaces ==
  ASSUME NodeInv, [Next]_vars
  PROVE  [Restart \/ Replaced]_vars
<1>1. ASSUME NEW t \in Txs, SendRawTransaction(t) \/ SendDewRawTransaction(t)
      PROVE  Replaced
  BY <1>1, SubmitReplaces DEF SendRawTransaction, SendDewRawTransaction
<1>2. ASSUME BuildBlockFromPool PROVE Replaced
  <2>1. pool' = pool
    BY <1>2 DEF BuildBlockFromPool
  <2>2. pool.byHash \ (pool'.byHash \cup Sealed) = {}
    BY <2>1
  <2> QED BY <2>2 DEF Replaced
<1>3. ASSUME ImportOwn PROVE Replaced
  <2>1. proposal.txs \in Seq(Txs) /\ ImportCommittedBlock(proposal.txs, proposal.root)
    BY <1>3 DEF ImportOwn, NodeInv, StateInv, RunsTo
  <2> QED BY <2>1, ImportReplaces
<1>4. ASSUME ImportPeers PROVE Replaced
  <2>1. PICK txs \in PeerBlocks :
          ImportCommittedBlock(txs, ExecuteBlockTxs(head.root, txs).st)
    BY <1>4 DEF ImportPeers
  <2>2. txs \in Seq(Txs)
    BY InclusionAssumption
  <2> QED BY <2>1, <2>2, ImportReplaces
<1> QED BY <1>1, <1>2, <1>3, <1>4 DEF Next

\* While the process runs, a pending transaction leaves the pool only into a
\* block or for exactly one newcomer at the price Pool.add asks, for every
\* pool, every limit and every order of submissions, seals and imports.
THEOREM NothingIsLost == Spec => NothingLost
<1>1. Init => NodeInv
  BY NodeInit
<1>2. NodeInv /\ [Next]_vars => NodeInv'
  BY NodeStep
<1>3. NodeInv /\ [Next]_vars => [Restart \/ Replaced]_vars
  BY StepReplaces
<1> QED
  BY <1>1, <1>2, <1>3, PTL DEF Spec, NothingLost
=============================================================================
