-------------------------- MODULE OrderBookProofs ---------------------------
(***************************************************************************)
(* Proofs about OrderBook, for any makers, tokens, prices and bounds: the  *)
(* open lists and the open counts are those of the open orders, what is    *)
(* left of an order after a fill stays covered by the lock it was placed   *)
(* with, the module holds what its accounts add up to, every account       *)
(* covers its maker's open orders, and the best order of a list is found.  *)
(***************************************************************************)
EXTENDS OrderBook, SumTheorems

\* A leaf is for Zenon unless it names another prover.
USE ZenonT(90)

OrderT == [maker : Makers, token : Tokens, side : Sides, price : Nat, open : Nat,
           orig : Nat, status : {"open", "filled", "cancelled"}]

BookT ==
  /\ order \in Seq(OrderT)
  /\ openCount \in [Makers -> Nat]
  /\ open \in [Tokens -> [Sides -> Seq(Nat)]]

ListOK(list, S) == IsInjective(list) /\ Range(list) = S

Lists == \A t \in Tokens, s \in Sides : ListOK(open[t][s], OpenOn(t, s))

Counts == \A m \in Makers : /\ openCount[m] = Cardinality(OpenOf(m))
                            /\ openCount[m] <= MaxOpenPerMaker

\* The inductive invariant.  The types are needed for the ids: a new one is
\* in no list because every list holds indexes of the order table.
BookInv == BookT /\ Lists /\ Counts

----------------------------------------------------------------------------
(* Lists.                                                                  *)

\* addOpenIndex: a new id is added once.
LEMMA AppendOK ==
  ASSUME NEW list \in Seq(Nat), NEW S, NEW id \in Nat, ListOK(list, S), id \notin S
  PROVE  ListOK(Append(list, id), S \cup {id}) /\ Append(list, id) \in Seq(Nat)
<1> DEFINE l == Append(list, id)
<1>1. l \in Seq(Nat) /\ Len(l) = Len(list) + 1 /\ l[Len(list) + 1] = id
      /\ Len(list) \in Nat /\ DOMAIN l = 1 .. Len(l) /\ DOMAIN list = 1 .. Len(list)
      /\ \A i \in 1 .. Len(list) : l[i] = list[i]
  BY SMTT(60)
<1>2. \A i \in 1 .. Len(list) : list[i] # id
  BY <1>1 DEF ListOK, Range
<1> HIDE DEF l
<1>3. IsInjective(l)
  BY <1>1, <1>2, SMTT(60) DEF ListOK, IsInjective
<1>4. Range(l) = S \cup {id}
  <2>1. ASSUME NEW x \in Range(l) PROVE x \in S \cup {id}
    <3>1. PICK i \in 1 .. Len(l) : x = l[i]
      BY <1>1, <2>1 DEF Range
    <3>2. CASE i = Len(list) + 1
      BY <3>1, <3>2, <1>1
    <3>3. CASE i \in 1 .. Len(list)
      BY <3>1, <3>3, <1>1 DEF ListOK, Range
    <3> QED BY <3>2, <3>3, <1>1, SMTT(60)
  <2>2. ASSUME NEW x \in S \cup {id} PROVE x \in Range(l)
    <3>1. CASE x = id
      <4>1. Len(list) + 1 \in 1 .. Len(l)
        BY <1>1, SMTT(60)
      <4> QED BY <3>1, <4>1, <1>1 DEF Range
    <3>2. CASE x \in S
      <4>1. PICK i \in 1 .. Len(list) : x = list[i]
        BY <3>2, <1>1 DEF ListOK, Range
      <4>2. i \in 1 .. Len(l) /\ l[i] = x
        BY <4>1, <1>1, SMTT(60)
      <4> QED BY <4>2, <1>1 DEF Range
    <3> QED BY <3>1, <3>2
  <2> QED BY <2>1, <2>2
<1> QED BY <1>1, <1>3, <1>4 DEF ListOK, l

\* removeOpenIndex: swap-removal takes exactly the id out.
LEMMA RemoveOK ==
  ASSUME NEW list \in Seq(Nat), NEW S, NEW id \in S, ListOK(list, S)
  PROVE  ListOK(RemoveOpenIndex(list, id), S \ {id}) /\ RemoveOpenIndex(list, id) \in Seq(Nat)
<1> DEFINE n == Len(list)
           at == CHOOSE i \in 1 .. n : list[i] = id
           l == [j \in 1 .. n - 1 |-> IF j = at THEN list[n] ELSE list[j]]
<1>1. n \in Nat /\ DOMAIN list = 1 .. n /\ \A i \in 1 .. n : list[i] \in Nat
  BY SMTT(60)
<1>2. \E i \in 1 .. n : list[i] = id
  BY <1>1 DEF ListOK, Range
<1>3. at \in 1 .. n /\ list[at] = id
  BY <1>2
<1>4. RemoveOpenIndex(list, id) = l
  BY <1>2 DEF RemoveOpenIndex
<1>5. n - 1 \in Nat /\ n \in 1 .. n
  BY <1>1, <1>3, SMTT(60)
<1> HIDE DEF n, at
<1>6. DOMAIN l = 1 .. n - 1 /\ \A j \in 1 .. n - 1 : l[j] \in Nat
  BY <1>1, <1>5, SMTT(60)
<1>7. l \in Seq(Nat)
  <2>1. l \in [1 .. n - 1 -> Nat]
    BY <1>1, <1>5, SMTT(60)
  <2> QED BY <2>1, <1>5, SMTT(60)
<1>8. \A i, j \in 1 .. n : list[i] = list[j] => i = j
  BY <1>1 DEF ListOK, IsInjective
<1>9. \A j \in 1 .. n - 1 : l[j] = IF j = at THEN list[n] ELSE list[j]
  OBVIOUS
<1> HIDE DEF l
<1>10. IsInjective(l)
  <2> SUFFICES ASSUME NEW i \in 1 .. n - 1, NEW j \in 1 .. n - 1, l[i] = l[j] PROVE i = j
    BY <1>6 DEF IsInjective
  <2>1. i \in 1 .. n /\ j \in 1 .. n /\ i # n /\ j # n
    BY <1>1, <1>5, SMTT(60)
  <2> QED BY <2>1, <1>5, <1>8, <1>9
<1>11. Range(l) = S \ {id}
  <2>1. ASSUME NEW x \in Range(l) PROVE x \in S \ {id}
    <3>1. PICK j \in 1 .. n - 1 : x = l[j]
      BY <1>6, <2>1 DEF Range
    <3>2. j \in 1 .. n /\ j # n
      BY <1>1, <1>5, SMTT(60)
    <3>3. \E i \in 1 .. n : x = list[i] /\ i # at
      BY <3>1, <3>2, <1>5, <1>9
    <3> QED BY <3>3, <1>1, <1>3, <1>8 DEF ListOK, Range
  <2>2. ASSUME NEW x \in S \ {id} PROVE x \in Range(l)
    <3>1. PICK i \in 1 .. n : x = list[i]
      BY <1>1 DEF ListOK, Range
    <3>2. i # at
      BY <3>1, <1>3
    <3>3. \E j \in 1 .. n - 1 : x = l[j]
      <4>1. CASE i = n
        BY <4>1, <3>1, <3>2, <1>1, <1>3, <1>9, SMTT(60)
      <4>2. CASE i # n
        BY <4>2, <3>1, <3>2, <1>1, <1>9, SMTT(60)
      <4> QED BY <4>1, <4>2
    <3> QED BY <3>3, <1>6 DEF Range
  <2> QED BY <2>1, <2>2
<1> QED BY <1>4, <1>7, <1>10, <1>11 DEF ListOK

----------------------------------------------------------------------------
(* The parts of the calls.                                                 *)

\* The open orders of a maker are finitely many.
LEMMA OfFinite ==
  ASSUME BookT, NEW m
  PROVE  IsFiniteSet(OpenOf(m))
<1>1. DOMAIN order = 1 .. Len(order) /\ Len(order) \in Nat
  BY SMTT(60) DEF BookT
<1>2. OpenOf(m) \subseteq 1 .. Len(order)
  BY <1>1 DEF OpenOf
<1>3. IsFiniteSet(1 .. Len(order))
  BY <1>1, FS_Interval, SMTT(60)
<1> QED BY <1>2, <1>3, FS_Subset

\* An order that is placed joins its list and its maker's count.
LEMMA WriteOK ==
  ASSUME BookInv, NEW m \in Makers, NEW t \in Tokens, NEW side \in Sides,
         NEW price \in Nat, NEW base \in Nat, openCount[m] < MaxOpenPerMaker,
         WriteNewOrder(m, t, side, price, base)
  PROVE  BookInv'
<1> DEFINE ord == [maker |-> m, token |-> t, side |-> side, price |-> price,
                   open |-> base, orig |-> base, status |-> "open"]
           id == Len(order) + 1
<1>1. BookT /\ Lists /\ Counts
  BY DEF BookInv
<1>2. /\ order' = Append(order, ord)
      /\ openCount' = [openCount EXCEPT ![m] = @ + 1]
      /\ open' = [open EXCEPT ![t][side] = Append(@, id)]
  BY DEF WriteNewOrder
<1>3. ord \in OrderT
  BY DEF OrderT
<1>4. ord.status = "open" /\ ord.token = t /\ ord.side = side /\ ord.maker = m
  OBVIOUS
<1> HIDE DEF ord
<1>5. /\ order' \in Seq(OrderT)
      /\ DOMAIN order = 1 .. Len(order) /\ Len(order) \in Nat
      /\ DOMAIN order' = 1 .. id
      /\ order'[id] = ord /\ \A i \in 1 .. Len(order) : order'[i] = order[i]
  BY <1>1, <1>2, <1>3, SMTT(60) DEF BookT
<1>6. DOMAIN order' = (DOMAIN order) \cup {id} /\ id \notin DOMAIN order /\ id \in Nat
      /\ \A i \in DOMAIN order : order'[i] = order[i]
  BY <1>5, SMTT(60)
<1> HIDE DEF id
<1>7. OpenOn(t, side)' = OpenOn(t, side) \cup {id} /\ id \notin OpenOn(t, side)
  BY <1>4, <1>5, <1>6 DEF OpenOn
<1>8. \A u \in Tokens, s \in Sides : ~(u = t /\ s = side) => OpenOn(u, s)' = OpenOn(u, s)
  BY <1>4, <1>5, <1>6 DEF OpenOn
<1>9. OpenOf(m)' = OpenOf(m) \cup {id} /\ id \notin OpenOf(m)
  BY <1>4, <1>5, <1>6 DEF OpenOf
<1>10. \A n \in Makers : n # m => OpenOf(n)' = OpenOf(n)
  BY <1>4, <1>5, <1>6 DEF OpenOf
<1>11. open' \in [Tokens -> [Sides -> Seq(Nat)]] /\ Lists'
  <2>1. open[t] \in [Sides -> Seq(Nat)] /\ open[t][side] \in Seq(Nat)
        /\ ListOK(open[t][side], OpenOn(t, side))
    BY <1>1 DEF BookT, Lists
  <2>2. ListOK(Append(open[t][side], id), OpenOn(t, side) \cup {id})
        /\ Append(open[t][side], id) \in Seq(Nat)
    BY <2>1, <1>6, <1>7, AppendOK
  <2> DEFINE row == [open[t] EXCEPT ![side] = Append(open[t][side], id)]
  <2>3. row \in [Sides -> Seq(Nat)] /\ row[side] = Append(open[t][side], id)
        /\ \A s \in Sides : s # side => row[s] = open[t][s]
    BY <2>1, <2>2
  <2>4. open' = [open EXCEPT ![t] = row]
    BY <1>2
  <2> HIDE DEF row
  <2>5. open' \in [Tokens -> [Sides -> Seq(Nat)]] /\ open'[t] = row
        /\ \A u \in Tokens : u # t => open'[u] = open[u]
    BY <1>1, <2>3, <2>4 DEF BookT
  <2>6. ASSUME NEW u \in Tokens, NEW s \in Sides PROVE ListOK(open'[u][s], OpenOn(u, s)')
    <3>1. CASE u = t /\ s = side
      BY <3>1, <2>2, <2>3, <2>5, <1>7
    <3>2. CASE ~(u = t /\ s = side)
      <4>1. open'[u][s] = open[u][s] /\ ListOK(open[u][s], OpenOn(u, s))
        BY <3>2, <2>3, <2>5, <1>1 DEF Lists
      <4> QED BY <3>2, <4>1, <1>8
    <3> QED BY <3>1, <3>2
  <2> QED BY <2>5, <2>6 DEF Lists, ListOK
<1>12. openCount' \in [Makers -> Nat] /\ Counts'
  <2>1. Cardinality(OpenOf(m)') = Cardinality(OpenOf(m)) + 1
    <3>1. IsFiniteSet(OpenOf(m))
      BY <1>1, OfFinite
    <3>2. Cardinality(OpenOf(m) \cup {id}) =
            IF id \in OpenOf(m) THEN Cardinality(OpenOf(m)) ELSE Cardinality(OpenOf(m)) + 1
      BY <3>1, FS_AddElement, ZenonT(40)
    <3> QED BY <3>2, <1>9
  <2>2. /\ openCount'[m] = openCount[m] + 1 /\ openCount[m] \in Nat
        /\ \A n \in Makers : n # m => openCount'[n] = openCount[n]
        /\ openCount' \in [Makers -> Nat]
    BY <1>1, <1>2, SMTT(60) DEF BookT
  <2>3. openCount[m] + 1 <= MaxOpenPerMaker
    BY <2>2, OrderBookAssumption, SMTT(60)
  <2> QED BY <2>1, <2>2, <2>3, <1>1, <1>10 DEF Counts
<1> QED BY <1>5, <1>11, <1>12 DEF BookInv, BookT

\* An order that closes leaves its list and its maker's count, and no other.
LEMMA CloseOK ==
  ASSUME BookInv, NEW id, IsOpen(id), NEW status \in {"filled", "cancelled"},
         Close(id, status)
  PROVE  BookInv'
<1> DEFINE ord == order[id]
           new == [ord EXCEPT !.status = status, !.open = 0]
<1>1. BookT /\ Lists /\ Counts
  BY DEF BookInv
<1> PICK m, t, side : m = ord.maker /\ t = ord.token /\ side = ord.side
  OBVIOUS
<1>2. /\ order' = [order EXCEPT ![id] = new]
      /\ openCount' = [openCount EXCEPT ![m] = DecOpenCount(@)]
      /\ open' = [open EXCEPT ![t][side] = RemoveOpenIndex(@, id)]
  BY DEF Close
<1>3. id \in DOMAIN order /\ ord.status = "open"
  BY DEF IsOpen
<1>4. ord \in OrderT /\ DOMAIN order = 1 .. Len(order) /\ Len(order) \in Nat
  BY <1>1, <1>3, SMTT(60) DEF BookT
<1>5. m \in Makers /\ t \in Tokens /\ side \in Sides /\ new \in OrderT /\ new.status # "open"
  BY <1>4 DEF OrderT
<1>6. order' \in Seq(OrderT) /\ DOMAIN order' = DOMAIN order /\ order'[id] = new
      /\ \A i \in DOMAIN order : i # id => order'[i] = order[i]
  BY <1>1, <1>2, <1>3, <1>5, SMTT(60) DEF BookT
<1> HIDE DEF new
<1>7. OpenOn(t, side)' = OpenOn(t, side) \ {id} /\ id \in OpenOn(t, side)
  BY <1>3, <1>5, <1>6 DEF OpenOn
<1>8. \A u \in Tokens, s \in Sides : ~(u = t /\ s = side) => OpenOn(u, s)' = OpenOn(u, s)
  BY <1>3, <1>5, <1>6 DEF OpenOn
<1>9. OpenOf(m)' = OpenOf(m) \ {id} /\ id \in OpenOf(m)
  BY <1>3, <1>5, <1>6 DEF OpenOf
<1>10. \A n \in Makers : n # m => OpenOf(n)' = OpenOf(n)
  BY <1>3, <1>5, <1>6 DEF OpenOf
<1>11. open' \in [Tokens -> [Sides -> Seq(Nat)]] /\ Lists'
  <2>1. open[t] \in [Sides -> Seq(Nat)] /\ open[t][side] \in Seq(Nat)
        /\ ListOK(open[t][side], OpenOn(t, side))
    BY <1>1, <1>5 DEF BookT, Lists
  <2> DEFINE list == RemoveOpenIndex(open[t][side], id)
  <2>2. ListOK(list, OpenOn(t, side) \ {id}) /\ list \in Seq(Nat)
    BY <2>1, <1>7, RemoveOK
  <2>3. open' = [open EXCEPT ![t][side] = list]
    BY <1>2
  <2> HIDE DEF list
  <2> DEFINE row == [open[t] EXCEPT ![side] = list]
  <2>4. row \in [Sides -> Seq(Nat)] /\ row[side] = list
        /\ \A s \in Sides : s # side => row[s] = open[t][s]
    BY <2>1, <2>2, <1>5
  <2>5. open' = [open EXCEPT ![t] = row]
    BY <2>3
  <2> HIDE DEF row
  <2>6. open' \in [Tokens -> [Sides -> Seq(Nat)]] /\ open'[t] = row
        /\ \A u \in Tokens : u # t => open'[u] = open[u]
    BY <1>1, <1>5, <2>4, <2>5 DEF BookT
  <2>7. ASSUME NEW u \in Tokens, NEW s \in Sides PROVE ListOK(open'[u][s], OpenOn(u, s)')
    <3>1. CASE u = t /\ s = side
      BY <3>1, <2>2, <2>4, <2>6, <1>7
    <3>2. CASE ~(u = t /\ s = side)
      <4>1. open'[u][s] = open[u][s] /\ ListOK(open[u][s], OpenOn(u, s))
        BY <3>2, <2>4, <2>6, <1>1 DEF Lists
      <4> QED BY <3>2, <4>1, <1>8
    <3> QED BY <3>1, <3>2
  <2> QED BY <2>6, <2>7 DEF Lists, ListOK
<1>12. openCount' \in [Makers -> Nat] /\ Counts'
  <2>1. Cardinality(OpenOf(m)') = Cardinality(OpenOf(m)) - 1 /\ Cardinality(OpenOf(m)) \in Nat
    <3>1. IsFiniteSet(OpenOf(m)) /\ Cardinality(OpenOf(m)) \in Nat
      BY <1>1, OfFinite, FS_CardinalityType
    <3>2. Cardinality(OpenOf(m) \ {id}) =
            IF id \in OpenOf(m) THEN Cardinality(OpenOf(m)) - 1 ELSE Cardinality(OpenOf(m))
      BY <3>1, FS_RemoveElement, ZenonT(40)
    <3> QED BY <3>1, <3>2, <1>9
  <2>2. openCount[m] \in Nat /\ openCount[m] = Cardinality(OpenOf(m))
        /\ openCount[m] <= MaxOpenPerMaker
    BY <1>1, <1>5 DEF BookT, Counts
  <2>3. openCount[m] # 0
    <3>1. IsFiniteSet(OpenOf(m)) /\ OpenOf(m) # {}
      BY <1>1, <1>9, OfFinite
    <3> QED BY <3>1, <2>2, FS_EmptySet
  <2>4. /\ openCount'[m] = openCount[m] - 1
        /\ \A n \in Makers : n # m => openCount'[n] = openCount[n]
        /\ openCount' \in [Makers -> Nat]
    BY <1>1, <1>2, <1>5, <2>2, <2>3, SMTT(60) DEF BookT, DecOpenCount
  <2>5. openCount'[m] <= MaxOpenPerMaker
    BY <2>2, <2>4, OrderBookAssumption, SMTT(60)
  <2> QED BY <2>1, <2>2, <2>4, <2>5, <1>1, <1>10 DEF Counts
<1> QED BY <1>6, <1>11, <1>12 DEF BookInv, BookT

\* A fill shrinks an order or closes it.
LEMMA ReduceOK ==
  ASSUME BookInv, NEW id, IsOpen(id), NEW maxBase \in Nat,
         Reduce(id, Filled(id, maxBase))
  PROVE  BookInv'
<1> DEFINE base == Filled(id, maxBase)
           new == [order[id] EXCEPT !.open = @ - base]
<1>1. CASE order[id].open = base
  <2>1. Close(id, "filled")
    BY <1>1 DEF Reduce
  <2> QED BY <2>1, CloseOK
<1>2. CASE order[id].open # base
  <2>1. BookT /\ Lists /\ Counts /\ id \in DOMAIN order
    BY DEF BookInv, IsOpen
  <2>2. order' = [order EXCEPT ![id] = new] /\ openCount' = openCount /\ open' = open
    BY <1>2 DEF Reduce
  <2>3. order[id] \in OrderT /\ DOMAIN order = 1 .. Len(order) /\ Len(order) \in Nat
    BY <2>1, SMTT(60) DEF BookT
  <2>4. order[id].open \in Nat /\ order[id].open - base \in Nat
    <3>1. order[id].open \in Nat
      BY <2>3 DEF OrderT
    <3> QED BY <3>1, SMTT(60) DEF Filled
  <2> HIDE DEF base
  <2>5. new \in OrderT /\ new.status = order[id].status /\ new.token = order[id].token
        /\ new.side = order[id].side /\ new.maker = order[id].maker
    BY <2>3, <2>4 DEF OrderT
  <2> HIDE DEF new
  <2>6. order' \in Seq(OrderT) /\ DOMAIN order' = DOMAIN order /\ order'[id] = new
        /\ \A i \in DOMAIN order : i # id => order'[i] = order[i]
    BY <2>1, <2>2, <2>3, <2>5, SMTT(60) DEF BookT
  <2>7. \A t, s : OpenOn(t, s)' = OpenOn(t, s)
    BY <2>5, <2>6 DEF OpenOn
  <2>8. \A m : OpenOf(m)' = OpenOf(m)
    BY <2>5, <2>6 DEF OpenOf
  <2> QED BY <2>1, <2>2, <2>6, <2>7, <2>8 DEF BookInv, BookT, Lists, Counts
<1> QED BY <1>1, <1>2

----------------------------------------------------------------------------
(* The calls.                                                              *)

\* The empty book is indexed.
LEMMA InitOK == Init => BookInv
<1> SUFFICES ASSUME Init PROVE BookInv
  OBVIOUS
<1>1. order = <<>> /\ openCount = [m \in Makers |-> 0]
      /\ open = [t \in Tokens |-> [s \in Sides |-> <<>>]]
  BY DEF Init
<1>2. BookT
  BY <1>1, SMTT(60) DEF BookT
<1>3. \A t, s : OpenOn(t, s) = {}
  BY <1>1, SMTT(60) DEF OpenOn
<1>4. \A m : OpenOf(m) = {}
  BY <1>1, SMTT(60) DEF OpenOf
<1>5. ListOK(<<>>, {})
  BY SMTT(60) DEF ListOK, IsInjective, Range
<1>6. Lists
  BY <1>1, <1>3, <1>5 DEF Lists
<1>7. Counts
  <2>1. Cardinality({}) = 0
    BY FS_EmptySet
  <2>2. \A m \in Makers : Cardinality(OpenOf(m)) = 0
    BY <1>4, <2>1, ZenonT(40)
  <2>3. \A m \in Makers : openCount[m] = 0
    BY <1>1
  <2>4. 0 <= MaxOpenPerMaker
    BY OrderBookAssumption, SMTT(60)
  <2> QED BY <2>2, <2>3, <2>4 DEF Counts
<1> QED BY <1>2, <1>6, <1>7 DEF BookInv

\* Every call keeps the book indexed.
LEMMA NextOK == BookInv /\ [Next]_vars => BookInv'
<1> SUFFICES ASSUME BookInv, [Next]_vars PROVE BookInv'
  OBVIOUS
<1>1. ASSUME NEW m \in Makers, NEW t \in Tokens, NEW price \in Prices, NEW base \in Amounts,
             PlaceBuy(m, t, price, base)
      PROVE  BookInv'
  BY <1>1, WriteOK, OrderBookAssumption DEF PlaceBuy, MayPlace, Sides
<1>2. ASSUME NEW m \in Makers, NEW t \in Tokens, NEW price \in Prices, NEW base \in Amounts,
             PlaceSell(m, t, price, base)
      PROVE  BookInv'
  BY <1>2, WriteOK, OrderBookAssumption DEF PlaceSell, MayPlace, Sides
<1>3. ASSUME NEW id \in 1 .. MaxOrders, CancelBuy(id) \/ CancelSell(id)
      PROVE  BookInv'
  BY <1>3, CloseOK DEF CancelBuy, CancelSell
<1>4. ASSUME NEW id \in 1 .. MaxOrders, NEW maxBase \in Amounts,
             FillBuy(id, maxBase) \/ FillSell(id, maxBase)
      PROVE  BookInv'
  BY <1>4, ReduceOK, OrderBookAssumption DEF FillBuy, FillSell
<1>5. CASE UNCHANGED vars
  BY <1>5 DEF vars, book, BookInv, BookT, Lists, Counts, OpenOn, OpenOf
<1> QED BY <1>1, <1>2, <1>3, <1>4, <1>5 DEF Next

\* However orders are placed, cancelled and filled, and whichever calls are
\* reverted, the open lists name exactly the open orders, each once, and the
\* open counts count them and stay within the limit.
THEOREM BookStaysIndexed == Spec => []IndexIsExact
<1>1. BookInv => IndexIsExact
  BY DEF BookInv, Lists, Counts, ListOK, IndexIsExact
<1> QED BY <1>1, InitOK, NextOK, PTL DEF Spec

----------------------------------------------------------------------------
(* The rounding of quotes.                                                 *)

\* Division by d: the quotient is the only number between these bounds.
LEMMA DivBounds ==
  ASSUME NEW n \in Nat, NEW d \in Nat \ {0}
  PROVE  /\ n \div d \in Nat
         /\ d * (n \div d) <= n
         /\ n < d * (n \div d) + d
BY SMTT(60)

\* A quote that fits in a word is not cut.
LEMMA NotCut ==
  ASSUME NEW n \in Nat, n < Scale * Word
  PROVE  (n \div Scale) % Word = n \div Scale
<1>1. Scale \in Nat \ {0} /\ Word \in Nat \ {0}
  BY OrderBookAssumption
<1> DEFINE q == n \div Scale
<1>2. q \in Nat /\ Scale * q <= n
  BY <1>1, DivBounds
<1> HIDE DEF q
<1>3. q < Word
  <2> SUFFICES ASSUME Word <= q PROVE FALSE
    BY <1>1, <1>2, SMTT(60)
  <2>1. Scale * Word <= Scale * q
    BY <1>1, <1>2, SMTT(60)
  <2> QED BY <2>1, <1>1, <1>2, SMTT(60)
<1>4. q % Word = q
  BY <1>1, <1>2, <1>3, SMTT(60)
<1> QED BY <1>4 DEF q

\* A fill pays the floor, the rest of the order needs the ceiling, and the
\* two are the ceiling the order needed before, or one wei less.  So a fill
\* leaves an order as covered as it was (EscrowCoversOrders), and strands at
\* most one wei, at any price, as long as the quote fits.
THEOREM FillKeepsCover ==
  ASSUME NEW open0 \in Nat, NEW base \in 0 .. open0, NEW price \in Nat,
         open0 * price + Scale - 1 < Scale * Word
  PROVE  /\ QuoteFloor(base, price) + QuoteLockCeil(open0 - base, price)
              <= QuoteLockCeil(open0, price)
         /\ QuoteLockCeil(open0, price)
              <= QuoteFloor(base, price) + QuoteLockCeil(open0 - base, price) + 1
<1> DEFINE d == Scale
           x == base * price
           y == (open0 - base) * price
           a == x \div d
           c == (y + d - 1) \div d
           e == (x + y + d - 1) \div d
<1>1. d \in Nat \ {0} /\ Word \in Nat \ {0}
  BY OrderBookAssumption
<1>2. base \in Nat /\ open0 - base \in Nat
  BY SMTT(60)
<1>3. x \in Nat /\ y \in Nat
  BY <1>2, SMTT(60)
<1>4. x + y = open0 * price
  BY <1>2, SMTT(60)
<1>5. x < d * Word /\ y + d - 1 < d * Word /\ x + y + d - 1 < d * Word
      /\ y + d - 1 \in Nat /\ x + y + d - 1 \in Nat
  <2>1. x + y + d - 1 < Scale * Word
    BY <1>4
  <2> HIDE DEF x, y
  <2>2. Scale * Word \in Nat
    BY <1>1, SMTT(60)
  <2> QED BY <2>1, <2>2, <1>1, <1>3, SMTT(60)
<1>6. QuoteFloor(base, price) = a /\ QuoteLockCeil(open0 - base, price) = c
  <2>1. QuoteFloor(base, price) = (x \div d) % Word
        /\ QuoteLockCeil(open0 - base, price) = ((y + d - 1) \div d) % Word
    BY DEF QuoteFloor, QuoteLockCeil
  <2> HIDE DEF x, y
  <2> QED BY <2>1, <1>3, <1>5, NotCut
<1>7. QuoteLockCeil(open0, price) = e
  <2>1. QuoteLockCeil(open0, price) = ((x + y + d - 1) \div d) % Word
    <3>1. QuoteLockCeil(open0, price) = ((open0 * price + d - 1) \div d) % Word
      BY DEF QuoteLockCeil
    <3> HIDE DEF x, y
    <3> QED BY <3>1, <1>4
  <2> HIDE DEF x, y
  <2> QED BY <2>1, <1>5, NotCut
<1> HIDE DEF x, y
<1>8. a \in Nat /\ d * a <= x /\ x < d * a + d
  BY <1>1, <1>3, DivBounds
<1>9. c \in Nat /\ d * c <= y + d - 1 /\ y + d - 1 < d * c + d
  BY <1>1, <1>5, DivBounds
<1>10. e \in Nat /\ d * e <= x + y + d - 1 /\ x + y + d - 1 < d * e + d
  BY <1>1, <1>5, DivBounds
<1> HIDE DEF a, c, e, d
<1>11. d * (a + c) = d * a + d * c /\ d * (e + 1) = d * e + d /\ d * (a + c + 2) = d * a + d * c + 2 * d
  BY <1>1, <1>8, <1>9, <1>10, SMTT(60)
<1>12. a + c <= e
  <2> SUFFICES ASSUME e + 1 <= a + c PROVE FALSE
    BY <1>8, <1>9, <1>10, SMTT(60)
  <2>1. d * (e + 1) <= d * (a + c)
    BY <1>1, <1>8, <1>9, <1>10, SMTT(60)
  <2> DEFINE da == d * a
             dc == d * c
             de == d * e
  <2>2. da \in Nat /\ dc \in Nat /\ de \in Nat
    BY <1>1, <1>8, <1>9, <1>10, SMTT(60)
  <2>3. de + d <= da + dc /\ da <= x /\ dc <= y + d - 1 /\ x + y + d - 1 < de + d
    BY <2>1, <1>8, <1>9, <1>10, <1>11
  <2> HIDE DEF da, dc, de
  <2> QED BY <2>2, <2>3, <1>1, <1>3, SMTT(60)
<1>13. e <= a + c + 1
  <2> SUFFICES ASSUME a + c + 2 <= e PROVE FALSE
    BY <1>8, <1>9, <1>10, SMTT(60)
  <2>1. d * (a + c + 2) <= d * e
    BY <1>1, <1>8, <1>9, <1>10, SMTT(60)
  <2> DEFINE da == d * a
             dc == d * c
             de == d * e
  <2>2. da \in Nat /\ dc \in Nat /\ de \in Nat
    BY <1>1, <1>8, <1>9, <1>10, SMTT(60)
  <2>3. da + dc + 2 * d <= de /\ x < da + d /\ y + d - 1 < dc + d /\ de <= x + y + d - 1
    BY <2>1, <1>8, <1>9, <1>10, <1>11
  <2> HIDE DEF da, dc, de
  <2> QED BY <2>2, <2>3, <1>1, <1>3, SMTT(60)
<1> QED BY <1>6, <1>7, <1>12, <1>13

----------------------------------------------------------------------------
(* Solvency.                                                               *)

\* The types of the amounts.
MoneyT ==
  /\ escrowQ \in [Makers -> Nat] /\ escrowB \in [Makers -> [Tokens -> Nat]]
  /\ bal \in Nat /\ held \in [Tokens -> Nat]
  /\ ghostQ \in Nat /\ ghostB \in [Tokens -> Nat]
  /\ fills \in [Makers -> Nat]

\* A quote is a natural below Word.
LEMMA QuoteType ==
  ASSUME NEW base \in Nat, NEW price \in Nat
  PROVE  QuoteFloor(base, price) \in Nat /\ QuoteLockCeil(base, price) \in Nat
<1>1. Scale \in Nat \ {0} /\ Word \in Nat \ {0}
  BY OrderBookAssumption
<1>2. \A n \in Nat : (n \div Scale) % Word \in Nat
  <2> TAKE n \in Nat
  <2>1. n \div Scale \in Nat
    BY <1>1, SMTT(60)
  <2> QED BY <1>1, <2>1, SMTT(60)
<1> DEFINE n == base * price
<1>3. n \in Nat
  BY SMTT(60)
<1>4. QuoteFloor(base, price) = (n \div Scale) % Word
      /\ QuoteLockCeil(base, price) = ((n + Scale - 1) \div Scale) % Word
  BY DEF QuoteFloor, QuoteLockCeil
<1> HIDE DEF n
<1>5. n + Scale - 1 \in Nat
  BY <1>1, <1>3, SMTT(60)
<1> QED BY <1>2, <1>3, <1>4, <1>5

\* What an open order names.
LEMMA OrderType ==
  ASSUME BookT, NEW id, IsOpen(id)
  PROVE  /\ id \in DOMAIN order /\ order[id] \in OrderT
         /\ order[id].maker \in Makers /\ order[id].token \in Tokens
         /\ order[id].open \in Nat /\ order[id].price \in Nat /\ order[id].orig \in Nat
<1>1. id \in DOMAIN order /\ order[id] \in OrderT
  BY SMTT(60) DEF BookT, IsOpen
<1> QED BY <1>1 DEF OrderT

\* Two ledgers that differ in the account of m at most.
LEMMA LedgerChange ==
  ASSUME NEW e \in [Makers -> Nat], NEW e2 \in [Makers -> Nat], NEW m \in Makers,
         \A y \in Makers \ {m} : e2[y] = e[y]
  PROVE  /\ SumFunction(e) \in Nat /\ SumFunction(e2) \in Nat
         /\ SumFunction(e2) + e[m] = SumFunction(e) + e2[m]
<1>1. IsFiniteSet(Makers)
  BY OrderBookAssumption
<1>2. (\A y \in Makers : e[y] \in Nat) /\ (\A y \in Makers : e2[y] \in Nat)
  OBVIOUS
<1>3. SumFunctionOnSet(e2, Makers) + e[m] = SumFunctionOnSet(e, Makers) + e2[m]
  BY <1>1, <1>2, SumChange, SMTT(60)
<1>4. SumFunctionOnSet(e, Makers) \in Nat /\ SumFunctionOnSet(e2, Makers) \in Nat
  BY <1>1, <1>2, SumTake
<1>5. SumFunction(e2) = SumFunctionOnSet(e2, Makers) /\ SumFunction(e) = SumFunctionOnSet(e, Makers)
  BY DEF SumFunction
<1> QED BY <1>3, <1>4, <1>5

\* An account grows by what is received, and the balance or what was taken back
\* with it.
LEMMA LedgerIn ==
  ASSUME NEW e \in [Makers -> Nat], NEW e2 \in [Makers -> Nat], NEW m \in Makers,
         \A y \in Makers \ {m} : e2[y] = e[y], NEW amount \in Nat, e2[m] = e[m] + amount,
         NEW total \in Nat, total >= SumFunction(e)
  PROVE  total + amount >= SumFunction(e2)
<1> DEFINE s == SumFunction(e)
           s2 == SumFunction(e2)
<1>1. s \in Nat /\ s2 \in Nat /\ s2 + e[m] = s + e2[m] /\ total >= s /\ e[m] \in Nat
  BY LedgerChange
<1> HIDE DEF s, s2
<1>2. total + amount >= s2
  BY <1>1, SMTT(60)
<1> QED BY <1>2 DEF s2

\* An account shrinks by what is owed; the balance shrinks by it or by nothing.
LEMMA LedgerOut ==
  ASSUME NEW e \in [Makers -> Nat], NEW e2 \in [Makers -> Nat], NEW m \in Makers,
         \A y \in Makers \ {m} : e2[y] = e[y], NEW amount \in Nat, e2[m] = e[m] - amount,
         NEW total \in Nat, total >= SumFunction(e), NEW left \in Nat, left >= total - amount
  PROVE  left >= SumFunction(e2)
<1> DEFINE s == SumFunction(e)
           s2 == SumFunction(e2)
<1>1. s \in Nat /\ s2 \in Nat /\ s2 + e[m] = s + e2[m] /\ total >= s /\ e[m] \in Nat
  BY LedgerChange
<1> HIDE DEF s, s2
<1>2. left >= s2
  BY <1>1, SMTT(60)
<1> QED BY <1>2 DEF s2

\* The DEW side of Solvent, and the side of the token t.
SolventQ == bal + ghostQ >= SumFunction(escrowQ)
Column(e, t) == [m \in Makers |-> e[m][t]]
SolventB(t) == held[t] + ghostB[t] >= SumFunction(Column(escrowB, t))

\* DEW received for a maker, or paid out of its account.
LEMMA QuoteIn ==
  ASSUME MoneyT, SolventQ, NEW m \in Makers, NEW amount \in Nat,
         escrowQ' = [escrowQ EXCEPT ![m] = @ + amount], ReceiveQuote(amount)
  PROVE  /\ escrowQ' \in [Makers -> Nat] /\ bal' \in Nat /\ ghostQ' \in Nat
         /\ SolventQ'
<1> DEFINE total == bal + ghostQ
<1>1. escrowQ \in [Makers -> Nat] /\ bal \in Nat /\ ghostQ \in Nat /\ escrowQ[m] \in Nat
  BY DEF MoneyT
<1>2. (bal' = bal + amount /\ ghostQ' = ghostQ) \/ (bal' = bal /\ ghostQ' = ghostQ + amount)
  BY DEF ReceiveQuote
<1>3. bal' \in Nat /\ ghostQ' \in Nat /\ bal' + ghostQ' = total + amount /\ total \in Nat
      /\ escrowQ[m] + amount \in Nat
  BY <1>1, <1>2, SMTT(60)
<1>4. total >= SumFunction(escrowQ)
  BY DEF SolventQ
<1> HIDE DEF total
<1>5. escrowQ' \in [Makers -> Nat] /\ escrowQ'[m] = escrowQ[m] + amount
      /\ \A y \in Makers \ {m} : escrowQ'[y] = escrowQ[y]
  BY <1>1, <1>3
<1>6. total + amount >= SumFunction(escrowQ')
  BY <1>1, <1>3, <1>4, <1>5, LedgerIn
<1> QED BY <1>3, <1>5, <1>6 DEF SolventQ

\* Quote that leaves an account leaves the balance too, or is not paid.
LEMMA QuoteOut ==
  ASSUME MoneyT, SolventQ, NEW m \in Makers, NEW amount \in Nat, amount <= escrowQ[m],
         escrowQ' = [escrowQ EXCEPT ![m] = @ - amount], PayQuote(amount), ghostQ' = ghostQ
  PROVE  /\ escrowQ' \in [Makers -> Nat] /\ bal' \in Nat /\ ghostQ' \in Nat
         /\ SolventQ'
<1> DEFINE total == bal + ghostQ
           left == bal' + ghostQ'
<1>1. escrowQ \in [Makers -> Nat] /\ bal \in Nat /\ ghostQ \in Nat /\ escrowQ[m] \in Nat
  BY DEF MoneyT
<1>2. bal' = bal \/ (bal' = bal - amount /\ ~(bal < amount))
  BY DEF PayQuote
<1>3. bal' \in Nat /\ ghostQ' \in Nat /\ left >= total - amount /\ left \in Nat /\ total \in Nat
      /\ escrowQ[m] - amount \in Nat
  BY <1>1, <1>2, SMTT(60)
<1>4. total >= SumFunction(escrowQ)
  BY DEF SolventQ
<1> HIDE DEF total, left
<1>5. escrowQ' \in [Makers -> Nat] /\ escrowQ'[m] = escrowQ[m] - amount
      /\ \A y \in Makers \ {m} : escrowQ'[y] = escrowQ[y]
  BY <1>1, <1>3
<1>6. left >= SumFunction(escrowQ')
  BY <1>1, <1>3, <1>4, <1>5, LedgerOut
<1> QED BY <1>3, <1>5, <1>6 DEF SolventQ, left

\* e2 is e but for v, the entry of m and t.
OneEntry(e, e2, m, t, v) ==
  /\ e2 \in [Makers -> [Tokens -> Nat]]
  /\ \A u \in Tokens : /\ Column(e, u) \in [Makers -> Nat] /\ Column(e, u)[m] = e[m][u]
                       /\ u # t => Column(e2, u) = Column(e, u)
  /\ Column(e2, t) \in [Makers -> Nat] /\ Column(e2, t)[m] = v
  /\ \A y \in Makers \ {m} : Column(e2, t)[y] = Column(e, t)[y]
  /\ e2[m][t] = v /\ \A n \in Makers, u \in Tokens : n # m \/ u # t => e2[n][u] = e[n][u]

\* An assignment to one entry of the table of base escrows.
LEMMA ColumnChange ==
  ASSUME NEW e \in [Makers -> [Tokens -> Nat]], NEW m \in Makers, NEW t \in Tokens,
         NEW v \in Nat, NEW e2, e2 = [e EXCEPT ![m][t] = v]
  PROVE  OneEntry(e, e2, m, t, v)
<1> DEFINE row == [e[m] EXCEPT ![t] = v]
<1>1. e[m] \in [Tokens -> Nat] /\ \A n \in Makers, u \in Tokens : e[n][u] \in Nat
  OBVIOUS
<1>2. row \in [Tokens -> Nat] /\ row[t] = v /\ \A u \in Tokens : u # t => row[u] = e[m][u]
  BY <1>1
<1>3. e2 = [e EXCEPT ![m] = row]
  OBVIOUS
<1> HIDE DEF row
<1>4. e2 \in [Makers -> [Tokens -> Nat]] /\ e2[m] = row
      /\ \A n \in Makers : n # m => e2[n] = e[n]
  BY <1>2, <1>3
<1>5. ASSUME NEW u \in Tokens
      PROVE  /\ Column(e, u) \in [Makers -> Nat] /\ Column(e, u)[m] = e[m][u]
             /\ u # t => Column(e2, u) = Column(e, u)
  <2>1. Column(e, u) \in [Makers -> Nat] /\ Column(e, u)[m] = e[m][u]
    BY <1>1 DEF Column
  <2>2. u # t => \A n \in Makers : e2[n][u] = e[n][u]
    BY <1>2, <1>4
  <2> QED BY <2>1, <2>2 DEF Column
<1>6. Column(e2, t) \in [Makers -> Nat] /\ Column(e2, t)[m] = v
  BY <1>2, <1>4 DEF Column
<1>7. \A y \in Makers \ {m} : Column(e2, t)[y] = Column(e, t)[y]
  BY <1>4 DEF Column
<1>8. e2[m][t] = v /\ \A n \in Makers, u \in Tokens : n # m \/ u # t => e2[n][u] = e[n][u]
  BY <1>2, <1>4
<1> QED BY <1>4, <1>5, <1>6, <1>7, <1>8 DEF OneEntry

\* A token received for a maker, or paid out of its account.
LEMMA BaseIn ==
  ASSUME MoneyT, \A u \in Tokens : SolventB(u), NEW m \in Makers, NEW t \in Tokens,
         NEW amount \in Nat, escrowB' = [escrowB EXCEPT ![m][t] = @ + amount],
         ReceiveBase(t, amount)
  PROVE  /\ escrowB' \in [Makers -> [Tokens -> Nat]]
         /\ held' \in [Tokens -> Nat] /\ ghostB' \in [Tokens -> Nat]
         /\ \A u \in Tokens : SolventB(u)'
<1> DEFINE total == held[t] + ghostB[t]
           v == escrowB[m][t] + amount
           c == Column(escrowB, t)
           c2 == Column(escrowB', t)
<1>1. escrowB \in [Makers -> [Tokens -> Nat]] /\ held \in [Tokens -> Nat]
      /\ ghostB \in [Tokens -> Nat]
  BY DEF MoneyT
<1>2. held[t] \in Nat /\ ghostB[t] \in Nat /\ escrowB[m][t] \in Nat
  BY <1>1
<1>3. \/ held' = [held EXCEPT ![t] = @ + amount] /\ ghostB' = ghostB
      \/ held' = held /\ ghostB' = [ghostB EXCEPT ![t] = @ + amount]
  BY DEF ReceiveBase
<1>4. /\ held' \in [Tokens -> Nat] /\ ghostB' \in [Tokens -> Nat]
      /\ held'[t] + ghostB'[t] = total + amount /\ total \in Nat /\ v \in Nat
      /\ \A u \in Tokens : u # t => held'[u] = held[u] /\ ghostB'[u] = ghostB[u]
  BY <1>1, <1>2, <1>3, SMTT(60)
<1>5. total >= SumFunction(c)
  BY DEF SolventB
<1>6. escrowB' = [escrowB EXCEPT ![m][t] = v]
  OBVIOUS
<1> HIDE DEF total
<1>7. /\ escrowB' \in [Makers -> [Tokens -> Nat]]
      /\ \A u \in Tokens : /\ Column(escrowB, u)[m] = escrowB[m][u]
                           /\ u # t => Column(escrowB', u) = Column(escrowB, u)
      /\ c \in [Makers -> Nat] /\ c2 \in [Makers -> Nat] /\ c2[m] = v
      /\ \A y \in Makers \ {m} : c2[y] = c[y]
  <2> HIDE DEF v
  <2>1. OneEntry(escrowB, escrowB', m, t, v)
    BY <1>1, <1>4, <1>6, ColumnChange
  <2> QED BY <2>1 DEF OneEntry
<1>8. total + amount >= SumFunction(c2)
  <2>1. c2[m] = c[m] + amount
    BY <1>7
  <2> HIDE DEF c, c2
  <2> QED BY <2>1, <1>4, <1>5, <1>7, LedgerIn
<1>9. ASSUME NEW u \in Tokens PROVE SolventB(u)'
  <2>1. CASE u = t
    BY <2>1, <1>4, <1>8 DEF SolventB
  <2>2. CASE u # t
    BY <2>2, <1>4, <1>7 DEF SolventB
  <2> QED BY <2>1, <2>2
<1> QED BY <1>4, <1>7, <1>9

\* The same for base tokens.
LEMMA BaseOut ==
  ASSUME MoneyT, \A u \in Tokens : SolventB(u), NEW m \in Makers, NEW t \in Tokens,
         NEW amount \in Nat, amount <= escrowB[m][t],
         escrowB' = [escrowB EXCEPT ![m][t] = @ - amount],
         PayBase(t, amount), ghostB' = ghostB
  PROVE  /\ escrowB' \in [Makers -> [Tokens -> Nat]]
         /\ held' \in [Tokens -> Nat] /\ ghostB' \in [Tokens -> Nat]
         /\ \A u \in Tokens : SolventB(u)'
<1> DEFINE total == held[t] + ghostB[t]
           left == held'[t] + ghostB'[t]
           v == escrowB[m][t] - amount
           c == Column(escrowB, t)
           c2 == Column(escrowB', t)
<1>1. escrowB \in [Makers -> [Tokens -> Nat]] /\ held \in [Tokens -> Nat]
      /\ ghostB \in [Tokens -> Nat]
  BY DEF MoneyT
<1>2. held[t] \in Nat /\ ghostB[t] \in Nat /\ escrowB[m][t] \in Nat
  BY <1>1
<1>3. held' = held \/ (held' = [held EXCEPT ![t] = @ - amount] /\ ~(held[t] < amount))
  BY DEF PayBase
<1>4. /\ held' \in [Tokens -> Nat]
      /\ left >= total - amount /\ left \in Nat /\ total \in Nat /\ v \in Nat
      /\ \A u \in Tokens : u # t => held'[u] = held[u]
  BY <1>1, <1>2, <1>3, SMTT(60)
<1>5. total >= SumFunction(c)
  BY DEF SolventB
<1>6. escrowB' = [escrowB EXCEPT ![m][t] = v]
  OBVIOUS
<1> HIDE DEF total, left
<1>7. /\ escrowB' \in [Makers -> [Tokens -> Nat]]
      /\ \A u \in Tokens : /\ Column(escrowB, u)[m] = escrowB[m][u]
                           /\ u # t => Column(escrowB', u) = Column(escrowB, u)
      /\ c \in [Makers -> Nat] /\ c2 \in [Makers -> Nat] /\ c2[m] = v
      /\ \A y \in Makers \ {m} : c2[y] = c[y]
  <2> HIDE DEF v
  <2>1. OneEntry(escrowB, escrowB', m, t, v)
    BY <1>1, <1>4, <1>6, ColumnChange
  <2> QED BY <2>1 DEF OneEntry
<1>8. left >= SumFunction(c2)
  <2>1. c2[m] = c[m] - amount
    BY <1>7
  <2> HIDE DEF c, c2
  <2> QED BY <2>1, <1>4, <1>5, <1>7, LedgerOut
<1>9. ASSUME NEW u \in Tokens PROVE SolventB(u)'
  <2>1. CASE u = t
    BY <2>1, <1>4, <1>8 DEF SolventB, left
  <2>2. CASE u # t
    BY <2>2, <1>4, <1>7 DEF SolventB
  <2> QED BY <2>1, <2>2
<1> QED BY <1>1, <1>4, <1>7, <1>9

\* A step keeps the module solvent.
LEMMA SolventNext ==
  ASSUME BookT, MoneyT, Solvent, [Next]_vars
  PROVE  MoneyT' /\ Solvent'
<1>1. Solvent <=> SolventQ /\ \A t \in Tokens : SolventB(t)
  BY DEF Solvent, SolventQ, SolventB, Column
<1>2. (Solvent <=> SolventQ /\ \A t \in Tokens : SolventB(t))'
  BY DEF Solvent, SolventQ, SolventB, Column
<1>3. SolventQ /\ \A t \in Tokens : SolventB(t)
  BY <1>1
<1>4. (escrowQ' = escrowQ /\ bal' = bal /\ ghostQ' = ghostQ) => SolventQ'
  BY <1>3 DEF SolventQ
<1>5. (escrowB' = escrowB /\ held' = held /\ ghostB' = ghostB) => \A t \in Tokens : SolventB(t)'
  BY <1>3 DEF SolventB, Column
<1>6. ASSUME NEW m \in Makers, NEW t \in Tokens, NEW price \in Prices, NEW base \in Amounts,
             PlaceBuy(m, t, price, base)
      PROVE  MoneyT' /\ Solvent'
  <2> DEFINE lock == QuoteLockCeil(base, price)
  <2>1. lock \in Nat
    BY OrderBookAssumption, QuoteType
  <2>2. escrowQ' = [escrowQ EXCEPT ![m] = @ + lock] /\ ReceiveQuote(lock)
        /\ escrowB' = escrowB /\ held' = held /\ fills' = fills /\ ghostB' = ghostB
    BY <1>6 DEF PlaceBuy
  <2> HIDE DEF lock
  <2>3. escrowQ' \in [Makers -> Nat] /\ bal' \in Nat /\ ghostQ' \in Nat /\ SolventQ'
    BY <1>3, <2>1, <2>2, QuoteIn
  <2> QED BY <1>2, <1>5, <2>2, <2>3 DEF MoneyT
<1>7. ASSUME NEW m \in Makers, NEW t \in Tokens, NEW price \in Prices, NEW base \in Amounts,
             PlaceSell(m, t, price, base)
      PROVE  MoneyT' /\ Solvent'
  <2>1. base \in Nat
    BY OrderBookAssumption
  <2>2. escrowB' = [escrowB EXCEPT ![m][t] = @ + base] /\ ReceiveBase(t, base)
        /\ escrowQ' = escrowQ /\ bal' = bal /\ fills' = fills /\ ghostQ' = ghostQ
    BY <1>7 DEF PlaceSell
  <2>3. escrowB' \in [Makers -> [Tokens -> Nat]] /\ held' \in [Tokens -> Nat]
        /\ ghostB' \in [Tokens -> Nat] /\ \A u \in Tokens : SolventB(u)'
    BY <1>3, <2>1, <2>2, BaseIn
  <2> QED BY <1>2, <1>4, <2>2, <2>3 DEF MoneyT
<1>8. ASSUME NEW id, CancelBuy(id) PROVE MoneyT' /\ Solvent'
  <2> DEFINE m == order[id].maker
             refund == CancelQuote(id)
  <2>1. IsOpen(id) /\ escrowQ' = [escrowQ EXCEPT ![m] = @ - refund] /\ PayQuote(refund)
        /\ escrowB' = escrowB /\ held' = held /\ fills' = fills /\ ghostQ' = ghostQ
        /\ ghostB' = ghostB
    BY <1>8 DEF CancelBuy
  <2>2. m \in Makers /\ order[id].open \in Nat /\ order[id].price \in Nat
    BY <2>1, OrderType
  <2>3. escrowQ[m] \in Nat
    BY <2>2 DEF MoneyT
  <2>4. refund \in Nat /\ refund <= escrowQ[m]
    <3> DEFINE lock == QuoteLockCeil(order[id].open, order[id].price)
    <3>1. lock \in Nat
      BY <2>2, QuoteType
    <3>2. refund = IF lock > escrowQ[m] THEN escrowQ[m] ELSE lock
      BY DEF CancelQuote
    <3> HIDE DEF lock, refund, m
    <3> QED BY <2>3, <3>1, <3>2, SMTT(60)
  <2> HIDE DEF m, refund
  <2>5. escrowQ' \in [Makers -> Nat] /\ bal' \in Nat /\ ghostQ' \in Nat /\ SolventQ'
    BY <1>3, <2>1, <2>2, <2>4, QuoteOut
  <2> QED BY <1>2, <1>5, <2>1, <2>5 DEF MoneyT
<1>9. ASSUME NEW id, NEW maxBase \in Amounts, FillBuy(id, maxBase) PROVE MoneyT' /\ Solvent'
  <2> DEFINE m == order[id].maker
             base == Filled(id, maxBase)
             quote == QuoteFloor(base, order[id].price)
  <2>1. IsOpen(id) /\ escrowQ' = [escrowQ EXCEPT ![m] = @ - quote] /\ PayQuote(quote)
        /\ escrowB' = escrowB /\ held' = held /\ fills' = [fills EXCEPT ![m] = @ + 1]
        /\ ghostQ' = ghostQ /\ ghostB' = ghostB /\ escrowQ[m] >= quote
    BY <1>9 DEF FillBuy
  <2>2. m \in Makers /\ order[id].open \in Nat /\ order[id].price \in Nat
    BY <2>1, OrderType
  <2>3. escrowQ[m] \in Nat /\ fills \in [Makers -> Nat] /\ fills[m] \in Nat
    BY <2>2 DEF MoneyT
  <2>4. base \in Nat
    BY <2>2, OrderBookAssumption DEF Filled
  <2>5. quote \in Nat
    BY <2>2, <2>4, QuoteType
  <2> HIDE DEF m, base, quote
  <2>6. quote <= escrowQ[m] /\ fills[m] + 1 \in Nat
    BY <2>1, <2>3, <2>5, SMTT(60)
  <2>7. fills' \in [Makers -> Nat]
    BY <2>1, <2>2, <2>3, <2>6
  <2>8. escrowQ' \in [Makers -> Nat] /\ bal' \in Nat /\ ghostQ' \in Nat /\ SolventQ'
    BY <1>3, <2>1, <2>2, <2>5, <2>6, QuoteOut
  <2> QED BY <1>2, <1>5, <2>1, <2>7, <2>8 DEF MoneyT
<1>10. ASSUME NEW id, NEW base \in Nat, IsOpen(id),
              escrowB[order[id].maker][order[id].token] >= base,
              escrowB' = [escrowB EXCEPT ![order[id].maker][order[id].token] = @ - base],
              PayBase(order[id].token, base), UNCHANGED <<escrowQ, bal, fills, ghostQ, ghostB>>
      PROVE   MoneyT' /\ Solvent'
  <2> DEFINE m == order[id].maker
             t == order[id].token
  <2>1. m \in Makers /\ t \in Tokens
    BY <1>10, OrderType
  <2>2. escrowB' = [escrowB EXCEPT ![m][t] = @ - base] /\ PayBase(t, base) /\ ghostB' = ghostB
        /\ escrowQ' = escrowQ /\ bal' = bal /\ fills' = fills /\ ghostQ' = ghostQ
        /\ escrowB[m][t] >= base
    BY <1>10
  <2> HIDE DEF m, t
  <2>3. escrowB[m][t] \in Nat
    BY <2>1 DEF MoneyT
  <2>4. base <= escrowB[m][t]
    BY <2>2, <2>3, SMTT(60)
  <2>5. escrowB' \in [Makers -> [Tokens -> Nat]] /\ held' \in [Tokens -> Nat]
        /\ ghostB' \in [Tokens -> Nat] /\ \A u \in Tokens : SolventB(u)'
    BY <1>3, <2>1, <2>2, <2>4, BaseOut
  <2> QED BY <1>2, <1>4, <2>2, <2>5 DEF MoneyT
<1>11. ASSUME NEW id, CancelSell(id) PROVE MoneyT' /\ Solvent'
  <2>1. IsOpen(id)
    BY <1>11 DEF CancelSell
  <2>2. order[id].open \in Nat
    BY <2>1, OrderType
  <2> QED BY <1>10, <1>11, <2>1, <2>2 DEF CancelSell
<1>12. ASSUME NEW id, NEW maxBase \in Amounts, FillSell(id, maxBase) PROVE MoneyT' /\ Solvent'
  <2> DEFINE base == Filled(id, maxBase)
  <2>1. IsOpen(id)
    BY <1>12 DEF FillSell
  <2>2. order[id].open \in Nat
    BY <2>1, OrderType
  <2>3. base \in Nat
    BY <2>2, OrderBookAssumption DEF Filled
  <2>4. /\ escrowB[order[id].maker][order[id].token] >= base
        /\ escrowB' = [escrowB EXCEPT ![order[id].maker][order[id].token] = @ - base]
        /\ PayBase(order[id].token, base) /\ UNCHANGED <<escrowQ, bal, fills, ghostQ, ghostB>>
    BY <1>12 DEF FillSell
  <2> HIDE DEF base
  <2> QED BY <1>10, <2>1, <2>3, <2>4
<1>13. CASE UNCHANGED vars
  <2>1. escrowQ' = escrowQ /\ bal' = bal /\ ghostQ' = ghostQ /\ escrowB' = escrowB
        /\ held' = held /\ ghostB' = ghostB /\ fills' = fills
    BY <1>13 DEF vars
  <2> QED BY <1>2, <1>4, <1>5, <2>1 DEF MoneyT
<1> QED BY <1>6, <1>7, <1>8, <1>9, <1>11, <1>12, <1>13 DEF Next

----------------------------------------------------------------------------
(* What the orders may still cost.                                         *)

LockOf == [id \in DOMAIN order |-> QuoteLockCeil(order[id].open, order[id].price)]
LeftOf == [id \in DOMAIN order |-> order[id].open]
Buys(m) == {id \in OpenOf(m) : order[id].side = "buy"}
Sells(m, t) == OpenOf(m) \cap OpenOn(t, "sell")
Unsold(m, t) == SumFunctionOnSet(LeftOf, Sells(m, t))

CoverQ(m) == QuotesFit(m) => Reserved(m) <= escrowQ[m] /\ escrowQ[m] <= Reserved(m) + fills[m]
CoverB(m, t) == escrowB[m][t] = Unsold(m, t)
NoneGrew == \A id \in DOMAIN order : order[id].open <= order[id].orig

\* The inductive invariant: no order is left with more than it was placed for,
\* so that what QuotesFit says of the original amount holds of what is left.
CoverInv == NoneGrew /\ \A m \in Makers : CoverQ(m) /\ \A t \in Tokens : CoverB(m, t)

\* The sums are of naturals, over finite sets.
LEMMA TableType ==
  ASSUME BookT
  PROVE  /\ \A id \in DOMAIN order :
              /\ order[id] \in OrderT
              /\ order[id].open \in Nat /\ order[id].price \in Nat /\ order[id].orig \in Nat
              /\ LockOf[id] \in Nat /\ LeftOf[id] \in Nat
         /\ \A m : IsFiniteSet(Buys(m)) /\ Buys(m) \subseteq DOMAIN order
         /\ \A m, t : IsFiniteSet(Sells(m, t)) /\ Sells(m, t) \subseteq DOMAIN order
<1>1. ASSUME NEW id \in DOMAIN order
      PROVE  /\ order[id] \in OrderT
             /\ order[id].open \in Nat /\ order[id].price \in Nat /\ order[id].orig \in Nat
             /\ LockOf[id] \in Nat /\ LeftOf[id] \in Nat
  <2>1. order[id] \in OrderT
    BY SMTT(60) DEF BookT
  <2>2. order[id].open \in Nat /\ order[id].price \in Nat /\ order[id].orig \in Nat
    BY <2>1 DEF OrderT
  <2>3. QuoteLockCeil(order[id].open, order[id].price) \in Nat
    BY <2>2, QuoteType
  <2> QED BY <2>1, <2>2, <2>3 DEF LockOf, LeftOf
<1>2. ASSUME NEW m PROVE IsFiniteSet(Buys(m)) /\ Buys(m) \subseteq DOMAIN order
  <2>1. Buys(m) \subseteq OpenOf(m) /\ Buys(m) \subseteq DOMAIN order
    BY DEF Buys, OpenOf
  <2> QED BY <2>1, OfFinite, FS_Subset
<1>3. ASSUME NEW m, NEW t PROVE IsFiniteSet(Sells(m, t)) /\ Sells(m, t) \subseteq DOMAIN order
  <2>1. Sells(m, t) \subseteq OpenOf(m) /\ Sells(m, t) \subseteq DOMAIN order
    BY DEF Sells, OpenOf
  <2> QED BY <2>1, OfFinite, FS_Subset
<1> QED BY <1>1, <1>2, <1>3

\* Reserved and Unsold are naturals.
LEMMA CostType ==
  ASSUME BookT, NEW m, NEW t
  PROVE  Reserved(m) \in Nat /\ Unsold(m, t) \in Nat
<1>1. SumFunctionOnSet(LockOf, Buys(m)) \in Nat
  BY TableType, SumTake
<1>2. SumFunctionOnSet(LeftOf, Sells(m, t)) \in Nat
  BY TableType, SumTake
<1> QED BY <1>1, <1>2 DEF Reserved, LockOf, Buys, Unsold

\* The two forms of the property.
LEMMA CoverForms ==
  ASSUME BookT, MoneyT
  PROVE  (\A m \in Makers : CoverQ(m) /\ \A t \in Tokens : CoverB(m, t)) <=> EscrowCoversOrders
<1>1. ASSUME NEW m \in Makers
      PROVE  CoverQ(m) <=> (QuotesFit(m) => escrowQ[m] - Reserved(m) \in 0 .. fills[m])
  <2>1. escrowQ[m] \in Nat /\ fills[m] \in Nat /\ Reserved(m) \in Nat
    BY CostType DEF MoneyT
  <2> DEFINE r == Reserved(m)
  <2> HIDE DEF r
  <2>2. r <= escrowQ[m] /\ escrowQ[m] <= r + fills[m] <=> escrowQ[m] - r \in 0 .. fills[m]
    BY <2>1, SMTT(60) DEF r
  <2> QED BY <2>2 DEF CoverQ, r
<1>2. ASSUME NEW m \in Makers, NEW t \in Tokens
      PROVE  CoverB(m, t) <=>
               LET left == [id \in DOMAIN order |-> order[id].open]
               IN escrowB[m][t] = SumFunctionOnSet(left, OpenOf(m) \cap OpenOn(t, "sell"))
  BY DEF CoverB, Unsold, LeftOf, Sells
<1> QED BY <1>1, <1>2 DEF EscrowCoversOrders

----------------------------------------------------------------------------
(* Two kinds of steps on the table of orders.                              *)

Placed(id, ord) ==
  /\ id \notin DOMAIN order /\ DOMAIN order' = (DOMAIN order) \cup {id}
  /\ order'[id] = ord /\ ord.status = "open" /\ ord.open = ord.orig
  /\ \A i \in DOMAIN order : order'[i] = order[i]

Rewritten(id, new) ==
  /\ id \in DOMAIN order /\ DOMAIN order' = DOMAIN order /\ order'[id] = new
  /\ \A i \in DOMAIN order : i # id => order'[i] = order[i]
  /\ order[id].status = "open" /\ (new.status = "open" \/ new.open = 0)
  /\ new.maker = order[id].maker /\ new.token = order[id].token /\ new.side = order[id].side
  /\ new.price = order[id].price /\ new.orig = order[id].orig
  /\ new.open <= order[id].open

\* The table after an order is written, closed or filled.
LEMMA WriteStep ==
  ASSUME BookT, NEW m, NEW t, NEW side, NEW price, NEW base,
         WriteNewOrder(m, t, side, price, base)
  PROVE  Placed(Len(order) + 1, [maker |-> m, token |-> t, side |-> side, price |-> price,
                                 open |-> base, orig |-> base, status |-> "open"])
<1> DEFINE ord == [maker |-> m, token |-> t, side |-> side, price |-> price,
                   open |-> base, orig |-> base, status |-> "open"]
<1>1. ord.status = "open" /\ ord.open = ord.orig
  OBVIOUS
<1>2. order' = Append(order, ord) /\ order \in Seq(OrderT)
  BY DEF WriteNewOrder, BookT
<1> HIDE DEF ord
<1>3. /\ Len(order) + 1 \notin DOMAIN order
      /\ DOMAIN order' = (DOMAIN order) \cup {Len(order) + 1}
      /\ order'[Len(order) + 1] = ord
      /\ \A i \in DOMAIN order : order'[i] = order[i]
  BY <1>2, SMTT(60)
<1> QED BY <1>1, <1>3 DEF Placed, ord

\* Close rewrites one order: nothing is left of it.
LEMMA CloseStep ==
  ASSUME BookT, NEW id, IsOpen(id), NEW status, Close(id, status)
  PROVE  Rewritten(id, [order[id] EXCEPT !.status = status, !.open = 0])
<1> DEFINE new == [order[id] EXCEPT !.status = status, !.open = 0]
<1>1. id \in DOMAIN order /\ order[id].status = "open" /\ order[id] \in OrderT
      /\ order[id].open \in Nat
  BY OrderType DEF IsOpen
<1>2. /\ new.open = 0 /\ new.maker = order[id].maker /\ new.token = order[id].token
      /\ new.side = order[id].side /\ new.price = order[id].price /\ new.orig = order[id].orig
  BY <1>1 DEF OrderT
<1>3. order' = [order EXCEPT ![id] = new]
  BY DEF Close
<1>4. 0 <= order[id].open
  BY <1>1, SMTT(60)
<1> HIDE DEF new
<1>5. DOMAIN order' = DOMAIN order /\ order'[id] = new
      /\ \A i \in DOMAIN order : i # id => order'[i] = order[i]
  BY <1>1, <1>3
<1> QED BY <1>1, <1>2, <1>4, <1>5 DEF Rewritten, new

\* Reduce rewrites one order: what was filled is gone from it.
LEMMA ReduceStep ==
  ASSUME BookT, NEW id, IsOpen(id), NEW maxBase \in Nat, Reduce(id, Filled(id, maxBase))
  PROVE  \E new : Rewritten(id, new) /\ new.open = order[id].open - Filled(id, maxBase)
<1> DEFINE base == Filled(id, maxBase)
<1>1. id \in DOMAIN order /\ order[id].status = "open" /\ order[id] \in OrderT
      /\ order[id].open \in Nat
  BY OrderType DEF IsOpen
<1>2. base \in Nat /\ base <= order[id].open
  BY <1>1, SMTT(60) DEF Filled
<1> HIDE DEF base
<1>3. CASE order[id].open = base
  <2> DEFINE new == [order[id] EXCEPT !.status = "filled", !.open = 0]
  <2>1. Rewritten(id, new)
    BY <1>3, CloseStep DEF Reduce, base
  <2>2. new.open = 0
    BY <1>1 DEF OrderT
  <2>3. order[id].open - base = 0
    BY <1>1, <1>3, SMTT(60)
  <2> HIDE DEF new
  <2> QED BY <2>1, <2>2, <2>3 DEF base
<1>4. CASE order[id].open # base
  <2> DEFINE new == [order[id] EXCEPT !.open = @ - base]
  <2>1. order' = [order EXCEPT ![id] = new]
    BY <1>4 DEF Reduce, base
  <2>2. /\ new.open = order[id].open - base /\ new.status = "open"
        /\ new.maker = order[id].maker /\ new.token = order[id].token
        /\ new.side = order[id].side /\ new.price = order[id].price
        /\ new.orig = order[id].orig
    BY <1>1 DEF OrderT
  <2> HIDE DEF new
  <2>3. new.open <= order[id].open
    BY <1>1, <1>2, <2>2, SMTT(60)
  <2>4. DOMAIN order' = DOMAIN order /\ order'[id] = new
        /\ \A i \in DOMAIN order : i # id => order'[i] = order[i]
    BY <1>1, <2>1
  <2>5. Rewritten(id, new)
    BY <1>1, <2>2, <2>3, <2>4 DEF Rewritten
  <2> QED BY <2>2, <2>5 DEF base
<1> QED BY <1>3, <1>4

\* A maker that has no part in the step keeps what its orders may cost.
LEMMA PlacedOther ==
  ASSUME BookT, NEW id, NEW ord, Placed(id, ord)
  PROVE  /\ \A m : ~(m = ord.maker /\ ord.side = "buy") => Reserved(m)' = Reserved(m)
         /\ \A m, t : ~(m = ord.maker /\ t = ord.token /\ ord.side = "sell")
                        => Unsold(m, t)' = Unsold(m, t)
         /\ \A m : QuotesFit(m)' => QuotesFit(m)
<1>1. ASSUME NEW m, ~(m = ord.maker /\ ord.side = "buy") PROVE Reserved(m)' = Reserved(m)
  <2>1. Buys(m)' = Buys(m)
    BY <1>1 DEF Placed, Buys, OpenOf
  <2>2. \A i \in Buys(m) : LockOf'[i] = LockOf[i]
    BY DEF Placed, Buys, OpenOf, LockOf
  <2>3. SumFunctionOnSet(LockOf', Buys(m)) = SumFunctionOnSet(LockOf, Buys(m))
    BY <2>2, TableType, SumSame
  <2> QED BY <2>1, <2>3 DEF Reserved, LockOf, Buys
<1>2. ASSUME NEW m, NEW t, ~(m = ord.maker /\ t = ord.token /\ ord.side = "sell")
      PROVE  Unsold(m, t)' = Unsold(m, t)
  <2>1. Sells(m, t)' = Sells(m, t)
    BY <1>2 DEF Placed, Sells, OpenOf, OpenOn
  <2>2. \A i \in Sells(m, t) : LeftOf'[i] = LeftOf[i]
    BY DEF Placed, Sells, OpenOf, LeftOf
  <2>3. SumFunctionOnSet(LeftOf', Sells(m, t)) = SumFunctionOnSet(LeftOf, Sells(m, t))
    BY <2>2, TableType, SumSame
  <2> QED BY <2>1, <2>3 DEF Unsold
<1>3. ASSUME NEW m, QuotesFit(m)' PROVE QuotesFit(m)
  BY <1>3 DEF Placed, QuotesFit
<1> QED BY <1>1, <1>2, <1>3

\* The same for an order that shrinks or closes.
LEMMA RewrittenOther ==
  ASSUME BookT, NEW id, NEW new, Rewritten(id, new)
  PROVE  /\ \A m : ~(m = new.maker /\ new.side = "buy") => Reserved(m)' = Reserved(m)
         /\ \A m, t : ~(m = new.maker /\ t = new.token /\ new.side = "sell")
                        => Unsold(m, t)' = Unsold(m, t)
         /\ \A m : QuotesFit(m)' => QuotesFit(m)
<1>1. ASSUME NEW m, ~(m = new.maker /\ new.side = "buy") PROVE Reserved(m)' = Reserved(m)
  <2>1. Buys(m)' = Buys(m)
    BY <1>1 DEF Rewritten, Buys, OpenOf
  <2>2. \A i \in Buys(m) : LockOf'[i] = LockOf[i]
    BY <1>1 DEF Rewritten, Buys, OpenOf, LockOf
  <2>3. SumFunctionOnSet(LockOf', Buys(m)) = SumFunctionOnSet(LockOf, Buys(m))
    BY <2>2, TableType, SumSame
  <2> QED BY <2>1, <2>3 DEF Reserved, LockOf, Buys
<1>2. ASSUME NEW m, NEW t, ~(m = new.maker /\ t = new.token /\ new.side = "sell")
      PROVE  Unsold(m, t)' = Unsold(m, t)
  <2>1. Sells(m, t)' = Sells(m, t)
    BY <1>2 DEF Rewritten, Sells, OpenOf, OpenOn
  <2>2. \A i \in Sells(m, t) : LeftOf'[i] = LeftOf[i]
    BY <1>2 DEF Rewritten, Sells, OpenOf, OpenOn, LeftOf
  <2>3. SumFunctionOnSet(LeftOf', Sells(m, t)) = SumFunctionOnSet(LeftOf, Sells(m, t))
    BY <2>2, TableType, SumSame
  <2> QED BY <2>1, <2>3 DEF Unsold
<1>3. ASSUME NEW m, QuotesFit(m)' PROVE QuotesFit(m)
  BY <1>3 DEF Rewritten, QuotesFit
<1> QED BY <1>1, <1>2, <1>3

\* A new order adds its whole cost.
LEMMA PlacedCost ==
  ASSUME BookT, NEW id, NEW ord, Placed(id, ord), ord.open \in Nat, ord.price \in Nat
  PROVE  /\ ord.side = "buy" => Reserved(ord.maker)' =
                                  Reserved(ord.maker) + QuoteLockCeil(ord.open, ord.price)
         /\ ord.side = "sell" => Unsold(ord.maker, ord.token)' =
                                   Unsold(ord.maker, ord.token) + ord.open
<1> PICK m, t : m = ord.maker /\ t = ord.token
  OBVIOUS
<1>1. LockOf'[id] = QuoteLockCeil(ord.open, ord.price) /\ LeftOf'[id] = ord.open
  BY DEF Placed, LockOf, LeftOf
<1>2. LockOf'[id] \in Nat /\ LeftOf'[id] \in Nat
  BY <1>1, QuoteType
<1>3. \A i \in DOMAIN order : LockOf'[i] = LockOf[i] /\ LeftOf'[i] = LeftOf[i]
  BY DEF Placed, LockOf, LeftOf
<1>4. ASSUME ord.side = "buy"
      PROVE  Reserved(m)' = Reserved(m) + QuoteLockCeil(ord.open, ord.price)
  <2> DEFINE S == Buys(m)
             f == LockOf
             g == LockOf'
  <2>1. Buys(m)' = S \cup {id} /\ id \notin S
    BY <1>4 DEF Placed, Buys, OpenOf
  <2>2. IsFiniteSet(S) /\ (\A y \in S : f[y] \in Nat /\ g[y] = f[y]) /\ g[id] \in Nat
    BY <1>2, <1>3, TableType
  <2>3. SumFunctionOnSet(g, S \cup {id}) = SumFunctionOnSet(f, S) + g[id]
    <3> HIDE DEF S, f, g
    <3> QED BY <2>1, <2>2, SumMore
  <2> QED BY <1>1, <2>1, <2>3 DEF Reserved, LockOf, Buys
<1>5. ASSUME ord.side = "sell"
      PROVE  Unsold(m, t)' = Unsold(m, t) + ord.open
  <2> DEFINE S == Sells(m, t)
             f == LeftOf
             g == LeftOf'
  <2>1. Sells(m, t)' = S \cup {id} /\ id \notin S
    BY <1>5 DEF Placed, Sells, OpenOf, OpenOn
  <2>2. IsFiniteSet(S) /\ (\A y \in S : f[y] \in Nat /\ g[y] = f[y]) /\ g[id] \in Nat
    BY <1>2, <1>3, TableType
  <2>3. SumFunctionOnSet(g, S \cup {id}) = SumFunctionOnSet(f, S) + g[id]
    <3> HIDE DEF S, f, g
    <3> QED BY <2>1, <2>2, SumMore
  <2> QED BY <1>1, <2>1, <2>3 DEF Unsold
<1> QED BY <1>4, <1>5

\* A lock for nothing is nothing.
LEMMA NoLock == \A price \in Nat : QuoteLockCeil(0, price) = 0
<1> TAKE price \in Nat
<1>1. Scale \in Nat \ {0} /\ Word \in Nat \ {0}
  BY OrderBookAssumption
<1>2. 0 * price + Scale - 1 = Scale - 1
  BY <1>1, SMTT(60)
<1>3. (Scale - 1) \div Scale = 0
  <2> DEFINE q == (Scale - 1) \div Scale
  <2>1. q \in Nat /\ Scale * q <= Scale - 1
    BY <1>1, DivBounds, SMTT(60)
  <2> HIDE DEF q
  <2>2. q = 0
    <3> SUFFICES ASSUME q # 0 PROVE FALSE
      OBVIOUS
    <3>1. Scale * q >= Scale
      BY <1>1, <2>1, SMTT(60)
    <3> QED BY <1>1, <2>1, <3>1, SMTT(60)
  <2> QED BY <2>2 DEF q
<1>4. 0 % Word = 0
  BY <1>1, SMTT(60)
<1> QED BY <1>2, <1>3, <1>4 DEF QuoteLockCeil

\* An order that shrinks or closes costs that much less.
LEMMA RewrittenCost ==
  ASSUME BookT, NEW id, NEW new, Rewritten(id, new), new.open \in Nat
  PROVE  /\ new.side = "buy" =>
              Reserved(new.maker)' + QuoteLockCeil(order[id].open, new.price)
                = Reserved(new.maker) + QuoteLockCeil(new.open, new.price)
         /\ new.side = "sell" =>
              Unsold(new.maker, new.token)' + order[id].open
                = Unsold(new.maker, new.token) + new.open
<1> PICK m, t : m = new.maker /\ t = new.token
  OBVIOUS
<1>1. id \in DOMAIN order /\ order[id].open \in Nat /\ new.price \in Nat
  BY TableType DEF Rewritten
<1>2. /\ LockOf[id] = QuoteLockCeil(order[id].open, new.price) /\ LeftOf[id] = order[id].open
      /\ LockOf'[id] = QuoteLockCeil(new.open, new.price) /\ LeftOf'[id] = new.open
  BY DEF Rewritten, LockOf, LeftOf
<1>3. LockOf'[id] \in Nat /\ LeftOf'[id] \in Nat
  BY <1>1, <1>2, QuoteType
<1>4. \A i \in DOMAIN order : i # id => LockOf'[i] = LockOf[i] /\ LeftOf'[i] = LeftOf[i]
  BY DEF Rewritten, LockOf, LeftOf
<1>5. ASSUME NEW i, new.side = "buy"
      PROVE  i \in Buys(m)' <=> i \in Buys(m) /\ (i = id => new.status = "open")
  <2>1. CASE i = id
    BY <1>5, <2>1 DEF Rewritten, Buys, OpenOf
  <2>2. CASE i # id
    BY <2>2 DEF Rewritten, Buys, OpenOf
  <2> QED BY <2>1, <2>2
<1>6. ASSUME NEW i, new.side = "sell"
      PROVE  i \in Sells(m, t)' <=> i \in Sells(m, t) /\ (i = id => new.status = "open")
  <2>1. CASE i = id
    BY <1>6, <2>1 DEF Rewritten, Sells, OpenOf, OpenOn
  <2>2. CASE i # id
    BY <2>2 DEF Rewritten, Sells, OpenOf, OpenOn
  <2> QED BY <2>1, <2>2
<1>7. ASSUME new.side = "buy"
      PROVE  Reserved(m)' + QuoteLockCeil(order[id].open, new.price)
               = Reserved(m) + QuoteLockCeil(new.open, new.price)
  <2> DEFINE S == Buys(m)
             f == LockOf
             g == LockOf'
  <2>1. Reserved(m) = SumFunctionOnSet(f, S) /\ Reserved(m)' = SumFunctionOnSet(g, Buys(m)')
    BY DEF Reserved, LockOf, Buys
  <2>2. id \in S
    BY <1>7 DEF Rewritten, Buys, OpenOf
  <2>3. IsFiniteSet(S) /\ (\A y \in S : f[y] \in Nat) /\ (\A y \in S \ {id} : g[y] = f[y])
        /\ g[id] \in Nat
    BY <1>3, <1>4, TableType
  <2>4. CASE new.status = "open"
    <3>1. Buys(m)' = S
      BY <1>7, <1>5, <2>2, <2>4 DEF Buys
    <3>2. SumFunctionOnSet(g, S) + f[id] = SumFunctionOnSet(f, S) + g[id]
      <4> HIDE DEF S, f, g
      <4> QED BY <2>2, <2>3, SumChange, SMTT(60)
    <3> QED BY <1>2, <2>1, <3>1, <3>2
  <2>5. CASE new.status # "open"
    <3>1. Buys(m)' = S \ {id} /\ new.open = 0
      BY <1>7, <1>5, <2>5 DEF Buys, Rewritten
    <3>2. g[id] = 0
      BY <1>1, <1>2, <3>1, NoLock
    <3>3. /\ SumFunctionOnSet(g, S \ {id}) \in Nat
          /\ SumFunctionOnSet(f, S) = SumFunctionOnSet(g, S \ {id}) + f[id]
      <4> HIDE DEF S, f, g
      <4> QED BY <2>2, <2>3, SumLess
    <3>4. f[id] \in Nat
      BY <2>2, <2>3
    <3> DEFINE rest == SumFunctionOnSet(g, S \ {id})
               sum == SumFunctionOnSet(f, S)
               one == f[id]
    <3>5. rest \in Nat /\ one \in Nat /\ sum = rest + one /\ g[id] = 0
      BY <3>2, <3>3, <3>4
    <3> HIDE DEF S, f, g, rest, sum, one
    <3>6. rest + one = sum + g[id]
      BY <3>5, SMTT(60)
    <3> QED BY <1>2, <2>1, <3>1, <3>6 DEF rest, sum, one, S, f, g
  <2> QED BY <2>4, <2>5
<1>8. ASSUME new.side = "sell"
      PROVE  Unsold(m, t)' + order[id].open = Unsold(m, t) + new.open
  <2> DEFINE S == Sells(m, t)
             f == LeftOf
             g == LeftOf'
  <2>1. Unsold(m, t) = SumFunctionOnSet(f, S) /\ Unsold(m, t)' = SumFunctionOnSet(g, Sells(m, t)')
    BY DEF Unsold
  <2>2. id \in S
    BY <1>8 DEF Rewritten, Sells, OpenOf, OpenOn
  <2>3. IsFiniteSet(S) /\ (\A y \in S : f[y] \in Nat) /\ (\A y \in S \ {id} : g[y] = f[y])
        /\ g[id] \in Nat
    BY <1>3, <1>4, TableType
  <2>4. CASE new.status = "open"
    <3>1. Sells(m, t)' = S
      BY <1>8, <1>6, <2>2, <2>4 DEF Sells
    <3>2. SumFunctionOnSet(g, S) + f[id] = SumFunctionOnSet(f, S) + g[id]
      <4> HIDE DEF S, f, g
      <4> QED BY <2>2, <2>3, SumChange, SMTT(60)
    <3> QED BY <1>2, <2>1, <3>1, <3>2
  <2>5. CASE new.status # "open"
    <3>1. Sells(m, t)' = S \ {id} /\ new.open = 0
      BY <1>8, <1>6, <2>5 DEF Sells, Rewritten
    <3>2. g[id] = 0
      BY <1>2, <3>1
    <3>3. /\ SumFunctionOnSet(g, S \ {id}) \in Nat
          /\ SumFunctionOnSet(f, S) = SumFunctionOnSet(g, S \ {id}) + f[id]
      <4> HIDE DEF S, f, g
      <4> QED BY <2>2, <2>3, SumLess
    <3>4. f[id] \in Nat
      BY <2>2, <2>3
    <3> DEFINE rest == SumFunctionOnSet(g, S \ {id})
               sum == SumFunctionOnSet(f, S)
               one == f[id]
    <3>5. rest \in Nat /\ one \in Nat /\ sum = rest + one /\ g[id] = 0
      BY <3>2, <3>3, <3>4
    <3> HIDE DEF S, f, g, rest, sum, one
    <3>6. rest + one = sum + g[id]
      BY <3>5, SMTT(60)
    <3> QED BY <1>2, <2>1, <3>1, <3>6 DEF rest, sum, one, S, f, g
  <2> QED BY <2>4, <2>5
<1> QED BY <1>7, <1>8

\* Placing a buy order books its lock.
LEMMA PlaceBuyCovers ==
  ASSUME BookT, MoneyT, CoverInv, NEW m \in Makers, NEW t \in Tokens, NEW price \in Prices,
         NEW base \in Amounts, PlaceBuy(m, t, price, base)
  PROVE  CoverInv'
<1> DEFINE id == Len(order) + 1
           ord == [maker |-> m, token |-> t, side |-> "buy", price |-> price,
                   open |-> base, orig |-> base, status |-> "open"]
           lock == QuoteLockCeil(base, price)
<1>1. base \in Nat /\ price \in Nat /\ lock \in Nat
  BY OrderBookAssumption, QuoteType
<1>2. Placed(id, ord) /\ ord.maker = m /\ ord.token = t /\ ord.side = "buy"
      /\ ord.open = base /\ ord.price = price /\ ord.orig = base
  BY WriteStep DEF PlaceBuy
<1>3. escrowQ' = [escrowQ EXCEPT ![m] = @ + lock] /\ escrowB' = escrowB /\ fills' = fills
  BY DEF PlaceBuy
<1> HIDE DEF id, ord
<1>4. Reserved(m)' = Reserved(m) + lock
  BY <1>1, <1>2, PlacedCost
<1> HIDE DEF lock
<1>5. /\ \A k : k # m => Reserved(k)' = Reserved(k)
      /\ \A k, u : Unsold(k, u)' = Unsold(k, u)
      /\ \A k : QuotesFit(k)' => QuotesFit(k)
  BY <1>2, PlacedOther
<1>6. NoneGrew'
  BY <1>1, <1>2, SMTT(60) DEF CoverInv, NoneGrew, Placed
<1>7. CoverQ(m)'
  <2>1. escrowQ[m] \in Nat /\ Reserved(m) \in Nat /\ fills[m] \in Nat /\ escrowQ'[m] = escrowQ[m] + lock
        /\ fills'[m] = fills[m]
    BY <1>3, CostType DEF MoneyT
  <2>2. ASSUME QuotesFit(m)'
        PROVE  Reserved(m)' <= escrowQ'[m] /\ escrowQ'[m] <= Reserved(m)' + fills'[m]
    <3>1. Reserved(m) <= escrowQ[m] /\ escrowQ[m] <= Reserved(m) + fills[m]
      BY <1>5, <2>2 DEF CoverInv, CoverQ
    <3> DEFINE r == Reserved(m)
    <3> HIDE DEF r
    <3>2. r + lock <= escrowQ[m] + lock /\ escrowQ[m] + lock <= r + lock + fills[m]
      BY <1>1, <2>1, <3>1, SMTT(60) DEF r
    <3> QED BY <1>4, <2>1, <3>2 DEF r
  <2> QED BY <2>2 DEF CoverQ
<1>8. ASSUME NEW k \in Makers, k # m PROVE CoverQ(k)'
  <2>1. escrowQ'[k] = escrowQ[k] /\ fills'[k] = fills[k] /\ CoverQ(k)
    BY <1>3, <1>8 DEF MoneyT, CoverInv
  <2> QED BY <1>5, <1>8, <2>1 DEF CoverQ
<1>9. ASSUME NEW k \in Makers, NEW u \in Tokens PROVE CoverB(k, u)'
  <2>1. CoverB(k, u)
    BY DEF CoverInv
  <2> QED BY <1>3, <1>5, <2>1 DEF CoverB
<1> QED BY <1>6, <1>7, <1>8, <1>9 DEF CoverInv

\* Placing a sell order books its base.
LEMMA PlaceSellCovers ==
  ASSUME BookT, MoneyT, CoverInv, NEW m \in Makers, NEW t \in Tokens, NEW price \in Prices,
         NEW base \in Amounts, PlaceSell(m, t, price, base)
  PROVE  CoverInv'
<1> DEFINE id == Len(order) + 1
           ord == [maker |-> m, token |-> t, side |-> "sell", price |-> price,
                   open |-> base, orig |-> base, status |-> "open"]
<1>1. base \in Nat /\ price \in Nat
  BY OrderBookAssumption
<1>2. Placed(id, ord) /\ ord.maker = m /\ ord.token = t /\ ord.side = "sell"
      /\ ord.open = base /\ ord.price = price /\ ord.orig = base
  BY WriteStep DEF PlaceSell
<1>3. escrowB' = [escrowB EXCEPT ![m][t] = @ + base] /\ escrowQ' = escrowQ /\ fills' = fills
  BY DEF PlaceSell
<1> HIDE DEF id, ord
<1>4. Unsold(m, t)' = Unsold(m, t) + base
  BY <1>1, <1>2, PlacedCost
<1>5. /\ \A k : Reserved(k)' = Reserved(k)
      /\ \A k, u : ~(k = m /\ u = t) => Unsold(k, u)' = Unsold(k, u)
      /\ \A k : QuotesFit(k)' => QuotesFit(k)
  BY <1>2, PlacedOther
<1>6. NoneGrew'
  BY <1>1, <1>2, SMTT(60) DEF CoverInv, NoneGrew, Placed
<1>7. ASSUME NEW k \in Makers PROVE CoverQ(k)'
  <2>1. CoverQ(k)
    BY DEF CoverInv
  <2> QED BY <1>3, <1>5, <2>1 DEF CoverQ
<1>8. ASSUME NEW k \in Makers, NEW u \in Tokens PROVE CoverB(k, u)'
  <2>1. CoverB(k, u) /\ escrowB \in [Makers -> [Tokens -> Nat]]
    BY DEF CoverInv, MoneyT
  <2>2. CASE k = m /\ u = t
    <3>1. escrowB'[m][t] = escrowB[m][t] + base
      BY <1>3, <2>1
    <3> QED BY <1>4, <2>1, <2>2, <3>1 DEF CoverB
  <2>3. CASE ~(k = m /\ u = t)
    <3>1. escrowB'[k][u] = escrowB[k][u]
      BY <1>3, <2>1, <2>3
    <3> QED BY <1>5, <2>1, <2>3, <3>1 DEF CoverB
  <2> QED BY <2>2, <2>3
<1> QED BY <1>6, <1>7, <1>8 DEF CoverInv

\* What an open buy order may still cost is part of what is reserved.
LEMMA LockReserved ==
  ASSUME BookT, NEW id, IsOpen(id), order[id].side = "buy"
  PROVE  QuoteLockCeil(order[id].open, order[id].price) <= Reserved(order[id].maker)
<1> DEFINE m == order[id].maker
           S == Buys(m)
           f == LockOf
<1>1. id \in S /\ f[id] = QuoteLockCeil(order[id].open, order[id].price)
  BY DEF IsOpen, Buys, OpenOf, LockOf
<1>2. IsFiniteSet(S) /\ (\A y \in S : f[y] \in Nat) /\ f[id] \in Nat
  BY <1>1, TableType
<1>3. /\ SumFunctionOnSet(f, S \ {id}) \in Nat
      /\ SumFunctionOnSet(f, S) = SumFunctionOnSet(f, S \ {id}) + f[id]
  <2> HIDE DEF S, f
  <2> QED BY <1>1, <1>2, SumLess
<1>4. Reserved(m) = SumFunctionOnSet(f, S)
  BY DEF Reserved, LockOf, Buys
<1> DEFINE rest == SumFunctionOnSet(f, S \ {id})
<1>5. rest \in Nat /\ Reserved(m) = rest + f[id]
  BY <1>3, <1>4
<1> DEFINE r == Reserved(m)
           one == f[id]
<1>6. r = rest + one /\ rest \in Nat /\ one \in Nat
  BY <1>2, <1>5
<1> HIDE DEF rest, r, one
<1>7. one <= r
  BY <1>6, SMTT(60)
<1> QED BY <1>1, <1>7 DEF r, one

\* A buy order that shrinks or closes pays what its lock falls by, but for k.
LEMMA BuyStepCovers ==
  ASSUME BookT, MoneyT, CoverInv, NEW id, NEW new, Rewritten(id, new), new.open \in Nat,
         new.side = "buy", NEW m \in Makers, m = new.maker, NEW pay \in Nat, NEW k \in Nat,
         escrowQ' = [escrowQ EXCEPT ![m] = @ - pay], escrowB' = escrowB,
         fills' = [fills EXCEPT ![m] = @ + k],
         QuotesFit(m) =>
           /\ pay + QuoteLockCeil(new.open, new.price) <= QuoteLockCeil(order[id].open, new.price)
           /\ QuoteLockCeil(order[id].open, new.price)
                <= pay + QuoteLockCeil(new.open, new.price) + k
  PROVE  CoverInv'
<1> DEFINE old == QuoteLockCeil(order[id].open, new.price)
           now == QuoteLockCeil(new.open, new.price)
           r == Reserved(m)
           r2 == Reserved(m)'
<1>1. order[id].open \in Nat /\ new.price \in Nat
  BY TableType DEF Rewritten
<1>2. old \in Nat /\ now \in Nat
  BY <1>1, QuoteType
<1>3. r \in Nat /\ r2 + old = r + now
  BY RewrittenCost, CostType
<1>4. /\ \A j : j # m => Reserved(j)' = Reserved(j)
      /\ \A j, u : Unsold(j, u)' = Unsold(j, u)
      /\ \A j : QuotesFit(j)' => QuotesFit(j)
  BY RewrittenOther
<1>5. NoneGrew'
  <2>1. ASSUME NEW i \in DOMAIN order' PROVE order'[i].open <= order'[i].orig
    <3>1. CASE i # id
      BY <2>1, <3>1 DEF CoverInv, NoneGrew, Rewritten
    <3>2. CASE i = id
      <4>1. order'[i] = new /\ new.open <= order[id].open /\ new.orig = order[id].orig
            /\ order[id].open <= order[id].orig /\ id \in DOMAIN order
        BY <3>2 DEF CoverInv, NoneGrew, Rewritten
      <4>2. order[id].orig \in Nat
        BY <4>1, TableType
      <4>3. new.open <= new.orig
        BY <1>1, <4>1, <4>2, SMTT(60)
      <4> QED BY <4>1, <4>3
    <3> QED BY <3>1, <3>2
  <2> QED BY <2>1 DEF NoneGrew
<1>6. CoverQ(m)'
  <2>1. escrowQ[m] \in Nat /\ fills[m] \in Nat /\ escrowQ'[m] = escrowQ[m] - pay
        /\ fills'[m] = fills[m] + k
    BY DEF MoneyT
  <2>2. ASSUME QuotesFit(m)' PROVE r2 <= escrowQ'[m] /\ escrowQ'[m] <= r2 + fills'[m]
    <3>1. r <= escrowQ[m] /\ escrowQ[m] <= r + fills[m]
      BY <1>4, <2>2 DEF CoverInv, CoverQ
    <3>2. pay + now <= old /\ old <= pay + now + k
      BY <1>4, <2>2
    <3>3. r2 \in Nat
      <4>1. Buys(m)' \subseteq Buys(m)
        BY DEF Rewritten, Buys, OpenOf
      <4>2. \A i \in Buys(m)' : LockOf'[i] \in Nat
        <5>1. ASSUME NEW i \in Buys(m)' PROVE LockOf'[i] \in Nat
          <6>1. CASE i = id
            BY <1>2, <6>1 DEF LockOf, Rewritten
          <6>2. CASE i # id
            <7>1. i \in DOMAIN order /\ LockOf'[i] = LockOf[i]
              BY <4>1, <5>1, <6>2, TableType DEF LockOf, Rewritten
            <7> QED BY <7>1, TableType
          <6> QED BY <6>1, <6>2
        <5> QED BY <5>1
      <4>3. IsFiniteSet(Buys(m)')
        BY <4>1, TableType, FS_Subset
      <4> DEFINE S == Buys(m)'
                 g == LockOf'
      <4>4. IsFiniteSet(S) /\ \A i \in S : g[i] \in Nat
        BY <4>2, <4>3
      <4>5. SumFunctionOnSet(g, S) \in Nat
        <5> HIDE DEF S, g
        <5> QED BY <4>4, SumTake
      <4> QED BY <4>5 DEF Reserved, LockOf, Buys
    <3> HIDE DEF old, now, r, r2
    <3> QED BY <1>2, <1>3, <2>1, <3>1, <3>2, <3>3, SMTT(60)
  <2> QED BY <2>2 DEF CoverQ
<1>7. ASSUME NEW j \in Makers, j # m PROVE CoverQ(j)'
  <2>1. escrowQ'[j] = escrowQ[j] /\ fills'[j] = fills[j] /\ CoverQ(j)
    BY <1>7 DEF MoneyT, CoverInv
  <2> QED BY <1>4, <1>7, <2>1 DEF CoverQ
<1>8. ASSUME NEW j \in Makers, NEW u \in Tokens PROVE CoverB(j, u)'
  <2>1. CoverB(j, u)
    BY DEF CoverInv
  <2> QED BY <1>4, <2>1 DEF CoverB
<1> QED BY <1>5, <1>6, <1>7, <1>8 DEF CoverInv

\* A sell order that shrinks or closes takes as much base with it.
LEMMA SellStepCovers ==
  ASSUME BookT, MoneyT, CoverInv, NEW id, NEW new, Rewritten(id, new), new.open \in Nat,
         new.side = "sell", NEW m \in Makers, m = new.maker, NEW t \in Tokens, t = new.token,
         NEW base \in Nat, base + new.open = order[id].open,
         escrowB' = [escrowB EXCEPT ![m][t] = @ - base], escrowQ' = escrowQ, fills' = fills
  PROVE  CoverInv'
<1>1. order[id].open \in Nat
  BY TableType DEF Rewritten
<1>2. Unsold(m, t) \in Nat /\ Unsold(m, t)' + order[id].open = Unsold(m, t) + new.open
  BY RewrittenCost, CostType
<1>4. /\ \A j : Reserved(j)' = Reserved(j)
      /\ \A j, u : ~(j = m /\ u = t) => Unsold(j, u)' = Unsold(j, u)
      /\ \A j : QuotesFit(j)' => QuotesFit(j)
  BY RewrittenOther
<1>5. NoneGrew'
  <2>1. ASSUME NEW i \in DOMAIN order' PROVE order'[i].open <= order'[i].orig
    <3>1. CASE i # id
      BY <2>1, <3>1 DEF CoverInv, NoneGrew, Rewritten
    <3>2. CASE i = id
      <4>1. order'[i] = new /\ new.open <= order[id].open /\ new.orig = order[id].orig
            /\ order[id].open <= order[id].orig /\ id \in DOMAIN order
        BY <3>2 DEF CoverInv, NoneGrew, Rewritten
      <4>2. order[id].orig \in Nat
        BY <4>1, TableType
      <4>3. new.open <= new.orig
        BY <1>1, <4>1, <4>2, SMTT(60)
      <4> QED BY <4>1, <4>3
    <3> QED BY <3>1, <3>2
  <2> QED BY <2>1 DEF NoneGrew
<1>6. ASSUME NEW j \in Makers PROVE CoverQ(j)'
  <2>1. CoverQ(j)
    BY DEF CoverInv
  <2> QED BY <1>4, <2>1 DEF CoverQ
<1>7. CoverB(m, t)'
  <2>1. escrowB \in [Makers -> [Tokens -> Nat]] /\ CoverB(m, t)
    BY DEF CoverInv, MoneyT
  <2>2. escrowB[m][t] = Unsold(m, t) /\ escrowB'[m][t] = escrowB[m][t] - base
    BY <2>1 DEF CoverB
  <2>3. Unsold(m, t)' \in Nat
    <3>1. Sells(m, t)' \subseteq Sells(m, t)
      BY DEF Rewritten, Sells, OpenOf, OpenOn
    <3>2. \A i \in Sells(m, t)' : LeftOf'[i] \in Nat
      <4>1. ASSUME NEW i \in Sells(m, t)' PROVE LeftOf'[i] \in Nat
        <5>1. CASE i = id
          BY <5>1 DEF LeftOf, Rewritten
        <5>2. CASE i # id
          <6>1. i \in DOMAIN order /\ LeftOf'[i] = LeftOf[i]
            BY <3>1, <4>1, <5>2, TableType DEF LeftOf, Rewritten
          <6> QED BY <6>1, TableType
        <5> QED BY <5>1, <5>2
      <4> QED BY <4>1
    <3>3. IsFiniteSet(Sells(m, t)')
      BY <3>1, TableType, FS_Subset
    <3> DEFINE S == Sells(m, t)'
               g == LeftOf'
    <3>4. IsFiniteSet(S) /\ \A i \in S : g[i] \in Nat
      BY <3>2, <3>3
    <3>5. SumFunctionOnSet(g, S) \in Nat
      <4> HIDE DEF S, g
      <4> QED BY <3>4, SumTake
    <3> QED BY <3>5 DEF Unsold
  <2> DEFINE s == Unsold(m, t)
             s2 == Unsold(m, t)'
             was == order[id].open
             now == new.open
  <2>4. /\ s \in Nat /\ s2 \in Nat /\ was \in Nat /\ now \in Nat
        /\ s2 + was = s + now /\ base + now = was
    BY <1>1, <1>2, <2>3
  <2> HIDE DEF s, s2, was, now
  <2>5. s2 = s - base
    BY <2>4, SMTT(60)
  <2> QED BY <2>2, <2>5 DEF CoverB, s, s2
<1>8. ASSUME NEW j \in Makers, NEW u \in Tokens, ~(j = m /\ u = t) PROVE CoverB(j, u)'
  <2>1. CoverB(j, u) /\ escrowB \in [Makers -> [Tokens -> Nat]]
    BY DEF CoverInv, MoneyT
  <2>2. escrowB'[j][u] = escrowB[j][u]
    BY <1>8, <2>1
  <2> QED BY <1>4, <1>8, <2>1, <2>2 DEF CoverB
<1> QED BY <1>5, <1>6, <1>7, <1>8 DEF CoverInv

\* The lock of an open order that was placed for a fitting quote fits.
LEMMA StillFits ==
  ASSUME BookT, NoneGrew, NEW id \in DOMAIN order, order[id].side = "buy",
         QuotesFit(order[id].maker)
  PROVE  order[id].open * order[id].price + Scale - 1 < Scale * Word
<1> DEFINE a == order[id].open
           b == order[id].orig
           p == order[id].price
<1>1. a \in Nat /\ b \in Nat /\ p \in Nat /\ a <= b
  BY TableType DEF NoneGrew
<1>2. b * p + Scale - 1 < Scale * Word
  BY DEF QuotesFit
<1>3. Scale \in Nat /\ Word \in Nat
  BY OrderBookAssumption
<1> HIDE DEF a, b, p
<1>4. a * p <= b * p
  BY <1>1, SMTT(60)
<1>5. a * p \in Nat /\ b * p \in Nat /\ Scale * Word \in Nat
  BY <1>1, <1>3, SMTT(60)
<1>6. a * p + Scale - 1 < Scale * Word
  BY <1>2, <1>3, <1>4, <1>5, SMTT(60)
<1> QED BY <1>6 DEF a, p

\* A cancelled buy order is paid back its whole lock.
LEMMA CancelBuyCovers ==
  ASSUME BookT, MoneyT, CoverInv, NEW id, CancelBuy(id)
  PROVE  CoverInv'
<1> DEFINE new == [order[id] EXCEPT !.status = "cancelled", !.open = 0]
           m == order[id].maker
           pay == CancelQuote(id)
           old == QuoteLockCeil(order[id].open, order[id].price)
<1>1. IsOpen(id) /\ order[id].side = "buy" /\ Close(id, "cancelled")
      /\ escrowQ' = [escrowQ EXCEPT ![m] = @ - pay] /\ escrowB' = escrowB /\ fills' = fills
  BY DEF CancelBuy
<1>2. m \in Makers /\ order[id].open \in Nat /\ order[id].price \in Nat /\ order[id] \in OrderT
  BY <1>1, OrderType
<1>3. Rewritten(id, new) /\ new.open = 0 /\ new.side = "buy" /\ new.maker = m
      /\ new.price = order[id].price
  BY <1>1, <1>2, CloseStep DEF OrderT
<1>4. escrowQ[m] \in Nat /\ fills[m] \in Nat /\ fills \in [Makers -> Nat]
  BY <1>2 DEF MoneyT
<1>5. old \in Nat
  BY <1>2, QuoteType
<1>6. pay = IF old > escrowQ[m] THEN escrowQ[m] ELSE old
  BY DEF CancelQuote
<1>7. pay \in Nat
  <2> HIDE DEF old, pay, m
  <2> QED BY <1>4, <1>5, <1>6, SMTT(60)
<1>8. QuotesFit(m) => pay = old
  <2> SUFFICES ASSUME QuotesFit(m) PROVE pay = old
    OBVIOUS
  <2>1. old <= Reserved(m)
    BY <1>1, LockReserved
  <2>2. Reserved(m) <= escrowQ[m] /\ Reserved(m) \in Nat
    BY <1>2, CostType DEF CoverInv, CoverQ
  <2> DEFINE r == Reserved(m)
  <2>3. old <= r /\ r <= escrowQ[m] /\ r \in Nat
    BY <2>1, <2>2
  <2> HIDE DEF old, pay, m, r
  <2> QED BY <1>4, <1>5, <1>6, <2>3, SMTT(60)
<1>9. fills' = [fills EXCEPT ![m] = @ + 0]
  <2>1. fills[m] + 0 = fills[m]
    BY <1>4, SMTT(60)
  <2> QED BY <1>1, <1>4, <2>1
<1>10. QuoteLockCeil(0, order[id].price) = 0
  BY <1>2, NoLock
<1>11. QuotesFit(m) =>
         /\ pay + QuoteLockCeil(new.open, new.price) <= QuoteLockCeil(order[id].open, new.price)
         /\ QuoteLockCeil(order[id].open, new.price)
              <= pay + QuoteLockCeil(new.open, new.price) + 0
  <2>1. QuoteLockCeil(new.open, new.price) = 0 /\ QuoteLockCeil(order[id].open, new.price) = old
    BY <1>3, <1>10
  <2> HIDE DEF old, pay, m
  <2>2. QuotesFit(m) => pay + 0 <= old /\ old <= pay + 0 + 0
    BY <1>5, <1>7, <1>8, SMTT(60)
  <2> QED BY <2>1, <2>2
<1>12. 0 \in Nat
  OBVIOUS
<1> HIDE DEF new, m, pay, old
<1> QED BY <1>1, <1>2, <1>3, <1>7, <1>9, <1>11, <1>12, BuyStepCovers

\* A fill pays the floor, and the rest keeps a lock rounded up.
LEMMA FillBuyCovers ==
  ASSUME BookT, MoneyT, CoverInv, NEW id, NEW maxBase \in Amounts, FillBuy(id, maxBase)
  PROVE  CoverInv'
<1> DEFINE m == order[id].maker
           base == Filled(id, maxBase)
           price == order[id].price
           left == order[id].open
           pay == QuoteFloor(base, price)
<1>1. IsOpen(id) /\ order[id].side = "buy" /\ Reduce(id, base)
      /\ escrowQ' = [escrowQ EXCEPT ![m] = @ - pay] /\ escrowB' = escrowB
      /\ fills' = [fills EXCEPT ![m] = @ + 1]
  BY DEF FillBuy
<1>2. m \in Makers /\ left \in Nat /\ price \in Nat /\ maxBase \in Nat
  BY <1>1, OrderType, OrderBookAssumption
<1>3. base \in Nat /\ base \in 0 .. left
  BY <1>2, SMTT(60) DEF Filled
<1>4. PICK new : Rewritten(id, new) /\ new.open = left - base
  BY <1>1, <1>2, ReduceStep
<1>5. new.side = "buy" /\ new.maker = m /\ new.price = price
  BY <1>1, <1>4 DEF Rewritten
<1>6. new.open \in Nat /\ pay \in Nat
  <2>1. pay \in Nat
    BY <1>2, <1>3, QuoteType
  <2> HIDE DEF left, base
  <2>2. left - base \in Nat
    BY <1>2, <1>3, SMTT(60)
  <2> QED BY <1>4, <2>1, <2>2
<1>7. QuotesFit(m) =>
         /\ pay + QuoteLockCeil(new.open, new.price) <= QuoteLockCeil(order[id].open, new.price)
         /\ QuoteLockCeil(order[id].open, new.price)
              <= pay + QuoteLockCeil(new.open, new.price) + 1
  <2> SUFFICES ASSUME QuotesFit(m)
               PROVE  /\ pay + QuoteLockCeil(left - base, price) <= QuoteLockCeil(left, price)
                      /\ QuoteLockCeil(left, price)
                           <= pay + QuoteLockCeil(left - base, price) + 1
    BY <1>4, <1>5
  <2>1. left * price + Scale - 1 < Scale * Word
    BY <1>1, StillFits DEF CoverInv, IsOpen
  <2> HIDE DEF left, base, price
  <2> QED BY <1>2, <1>3, <2>1, FillKeepsCover
<1>8. 1 \in Nat
  BY SMTT(60)
<1> HIDE DEF m, pay
<1> QED BY <1>1, <1>2, <1>4, <1>5, <1>6, <1>7, <1>8, BuyStepCovers

\* A cancelled or filled sell order pays out what leaves it.
LEMMA CancelSellCovers ==
  ASSUME BookT, MoneyT, CoverInv, NEW id, CancelSell(id)
  PROVE  CoverInv'
<1> DEFINE new == [order[id] EXCEPT !.status = "cancelled", !.open = 0]
           m == order[id].maker
           t == order[id].token
           base == order[id].open
<1>1. IsOpen(id) /\ order[id].side = "sell" /\ Close(id, "cancelled")
      /\ escrowB' = [escrowB EXCEPT ![m][t] = @ - base] /\ escrowQ' = escrowQ
      /\ fills' = fills
  BY DEF CancelSell
<1>2. m \in Makers /\ t \in Tokens /\ base \in Nat /\ order[id] \in OrderT
  BY <1>1, OrderType
<1>3. Rewritten(id, new) /\ new.open = 0 /\ new.side = "sell" /\ new.maker = m /\ new.token = t
  BY <1>1, <1>2, CloseStep DEF OrderT
<1>4. base + 0 = base /\ 0 \in Nat
  <2> HIDE DEF base
  <2> QED BY <1>2, SMTT(60)
<1>5. base + new.open = order[id].open /\ new.open \in Nat
  BY <1>3, <1>4
<1> HIDE DEF new, m, t, base
<1> QED BY <1>1, <1>2, <1>3, <1>5, SellStepCovers

\* The same for a fill.
LEMMA FillSellCovers ==
  ASSUME BookT, MoneyT, CoverInv, NEW id, NEW maxBase \in Amounts, FillSell(id, maxBase)
  PROVE  CoverInv'
<1> DEFINE m == order[id].maker
           t == order[id].token
           base == Filled(id, maxBase)
           left == order[id].open
<1>1. IsOpen(id) /\ order[id].side = "sell" /\ Reduce(id, base)
      /\ escrowB' = [escrowB EXCEPT ![m][t] = @ - base] /\ escrowQ' = escrowQ
      /\ fills' = fills
  BY DEF FillSell
<1>2. m \in Makers /\ t \in Tokens /\ left \in Nat /\ maxBase \in Nat
  BY <1>1, OrderType, OrderBookAssumption
<1>3. base \in Nat /\ base \in 0 .. left
  BY <1>2, SMTT(60) DEF Filled
<1>4. PICK new : Rewritten(id, new) /\ new.open = left - base
  BY <1>1, <1>2, ReduceStep
<1>5. new.side = "sell" /\ new.maker = m /\ new.token = t
  BY <1>1, <1>4 DEF Rewritten
<1>6. new.open \in Nat /\ base + new.open = order[id].open
  <2> HIDE DEF left, base
  <2>1. left - base \in Nat /\ base + (left - base) = left
    BY <1>2, <1>3, SMTT(60)
  <2> QED BY <1>4, <2>1 DEF left
<1> HIDE DEF m, t, base, left
<1> QED BY <1>1, <1>2, <1>3, <1>4, <1>5, <1>6, SellStepCovers

\* Every step keeps the escrow accounts right.
LEMMA CoverNext ==
  ASSUME BookT, MoneyT, CoverInv, [Next]_vars
  PROVE  CoverInv'
<1>1. CASE UNCHANGED vars
  <2>1. order' = order /\ escrowQ' = escrowQ /\ escrowB' = escrowB /\ fills' = fills
    BY <1>1 DEF vars, book
  <2>2. NoneGrew'
    BY <2>1 DEF CoverInv, NoneGrew
  <2>3. ASSUME NEW m \in Makers PROVE CoverQ(m)'
    <3>1. Reserved(m)' = Reserved(m) /\ QuotesFit(m)' = QuotesFit(m)
      BY <2>1 DEF Reserved, QuotesFit, OpenOf
    <3> QED BY <2>1, <3>1 DEF CoverInv, CoverQ
  <2>4. ASSUME NEW m \in Makers, NEW t \in Tokens PROVE CoverB(m, t)'
    <3>1. Unsold(m, t)' = Unsold(m, t)
      BY <2>1 DEF Unsold, LeftOf, Sells, OpenOf, OpenOn
    <3> QED BY <2>1, <3>1 DEF CoverInv, CoverB
  <2> QED BY <2>2, <2>3, <2>4 DEF CoverInv
<1> QED BY <1>1, PlaceBuyCovers, PlaceSellCovers, CancelBuyCovers, CancelSellCovers,
           FillBuyCovers, FillSellCovers DEF Next

\* Nothing is owed at the start.
LEMMA MoneyInit == Init => MoneyT /\ Solvent /\ CoverInv
<1> SUFFICES ASSUME Init PROVE MoneyT /\ Solvent /\ CoverInv
  OBVIOUS
<1>1. MoneyT
  BY DEF Init, MoneyT
<1>2. Solvent
  <2>1. SumFunction(escrowQ) = 0
    <3>1. DOMAIN escrowQ = Makers /\ \A y \in Makers : escrowQ[y] = 0
      BY DEF Init
    <3> QED BY <3>1, SumZero, OrderBookAssumption DEF SumFunction
  <2>2. ASSUME NEW t \in Tokens PROVE SumFunction([m \in Makers |-> escrowB[m][t]]) = 0
    <3> DEFINE e == [m \in Makers |-> escrowB[m][t]]
    <3>1. DOMAIN e = Makers /\ \A y \in Makers : e[y] = 0
      BY DEF Init
    <3> HIDE DEF e
    <3>2. SumFunction(e) = 0
      BY <3>1, SumZero, OrderBookAssumption DEF SumFunction
    <3> QED BY <3>2 DEF e
  <2>3. 0 + 0 >= 0
    BY SMTT(60)
  <2>4. bal = 0 /\ ghostQ = 0 /\ \A t \in Tokens : held[t] = 0 /\ ghostB[t] = 0
    BY DEF Init
  <2> QED BY <2>1, <2>2, <2>3, <2>4 DEF Solvent
<1>3. CoverInv
  <2>1. DOMAIN order = {}
    BY SMTT(60) DEF Init
  <2>2. \A m, t : OpenOf(m) = {} /\ Buys(m) = {} /\ Sells(m, t) = {}
    BY <2>1 DEF OpenOf, Buys, Sells
  <2>3. \A m, t : Reserved(m) = 0 /\ Unsold(m, t) = 0
    BY <2>2, SumEmpty DEF Reserved, Unsold, Buys
  <2>4. 0 <= 0 /\ 0 <= 0 + 0
    BY SMTT(60)
  <2>5. ASSUME NEW m \in Makers PROVE CoverQ(m) /\ \A t \in Tokens : CoverB(m, t)
    <3>1. escrowQ[m] = 0 /\ fills[m] = 0 /\ \A t \in Tokens : escrowB[m][t] = 0
      BY DEF Init
    <3> QED BY <2>3, <2>4, <3>1 DEF CoverQ, CoverB
  <2> QED BY <2>1, <2>5 DEF CoverInv, NoneGrew
<1> QED BY <1>1, <1>2, <1>3

\* The book and the money together.
LEMMA MoneyStays == Spec => [](BookT /\ MoneyT /\ Solvent /\ CoverInv)
<1> DEFINE I == BookInv /\ MoneyT /\ Solvent /\ CoverInv
<1>1. Init => I
  BY InitOK, MoneyInit
<1>2. I /\ [Next]_vars => I'
  <2> SUFFICES ASSUME I, [Next]_vars PROVE I'
    OBVIOUS
  <2>1. BookT
    BY DEF BookInv
  <2>2. BookInv'
    BY NextOK
  <2> QED BY <2>1, <2>2, SolventNext, CoverNext
<1>3. I => BookT /\ MoneyT /\ Solvent /\ CoverInv
  BY DEF BookInv
<1> QED BY <1>1, <1>2, <1>3, PTL DEF Spec

\* Whatever fails or is reverted after the slots were written, 0x101 holds the
\* sum of its escrow accounts, in DEW and in every token, but for the orders
\* whose placing was reverted: for any makers, tokens, prices and amounts, and
\* a word of any size.
THEOREM ModuleIsSolvent == Spec => []Solvent
BY MoneyStays, PTL

\* Through any placing, filling and cancelling, a maker's quote escrow is what
\* its open buy orders may still cost, plus at most one wei for each fill, and
\* its base escrow is exactly what its sell orders have left.
THEOREM EscrowIsKept == Spec => []EscrowCoversOrders
<1>1. BookT /\ MoneyT /\ CoverInv => EscrowCoversOrders
  BY CoverForms DEF CoverInv
<1> QED BY <1>1, MoneyStays, PTL

----------------------------------------------------------------------------
(* The walk along the open list.                                           *)

\* acc holds what the walk has found after each entry of the list.
IsWalk(side, list, n, acc) ==
  acc[0] = 0 /\ \A k \in 1 .. n : acc[k] = Walk(side, list[k], acc[k - 1])

\* Of two open orders on one side, the one that is filled first.
Before(side, a, b) == Better(side, order[a], a, b)

\* What the walk has found is the best of the entries it has passed.
Found(side, list, k, best) ==
  IF k = 0 THEN best = 0
  ELSE /\ \E i \in 1 .. k : best = list[i]
       /\ \A j \in 1 .. k : list[j] = best \/ Before(side, best, list[j])

\* Open orders are in one line.
LEMMA BeforeOrders ==
  ASSUME BookT, NEW side, NEW a \in DOMAIN order, NEW b \in DOMAIN order
  PROVE  /\ a = b \/ Before(side, a, b) \/ Before(side, b, a)
         /\ \A c \in DOMAIN order :
              Before(side, a, b) /\ Before(side, b, c) => Before(side, a, c)
<1>1. \A i \in DOMAIN order : i \in Nat /\ order[i].price \in Nat
  <2>1. \A i \in DOMAIN order : i \in Nat
    BY SMTT(60) DEF BookT
  <2> QED BY <2>1, TableType
<1>2. PICK price : \A i \in DOMAIN order : price[i] = order[i].price
  <2>1. \A i \in DOMAIN order : [j \in DOMAIN order |-> order[j].price][i] = order[i].price
    OBVIOUS
  <2> QED BY <2>1
<1>3. \A i, j \in DOMAIN order :
        Before(side, i, j) <=> \/ side = "buy" /\ price[i] > price[j]
                               \/ side # "buy" /\ price[i] < price[j]
                               \/ price[i] = price[j] /\ i < j
  BY <1>2 DEF Before, Better
<1>4. \A i \in DOMAIN order : i \in Nat /\ price[i] \in Nat
  BY <1>1, <1>2
<1>5. a = b \/ Before(side, a, b) \/ Before(side, b, a)
  BY <1>3, <1>4, SMTT(60)
<1>6. ASSUME NEW c \in DOMAIN order, Before(side, a, b), Before(side, b, c)
      PROVE  Before(side, a, c)
  BY <1>3, <1>4, <1>6, SMTT(60)
<1> QED BY <1>5, <1>6

\* One step of the walk.
LEMMA WalkStep ==
  ASSUME BookT, NEW side, NEW list, NEW n \in Nat, \A k \in 1 .. n : IsOpen(list[k]),
         NEW k \in 1 .. n, NEW best, Found(side, list, k - 1, best)
  PROVE  Found(side, list, k, Walk(side, list[k], best))
<1> DEFINE x == list[k]
<1>1. IsOpen(x) /\ x \in DOMAIN order
  BY DEF IsOpen
<1>2. k # 0 /\ k \in 1 .. k /\ k \in Nat /\ k - 1 \in Nat
  BY SMTT(60)
<1>3. CASE k - 1 = 0
  <2>1. best = 0 /\ Walk(side, x, best) = x
    BY <1>1, <1>3 DEF Found, Walk
  <2>2. \A j \in 1 .. k : j = k
    BY <1>2, <1>3, SMTT(60)
  <2> QED BY <1>2, <2>1, <2>2 DEF Found
<1>4. CASE k - 1 # 0
  <2>1. PICK i \in 1 .. k - 1 : best = list[i]
    BY <1>4 DEF Found
  <2>2. \A j \in 1 .. k - 1 : list[j] = best \/ Before(side, best, list[j])
    BY <1>4 DEF Found
  <2>3. \A j \in 1 .. k - 1 : j \in 1 .. n /\ j \in 1 .. k
    BY <1>2, SMTT(60)
  <2>4. \A j \in 1 .. k : j = k \/ j \in 1 .. k - 1
    BY <1>2, SMTT(60)
  <2>5. best \in DOMAIN order /\ \A j \in 1 .. k - 1 : list[j] \in DOMAIN order
    BY <2>1, <2>3 DEF IsOpen
  <2>6. best # 0
    <3>1. 0 \notin DOMAIN order
      BY SMTT(60) DEF BookT
    <3> QED BY <2>5, <3>1
  <2>7. CASE Before(side, x, best)
    <3>1. Walk(side, x, best) = x
      BY <1>1, <2>7 DEF Walk, Before
    <3>2. \A j \in 1 .. k - 1 : Before(side, x, list[j])
      BY <1>1, <2>2, <2>5, <2>7, BeforeOrders
    <3> HIDE DEF x
    <3> QED BY <1>2, <2>4, <3>1, <3>2 DEF Found, x
  <2>8. CASE ~Before(side, x, best)
    <3>1. Walk(side, x, best) = best
      BY <1>1, <2>6, <2>8 DEF Walk, Before
    <3>2. x = best \/ Before(side, best, x)
      BY <1>1, <2>5, <2>8, BeforeOrders
    <3> HIDE DEF x
    <3> QED BY <1>2, <2>1, <2>2, <2>3, <2>4, <3>1, <3>2 DEF Found, x
  <2> QED BY <2>7, <2>8
<1> QED BY <1>3, <1>4

\* The walk, to its end.
LEMMA WalkFinds ==
  ASSUME BookT, NEW side, NEW list, NEW n \in Nat, \A k \in 1 .. n : IsOpen(list[k]),
         NEW acc, IsWalk(side, list, n, acc)
  PROVE  Found(side, list, n, acc[n])
<1> DEFINE T == {k \in Nat : k <= n => Found(side, list, k, acc[k])}
<1>1. 0 \in T
  BY DEF IsWalk, Found
<1>2. ASSUME NEW k \in Nat, k \in T PROVE k + 1 \in T
  <2> SUFFICES ASSUME k + 1 <= n PROVE Found(side, list, k + 1, acc[k + 1])
    BY SMTT(60)
  <2>1. k <= n /\ k + 1 \in 1 .. n /\ (k + 1) - 1 = k
    BY SMTT(60)
  <2>2. Found(side, list, (k + 1) - 1, acc[k])
    BY <1>2, <2>1
  <2>3. acc[k + 1] = Walk(side, list[k + 1], acc[k])
    BY <2>1 DEF IsWalk
  <2> QED BY <2>1, <2>2, <2>3, WalkStep
<1> HIDE DEF T
<1>3. n \in T
  BY <1>1, <1>2, NatInd
<1>4. n <= n
  BY SMTT(60)
<1> QED BY <1>3, <1>4 DEF T

\* The function that Best defines.
IsFound(side, list, n, f) ==
  f = [i \in 0 .. n |-> IF i = 0 THEN 0 ELSE Walk(side, list[i], f[i - 1])]

\* There is one, one entry more at a time.
LEMMA FoundExists ==
  ASSUME NEW side, NEW list, NEW n \in Nat
  PROVE  \E f : IsFound(side, list, n, f)
<1> DEFINE T == {k \in Nat : \E f : IsFound(side, list, k, f)}
<1>1. 0 \in T
  <2> DEFINE f == [i \in 0 .. 0 |-> 0]
  <2>1. \A i \in 0 .. 0 : i = 0
    BY SMTT(60)
  <2>2. IsFound(side, list, 0, f)
    BY <2>1 DEF IsFound
  <2> QED BY <2>2
<1>2. ASSUME NEW k \in Nat, k \in T PROVE k + 1 \in T
  <2>1. PICK f : IsFound(side, list, k, f)
    BY <1>2
  <2> DEFINE Body(h, i) == IF i = 0 THEN 0 ELSE Walk(side, list[i], h[i - 1])
             g == [i \in 0 .. k + 1 |-> Body(f, i)]
  <2>2. ASSUME NEW i \in 0 .. k + 1 PROVE Body(g, i) = Body(f, i)
    <3>1. CASE i = 0
      BY <3>1
    <3>2. CASE i # 0
      <4>1. i - 1 \in 0 .. k + 1 /\ i - 1 \in 0 .. k
        BY <3>2, SMTT(60)
      <4>2. f[i - 1] = Body(f, i - 1)
        BY <2>1, <4>1 DEF IsFound
      <4>3. g[i - 1] = f[i - 1]
        BY <4>1, <4>2
      <4> HIDE DEF g
      <4> QED BY <3>2, <4>3
    <3> QED BY <3>1, <3>2
  <2>3. g = [i \in 0 .. k + 1 |-> Body(g, i)]
    <3> HIDE DEF Body
    <3> QED BY <2>2
  <2> HIDE DEF g
  <2>4. IsFound(side, list, k + 1, g)
    BY <2>3 DEF IsFound
  <2>5. k + 1 \in Nat
    BY SMTT(60)
  <2> QED BY <2>4, <2>5
<1> HIDE DEF T
<1>3. n \in T
  BY <1>1, <1>2, NatInd
<1> QED BY <1>3 DEF T

\* Best is where the walk along the whole list ends.
LEMMA BestWalks ==
  ASSUME BookT, NEW t \in Tokens, NEW side \in Sides
  PROVE  \E acc : IsWalk(side, open[t][side], Len(open[t][side]), acc)
                  /\ Best(t, side) = acc[Len(open[t][side])]
<1> DEFINE list == open[t][side]
           n == Len(list)
           f == CHOOSE f : IsFound(side, list, n, f)
<1>1. list \in Seq(Nat)
  BY DEF BookT
<1>2. n \in Nat /\ 0 \in 0 .. n /\ \A k \in 1 .. n : k \in 0 .. n /\ k # 0
  <2> HIDE DEF list
  <2> QED BY <1>1, SMTT(60)
<1>3. Best(t, side) = f[n]
  BY DEF Best, IsFound
<1> HIDE DEF list, n
<1>4. IsFound(side, list, n, f)
  BY <1>2, FoundExists
<1> HIDE DEF f
<1>5. f[0] = 0 /\ \A k \in 1 .. n : f[k] = Walk(side, list[k], f[k - 1])
  BY <1>2, <1>4 DEF IsFound
<1> QED BY <1>3, <1>5 DEF IsWalk, list, n

\* BestBid and BestAsk name the order that is filled first.
LEMMA BestOfBook == BookInv => BestIsBest
<1> SUFFICES ASSUME BookInv, NEW t \in Tokens, NEW side \in Sides
             PROVE  LET all == OpenOn(t, side)
                        best == Best(t, side)
                    IN IF all = {} THEN best = 0
                       ELSE /\ best \in all
                            /\ \A id \in all \ {best} :
                                 LET p == order[id].price
                                     q == order[best].price
                                 IN (IF side = "buy" THEN p < q ELSE p > q) \/ (p = q /\ best < id)
  BY DEF BestIsBest
<1> DEFINE list == open[t][side]
           n == Len(list)
           all == OpenOn(t, side)
           best == Best(t, side)
<1>1. BookT /\ ListOK(list, all) /\ list \in Seq(Nat)
  BY DEF BookInv, Lists, BookT
<1>2. n \in Nat /\ DOMAIN list = 1 .. n
  <2> HIDE DEF list
  <2> QED BY <1>1, SMTT(60)
<1>3. all = {list[k] : k \in 1 .. n}
  BY <1>1, <1>2 DEF ListOK, Range
<1>4. \A k \in 1 .. n : IsOpen(list[k])
  <2>1. \A id \in all : IsOpen(id)
    BY DEF OpenOn, IsOpen
  <2> HIDE DEF all, list, n
  <2> QED BY <1>3, <2>1
<1>5. PICK acc : IsWalk(side, list, n, acc) /\ best = acc[n]
  BY <1>1, BestWalks
<1> HIDE DEF best, list, n
<1>6. Found(side, list, n, best)
  BY <1>1, <1>2, <1>4, <1>5, WalkFinds
<1> HIDE DEF all
<1>7. CASE all = {}
  <2>1. n = 0
    <3>1. ~(1 \in 1 .. n)
      BY <1>3, <1>7
    <3> QED BY <1>2, <3>1, SMTT(60)
  <2> QED BY <1>6, <1>7, <2>1 DEF Found, best, all
<1>8. CASE all # {}
  <2>1. n # 0
    <3>1. PICK k : k \in 1 .. n
      BY <1>3, <1>8
    <3> QED BY <1>2, <3>1, SMTT(60)
  <2>2. best \in all /\ \A id \in all \ {best} : Before(side, best, id)
    BY <1>3, <1>6, <2>1 DEF Found
  <2>3. \A id \in all : id \in DOMAIN order /\ order[id].price \in Nat
    BY <1>1, TableType DEF all, OpenOn
  <2>4. ASSUME NEW id \in all \ {best}
        PROVE  \/ IF side = "buy" THEN order[id].price < order[best].price
                                  ELSE order[id].price > order[best].price
               \/ order[id].price = order[best].price /\ best < id
    <3> DEFINE p == order[id].price
               q == order[best].price
    <3>1. \/ IF side = "buy" THEN q > p ELSE q < p
          \/ q = p /\ best < id
      BY <2>2 DEF Before, Better
    <3>2. p \in Nat /\ q \in Nat
      BY <2>2, <2>3
    <3> HIDE DEF p, q
    <3>3. \/ IF side = "buy" THEN p < q ELSE p > q
          \/ p = q /\ best < id
      BY <3>1, <3>2, SMTT(60)
    <3> QED BY <3>3 DEF p, q
  <2> QED BY <1>8, <2>2, <2>4 DEF best, all
<1> QED BY <1>7, <1>8

\* BestBid and BestAsk name the open order that comes first by price and age,
\* however swap-removals have shuffled the open list.
THEOREM BestIsFound == Spec => []BestIsBest
<1>1. BookInv /\ [Next]_vars => BookInv'
  BY NextOK
<1> QED BY <1>1, InitOK, BestOfBook, PTL DEF Spec
=============================================================================
