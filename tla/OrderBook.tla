------------------------------ MODULE OrderBook -----------------------------
(***************************************************************************)
(* The limit order book at 0x101: its storage (core/native/orderbook.go)   *)
(* and the calls that change it (core/vm/orderbook_precompile.go), with    *)
(* the DEW and the base tokens the module holds for its makers.            *)
(*                                                                         *)
(* The base tokens are external: a transfer moves exactly its amount or    *)
(* fails.  One to the module that fails ends the call before anything is   *)
(* written.  One out of it may fail after the slots were written, and a    *)
(* contract that made the call may revert after it: either way the         *)
(* balances are put back, while the slots, which are not journaled, keep   *)
(* what was written.  Amounts are wei, prices are quote per Scale (1e18)   *)
(* of base.                                                                *)
(***************************************************************************)
EXTENDS Integers, Sequences, FiniteSets, Functions

CONSTANTS
  Makers,           \* accounts that place orders
  Tokens,           \* base tokens
  Prices, Amounts,  \* what an order may ask for
  Scale,
  Word,             \* 2^256: a quote is kept modulo Word
  MaxOpenPerMaker,
  Reverts,          \* may a call be reverted after it wrote? a subset of BOOLEAN
  MaxOrders, MaxFills   \* bounds

ASSUME OrderBookAssumption ==
  /\ IsFiniteSet(Makers)
  /\ Prices \subseteq Nat \ {0} /\ Amounts \subseteq Nat \ {0}
  /\ Scale \in Nat \ {0} /\ Word \in Nat \ {0}
  /\ MaxOpenPerMaker \in Nat
  /\ Reverts \subseteq BOOLEAN

Sides == {"buy", "sell"}

VARIABLES
  order,      \* the orders ever written, by id
  openCount,  \* open orders of each maker
  open,       \* the open list of each token and side
  escrowQ,    \* quote accounted to each maker
  escrowB,    \* base accounted to each maker, of each token
  bal,        \* the DEW balance of 0x101
  held,       \* its balance of each base token
  fills,      \* history: fills of each maker's buy orders
  ghostQ,     \* history: quote of orders whose placing was reverted
  ghostB      \* history: base of orders whose placing was reverted

book == <<order, openCount, open>>
vars == <<book, escrowQ, escrowB, bal, held, fills, ghostQ, ghostB>>

Init ==
  /\ order = <<>>
  /\ openCount = [m \in Makers |-> 0]
  /\ open = [t \in Tokens |-> [s \in Sides |-> <<>>]]
  /\ escrowQ = [m \in Makers |-> 0]
  /\ escrowB = [m \in Makers |-> [t \in Tokens |-> 0]]
  /\ bal = 0
  /\ held = [t \in Tokens |-> 0]
  /\ fills = [m \in Makers |-> 0]
  /\ ghostQ = 0
  /\ ghostB = [t \in Tokens |-> 0]

----------------------------------------------------------------------------
(* Conversions, and the parts of the calls that write the book.            *)

\* The product is a big integer; the quotient is cut to a word.
QuoteFloor(base, price) == ((base * price) \div Scale) % Word
QuoteLockCeil(base, price) == ((base * price + Scale - 1) \div Scale) % Word

\* A new order takes the next id: the ids are the indexes of order.
WriteNewOrder(m, t, side, price, base) ==
  /\ order' = Append(order, [maker |-> m, token |-> t, side |-> side,
                             price |-> price, open |-> base, orig |-> base,
                             status |-> "open"])
  /\ openCount' = [openCount EXCEPT ![m] = @ + 1]
  /\ open' = [open EXCEPT ![t][side] = Append(@, Len(order) + 1)]

\* Mutant: the list is cut short without saving its last entry.
RemoveOpenIndexCut(list, id) ==
  IF id \in Range(list) THEN SubSeq(list, 1, Len(list) - 1) ELSE list

\* The last id of the list takes the place of the one removed.
RemoveOpenIndex(list, id) ==
  IF \E i \in 1 .. Len(list) : list[i] = id
  THEN LET at == CHOOSE i \in 1 .. Len(list) : list[i] = id
       IN [j \in 1 .. Len(list) - 1 |-> IF j = at THEN list[Len(list)] ELSE list[j]]
  ELSE list

DecOpenCount(n) == IF n = 0 THEN 0 ELSE n - 1

\* The order id leaves the book with the given status.
Close(id, status) ==
  LET ord == order[id]
  IN /\ order' = [order EXCEPT ![id] = [@ EXCEPT !.status = status, !.open = 0]]
     /\ openCount' = [openCount EXCEPT ![ord.maker] = DecOpenCount(@)]
     /\ open' = [open EXCEPT ![ord.token][ord.side] = RemoveOpenIndex(@, id)]

\* The order shrinks by base and closes when nothing is left.
Reduce(id, base) ==
  IF order[id].open = base THEN Close(id, "filled")
  ELSE /\ order' = [order EXCEPT ![id].open = @ - base]
       /\ UNCHANGED <<openCount, open>>

\* What a cancelled buy order is paid back, at most the maker's escrow.
CancelQuote(id) ==
  LET lock == QuoteLockCeil(order[id].open, order[id].price)
      escrow == escrowQ[order[id].maker]
  IN IF lock > escrow THEN escrow ELSE lock

IsOpen(id) == id \in DOMAIN order /\ order[id].status = "open"

----------------------------------------------------------------------------
(* Calls.  A call that fails before it writes is no step.                  *)

\* 0x101 receives quote, or pays it, unless the call is reverted.
ReceiveQuote(amount) ==
  \E reverted \in Reverts :
    IF reverted THEN ghostQ' = ghostQ + amount /\ UNCHANGED bal
                ELSE bal' = bal + amount /\ UNCHANGED ghostQ

PayQuote(amount) ==
  \E reverted \in Reverts \cup {bal < amount} :
    /\ bal < amount => reverted
    /\ bal' = IF reverted THEN bal ELSE bal - amount

\* The same for the base token t.
ReceiveBase(t, amount) ==
  \E reverted \in Reverts :
    IF reverted THEN ghostB' = [ghostB EXCEPT ![t] = @ + amount] /\ UNCHANGED held
                ELSE held' = [held EXCEPT ![t] = @ + amount] /\ UNCHANGED ghostB

PayBase(t, amount) ==
  \E reverted \in Reverts \cup {held[t] < amount} :
    /\ held[t] < amount => reverted
    /\ held' = IF reverted THEN held ELSE [held EXCEPT ![t] = @ - amount]

MayPlace(m) == Len(order) < MaxOrders /\ openCount[m] < MaxOpenPerMaker

\* Mutant: the value asked for and booked is rounded down.
PlaceBuyFloor(m, t, price, base) ==
  LET lock == QuoteFloor(base, price)
  IN /\ MayPlace(m) /\ lock # 0
     /\ WriteNewOrder(m, t, "buy", price, base)
     /\ escrowQ' = [escrowQ EXCEPT ![m] = @ + lock]
     /\ ReceiveQuote(lock)
     /\ UNCHANGED <<escrowB, held, fills, ghostB>>

\* Mutant: the value asked for is rounded down, the one booked is rounded up.
PlaceBuyShort(m, t, price, base) ==
  LET lock == QuoteLockCeil(base, price)
  IN /\ MayPlace(m) /\ lock # 0
     /\ WriteNewOrder(m, t, "buy", price, base)
     /\ escrowQ' = [escrowQ EXCEPT ![m] = @ + lock]
     /\ ReceiveQuote(QuoteFloor(base, price))
     /\ UNCHANGED <<escrowB, held, fills, ghostB>>

\* The call's value is exactly the lock.
PlaceBuy(m, t, price, base) ==
  LET lock == QuoteLockCeil(base, price)
  IN /\ MayPlace(m) /\ lock # 0
     /\ WriteNewOrder(m, t, "buy", price, base)
     /\ escrowQ' = [escrowQ EXCEPT ![m] = @ + lock]
     /\ ReceiveQuote(lock)
     /\ UNCHANGED <<escrowB, held, fills, ghostB>>

\* The base tokens are pulled from the maker before the order is written.
PlaceSell(m, t, price, base) ==
  /\ MayPlace(m)
  /\ WriteNewOrder(m, t, "sell", price, base)
  /\ escrowB' = [escrowB EXCEPT ![m][t] = @ + base]
  /\ ReceiveBase(t, base)
  /\ UNCHANGED <<escrowQ, bal, fills, ghostQ>>

\* The maker takes a buy order back.
CancelBuy(id) ==
  LET ord == order[id]
      refund == CancelQuote(id)
  IN /\ IsOpen(id) /\ ord.side = "buy"
     /\ Close(id, "cancelled")
     /\ escrowQ' = [escrowQ EXCEPT ![ord.maker] = @ - refund]
     /\ PayQuote(refund)
     /\ UNCHANGED <<escrowB, held, fills, ghostQ, ghostB>>

CancelSell(id) ==
  LET ord == order[id]
  IN /\ IsOpen(id) /\ ord.side = "sell"
     /\ escrowB[ord.maker][ord.token] >= ord.open
     /\ Close(id, "cancelled")
     /\ escrowB' = [escrowB EXCEPT ![ord.maker][ord.token] = @ - ord.open]
     /\ PayBase(ord.token, ord.open)
     /\ UNCHANGED <<escrowQ, bal, fills, ghostQ, ghostB>>

Filled(id, maxBase) ==
  IF maxBase > order[id].open THEN order[id].open ELSE maxBase

\* A taker sells base to a buy order.  The base goes through the module to the
\* maker, the quote comes out of the maker's escrow.
FillBuy(id, maxBase) ==
  LET ord == order[id]
      base == Filled(id, maxBase)
      quote == QuoteFloor(base, ord.price)
  IN /\ IsOpen(id) /\ ord.side = "buy"
     /\ fills[ord.maker] < MaxFills
     /\ escrowQ[ord.maker] >= quote
     /\ Reduce(id, base)
     /\ escrowQ' = [escrowQ EXCEPT ![ord.maker] = @ - quote]
     /\ PayQuote(quote)
     /\ fills' = [fills EXCEPT ![ord.maker] = @ + 1]
     /\ UNCHANGED <<escrowB, held, ghostQ, ghostB>>

\* A taker buys base from a sell order.  The quote goes through the module to
\* the maker, and what the taker sent too much goes back.
FillSell(id, maxBase) ==
  LET ord == order[id]
      base == Filled(id, maxBase)
  IN /\ IsOpen(id) /\ ord.side = "sell"
     /\ escrowB[ord.maker][ord.token] >= base
     /\ Reduce(id, base)
     /\ escrowB' = [escrowB EXCEPT ![ord.maker][ord.token] = @ - base]
     /\ PayBase(ord.token, base)
     /\ UNCHANGED <<escrowQ, bal, fills, ghostQ, ghostB>>

Next ==
  \/ \E m \in Makers, t \in Tokens, price \in Prices, base \in Amounts :
       PlaceBuy(m, t, price, base) \/ PlaceSell(m, t, price, base)
  \/ \E id \in 1 .. MaxOrders : CancelBuy(id) \/ CancelSell(id)
  \/ \E id \in 1 .. MaxOrders, maxBase \in Amounts :
       FillBuy(id, maxBase) \/ FillSell(id, maxBase)

Spec == Init /\ [][Next]_vars

----------------------------------------------------------------------------
(* Reading the book.                                                       *)

\* Mutant: the first of two orders in the list stays the best.
BetterFirst(side, ord, id, best) ==
  IF side = "buy" THEN ord.price > order[best].price
                  ELSE ord.price < order[best].price

Better(side, ord, id, best) ==
  LET cur == order[best]
  IN \/ IF side = "buy" THEN ord.price > cur.price ELSE ord.price < cur.price
     \/ ord.price = cur.price /\ id < best

\* One entry of an open list, and the best order so far; 0 when there is none.
Walk(side, id, best) ==
  IF ~IsOpen(id) THEN best
  ELSE IF best = 0 \/ Better(side, order[id], id, best) THEN id
  ELSE best

\* Walks the open list from its first entry on.
Best(t, side) ==
  LET list == open[t][side]
      found[i \in 0 .. Len(list)] == IF i = 0 THEN 0 ELSE Walk(side, list[i], found[i - 1])
  IN found[Len(list)]

----------------------------------------------------------------------------
(* Properties.                                                             *)

\* The open orders on one side of a token's book, and those of one maker.
OpenOn(t, side) ==
  {id \in DOMAIN order : /\ order[id].status = "open"
                            /\ order[id].token = t
                            /\ order[id].side = side}

OpenOf(m) == {id \in DOMAIN order : /\ order[id].status = "open"
                                       /\ order[id].maker = m}

\* Every buy order of m was placed for a quote that fits in a word.
QuotesFit(m) ==
  \A id \in DOMAIN order :
    order[id].maker = m /\ order[id].side = "buy"
      => order[id].orig * order[id].price + Scale - 1 < Scale * Word

\* The quote that the open buy orders of m may still cost.
Reserved(m) ==
  LET lock == [id \in DOMAIN order |-> QuoteLockCeil(order[id].open, order[id].price)]
  IN SumFunctionOnSet(lock, {id \in OpenOf(m) : order[id].side = "buy"})

\* The module holds what its escrow accounts add up to, in DEW and in every
\* token, but for the orders whose placing was reverted: nothing else that
\* fails after the slots were written makes the module insolvent.
Solvent ==
  /\ bal + ghostQ >= SumFunction(escrowQ)
  /\ \A t \in Tokens :
       held[t] + ghostB[t] >= SumFunction([m \in Makers |-> escrowB[m][t]])

\* A maker's escrow covers what its open orders may still cost, so that no
\* order on the book fails for escrow when it is filled or cancelled: a fill
\* pays the floor and the rest of the order keeps a lock rounded up.  What it
\* holds beyond that, for no order, is at most one wei for each fill.  For quote
\* this asks that none of the maker's orders was cut to a word.
EscrowCoversOrders ==
  \A m \in Makers :
    /\ QuotesFit(m) => escrowQ[m] - Reserved(m) \in 0 .. fills[m]
    /\ \A t \in Tokens :
         LET left == [id \in DOMAIN order |-> order[id].open]
         IN escrowB[m][t] = SumFunctionOnSet(left, OpenOf(m) \cap OpenOn(t, "sell"))

\* The open lists name the open orders, each once, and the open counts count
\* them, through any order of swap-removals.
IndexIsExact ==
  /\ \A t \in Tokens, s \in Sides :
       IsInjective(open[t][s]) /\ Range(open[t][s]) = OpenOn(t, s)
  /\ \A m \in Makers :
       openCount[m] = Cardinality(OpenOf(m)) /\ openCount[m] <= MaxOpenPerMaker

\* BestBid and BestAsk name the open order with the best price, the oldest of
\* those with the same, whatever order the list has come into.
BestIsBest ==
  \A t \in Tokens, side \in Sides :
    LET all == OpenOn(t, side)
        best == Best(t, side)
    IN IF all = {} THEN best = 0
       ELSE /\ best \in all
            /\ \A id \in all \ {best} :
                 LET p == order[id].price
                     q == order[best].price
                 IN (IF side = "buy" THEN p < q ELSE p > q) \/ (p = q /\ best < id)
=============================================================================
