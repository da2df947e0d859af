--------------------------- MODULE MCParallelExec ---------------------------
EXTENDS ParallelExec

CONSTANTS a, b, c, d, e, x, da, db, coin, kc, kd, none

AllAddrs == {a, b, c, d, e, x, da, db, coin}
AllSlots == {kc, kd}
OwnerOf == [k \in AllSlots |-> IF k = kc THEN c ELSE d]
Slot == [t \in AllAddrs |-> IF t = d THEN kd ELSE kc]
DeployedBy == [s \in AllAddrs |-> IF s = a THEN da ELSE db]

\* Two senders, two contracts, an account that exists and is empty, and others
\* that are not there yet.
Accounts ==
  [t \in AllAddrs |->
     CASE t = a -> [balance |-> 4, nonce |-> 0]
       [] t = b -> [balance |-> 3, nonce |-> 0]
       [] t \in {c, d} -> [balance |-> 0, nonce |-> 1]
       [] t = e -> [balance |-> 0, nonce |-> 0]
       [] OTHER -> none]

Msg(kind, from, to, value, price, op, at) ==
  [kind |-> kind, from |-> from, to |-> to, value |-> value, price |-> price, op |-> op, at |-> at]
Pay(from, to, value, price) == Msg("call", from, to, value, price, "none", from)
Exec(from, to, op, at) == Msg("call", from, to, 0, 0, op, at)

Transfers == {Pay(a, b, 1, 0), Pay(b, x, 1, 0), Pay(x, c, 1, 0), Pay(a, e, 0, 0), Pay(b, x, 0, 1),
              Pay(a, x, 2, 1)}
Contracts == {Exec(a, c, "bump", a), Exec(b, d, "revert", b), Exec(b, d, "peek", x), Exec(a, d, "peek", coin)}
Creations == {Msg("create", a, a, 1, 0, "none", a), Msg("createDestroy", b, b, 1, 0, "none", b)}

BlockMessages == Transfers \cup Contracts \cup Creations
Overspending == {Pay(b, x, 1, 0), Exec(a, c, "overspend", x)}
EarlierMessages == {Pay(a, x, 1, 0), Exec(b, d, "bump", b), Pay(a, e, 0, 0)}

=============================================================================
