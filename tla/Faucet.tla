------------------------------- MODULE Faucet -------------------------------
(***************************************************************************)
(* The faucet (faucet/): an HTTP service of its own that pays a fixed      *)
(* amount per request, within a limit per client address (IP) and per      *)
(* recipient, by transfers it signs and posts to a node over JSON-RPC.     *)
(* Requests run at the same time; Drip takes the sender's lock for the     *)
(* whole exchange with the node.  The node's part is the pool entry of the *)
(* funding account (see Inclusion for the pool) and the blocks' transfers. *)
(*                                                                         *)
(* The mode check (allowlist or captcha) comes first and keeps no state.   *)
(* The limiters are in memory only: the faucet is not restarted here.      *)
(***************************************************************************)
EXTENDS ChainStore

CONSTANTS
  Requests,             \* requests, each made once
  IPs, Addrs,           \* where they come from and whom they ask to pay
  PerIP, PerAddress,    \* the limits per window
  Funds,                \* how many payments the account can make
  Windows,              \* bound: how often a window may run out
  NoRequest

\* A request on its way through handleDrip and Drip: the recipient, the window
\* its limit was taken in (ghost) and the nonce of its transfer.
Request ==
  [at : {"refused", "queued", "balance", "nonce", "send", "done", "failed"},
   to : Addrs, window : Nat, nonce : Nat]

ASSUME FaucetAssumption ==
  /\ PerIP \in Nat \ {0} /\ PerAddress \in Nat \ {0}
  /\ Funds \in Nat /\ Windows \in Nat
  /\ NoRequest \notin Request

VARIABLES
  ipLim, addrLim,   \* per key: [count, over, window], window counts (ghost)
  request,          \* per request: [at, to, window, nonce], or NoRequest
  pool,             \* pending transfers of the account: [nonce, to]
  mined,            \* recipients of the account's transfers in the chain
  acked,            \* ghost: transfers the client was told of
  paid,             \* ghost: <<request, recipient, window>> that reached the pool
  forgot            \* ghost: the node lost its pool

faucetVars == <<ipLim, addrLim, request, pool, mined, acked, paid, forgot>>

NoWindow == [count |-> 0, over |-> TRUE, window |-> 0]

FaucetInit ==
  /\ ipLim = [i \in IPs |-> NoWindow]
  /\ addrLim = [a \in Addrs |-> NoWindow]
  /\ request = [r \in Requests |-> NoRequest]
  /\ pool = {}
  /\ mined = <<>>
  /\ acked = {}
  /\ paid = {}
  /\ forgot = FALSE

----------------------------------------------------------------------------
(* The limiters.                                                           *)

Allowed(e, limit) == e.over \/ e.count < limit

\* Allow: an event beyond the window opens a new one, which starts with it.
Allow(e, limit) ==
  IF e.over THEN [count |-> 1, over |-> FALSE, window |-> e.window + 1]
  ELSE IF e.count < limit THEN [e EXCEPT !.count = @ + 1]
  ELSE e

\* The window of a key runs out.
WindowOver ==
  /\ \/ \E i \in IPs : /\ ~ipLim[i].over /\ ipLim[i].window <= Windows
                       /\ ipLim' = [ipLim EXCEPT ![i].over = TRUE]
                       /\ UNCHANGED addrLim
     \/ \E a \in Addrs : /\ ~addrLim[a].over /\ addrLim[a].window <= Windows
                         /\ addrLim' = [addrLim EXCEPT ![a].over = TRUE]
                         /\ UNCHANGED ipLim
  /\ UNCHANGED <<request, pool, mined, acked, paid, forgot>>

----------------------------------------------------------------------------
(* Requests.                                                               *)

At(r, step) == request[r] # NoRequest /\ request[r].at = step
Holding == {r \in Requests : \E s \in {"balance", "nonce", "send"} : At(r, s)}

To(r, step) == request' = [request EXCEPT ![r].at = step]

\* handleDrip up to Drip: the IP's limit is taken before the recipient's, and
\* both stay taken whatever becomes of the request.
handleDrip(r, ip, addr) ==
  LET passed == Allowed(ipLim[ip], PerIP)
      after == IF passed THEN Allow(addrLim[addr], PerAddress) ELSE addrLim[addr]
  IN  /\ request[r] = NoRequest
      /\ ipLim' = [ipLim EXCEPT ![ip] = Allow(@, PerIP)]
      /\ addrLim' = [addrLim EXCEPT ![addr] = after]
      /\ request' = [request EXCEPT ![r] =
           [at |-> IF passed /\ Allowed(addrLim[addr], PerAddress)
                   THEN "queued" ELSE "refused",
            to |-> addr, window |-> after.window, nonce |-> 0]]
      /\ UNCHANGED <<pool, mined, acked, paid, forgot>>

\* Drip: the lock.
Lock(r) ==
  /\ At(r, "queued")
  /\ Holding = {}
  /\ To(r, "balance")
  /\ UNCHANGED <<ipLim, addrLim, pool, mined, acked, paid, forgot>>

\* eth_chainId and eth_getBalance, of the state of the last block.
CheckBalance(r) ==
  /\ Readable
  /\ At(r, "balance")
  /\ To(r, IF Len(mined) < Funds THEN "nonce" ELSE "failed")
  /\ UNCHANGED <<ipLim, addrLim, pool, mined, acked, paid, forgot>>

\* eth_getTransactionCount: the tag "pending" is sent, but the node answers
\* with the nonce of its last block.
Nonce(r) ==
  /\ Readable
  /\ At(r, "nonce")
  /\ request' = [request EXCEPT ![r].at = "send", ![r].nonce = Len(mined)]
  /\ UNCHANGED <<ipLim, addrLim, pool, mined, acked, paid, forgot>>

\* Mutant: a transfer of the same price takes the place of the one before.
AdmitReplacing(tx) ==
  IF tx.nonce < Len(mined) \/ tx \in pool THEN pool
  ELSE {t \in pool : t.nonce # tx.nonce} \cup {tx}

\* SendRawTransaction with the pool's rule for a nonce that is taken: all
\* transfers offer the same price, so the first stays.
Admit(tx) ==
  IF tx.nonce < Len(mined) \/ \E t \in pool : t.nonce = tx.nonce THEN pool
  ELSE pool \cup {tx}

\* Mutant: a request that failed gives the recipient's limit back.
SendRawRefund(r) ==
  LET tx == [nonce |-> request[r].nonce, to |-> request[r].to]
  IN  /\ Readable
      /\ At(r, "send")
      /\ pool' = Admit(tx)
      /\ IF tx \in pool' \ pool
         THEN /\ paid' = paid \cup {<<r, tx.to, request[r].window>>}
              /\ \/ /\ To(r, "done") /\ acked' = acked \cup {tx}
                    /\ UNCHANGED addrLim
                 \/ /\ To(r, "failed") /\ UNCHANGED acked
                    /\ addrLim' = [addrLim EXCEPT ![tx.to].count = @ - 1]
         ELSE To(r, "failed") /\ UNCHANGED <<acked, paid, addrLim>>
      /\ UNCHANGED <<ipLim, mined, forgot>>

\* eth_sendRawTransaction.  The answer may come too late for the request's
\* context: then the transfer is in the pool and the client is told it failed.
SendRaw(r) ==
  LET tx == [nonce |-> request[r].nonce, to |-> request[r].to]
  IN  /\ Readable
      /\ At(r, "send")
      /\ pool' = Admit(tx)
      /\ IF tx \in pool' \ pool
         THEN /\ paid' = paid \cup {<<r, tx.to, request[r].window>>}
              /\ \/ To(r, "done") /\ acked' = acked \cup {tx}
                 \/ To(r, "failed") /\ UNCHANGED acked
         ELSE To(r, "failed") /\ UNCHANGED <<acked, paid>>
      /\ UNCHANGED <<ipLim, addrLim, mined, forgot>>

\* A call fails before it reaches the node.
DripFails(r) ==
  /\ r \in Holding
  /\ To(r, "failed")
  /\ UNCHANGED <<ipLim, addrLim, pool, mined, acked, paid, forgot>>

\* The next block: its proposer may not have the transfer in its pool, and a
\* transfer the account has no funds for does not run.
Mine ==
  /\ \/ \E t \in pool : /\ t.nonce = Len(mined) /\ Len(mined) < Funds
                        /\ mined' = Append(mined, t.to)
                        /\ pool' = pool \ {t}
     \/ UNCHANGED <<mined, pool>>
  /\ UNCHANGED <<ipLim, addrLim, request, acked, paid, forgot>>

PoolLost ==
  /\ pool' = {}
  /\ forgot' = TRUE
  /\ UNCHANGED <<ipLim, addrLim, request, mined, acked, paid>>

FaucetStep ==
  \/ \E r \in Requests, i \in IPs, a \in Addrs : handleDrip(r, i, a)
  \/ \E r \in Requests : Lock(r) \/ CheckBalance(r) \/ Nonce(r) \/ SendRaw(r)
  \/ WindowOver

----------------------------------------------------------------------------

\* Limiter.Allow and handleDrip: of the requests a recipient made in one
\* window, at most PerAddress become payments, also when calls to the node
\* fail or time out and the outcome of a payment is unknown.
PaymentsWithinLimit ==
  \A p \in paid :
    Cardinality({q \in paid : q[2] = p[2] /\ q[3] = p[3]}) <= PerAddress

\* Drip: a transfer a client was told of is in the chain, or pending with the
\* account's next nonce, unless the node that accepted it went down with its
\* pool.  (The balance was read before the nonce: a block between the two may
\* have spent it, and then the transfer waits for new funds.)
AckedIsKept ==
  \A t \in acked :
    \/ forgot
    \/ t.nonce < Len(mined) /\ mined[t.nonce + 1] = t.to
    \/ t \in pool /\ t.nonce = Len(mined)
=============================================================================
