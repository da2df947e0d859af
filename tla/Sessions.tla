------------------------------ MODULE Sessions ------------------------------
(***************************************************************************)
(* How two hosts come to share a session and keep one: the accept and dial *)
(* paths of p2p/host.go, the key exchange of p2p/secure.go, the read loop  *)
(* of p2p/peer.go that ends a session, the active and known peers of       *)
(* p2p/store.go and p2p/persist.go, the redial loop of p2p/redial.go and   *)
(* the start-up dials of node/stack.go.                                    *)
(*                                                                         *)
(* A TCP connection has two ends, and each host takes its end through      *)
(* "hello", "handshake" and "active" to "closed" on its own: nothing tells *)
(* it what the other host made of the connection except that it closes.    *)
(* A write is a rendezvous with the reader of the other end, the smallest  *)
(* buffer a transport can have.  A node is its own address and identity.   *)
(***************************************************************************)
EXTENDS Naturals, FiniteSets

CONSTANTS
    Nodes,
    Networks,      \* the networks to look at, one record each:
                   \*   chain[n]: the chain id of n's configuration
                   \*   boots[n]: the bootnodes n is configured with
                   \*   max: Config.MaxPeers
                   \*   faults: the faults that may happen
    Conns,         \* names for the connections that exist at one time
    NoConn,
    BoostTries     \* attempts of dialBootnode, 15 in the code

(* A connection: who dialed whom and for which loop, whether it still      *)
(* carries frames, where each end is, and who has written which message.   *)
Stage == {"hello", "handshake", "active", "closed"}

Connection ==
    [from : Nodes, to : Nodes, by : {"loop", "boot"}, open : BOOLEAN,
     st : UNION {[ends -> Stage] : ends \in SUBSET Nodes},
     sent : SUBSET (Nodes \X Stage)]

ASSUME SessionAssumption ==
    /\ NoConn \notin Conns \cup Connection
    /\ \A w \in Networks : /\ w.max \in Nat \ {0} /\ w.faults \in Nat
                           /\ \A n \in Nodes : w.boots[n] \subseteq Nodes \ {n}

VARIABLES
    net,       \* the network: its configuration never changes
    faults,    \* faults left: a cut connection, a host that stops, or a dial
               \* that begins while the pair still has a connection
    proc,      \* "up", "closing" (inside Close) or "down"
    conn,      \* conn[c]: the connection, or NoConn
    active,    \* PeerStore.active: the session of n with m, or NoConn
    known,     \* PeerStore.known, in memory
    dirty,     \* Host.peersDirty
    saved,     \* peers.json
    waiting,   \* addresses whose addrBackoff.next is still to come
    boost      \* attempts dialBootnode has left

vars == <<net, faults, proc, conn, active, known, dirty, saved, waiting, boost>>
env == <<net, faults>>

Boots == net.boots

Chain == net.chain

Ends(c) == {conn[c].from, conn[c].to}

Live == {c \in Conns : conn[c] # NoConn}

Other(c, n) == IF conn[c].from = n THEN conn[c].to ELSE conn[c].from

Negotiating(c, n) == conn[c].st[n] \in {"hello", "handshake"}

(* The redial loop dials one address at a time and waits for the result. *)
Dialing(n, by) ==
    {c \in Live : conn[c].from = n /\ conn[c].by = by /\ Negotiating(c, n)}

Crossed(n, m) == \E c \in Live : Ends(c) = {n, m}

(* performSecureHandshake: the material both ends mix, with the randoms in *)
(* the order of the roles, and the key each end seals with and opens with. *)
Material(c, n) ==
    LET inbound == conn[c].to = n
        local   == <<c, n>>
        remote  == <<c, Other(c, n)>>
    IN  [r1 |-> IF inbound THEN remote ELSE local,
         r2 |-> IF inbound THEN local ELSE remote,
         chain |-> Chain[n]]

(* Mutant: each end puts its own random first and takes the first key. *)
KeysByRandom(c, n) ==
    [send |-> [of |-> [r1 |-> <<c, n>>, r2 |-> <<c, Other(c, n)>>,
                       chain |-> Chain[n]], key |-> "init"],
     recv |-> [of |-> [r1 |-> <<c, n>>, r2 |-> <<c, Other(c, n)>>,
                       chain |-> Chain[n]], key |-> "resp"]]

Keys(c, n) ==
    LET mine   == IF conn[c].to = n THEN "resp" ELSE "init"
        theirs == IF conn[c].to = n THEN "init" ELSE "resp"
    IN  [send |-> [of |-> Material(c, n), key |-> mine],
         recv |-> [of |-> Material(c, n), key |-> theirs]]

Opens(c, n, m) == Keys(c, n).send = Keys(c, m).recv

-----------------------------------------------------------------------------
Init ==
    /\ net \in Networks
    /\ faults = net.faults
    /\ proc = [n \in Nodes |-> "up"]
    /\ conn = [c \in Conns |-> NoConn]
    /\ active = [n \in Nodes |-> [m \in Nodes |-> NoConn]]
    /\ known = [n \in Nodes |-> {}]
    /\ dirty = [n \in Nodes |-> FALSE]
    /\ saved = [n \in Nodes |-> {}]
    /\ waiting = [n \in Nodes |-> {}]
    /\ boost = [n \in Nodes |-> [m \in Nodes |->
                                    IF m \in Boots[n] THEN BoostTries ELSE 0]]

(* redialState.success and failure of the redial loop, and the loop of     *)
(* dialBootnode, once Dial has returned.                                   *)
Returned(n, m, by, ok) ==
    /\ waiting' = [waiting EXCEPT ![n] =
                     IF by = "loop" THEN IF ok THEN @ \ {m} ELSE @ \cup {m}
                                    ELSE @]
    /\ boost' = [boost EXCEPT ![n][m] =
                   IF by = "boot" THEN IF ok THEN 0 ELSE @ - 1 ELSE @]

Connect(n, m, by) ==
    \/ /\ proc[m] # "up"
       /\ Returned(n, m, by, FALSE)
       /\ UNCHANGED <<conn, faults>>
    \/ /\ proc[m] = "up"
       /\ Crossed(n, m) => faults > 0
       /\ faults' = IF Crossed(n, m) THEN faults - 1 ELSE faults
       /\ Conns # Live
       /\ conn' = [conn EXCEPT ![CHOOSE c \in Conns : c \notin Live] =
             [from |-> n, to |-> m, by |-> by, open |-> TRUE,
              st |-> [k \in {n, m} |-> "hello"], sent |-> {}]]
       /\ UNCHANGED <<waiting, boost>>

(* maintainOnce, at the address m of its targets: due and not connected. *)
maintainOnce(n, m) ==
    /\ proc[n] = "up"
    /\ Dialing(n, "loop") = {}
    /\ m \in (Boots[n] \cup known[n]) \ waiting[n]
    /\ active[n][m] = NoConn
    /\ Connect(n, m, "loop")
    /\ UNCHANGED <<net, proc, active, known, dirty, saved>>

(* dialBootnode does not look at the sessions there are. *)
dialBootnode(n) ==
    /\ proc[n] = "up"
    /\ \E m \in Boots[n] :
          /\ boost[n][m] > 0
          /\ ~\E c \in Dialing(n, "boot") : conn[c].to = m
          /\ Connect(n, m, "boot")
    /\ UNCHANGED <<net, proc, active, known, dirty, saved>>

(* The backoff of the address m runs out. *)
Due(n, m) ==
    /\ m \in waiting[n]
    /\ waiting' = [waiting EXCEPT ![n] = @ \ {m}]
    /\ UNCHANGED <<env, proc, conn, active, known, dirty, saved, boost>>

-----------------------------------------------------------------------------
(* Mutant: an end writes only after it has read. *)
ExchangeWriteFirst(c, n) ==
    LET m == Other(c, n)
        p == conn[c].st[n]
    IN  /\ conn[c].open
        /\ p \in {"hello", "handshake"} /\ conn[c].st[m] = p
        /\ <<n, p>> \notin conn[c].sent
        /\ <<m, p>> \in conn[c].sent
        /\ conn' = [conn EXCEPT ![c].sent = @ \cup {<<n, p>>}]
        /\ UNCHANGED <<proc, active, known, dirty, saved, waiting, boost, env>>

(* The goroutine that writes a hello or a handshake meets the reader of    *)
(* the other end.  A handshake is sealed, and only opens with the peer's   *)
(* key.                                                                    *)
Exchange(c, n) ==
    LET m == Other(c, n)
        p == conn[c].st[n]
    IN  /\ conn[c].open
        /\ p \in {"hello", "handshake"} /\ conn[c].st[m] = p
        /\ <<n, p>> \notin conn[c].sent
        /\ p = "handshake" => Opens(c, n, m)
        /\ conn' = [conn EXCEPT ![c].sent = @ \cup {<<n, p>>}]
        /\ UNCHANGED <<proc, active, known, dirty, saved, waiting, boost, env>>

Exchanged(c, n, p) ==
    /\ conn[c].st[n] = p
    /\ {<<n, p>>, <<Other(c, n), p>>} \subseteq conn[c].sent

Hello(c, n) ==
    /\ Exchanged(c, n, "hello")
    /\ conn' = [conn EXCEPT ![c].st[n] = "handshake"]
    /\ UNCHANGED <<proc, active, known, dirty, saved, waiting, boost, env>>

(* An end that closes shuts the connection for both; the connection is     *)
(* gone when both ends have closed.                                        *)
Shut(c, n) ==
    conn' = [conn EXCEPT ![c] =
               IF @.st[Other(c, n)] = "closed" THEN NoConn
               ELSE [@ EXCEPT !.open = FALSE, !.st[n] = "closed"]]

(* A negotiation fails: the other end is gone, or its frame does not open. *)
Fail(c, n) ==
    LET m == Other(c, n)
    IN  /\ Negotiating(c, n)
        /\ \/ ~conn[c].open
           \/ conn[c].st = [k \in {n, m} |-> "handshake"] /\ ~Opens(c, m, n)
        /\ Shut(c, n)
        /\ IF conn[c].from = n THEN Returned(n, m, conn[c].by, FALSE)
                               ELSE UNCHANGED <<waiting, boost>>
        /\ UNCHANGED <<proc, active, known, dirty, saved, env>>

Sessions(n) == {m \in Nodes : active[n][m] # NoConn}

(* Mutant: the new session takes the place of the one there is. *)
RegisterReplace(c, n) ==
    LET m == Other(c, n)
    IN  /\ Exchanged(c, n, "handshake")
        /\ Cardinality(Sessions(n)) < net.max
        /\ conn' = [conn EXCEPT ![c].st[n] = "active"]
        /\ active' = [active EXCEPT ![n][m] = c]
        /\ known' = [known EXCEPT ![n] = @ \cup {m}]
        /\ dirty' = [dirty EXCEPT ![n] = TRUE]
        /\ waiting' = [waiting EXCEPT ![n] = @ \ {m}]
        /\ boost' = IF conn[c].from = n /\ conn[c].by = "boot"
                    THEN [boost EXCEPT ![n][m] = 0] ELSE boost
        /\ UNCHANGED <<proc, saved, env>>

(* negotiate, with the identities verified.  A session that exists is kept *)
(* and the new connection closed, which a dialer takes for success; a full *)
(* table refuses; otherwise the peer is registered and its loops start.    *)
Register(c, n) ==
    LET m      == Other(c, n)
        dialer == conn[c].from = n
    IN  /\ Exchanged(c, n, "handshake")
        /\ \/ /\ active[n][m] # NoConn \/ Cardinality(Sessions(n)) >= net.max
              /\ Shut(c, n)
              /\ IF dialer THEN Returned(n, m, conn[c].by, active[n][m] # NoConn)
                           ELSE UNCHANGED <<waiting, boost>>
              /\ UNCHANGED <<active, known, dirty>>
           \/ /\ active[n][m] = NoConn /\ Cardinality(Sessions(n)) < net.max
              /\ conn' = [conn EXCEPT ![c].st[n] = "active"]
              /\ active' = [active EXCEPT ![n][m] = c]
              /\ known' = [known EXCEPT ![n] = @ \cup {m}]
              /\ dirty' = [dirty EXCEPT ![n] = TRUE]
              /\ waiting' = [waiting EXCEPT ![n] = @ \ {m}]
              /\ boost' = IF dialer /\ conn[c].by = "boot"
                          THEN [boost EXCEPT ![n][m] = 0] ELSE boost
        /\ UNCHANGED <<proc, saved, env>>

(* The deferred part of runRead, with onPeerClosed: the entry goes by      *)
(* identity, whatever session it holds.                                    *)
runRead(c, n) ==
    LET m == Other(c, n)
    IN  /\ conn[c].st[n] = "active" /\ ~conn[c].open
        /\ Shut(c, n)
        /\ active' = [active EXCEPT ![n][m] = NoConn]
        /\ IF proc[n] = "up"
           THEN /\ known' = [known EXCEPT ![n] = @ \cup {m}]
                /\ waiting' = [waiting EXCEPT ![n] = @ \cup {m}]
                /\ dirty' = [dirty EXCEPT ![n] = TRUE]
           ELSE UNCHANGED <<known, waiting, dirty>>
        /\ UNCHANGED <<proc, saved, boost, env>>

-----------------------------------------------------------------------------
(* The network cuts a connection, or a frame is refused (Peer.Close). *)
Break(c) ==
    /\ faults > 0 /\ conn[c].open
    /\ conn' = [conn EXCEPT ![c].open = FALSE]
    /\ faults' = faults - 1
    /\ UNCHANGED <<proc, active, known, dirty, saved, waiting, boost, net>>

(* EvictOlderThan: a peer not heard of for DefaultPeerTTL. *)
Evict(n) ==
    /\ proc[n] = "up"
    /\ \E m \in known[n] \ Boots[n] :
          /\ active[n][m] = NoConn
          /\ known' = [known EXCEPT ![n] = @ \ {m}]
    /\ UNCHANGED <<proc, conn, active, dirty, saved, waiting, boost, env>>

(* maybeSavePeers after a pass of the redial loop. *)
maybeSavePeers(n) ==
    /\ proc[n] = "up" /\ dirty[n] /\ Dialing(n, "loop") = {}
    /\ saved' = [saved EXCEPT ![n] = known[n]]
    /\ dirty' = [dirty EXCEPT ![n] = FALSE]
    /\ UNCHANGED <<proc, conn, active, known, waiting, boost, env>>

(* Close: the flag, the listener and the redial loop, then every session   *)
(* in the table.  It waits for the goroutines of the host, then saves.     *)
Close(n) ==
    /\ proc[n] = "up" /\ faults > 0
    /\ proc' = [proc EXCEPT ![n] = "closing"]
    /\ faults' = faults - 1
    /\ conn' = [c \in Conns |-> IF \E m \in Nodes : active[n][m] = c
                                THEN [conn[c] EXCEPT !.open = FALSE] ELSE conn[c]]
    /\ UNCHANGED <<active, known, dirty, saved, waiting, boost, net>>

Running(n) == {c \in Live : n \in Ends(c) /\ conn[c].st[n] # "closed"}

Closed(n) ==
    /\ proc[n] = "closing" /\ Running(n) = {}
    /\ proc' = [proc EXCEPT ![n] = "down"]
    /\ saved' = [saved EXCEPT ![n] = known[n]]
    /\ UNCHANGED <<conn, active, known, dirty, waiting, boost, env>>

(* The process dies: the operating system closes its ends. *)
Crash(n) ==
    /\ proc[n] = "up" /\ faults > 0
    /\ proc' = [proc EXCEPT ![n] = "down"]
    /\ faults' = faults - 1
    /\ conn' = [c \in Conns |->
          IF c \notin Running(n) THEN conn[c]
          ELSE IF conn[c].st[Other(c, n)] = "closed" THEN NoConn
          ELSE [conn[c] EXCEPT !.open = FALSE, !.st[n] = "closed"]]
    /\ active' = [active EXCEPT ![n] = [m \in Nodes |-> NoConn]]
    /\ UNCHANGED <<known, dirty, saved, waiting, boost, net>>

(* NewHost with LoadFromFile, then Start and the start-up dials. *)
NewHost(n) ==
    /\ proc[n] = "down"
    /\ proc' = [proc EXCEPT ![n] = "up"]
    /\ known' = [known EXCEPT ![n] = saved[n]]
    /\ dirty' = [dirty EXCEPT ![n] = FALSE]
    /\ waiting' = [waiting EXCEPT ![n] = {}]
    /\ boost' = [boost EXCEPT ![n] = [m \in Nodes |->
                                 IF m \in Boots[n] THEN BoostTries ELSE 0]]
    /\ UNCHANGED <<conn, active, saved, env>>

End(c, n) == Exchange(c, n) \/ Hello(c, n) \/ Fail(c, n) \/ Register(c, n) \/ runRead(c, n)

Next ==
    \/ \E n \in Nodes : \/ dialBootnode(n) \/ Evict(n) \/ maybeSavePeers(n)
                        \/ Close(n) \/ Closed(n) \/ Crash(n) \/ NewHost(n)
                        \/ \E m \in Nodes \ {n} : maintainOnce(n, m) \/ Due(n, m)
    \/ \E c \in Live : Break(c) \/ \E n \in Ends(c) : End(c, n)

(* The goroutines of a connection run, backoffs run out, and a host that   *)
(* is down is started again.  A pass of the redial loop tries every target *)
(* that is due, so one that is due again and again is dialed in the end.   *)
Fairness ==
    /\ \A n \in Nodes : WF_vars(Closed(n) \/ NewHost(n))
    /\ \A n, m \in Nodes :
          n # m => SF_vars(maintainOnce(n, m)) /\ WF_vars(Due(n, m))
    /\ \A c \in Conns : WF_vars(c \in Live /\ \E n \in Ends(c) : End(c, n))

Spec == Init /\ [][Next]_vars /\ Fairness

-----------------------------------------------------------------------------
(* The table of sessions is exact: the entry of n for m names the one      *)
(* connection between them whose loops n is running, although an end is    *)
(* removed by the identity of its peer (onPeerClosed, host.go:406) while   *)
(* other connections of the same pair are being negotiated.                *)
ActiveIsOwned ==
    \A n, m \in Nodes, c \in Conns :
        active[n][m] = c <=>
            /\ c \in Live /\ n # m
            /\ Ends(c) = {n, m} /\ conn[c].st[n] = "active"

(* What one end seals the other end opens, and no key seals in both        *)
(* directions: the two counters of a session both start at zero, so one    *)
(* key for both would repeat a nonce (secure.go:66, 169).                  *)
KeysAgree ==
    \A c \in Live : \A n \in Ends(c) :
        LET m == Other(c, n)
        IN  Chain[n] = Chain[m] =>
               /\ Opens(c, n, m)
               /\ Keys(c, n).send # Keys(c, m).send

Paired(n, m) ==
    \E c \in Live : Ends(c) = {n, m} /\ conn[c].st = [k \in {n, m} |-> "active"]

(* Whatever the two hosts made of crossing dials, cut connections, Close,  *)
(* crashes and a bootnode of another chain that refuses every attempt, a   *)
(* host and its bootnode on the same chain end with one session that both  *)
(* consider active, and keep it once the faults are over, if there is room *)
(* for a session with everyone (negotiate, runRead, maintainOnce).         *)
Reconnects ==
    <>[](net.max >= Cardinality(Nodes) - 1 =>
            \A n, m \in Nodes :
                m \in Boots[n] /\ Chain[n] = Chain[m] => Paired(n, m))
=============================================================================
