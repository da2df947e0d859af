------------------------------- MODULE Gossip -------------------------------
(***************************************************************************)
(* How blocks, transactions and consensus messages spread between hosts    *)
(* that have sessions: the frame handlers of p2p/handlers.go, the          *)
(* announcements of p2p/gossip.go, the block sync of p2p/sync.go and their *)
(* use by node/stack.go.                                                   *)
(*                                                                         *)
(* A block is its height, since committed blocks agree; a chain is its     *)
(* height.  A session carries the frames of each direction in order; what  *)
(* Peer.Send drops when the queue of a peer is full is a fault, as is the  *)
(* end of a session and a wait for an answer that ends before the answer   *)
(* arrives.  Sessions come and go atomically here: module Sessions has how *)
(* they are agreed.                                                        *)
(***************************************************************************)
EXTENDS Naturals, Sequences

CONSTANTS
    Hosts,
    Works,                \* what there is to spread and over which network:
                          \*   links: the pairs that keep a session
                          \*   validators: the nodes whose engine commits blocks
                          \*   dist[n]: sessions between n and a validator
                          \*   tip: blocks to commit
                          \*   txs, bft: transactions and consensus messages
                          \*   faults: faults that may happen
    MaxBlocksPerRequest,  \* Config.MaxBlocksPerRequest, 100 in the code
    MaxBatches            \* maxBatches of SyncMissingFromPeer, 32 in the code

ASSUME GossipAssumption ==
    /\ MaxBlocksPerRequest \in Nat \ {0} /\ MaxBatches \in Nat \ {0}
    /\ \A w \in Works :
          /\ w.validators # {} /\ w.tip \in Nat /\ w.faults \in Nat
          /\ \A l \in w.links : \E n, m \in Hosts : n # m /\ l = {n, m}

VARIABLES
    work,     \* the network and its workload, never changed
    up,       \* the pairs that have a session
    link,     \* link[n][m]: frames on the way from n to m
    head,     \* height of n's chain
    pool,     \* transactions of n's mempool
    seen,     \* Host.seenInv
    height,   \* height[n][m]: Peer.Height of m as n has it
    sync,     \* the running calls of SyncMissingFromPeer
    sent,     \* transactions and consensus messages that have been announced
    spare,    \* faults left
    calm,     \* the last height a fault, or haste, may have disturbed
    gone      \* gone[n]: items n asked for whose request or answer was lost,
              \* or that it refused

gossipVars == <<work, up, link, head, pool, seen, height, sync, sent, spare, calm, gone>>
ghost == <<work, up, sent, spare, calm>>

Block(h) == <<"block", h>>

Peers(n) == {m \in Hosts : {n, m} \in up}

tip == CHOOSE h \in {head[n] : n \in Hosts} : \A n \in Hosts : head[n] <= h

Higher(x, y) == IF x > y THEN x ELSE y

(* HasBlock and HasTx of the backend; a consensus message is not held. *)
Has(n, it) == CASE it[1] = "block" -> it[2] <= head[n]
                [] it[1] = "tx" -> it[2] \in pool[n]
                [] OTHER -> FALSE

Frame(t, it) == [type |-> t, item |-> it]

(* Broadcast: the frame for every peer but one. *)
Broadcast(n, frame, exclude) ==
    [m \in Hosts |-> IF m \in Peers(n) \ exclude THEN <<frame>> ELSE <<>>]

Send(m, frame) == [k \in Hosts |-> IF k = m THEN <<frame>> ELSE <<>>]

Nothing == [k \in Hosts |-> <<>>]

Queue(n, out) == [link EXCEPT ![n] = [m \in Hosts |-> link[n][m] \o out[m]]]

(* The read loop of n takes a frame from m and queues what it answers. *)
Handled(m, n, out) ==
    link' = [Queue(n, out) EXCEPT ![m][n] = Tail(link[m][n])]

Task(m, by) == [peer |-> m, by |-> by, before |-> 0, batch |-> 0]

Quiet == /\ \A n, m \in Hosts : link[n][m] = <<>>
         /\ \A n \in Hosts : sync[n] = {}

-----------------------------------------------------------------------------
GossipInit ==
    /\ work \in Works
    /\ up = work.links
    /\ link = [n \in Hosts |-> [m \in Hosts |-> <<>>]]
    /\ head = [n \in Hosts |-> 0]
    /\ pool = [n \in Hosts |-> {}]
    /\ seen = [n \in Hosts |-> {}]
    /\ height = [n \in Hosts |-> [m \in Hosts |-> 0]]
    /\ sync = [n \in Hosts |-> {}]
    /\ sent = {}
    /\ spare = work.faults
    /\ calm = 0
    /\ gone = [n \in Hosts |-> {}]

(* OnCommit of the stack: import, then GossipBlock.  A block that is       *)
(* committed while the one before is still spreading is one too early for  *)
(* the bound on the lag below.                                             *)
OnCommit(n) ==
    /\ n \in work.validators /\ head[n] < work.tip
    /\ LET h == head[n] + 1
       IN  /\ head' = [head EXCEPT ![n] = h]
           /\ seen' = [seen EXCEPT ![n] = @ \cup {Block(h)}]
           /\ link' = Queue(n, Broadcast(n, Frame("inv", Block(h)), {}))
           /\ calm' = IF Quiet \/ h <= tip THEN calm ELSE h
    /\ UNCHANGED <<work, up, pool, height, sync, sent, spare, gone>>

(* A transaction enters the pool by RPC and is announced. *)
GossipTx(n, t) ==
    /\ t \in work.txs /\ <<"tx", t>> \notin sent
    /\ sent' = sent \cup {<<"tx", t>>}
    /\ pool' = [pool EXCEPT ![n] = @ \cup {t}]
    /\ seen' = [seen EXCEPT ![n] = @ \cup {<<"tx", t>>}]
    /\ link' = Queue(n, Broadcast(n, Frame("inv", <<"tx", t>>), {}))
    /\ UNCHANGED <<work, up, head, height, sync, spare, calm, gone>>

(* BroadcastProposal and BroadcastVote: the sender does not mark its own. *)
BroadcastVote(n, v) ==
    /\ v \in work.bft /\ <<"bft", v>> \notin sent /\ n \in work.validators
    /\ sent' = sent \cup {<<"bft", v>>}
    /\ link' = Queue(n, Broadcast(n, Frame("bft", <<"bft", v>>), {}))
    /\ UNCHANGED <<work, up, head, pool, seen, height, sync, spare, calm, gone>>

-----------------------------------------------------------------------------
(* The frame handlers: n takes the first frame from m. *)
First(m, n, t) == link[m][n] # <<>> /\ Head(link[m][n]).type = t

handleInventory(m, n) ==
    /\ First(m, n, "inv")
    /\ LET it   == Head(link[m][n]).item
           want == it \notin seen[n] /\ ~Has(n, it)
       IN  /\ seen' = IF want THEN [seen EXCEPT ![n] = @ \cup {it}] ELSE seen
           /\ Handled(m, n, IF want THEN Send(m, Frame("getdata", it)) ELSE Nothing)
    /\ UNCHANGED <<ghost, head, pool, height, sync, gone>>

handleGetData(m, n) ==
    /\ First(m, n, "getdata")
    /\ LET it == Head(link[m][n]).item
       IN  Handled(m, n, IF Has(n, it) THEN Send(m, Frame("payload", it)) ELSE Nothing)
    /\ UNCHANGED <<ghost, head, pool, seen, height, sync, gone>>

(* A transaction the pool refuses is dropped; its hash stays seen. *)
handleTxPayload(m, n) ==
    /\ First(m, n, "payload") /\ Head(link[m][n]).item[1] = "tx"
    /\ LET it == Head(link[m][n]).item
       IN  \/ /\ Has(n, it)
              /\ Handled(m, n, Nothing)
              /\ UNCHANGED <<pool, gone>>
           \/ /\ ~Has(n, it)
              /\ pool' = [pool EXCEPT ![n] = @ \cup {it[2]}]
              /\ Handled(m, n, Broadcast(n, Frame("inv", it), {m}))
              /\ UNCHANGED gone
           \/ /\ ~Has(n, it)
              /\ gone' = [gone EXCEPT ![n] = @ \cup {it}]
              /\ Handled(m, n, Nothing)
              /\ UNCHANGED pool
    /\ UNCHANGED <<ghost, head, seen, height, sync>>

(* Mutant: the hash of a block that came too early stays seen. *)
handleBlockPayloadStaySeen(m, n) ==
    /\ First(m, n, "payload") /\ Head(link[m][n]).item[1] = "block"
    /\ LET it == Head(link[m][n]).item
           h  == it[2]
       IN  \/ /\ Has(n, it)
              /\ Handled(m, n, Nothing)
              /\ UNCHANGED <<head, height, sync>>
           \/ /\ h = head[n] + 1
              /\ head' = [head EXCEPT ![n] = h]
              /\ height' = [height EXCEPT ![n][m] = Higher(@, h)]
              /\ Handled(m, n, Broadcast(n, Frame("inv", it), {m}))
              /\ UNCHANGED sync
           \/ /\ h > head[n] + 1
              /\ sync' = [sync EXCEPT ![n] = @ \cup {Task(m, "import")}]
              /\ Handled(m, n, Nothing)
              /\ UNCHANGED <<head, height>>
    /\ UNCHANGED <<ghost, pool, gone, seen>>

(* OnBlock refuses a block that is not the next one: its hash may be asked *)
(* for again, and the blocks in between are requested from the peer.       *)
handleBlockPayload(m, n) ==
    /\ First(m, n, "payload") /\ Head(link[m][n]).item[1] = "block"
    /\ LET it == Head(link[m][n]).item
           h  == it[2]
       IN  \/ /\ Has(n, it)
              /\ Handled(m, n, Nothing)
              /\ UNCHANGED <<head, seen, height, sync>>
           \/ /\ h = head[n] + 1
              /\ head' = [head EXCEPT ![n] = h]
              /\ height' = [height EXCEPT ![n][m] = Higher(@, h)]
              /\ Handled(m, n, Broadcast(n, Frame("inv", it), {m}))
              /\ UNCHANGED <<seen, sync>>
           \/ /\ h > head[n] + 1
              /\ seen' = [seen EXCEPT ![n] = @ \ {it}]
              /\ sync' = [sync EXCEPT ![n] = @ \cup {Task(m, "import")}]
              /\ Handled(m, n, Nothing)
              /\ UNCHANGED <<head, height>>
    /\ UNCHANGED <<ghost, pool, gone>>

handleGetBlocks(m, n) ==
    /\ First(m, n, "getblocks")
    /\ LET from == Head(link[m][n]).item
           last == IF head[n] < from + MaxBlocksPerRequest - 1
                   THEN head[n] ELSE from + MaxBlocksPerRequest - 1
       IN  Handled(m, n, Send(m, Frame("blocks", <<from, last>>)))
    /\ UNCHANGED <<ghost, head, pool, seen, height, sync, gone>>

(* Each block that is next is imported; one that is too early starts a     *)
(* sync, as in OnBlock.  They are not announced, and Peer.Height stays.    *)
handleBlocks(m, n) ==
    /\ First(m, n, "blocks")
    /\ LET got   == Head(link[m][n]).item
           early == got[1] > head[n] + 1 /\ got[2] >= got[1]
       IN  /\ head' = [head EXCEPT ![n] = IF early THEN @ ELSE Higher(@, got[2])]
           /\ sync' = IF early THEN [sync EXCEPT ![n] = @ \cup {Task(m, "import")}]
                               ELSE sync
           /\ Handled(m, n, Nothing)
    /\ UNCHANGED <<ghost, pool, seen, height, gone>>

(* Mutant: relayed whether or not it was seen. *)
handleVoteUnmarked(m, n) ==
    /\ First(m, n, "bft")
    /\ LET it == Head(link[m][n]).item
       IN  Handled(m, n, Broadcast(n, Frame("bft", it), {m}))
    /\ UNCHANGED <<ghost, head, pool, seen, height, sync, gone>>

(* handleProposal and handleVote: marked before the engine sees it, which  *)
(* may refuse it; a node without an engine relays.                         *)
handleVote(m, n) ==
    /\ First(m, n, "bft")
    /\ LET it == Head(link[m][n]).item
       IN  \/ /\ it \in seen[n]
              /\ Handled(m, n, Nothing)
              /\ UNCHANGED <<seen, gone>>
           \/ /\ it \notin seen[n]
              /\ seen' = [seen EXCEPT ![n] = @ \cup {it}]
              /\ Handled(m, n, Broadcast(n, Frame("bft", it), {m}))
              /\ UNCHANGED gone
           \/ /\ it \notin seen[n] /\ n \in work.validators
              /\ seen' = [seen EXCEPT ![n] = @ \cup {it}]
              /\ gone' = [gone EXCEPT ![n] = @ \cup {it}]
              /\ Handled(m, n, Nothing)
    /\ UNCHANGED <<ghost, head, pool, height, sync>>

-----------------------------------------------------------------------------
(* Mutant: the block after the next one. *)
nextSyncFromAfter(n) == head[n] + 2

(* The first height n still needs: its chain has no holes. *)
nextSyncFrom(n) == head[n] + 1

(* A pass of SyncMissingFromPeer: ask for the blocks after the head, again *)
(* when the head has moved, up to MaxBatches times.                        *)
SyncMissingFromPeer(n) ==
    \E task \in sync[n] :
        /\ task.batch = 0 \/ head[n] > task.before
        /\ IF task.batch < MaxBatches
           THEN /\ sync' = [sync EXCEPT ![n] = (@ \ {task}) \cup
                      {[peer |-> task.peer, by |-> task.by, before |-> head[n],
                        batch |-> task.batch + 1]}]
                /\ link' = Queue(n, Send(task.peer, Frame("getblocks", nextSyncFrom(n))))
           ELSE /\ sync' = [sync EXCEPT ![n] = @ \ {task}]
                /\ UNCHANGED link
        /\ UNCHANGED <<ghost, head, pool, seen, height, gone>>

Unanswered(n, m) ==
    \/ \E i \in 1..Len(link[n][m]) : link[n][m][i].type = "getblocks"
    \/ \E i \in 1..Len(link[m][n]) : link[m][n][i].type = "blocks"

(* The two seconds of a batch pass without progress. *)
SyncTimeout(n) ==
    \E task \in sync[n] :
        /\ task.batch > 0 /\ head[n] = task.before
        /\ Unanswered(n, task.peer) => spare > 0
        /\ spare' = IF Unanswered(n, task.peer) THEN spare - 1 ELSE spare
        /\ calm' = IF Unanswered(n, task.peer) THEN tip ELSE calm
        /\ sync' = [sync EXCEPT ![n] = @ \ {task}]
        /\ UNCHANGED <<work, up, sent, link, head, pool, seen, height, gone>>

(* A tick of the stack's syncLoop, which waits for each call it makes. *)
syncLoop(n) ==
    /\ \A task \in sync[n] : task.by # "loop"
    /\ \E m \in Peers(n) :
          /\ height[n][m] > head[n]
          /\ sync' = [sync EXCEPT ![n] = @ \cup {Task(m, "loop")}]
    /\ UNCHANGED <<ghost, link, head, pool, seen, height, gone>>

-----------------------------------------------------------------------------
Fault == spare > 0 /\ spare' = spare - 1 /\ calm' = tip

(* What n asked m for and has not received: the request or the answer. *)
Asked(n, m) ==
    {link[n][m][i].item : i \in {j \in 1..Len(link[n][m]) : link[n][m][j].type = "getdata"}}
        \cup
    {link[m][n][i].item : i \in {j \in 1..Len(link[m][n]) : link[m][n][j].type = "payload"}}

Without(s, i) == SubSeq(s, 1, i - 1) \o SubSeq(s, i + 1, Len(s))

(* A full queue: enqueueDrop, or enqueueBlocking after WriteTimeout. *)
Drop(n, m) ==
    /\ Fault
    /\ \E i \in 1..Len(link[n][m]) :
          LET frame == link[n][m][i]
          IN  /\ link' = [link EXCEPT ![n][m] = Without(link[n][m], i)]
              /\ gone' = CASE frame.type = "getdata" ->
                                [gone EXCEPT ![n] = @ \cup {frame.item}]
                           [] frame.type = "payload" ->
                                [gone EXCEPT ![m] = @ \cup {frame.item}]
                           [] OTHER -> gone
    /\ UNCHANGED <<work, up, sent, head, pool, seen, height, sync>>

(* A session ends: its frames are lost, and calls that use it fail. *)
Disconnect(n, m) ==
    /\ {n, m} \in up /\ Fault
    /\ up' = up \ {{n, m}}
    /\ link' = [link EXCEPT ![n][m] = <<>>, ![m][n] = <<>>]
    /\ sync' = [sync EXCEPT ![n] = {t \in @ : t.peer # m},
                            ![m] = {t \in @ : t.peer # n}]
    /\ gone' = [gone EXCEPT ![n] = @ \cup Asked(n, m), ![m] = @ \cup Asked(m, n)]
    /\ UNCHANGED <<work, sent, head, pool, seen, height>>

(* A new session starts with the heights of the two handshakes. *)
LinkUp(n, m) ==
    /\ {n, m} \in work.links \ up /\ n # m
    /\ up' = up \cup {{n, m}}
    /\ height' = [height EXCEPT ![n][m] = head[m], ![m][n] = head[n]]
    /\ calm' = tip
    /\ UNCHANGED <<work, sent, spare, link, head, pool, seen, sync, gone>>

handleFrame(m, n) ==
    \/ handleInventory(m, n) \/ handleGetData(m, n)
    \/ handleTxPayload(m, n) \/ handleBlockPayload(m, n)
    \/ handleGetBlocks(m, n) \/ handleBlocks(m, n) \/ handleVote(m, n)

GossipNext ==
    \/ \E n \in Hosts : \/ OnCommit(n)
                        \/ \E t \in work.txs : GossipTx(n, t)
                        \/ \E v \in work.bft : BroadcastVote(n, v)
                        \/ SyncMissingFromPeer(n) \/ SyncTimeout(n) \/ syncLoop(n)
    \/ \E n, m \in Hosts : \/ handleFrame(m, n)
                           \/ Drop(n, m) \/ Disconnect(n, m) \/ LinkUp(n, m)

(* Validators go on committing, read loops and sync calls run, ticks come, *)
(* and a lost session is made again.  Faults have no fairness.             *)
GossipFairness ==
    /\ \A n \in Hosts :
          /\ WF_gossipVars(OnCommit(n)) /\ WF_gossipVars(syncLoop(n))
          /\ WF_gossipVars(SyncMissingFromPeer(n) \/ SyncTimeout(n))
    /\ WF_gossipVars(\E n, m \in Hosts : handleFrame(m, n))
    /\ WF_gossipVars(\E n, m \in Hosts : LinkUp(n, m))

GossipSpec == GossipInit /\ [][GossipNext]_gossipVars /\ GossipFairness

-----------------------------------------------------------------------------
(* A block hash a node has marked as seen and whose block it does not hold *)
(* is on its way, unless its request or answer was lost: refusing a block  *)
(* that comes too early clears the mark (handlers.go:186), so the same     *)
(* announcement is followed up again.                                      *)
SeenIsComing ==
    \A n \in Hosts : \A it \in seen[n] \ gone[n] :
        it[1] # "bft" /\ ~Has(n, it) => \E m \in Peers(n) : it \in Asked(n, m)

(* The lag that tip-only gossip leaves is bounded (stack.go:171): once no  *)
(* more faults come, a node d sessions away from the validators has the    *)
(* whole chain after at most d further blocks, one for each hop, because   *)
(* blocks that arrive through sync are not announced further.              *)
LagIsBounded ==
    <>[](\A n \in Hosts : tip >= calm + work.dist[n] => head[n] = tip)

(* Floods end: when there is nothing new, no frame goes round and no sync  *)
(* call runs, on any network, although the sender of a vote does not mark  *)
(* its own (gossip.go:47, handlers.go:280).                                *)
FloodsEnd == <>[]Quiet
=============================================================================
