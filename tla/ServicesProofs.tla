--------------------------- MODULE ServicesProofs ---------------------------
(***************************************************************************)
(* Proofs about a node and the services that follow its chain, for any     *)
(* database, any number of blocks, requests and faults.                    *)
(* In order: the database, the indexer, the faucet's transfers, what is    *)
(* told to subscribers, log queries and filters, the faucet's limits.  The *)
(* lemmas on steps assume what a walk over a sequence keeps (WalksKeep) and*)
(* what a poll answers (PollsAnswer); both are proved before the theorems. *)
(***************************************************************************)
EXTENDS Services, TLAPS

\* A leaf is for Zenon unless it names another prover.
USE ZenonT(90)

----------------------------------------------------------------------------
(* The database.                                                           *)

Database ==
  [meta : BOOLEAN, state : Int, tip : Nat, blocks : SUBSET Nat,
   index : SUBSET Nat, marked : BOOLEAN]

\* The database holds one block's state and the chain below it, and a log index
\* that is exact once it is marked.  A node that is up is at the tip of a
\* database with an index; one that commits its genesis has nothing stored yet.
StoreInv ==
  /\ node \in {"down", "opening", "up"}
  /\ disk \in Database
  /\ head \in Nat
  /\ disk.tip <= MaxBlock
  /\ disk.meta => disk.state = disk.tip /\ disk.blocks = 0 .. disk.tip
  /\ ~disk.meta => disk.blocks = {} /\ ~disk.marked
  /\ node = "up" => disk.meta /\ disk.marked /\ head = disk.tip
  /\ node = "opening" => ~disk.meta /\ disk.state = 0
  /\ disk.index \subseteq disk.blocks \cap Logged
  /\ disk.marked => disk.index = disk.blocks \cap Logged

\* The node starts on a database of one block.
LEMMA StoreInit ==
  ASSUME Init
  PROVE  StoreInv
<1>1. deployed.database \in {Fresh, Old}
  BY ServicesAssumption DEF Init
<1>2. disk \in {Fresh, Old} /\ node = "down" /\ head = 0
  BY <1>1 DEF Init, ChainInit
<1>3. OldTip \in Nat /\ OldTip <= MaxBlock /\ 0 <= MaxBlock
  BY ChainStoreAssumption, SMTT(60)
<1>4. CASE disk = Fresh
  BY <1>2, <1>3, <1>4, SMTT(60) DEF Fresh, StoreInv, Database
<1>5. CASE disk = Old
  BY <1>2, <1>3, <1>5, SMTT(60) DEF Old, StoreInv, Database
<1> QED
  BY <1>2, <1>4, <1>5

\* The subscriptions leave the chain alone, but for the fan-out.
LEMMA SubscriptionsKeepStore ==
  ASSUME SubscriptionsStep
  PROVE  UNCHANGED <<node, disk, head, allLogs>>
BY ZenonT(60) DEF SubscriptionsStep, serveWS, Upgrade, Hangup, Closing, unsubChain, Closed,
   subscribe, unsubscribe, Answer, Emit, Pumps, eventPump, writePump,
   dispatchEvent, WriteFails, WSUnchanged, chain

\* Every step of the node, crashes and failed writes included, keeps StoreInv.
LEMMA StoreStep ==
  ASSUME StoreInv, [Next]_vars
  PROVE  StoreInv' /\ (disk.blocks \subseteq disk'.blocks)
<1> DEFINE Goal == StoreInv' /\ (disk.blocks \subseteq disk'.blocks)
<1>0. Logged \subseteq Nat /\ 0 \notin Logged /\ 0 <= MaxBlock
  BY ChainStoreAssumption, SMTT(60)
<1>u. ASSUME UNCHANGED <<node, disk, head>>
      PROVE  Goal
  BY <1>u DEF StoreInv
<1>1. CASE CommitGenesis
  <2> DEFINE d == [disk EXCEPT !.state = 0]
  <2>1. /\ d \in Database /\ d.meta = disk.meta /\ d.blocks = disk.blocks
        /\ d.index = disk.index /\ d.marked = disk.marked /\ d.state = 0
        /\ d.tip = disk.tip
    BY SMTT(60) DEF StoreInv, Database
  <2>2. /\ ~disk.meta /\ disk' = d /\ node' = "opening" /\ head' = head
    BY <1>1 DEF CommitGenesis
  <2> HIDE DEF d
  <2> QED
    BY <2>1, <2>2 DEF StoreInv
<1>2. CASE persistGenesisLocked
  <2> DEFINE d == [disk EXCEPT !.meta = TRUE, !.tip = 0, !.blocks = {0},
                               !.marked = TRUE]
  <2>1. /\ d \in Database /\ d.meta = TRUE /\ d.tip = 0 /\ d.blocks = {0}
        /\ d.index = disk.index /\ d.marked = TRUE /\ d.state = disk.state
    <3>1. disk \in Database /\ {0} \in SUBSET Nat
      BY SMTT(60) DEF StoreInv
    <3> QED
      BY <3>1 DEF Database
  <2>2. /\ node = "opening" /\ disk' = d /\ node' = "up" /\ head' = 0
    BY <1>2 DEF persistGenesisLocked
  <2>3. disk.blocks = {} /\ disk.index = {} /\ disk.state = 0
    BY <2>2 DEF StoreInv
  <2>4. {0} \cap Logged = {} /\ {0} = 0 .. 0
    BY <1>0, SMTT(60)
  <2> HIDE DEF d
  <2> QED
    BY <1>0, <2>1, <2>2, <2>3, <2>4 DEF StoreInv
<1>3. CASE openWithDatabase
  <2> DEFINE d == EnsureLogIndex(disk)
  <2>1. /\ d \in Database /\ d.meta = disk.meta /\ d.tip = disk.tip
        /\ d.blocks = disk.blocks /\ d.state = disk.state /\ d.marked = TRUE
        /\ d.index = disk.blocks \cap Logged
    <3>1. CASE disk.marked
      BY <3>1 DEF EnsureLogIndex, StoreInv, Database
    <3>2. CASE ~disk.marked
      <4> DEFINE i == disk.index \cup (disk.blocks \cap Logged)
      <4>1. i = disk.blocks \cap Logged /\ i \in SUBSET Nat
        BY DEF StoreInv, Database
      <4>2. d = [disk EXCEPT !.index = i, !.marked = TRUE]
        BY <3>2 DEF EnsureLogIndex, RebuildLogIndex
      <4> HIDE DEF i, d
      <4> QED
        BY <4>1, <4>2 DEF StoreInv, Database
    <3> QED
      BY <3>1, <3>2
  <2>2. /\ disk.meta /\ disk' = d /\ node' = "up" /\ head' = disk.tip
    BY <1>3 DEF openWithDatabase
  <2>3. disk.tip \in Nat
    BY DEF StoreInv, Database
  <2> HIDE DEF d
  <2> QED
    BY <2>1, <2>2, <2>3 DEF StoreInv
<1>4. CASE Commit
  <2> DEFINE b == head + 1
             d == WriteBlock(disk, b)
  <2>1. /\ node = "up" /\ disk' = d /\ node' = node /\ head' = b
    BY <1>4 DEF Commit, persistBlockLocked, CommitBlockLocked, Readable
  <2>2. /\ disk \in Database /\ head \in Nat /\ b \in Nat /\ disk.meta /\ disk.marked
        /\ disk.blocks = 0 .. head /\ disk.index = disk.blocks \cap Logged
    BY <2>1, SMTT(60) DEF StoreInv
  <2>3. /\ d \in Database /\ d.meta = disk.meta /\ d.state = b /\ d.tip = b
        /\ d.blocks = disk.blocks \cup {b} /\ d.marked = TRUE
        /\ d.index = disk.index \cup ({b} \cap Logged)
    <3> DEFINE bs == disk.blocks \cup {b}
               ix == disk.index \cup ({b} \cap Logged)
    <3>1. bs \in SUBSET Nat /\ ix \in SUBSET Nat /\ b \in Int
      BY <2>2, <1>0, SMTT(60) DEF Database
    <3>2. d = [disk EXCEPT !.state = b, !.tip = b, !.blocks = bs, !.index = ix,
                           !.marked = TRUE]
      BY <2>2 DEF WriteBlock, Database
    <3> HIDE DEF b, bs, ix, d
    <3>3. d \in Database
      BY <2>2, <3>1, <3>2 DEF Database
    <3>4. /\ d.meta = disk.meta /\ d.state = b /\ d.tip = b /\ d.blocks = bs
          /\ d.marked = TRUE /\ d.index = ix
      BY <2>2, <3>2 DEF Database
    <3> QED
      BY <3>3, <3>4 DEF bs, ix
  <2>4. 0 .. b = (0 .. head) \cup {b}
    BY <2>2, SMTT(60)
  <2>5. b <= MaxBlock
    BY <1>4, <2>2, ChainStoreAssumption, SMTT(60) DEF Commit, persistBlockLocked
  <2> HIDE DEF b, d
  <2> QED
    BY <2>1, <2>2, <2>3, <2>4, <2>5 DEF StoreInv
<1>5. CASE Down
  BY <1>5 DEF Down, StoreInv
<1>6. CASE WebSocket
  BY <1>6, <1>u, SubscriptionsKeepStore DEF WebSocket
<1>7. CASE FilterRequests \/ Ingest \/ IngestError \/ Drips \/ DripError
  BY <1>7, <1>u DEF FilterRequests, Ingest, IngestError, Drips, DripError, chain
<1>8. CASE UNCHANGED vars
  BY <1>8, <1>u DEF vars, chain
<1> QED
  BY <1>1, <1>2, <1>3, <1>4, <1>5, <1>6, <1>7, <1>8
  DEF Next, Open, Crash, PanicOnCommit, Panic

\* Whenever the process stops, the database is that of one block.
THEOREM DatabaseStaysOneBlock == Spec => []DatabaseIsOneBlock
<1>1. StoreInv /\ [Next]_vars => StoreInv'
  BY StoreStep
<1>2. StoreInv => DatabaseIsOneBlock
  BY DEF StoreInv, DatabaseIsOneBlock
<1> QED
  BY <1>1, <1>2, StoreInit, PTL DEF Spec

----------------------------------------------------------------------------
(* The indexer.                                                            *)

NextBlock == IF last = NoMeta THEN StartBlock ELSE last + 1

\* RowsHaveNoGap, the place of the loop in it, and that a block the loop has
\* read from the node is one the node has stored: a crash cannot take it back.
RowsInv ==
  /\ last \in Int /\ (last = NoMeta \/ last >= StartBlock)
  /\ ingest \in [at : {"tick", "loop", "insert"}, tip : Int, next : Int, n : Int]
  /\ ingest.at # "tick" => ingest.next = NextBlock
  /\ ingest.at = "insert" => ingest.next \in disk.blocks
  /\ RowsHaveNoGap

\* The indexer starts without rows.
LEMMA RowsInit ==
  ASSUME Init
  PROVE  RowsInv
BY IndexerAssumption, SMTT(60)
DEF Init, IndexerInit, RowsInv, RowsHaveNoGap, Waiting, NoMeta

\* Each of the indexer's own steps keeps its rows without a gap.
LEMMA IndexerKeepsRows ==
  ASSUME StoreInv, RowsInv, IndexerStep \/ IngestFails, disk' = disk
  PROVE  RowsInv'
<1> USE IndexerAssumption
<1> DEFINE Loop == [at : {"tick", "loop", "insert"}, tip : Int, next : Int, n : Int]
<1>0. Waiting \in Loop /\ Waiting.at = "tick"
  BY SMTT(60) DEF Waiting
<1>1. CASE catchUp
  <2> DEFINE i == [at |-> "loop", tip |-> head, next |-> NextBlock, n |-> 0]
  <2>1. ingest' = i /\ UNCHANGED <<rows, last>>
    BY <1>1 DEF catchUp, NextBlock
  <2>2. i \in Loop /\ i.at = "loop" /\ i.next = NextBlock
    BY SMTT(60) DEF StoreInv, RowsInv, NextBlock
  <2> QED
    BY <2>1, <2>2 DEF RowsInv, RowsHaveNoGap, NextBlock
<1>2. CASE getBlock
  <2>1. /\ ingest.at = "loop" /\ ingest.next \in disk.blocks
        /\ ingest' = [ingest EXCEPT !.at = "insert"] /\ UNCHANGED <<rows, last>>
    BY <1>2 DEF getBlock, GetBlockByNumber
  <2>2. /\ ingest' \in Loop /\ ingest'.at = "insert" /\ ingest'.next = ingest.next
    BY <2>1 DEF RowsInv
  <2> QED
    BY <2>1, <2>2 DEF RowsInv, RowsHaveNoGap, NextBlock
<1>3. CASE indexBlock
  <2>1. /\ ingest.at = "insert" /\ rows' = rows \cup {ingest.next}
        /\ last' = ingest.next /\ ingest' = Onward
    BY <1>3 DEF indexBlock
  <2>2. /\ ingest.next = NextBlock /\ ingest.next \in disk.blocks
        /\ ingest.next \in Int /\ ingest.n \in Int
    BY <2>1 DEF RowsInv
  <2>3. last' >= StartBlock /\ last' # NoMeta /\ last' \in Int
    BY <2>1, <2>2, SMTT(60) DEF RowsInv, NextBlock, NoMeta
  <2>4. rows' = StartBlock .. last'
    <3>1. CASE last = NoMeta
      BY <3>1, <2>1, <2>2, SMTT(60) DEF RowsInv, RowsHaveNoGap, NextBlock
    <3>2. CASE last # NoMeta
      BY <3>2, <2>1, <2>2, SMTT(60) DEF RowsInv, RowsHaveNoGap, NextBlock
    <3> QED
      BY <3>1, <3>2
  <2>5. rows' \subseteq disk.blocks
    BY <2>1, <2>2 DEF RowsInv, RowsHaveNoGap
  <2>6. /\ ingest' \in Loop /\ ingest'.at \in {"tick", "loop"}
        /\ ingest'.at = "loop" => ingest'.next = ingest.next + 1
    <3>1. CASE Onward = Waiting
      BY <3>1, <2>1, <1>0
    <3>2. CASE Onward = [ingest EXCEPT !.at = "loop", !.next = @ + 1, !.n = @ + 1]
      <4>1. PICK x \in Int, y \in Int : x = ingest.next + 1 /\ y = ingest.n + 1
        BY <2>2, SMTT(60)
      <4>2. ingest \in Loop
        BY DEF RowsInv
      <4>3. ingest' = [ingest EXCEPT !.at = "loop", !.next = x, !.n = y]
        BY <3>2, <4>1, <4>2, <2>1
      <4> QED
        BY <4>1, <4>2, <4>3
    <3> QED
      BY <3>1, <3>2 DEF Onward
  <2> HIDE DEF Loop
  <2>7. ingest'.at # "tick" => ingest'.next = NextBlock'
    BY <2>1, <2>3, <2>6 DEF NextBlock, NoMeta
  <2> QED
    BY <2>3, <2>4, <2>5, <2>6, <2>7 DEF RowsInv, RowsHaveNoGap, Loop
<1>4. CASE IngestFails
  BY <1>0, <1>4 DEF IngestFails, RowsInv, RowsHaveNoGap
<1> QED
  BY <1>1, <1>2, <1>3, <1>4 DEF IndexerStep

\* Every step keeps the rows without a gap.
LEMMA RowsStep ==
  ASSUME StoreInv, RowsInv, [Next]_vars
  PROVE  RowsInv'
<1>1. ASSUME UNCHANGED indexerVars
      PROVE  RowsInv'
  BY <1>1, StoreStep DEF indexerVars, RowsInv, RowsHaveNoGap, NextBlock
<1>2. CASE Ingest \/ IngestError
  BY <1>2, IndexerKeepsRows DEF Ingest, IngestError, chain
<1> QED
  BY <1>1, <1>2 DEF Next, Open, Commit, Crash, PanicOnCommit, FilterRequests,
     WebSocket, Drips, DripError, vars

\* Whatever fails or restarts, the indexer's rows have no gap.
THEOREM IndexedWithoutGap == Spec => []RowsHaveNoGap
<1>1. StoreInv /\ [Next]_vars => StoreInv'
  BY StoreStep
<1>2. StoreInv /\ RowsInv /\ [Next]_vars => RowsInv'
  BY RowsStep
<1>3. RowsInv => RowsHaveNoGap
  BY DEF RowsInv
<1> QED
  BY <1>1, <1>2, <1>3, StoreInit, RowsInit, PTL DEF Spec

----------------------------------------------------------------------------
(* The faucet's transfers.                                                 *)

Transfer == [nonce : Nat, to : Addrs]
Limit == [count : Nat, over : BOOLEAN, window : Nat]

\* At most one transfer is pending, with the next nonce; a request that is about
\* to send has read this nonce or an older one.  So nothing can take the place
\* of a pending transfer, and AckedIsKept is inductive.
TransfersInv ==
  /\ request \in [Requests -> Request \cup {NoRequest}]
  /\ addrLim \in [Addrs -> Limit]
  /\ pool \subseteq Transfer /\ acked \subseteq Transfer
  /\ mined \in Seq(Addrs)
  /\ \A t \in pool : t.nonce = Len(mined)
  /\ \A t, u \in pool : t = u
  /\ \A r \in Requests : At(r, "send") => request[r].nonce <= Len(mined)
  /\ AckedIsKept

\* The faucet starts without transfers.
LEMMA TransfersInit ==
  ASSUME Init
  PROVE  TransfersInv
BY SMTT(60) DEF Init, FaucetInit, TransfersInv, AckedIsKept, At, Limit, NoWindow

\* A window that runs out keeps its count until the next event.
LEMMA WindowEnds ==
  ASSUME addrLim \in [Addrs -> Limit], WindowOver, NEW a \in Addrs
  PROVE  /\ addrLim'[a].count = addrLim[a].count
         /\ addrLim'[a].window = addrLim[a].window
<1>1. CASE addrLim' = addrLim
  BY <1>1
<1>2. ASSUME NEW b \in Addrs, addrLim' = [addrLim EXCEPT ![b].over = TRUE]
      PROVE  /\ addrLim'[a].count = addrLim[a].count
             /\ addrLim'[a].window = addrLim[a].window
  <2> DEFINE e == addrLim[b]
  <2>1. e \in Limit
    OBVIOUS
  <2>2. [e EXCEPT !.over = TRUE].count = e.count /\ [e EXCEPT !.over = TRUE].window = e.window
    BY <2>1 DEF Limit
  <2>3. addrLim'[a] = IF a = b THEN [e EXCEPT !.over = TRUE] ELSE addrLim[a]
    BY <1>2
  <2> QED
    BY <2>2, <2>3
<1> QED
  BY <1>1, <1>2 DEF WindowOver

\* A request that moves on keeps all but its place.
LEMMA RequestMoves ==
  ASSUME request \in [Requests -> Request \cup {NoRequest}],
         NEW r \in Requests, request[r] # NoRequest,
         NEW step \in {"balance", "nonce", "send", "done", "failed"}, To(r, step)
  PROVE  /\ request' \in [Requests -> Request \cup {NoRequest}]
         /\ \A q \in Requests \ {r} : request'[q] = request[q]
         /\ request[r] \in Request /\ request'[r] \in Request
         /\ request'[r].at = step
         /\ request'[r].to = request[r].to
         /\ request'[r].window = request[r].window
         /\ request'[r].nonce = request[r].nonce
<1>1. request[r] \in Request
  OBVIOUS
<1>2. request' = [request EXCEPT ![r] = [request[r] EXCEPT !.at = step]]
  BY DEF To
<1> DEFINE q == [request[r] EXCEPT !.at = step]
<1>3. /\ q \in Request /\ q.at = step /\ q.to = request[r].to
      /\ q.window = request[r].window /\ q.nonce = request[r].nonce
  BY <1>1 DEF Request
<1> HIDE DEF q
<1>4. request' = [request EXCEPT ![r] = q]
  BY <1>2 DEF q
<1> QED
  BY <1>1, <1>3, <1>4

\* Allow: within the limit, the event is counted, in the window or in a new one.
LEMMA AllowCounts ==
  ASSUME NEW e \in Limit, NEW limit \in Nat \ {0}
  PROVE  /\ Allow(e, limit) \in Limit
         /\ ~Allowed(e, limit) => Allow(e, limit) = e
         /\ Allowed(e, limit) =>
              \/ /\ Allow(e, limit).window = e.window + 1
                 /\ Allow(e, limit).count = 1
              \/ /\ Allow(e, limit).window = e.window
                 /\ Allow(e, limit).count = e.count + 1
                 /\ e.count < limit
<1>1. CASE e.over
  BY <1>1, SMTT(60) DEF Allow, Allowed, Limit
<1>2. CASE ~e.over /\ e.count < limit
  <2>1. PICK n \in Nat : n = e.count + 1
    BY SMTT(60) DEF Limit
  <2>2. Allow(e, limit) = [e EXCEPT !.count = n]
    BY <1>2, <2>1 DEF Allow, Limit
  <2> QED
    BY <1>2, <2>1, <2>2 DEF Limit, Allowed
<1>3. CASE ~e.over /\ ~(e.count < limit)
  BY <1>3 DEF Allow, Allowed
<1> QED
  BY <1>1, <1>2, <1>3

\* Each of the faucet's own steps keeps TransfersInv.
LEMMA FaucetKeepsTransfers ==
  ASSUME TransfersInv, FaucetStep \/ (\E r \in Requests : DripFails(r))
  PROVE  TransfersInv'
<1>0. Len(mined) \in Nat
  BY SMTT(60) DEF TransfersInv
<1>1. ASSUME NEW r \in Requests, NEW i \in IPs, NEW a \in Addrs, handleDrip(r, i, a)
      PROVE  TransfersInv'
  <2> DEFINE e == addrLim[a]
             after == IF Allowed(ipLim[i], PerIP) THEN Allow(e, PerAddress) ELSE e
             ok == Allowed(ipLim[i], PerIP) /\ Allowed(e, PerAddress)
             q == [at |-> IF ok THEN "queued" ELSE "refused",
                   to |-> a, window |-> after.window, nonce |-> 0]
  <2>1. /\ request' = [request EXCEPT ![r] = q]
        /\ addrLim' = [addrLim EXCEPT ![a] = after]
        /\ UNCHANGED <<pool, mined, acked, forgot>>
    BY <1>1 DEF handleDrip
  <2>2. after \in Limit
    BY AllowCounts, FaucetAssumption DEF TransfersInv
  <2> HIDE DEF after, ok
  <2>3. q \in Request /\ q.at # "send"
    BY <2>2 DEF Limit, Request
  <2> HIDE DEF q
  <2> QED
    BY <2>1, <2>2, <2>3 DEF TransfersInv, AckedIsKept, At
<1>2. ASSUME NEW r \in Requests, request[r] # NoRequest,
             NEW step \in {"balance", "nonce", "done", "failed"}, To(r, step),
             UNCHANGED <<addrLim, pool, mined, acked, forgot>>
      PROVE  TransfersInv'
  <2>1. /\ request' \in [Requests -> Request \cup {NoRequest}]
        /\ \A q \in Requests \ {r} : request'[q] = request[q]
        /\ request'[r].at = step
    BY <1>2, RequestMoves DEF TransfersInv
  <2> QED
    BY <1>2, <2>1 DEF TransfersInv, AckedIsKept, At
<1>3. ASSUME NEW r \in Requests, Nonce(r)
      PROVE  TransfersInv'
  <2> DEFINE q == [request[r] EXCEPT !.at = "send", !.nonce = Len(mined)]
  <2>1. /\ request' = [request EXCEPT ![r] = q] /\ request[r] # NoRequest
        /\ UNCHANGED <<addrLim, pool, mined, acked, forgot>>
    BY <1>3 DEF Nonce, At, TransfersInv
  <2>2. q \in Request /\ q.at = "send" /\ q.nonce = Len(mined)
    BY <2>1, <1>0 DEF TransfersInv, Request
  <2> HIDE DEF q
  <2> QED
    BY <2>1, <2>2, <1>0, SMTT(60) DEF TransfersInv, AckedIsKept, At
<1>4. ASSUME NEW r \in Requests, SendRaw(r)
      PROVE  TransfersInv'
  <2> DEFINE tx == [nonce |-> request[r].nonce, to |-> request[r].to]
  <2>1. /\ At(r, "send") /\ request[r] # NoRequest /\ pool' = Admit(tx)
        /\ UNCHANGED <<addrLim, mined, forgot>>
    BY <1>4 DEF SendRaw, At
  <2>2. /\ request[r] \in Request /\ tx \in Transfer
        /\ tx.nonce <= Len(mined) /\ tx.nonce \in Nat
    BY <2>1 DEF TransfersInv, Request, Transfer
  <2>3. PICK step \in {"done", "failed"} :
          /\ To(r, step)
          /\ acked' = acked \/ (acked' = acked \cup {tx} /\ tx \in pool')
    BY <1>4 DEF SendRaw
  <2> HIDE DEF tx
  <2>4. /\ request' \in [Requests -> Request \cup {NoRequest}]
        /\ \A q \in Requests \ {r} : request'[q] = request[q]
        /\ request'[r].at = step
    BY <2>1, <2>3, RequestMoves DEF TransfersInv
  <2>5. /\ pool' \subseteq Transfer /\ acked' \subseteq Transfer
        /\ pool \subseteq pool'
        /\ \A t \in pool' : t.nonce = Len(mined)
        /\ \A t, u \in pool' : t = u
    <3>1. CASE pool' = pool
      BY <3>1, <2>2, <2>3 DEF TransfersInv
    <3>2. CASE pool' = pool \cup {tx} /\ ~(tx.nonce < Len(mined))
               /\ ~(\E t \in pool : t.nonce = tx.nonce)
      <4>1. tx.nonce = Len(mined)
        BY <3>2, <2>2, <1>0, SMTT(60)
      <4>2. pool = {}
        BY <4>1, <3>2 DEF TransfersInv
      <4> QED
        BY <4>1, <4>2, <3>2, <2>2, <2>3 DEF TransfersInv
    <3> QED
      BY <3>1, <3>2, <2>1 DEF Admit
  <2>6. AckedIsKept'
    BY <2>1, <2>3, <2>5 DEF TransfersInv, AckedIsKept
  <2> QED
    BY <2>1, <2>3, <2>4, <2>5, <2>6 DEF TransfersInv, At
<1>5. CASE WindowOver
  <2>1. UNCHANGED <<request, pool, mined, acked, forgot>>
    BY <1>5 DEF WindowOver
  <2>2. addrLim' \in [Addrs -> Limit]
    BY <1>5 DEF WindowOver, TransfersInv, Limit
  <2> QED
    BY <2>1, <2>2 DEF TransfersInv, AckedIsKept, At
<1>6. ASSUME NEW r \in Requests, Lock(r) \/ CheckBalance(r) \/ DripFails(r)
      PROVE  TransfersInv'
  BY <1>6, <1>2 DEF Lock, CheckBalance, DripFails, Holding, At
<1> QED
  BY <1>1, <1>3, <1>4, <1>5, <1>6 DEF FaucetStep

\* Every step keeps TransfersInv.
LEMMA TransfersStep ==
  ASSUME TransfersInv, [Next]_vars
  PROVE  TransfersInv'
<1>1. ASSUME UNCHANGED faucetVars
      PROVE  TransfersInv'
  BY <1>1 DEF faucetVars, TransfersInv, AckedIsKept, At
<1>2. CASE Drips \/ DripError
  BY <1>2, FaucetKeepsTransfers DEF Drips, DripError
<1>3. CASE PoolLost
  BY <1>3 DEF PoolLost, TransfersInv, AckedIsKept, At
<1>4. CASE Mine
  <2>1. ASSUME NEW t \in pool, t.nonce = Len(mined), mined' = Append(mined, t.to),
               pool' = pool \ {t}, UNCHANGED <<addrLim, request, acked, forgot>>
        PROVE  TransfersInv'
    <3>1. pool' = {} /\ t.to \in Addrs /\ mined \in Seq(Addrs) /\ Len(mined) \in Nat
      BY <2>1 DEF TransfersInv, Transfer
    <3>2. /\ mined' \in Seq(Addrs) /\ Len(mined') = Len(mined) + 1
          /\ mined'[Len(mined) + 1] = t.to
          /\ \A k \in 1 .. Len(mined) : mined'[k] = mined[k]
      BY <2>1, <3>1, SMTT(60)
    <3>3. ASSUME NEW u \in acked, ~forgot
          PROVE  u.nonce < Len(mined') /\ mined'[u.nonce + 1] = u.to
      <4>1. u.nonce \in Nat
        BY DEF TransfersInv, Transfer
      <4>2. CASE u.nonce < Len(mined) /\ mined[u.nonce + 1] = u.to
        BY <4>1, <4>2, <3>1, <3>2, SMTT(60)
      <4>3. CASE u \in pool /\ u.nonce = Len(mined)
        <5>1. u = t
          BY <4>3 DEF TransfersInv
        <5> QED
          BY <5>1, <4>3, <3>1, <3>2, SMTT(60)
      <4> QED
        BY <3>3, <4>2, <4>3 DEF TransfersInv, AckedIsKept
    <3>4. \A r \in Requests : At(r, "send")' => request[r].nonce <= Len(mined')
      <4>1. \A r \in Requests : At(r, "send") => request[r].nonce \in Nat
        BY DEF TransfersInv, At, Request
      <4> QED
        BY <4>1, <2>1, <3>1, <3>2, SMTT(60) DEF TransfersInv, At
    <3> QED
      BY <2>1, <3>1, <3>2, <3>3, <3>4 DEF TransfersInv, AckedIsKept
  <2> QED
    BY <1>1, <1>4, <2>1 DEF Mine, faucetVars
<1> QED
  BY <1>1, <1>2, <1>3, <1>4 DEF Next, Open, Commit, Crash, PanicOnCommit,
     FilterRequests, WebSocket, Ingest, IngestError, vars

\* A transfer a client was told of is never replaced or dropped by a later one.
THEOREM AckedStaysKept == Spec => []AckedIsKept
<1>1. TransfersInv /\ [Next]_vars => TransfersInv'
  BY TransfersStep
<1>2. TransfersInv => AckedIsKept
  BY DEF TransfersInv
<1> QED
  BY <1>1, <1>2, TransfersInit, PTL DEF Spec

----------------------------------------------------------------------------
(* Sequences.                                                              *)

\* q goes up from each element to the next.
Rises(q) == \A i, j \in DOMAIN q : i < j => q[i] < q[j]

\* What rises, and then rises above it, rises.
LEMMA JoinRises ==
  ASSUME NEW a \in Seq(Nat), NEW b \in Seq(Nat), Rises(a), Rises(b),
         \A x \in Range(a), y \in Range(b) : x < y
  PROVE  a \o b \in Seq(Nat) /\ Rises(a \o b)
<1>1. /\ a \o b \in Seq(Nat) /\ Len(a) \in Nat /\ Len(b) \in Nat
      /\ DOMAIN (a \o b) = 1 .. Len(a) + Len(b)
      /\ DOMAIN a = 1 .. Len(a) /\ DOMAIN b = 1 .. Len(b)
      /\ \A i \in 1 .. Len(a) : (a \o b)[i] = a[i]
      /\ \A i \in 1 .. Len(b) : (a \o b)[Len(a) + i] = b[i]
  BY SMTT(60)
<1> DEFINE c == a \o b
<1> HIDE DEF c
<1>2. ASSUME NEW i \in DOMAIN c, NEW j \in DOMAIN c, i < j PROVE c[i] < c[j]
  <2>1. CASE j \in 1 .. Len(a)
    <3>1. i \in 1 .. Len(a)
      BY <1>1, <1>2, <2>1, SMTT(60) DEF c
    <3> QED BY <1>1, <1>2, <2>1, <3>1 DEF Rises, c
  <2>2. CASE i \in 1 .. Len(a) /\ j \notin 1 .. Len(a)
    <3>1. PICK k \in 1 .. Len(b) : j = Len(a) + k
      <4>1. j - Len(a) \in 1 .. Len(b) /\ j = Len(a) + (j - Len(a))
        BY <1>1, <1>2, <2>2, SMTT(60) DEF c
      <4> QED BY <4>1
    <3>2. a[i] \in Range(a) /\ b[k] \in Range(b)
      BY <1>1, <2>2, <3>1 DEF Range
    <3> QED BY <1>1, <2>2, <3>1, <3>2 DEF c
  <2>3. CASE i \notin 1 .. Len(a)
    <3>1. /\ j - Len(a) \in 1 .. Len(b) /\ j = Len(a) + (j - Len(a))
          /\ i - Len(a) \in 1 .. Len(b) /\ i = Len(a) + (i - Len(a))
          /\ i - Len(a) < j - Len(a)
      BY <1>1, <1>2, <2>3, SMTT(60) DEF c
    <3> QED BY <1>1, <3>1 DEF Rises, c
  <2> QED BY <2>1, <2>2, <2>3
<1> QED BY <1>1, <1>2 DEF Rises, c

\* What is in two joined sequences.
LEMMA JoinRange ==
  ASSUME NEW T, NEW a \in Seq(T), NEW b \in Seq(T)
  PROVE  Range(a \o b) = Range(a) \cup Range(b)
<1>1. /\ Len(a) \in Nat /\ Len(b) \in Nat
      /\ DOMAIN (a \o b) = 1 .. Len(a) + Len(b)
      /\ DOMAIN a = 1 .. Len(a) /\ DOMAIN b = 1 .. Len(b)
      /\ \A i \in 1 .. Len(a) : (a \o b)[i] = a[i]
      /\ \A i \in 1 .. Len(b) : (a \o b)[Len(a) + i] = b[i]
  BY SMTT(60)
<1>2. \A i \in 1 .. Len(a) + Len(b) : i \in 1 .. Len(a) \/ \E k \in 1 .. Len(b) : i = Len(a) + k
  <2> TAKE i \in 1 .. Len(a) + Len(b)
  <2>1. i \in 1 .. Len(a) \/ (i - Len(a) \in 1 .. Len(b) /\ i = Len(a) + (i - Len(a)))
    BY <1>1, SMTT(60)
  <2> QED BY <2>1
<1>3. /\ \A i \in 1 .. Len(a) : i \in 1 .. Len(a) + Len(b)
      /\ \A i \in 1 .. Len(b) : Len(a) + i \in 1 .. Len(a) + Len(b)
  BY <1>1, SMTT(60)
<1> DEFINE c == a \o b
<1> HIDE DEF c
<1>4. Range(c) \subseteq Range(a) \cup Range(b)
  <2> SUFFICES ASSUME NEW i \in 1 .. Len(a) + Len(b) PROVE c[i] \in Range(a) \cup Range(b)
    BY <1>1 DEF Range, c
  <2> QED BY <1>1, <1>2 DEF Range, c
<1>5. Range(a) \cup Range(b) \subseteq Range(c)
  BY <1>1, <1>3 DEF Range, c
<1> QED BY <1>4, <1>5 DEF c

\* What a sequence holds is of its type.
LEMMA ElementInSeq ==
  ASSUME NEW T, NEW a \in Seq(T)
  PROVE  \A i \in DOMAIN a : a[i] \in T
BY SMTT(60)

\* Heights up to one that the chain has reached are heights of blocks.
LEMMA UpToLastBlock ==
  ASSUME NEW S, S \subseteq Nat, NEW t \in Nat, NEW h \in Nat, t <= h, h <= MaxBlock,
         \A x \in S : 1 <= x /\ x <= t
  PROVE  \A x \in S : x \in 1 .. MaxBlock
BY ChainStoreAssumption, SMTT(60)

\* A larger number keeps a rising sequence rising.
LEMMA AppendRises ==
  ASSUME NEW a \in Seq(Nat), Rises(a), NEW x \in Nat, \A y \in Range(a) : y < x
  PROVE  /\ Append(a, x) \in Seq(Nat) /\ Rises(Append(a, x))
         /\ Range(Append(a, x)) = Range(a) \cup {x}
<1> DEFINE b == <<x>>
<1>1. b \in Seq(Nat) /\ DOMAIN b = {1} /\ b[1] = x /\ Append(a, x) = a \o b
  BY SMTT(60)
<1> HIDE DEF b
<1>2. Rises(b) /\ Range(b) = {x}
  BY <1>1, SMTT(60) DEF Rises, Range
<1>3. a \o b \in Seq(Nat) /\ Rises(a \o b)
  BY <1>1, <1>2, JoinRises
<1>4. Range(a \o b) = Range(a) \cup Range(b)
  BY <1>1, JoinRange
<1> QED BY <1>1, <1>2, <1>3, <1>4

\* K has, in order, what the first n of q have in S, at their places g.
Picks(g, K, q, S, n) ==
  /\ g \in [1 .. Len(K) -> 1 .. n]
  /\ \A i \in 1 .. Len(K) : K[i] = q[g[i]] /\ K[i] \in S
  /\ \A i, j \in 1 .. Len(K) : i < j => g[i] < g[j]
  /\ \A k \in 1 .. n : q[k] \in S => \E i \in 1 .. Len(K) : g[i] = k

----------------------------------------------------------------------------
(* Subscriptions.                                                          *)

Wants(kind, b) == kind = "newHeads" \/ b \in Logged

\* The channel: events above the one at hand, ev, up to the head h, which is
\* still to be sent if p.
ChannelRises(ev, events, p, h) ==
  /\ Rises(events)
  /\ \A x \in Range(events) : ev < x /\ x <= h /\ (p => x < h)
  /\ ev <= h /\ (p => ev < h)

Coming(events, p, h) == Range(events) \cup (IF p THEN {h} ELSE {})

\* Nothing below the head is missing in the channel.
ChannelWhole(events, p, h) ==
  \E g \in 1 .. h + 1 : Coming(events, p, h) = g .. h

\* The blocks queued for the subscription s.
Queued(q, s) == {q[i].blk : i \in {k \in DOMAIN q : q[k].id = s}}

QueueRises(q, s) ==
  \A i, j \in DOMAIN q : i < j /\ q[i].id = s /\ q[j].id = s => q[i].blk < q[j].blk

\* What s has got, what is queued for it and, if busy, the event at hand.
LineRises(s, got, q, ev, busy) ==
  /\ Rises(got) /\ QueueRises(q, s)
  /\ \A x \in Range(got), y \in Queued(q, s) : x < y
  /\ \A x \in Range(got) \cup Queued(q, s) : 1 <= x /\ x <= ev /\ (busy => x < ev)
  /\ busy => 1 <= ev

\* What s was told or is on its way to it.
Due(s, sub, q, ev, busy, coming) ==
  Range(sub.got) \cup Queued(q, s) \cup (IF busy THEN {ev} ELSE {})
    \cup {b \in coming : Wants(sub.kind, b)}

\* Nothing s wants since some block, at the latest the one after it subscribed,
\* is missing.
LineWhole(sub, due, h) ==
  \E f \in 1 .. sub.since + 1 : due = {b \in f .. h : Wants(sub.kind, b)}

\* The connection r and its subscription s.
Stream(r, p, h) ==
  ChannelRises(r.ev, r.events, p, h) /\ (~r.lost => ChannelWhole(r.events, p, h))

Line(s, r, sub, p, h) ==
  /\ sub.since <= h
  /\ LineRises(s, sub.got, r.send, r.ev, s \in r.left)
  /\ s \in r.left => Wants(sub.kind, r.ev)
  /\ ~r.lost =>
       LineWhole(sub, Due(s, sub, r.send, r.ev, s \in r.left, Coming(r.events, p, h)), h)

\* A note is for a subscription of its connection, or for one that ended; an
\* answer has no block.
NoteOK(m, ids, ss) ==
  IF m.id = NoSub THEN m.blk = 0
  ELSE m.blk # 0 /\ (m.id \in ids \/ ss[m.id] = Ended)

\* The connection r, with ss for the subscriptions; p: the head is still to be
\* sent to it.
ConnOK(r, ss, p, h) ==
  /\ r.at = "open" => Stream(r, p, h)
  /\ \A s \in r.ids : /\ ss[s] # NoSub /\ ss[s] # Ended
                      /\ r.at = "open" => Line(s, r, ss[s], p, h)
  /\ \A s \in r.left : r.ev # 0 /\ (s \in r.ids \/ ss[s] = Ended)
  /\ \A i \in DOMAIN r.send : NoteOK(r.send[i], r.ids, ss)

\* NotesFollowTheChain, part by part.
ConnsInv ==
  /\ conn \in [Conns -> Conn]
  /\ subs \in [SubIds -> Sub \cup {NoSub}]
  /\ emit \in [open : SUBSET Conns, shut : SUBSET Conns]
  /\ node # "up" => emit.open = {} /\ \A c \in Conns : conn[c] = Unused
  /\ \A c \in emit.open : conn[c].at \in {"open", "closed"}
  /\ \A c \in Conns : ConnOK(conn[c], subs, c \in emit.open, head)
  /\ \A c, d \in Conns : c # d => conn[c].ids \cap conn[d].ids = {}

Joined(q, m, s) ==
  /\ Append(q, m) \in Seq(Note)
  /\ Queued(Append(q, m), s) = Queued(q, s) \cup (IF m.id = s THEN {m.blk} ELSE {})
  /\ QueueRises(q, s) /\ (m.id = s => \A y \in Queued(q, s) : y < m.blk)
       => QueueRises(Append(q, m), s)

----------------------------------------------------------------------------
(* What each step does to a connection and a subscription.                 *)

Pumped(ev, events, p, h) ==
  /\ Head(events) \in Nat /\ Tail(events) \in Seq(Nat)
  /\ ev < Head(events) /\ 1 <= Head(events)
  /\ ChannelRises(Head(events), Tail(events), p, h)
  /\ Coming(events, p, h) = Coming(Tail(events), p, h) \cup {Head(events)}
  /\ ChannelWhole(events, p, h) => ChannelWhole(Tail(events), p, h)

\* As far as a subscription is concerned, nothing happens.
LEMMA LineSame ==
  ASSUME NEW s, NEW r, NEW r2, NEW sub, NEW p, NEW h, Line(s, r, sub, p, h),
         r2.events = r.events, r2.ev = r.ev, r2.send = r.send, r2.lost = r.lost,
         s \in r2.left <=> s \in r.left
  PROVE  Line(s, r2, sub, p, h)
<1>1. (s \in r2.left) = (s \in r.left)
  BY SMTT(60)
<1> QED BY <1>1 DEF Line

----------------------------------------------------------------------------
(* The steps of a connection.                                              *)

\* What a connection nobody uses looks like.
LEMMA UnusedIs ==
  /\ Unused \in Conn /\ Unused.at = "none" /\ Unused.ids = {} /\ Unused.left = {}
  /\ ~Unused.reply /\ Unused.events = << >> /\ Unused.ev = 0 /\ Unused.send = << >>
  /\ ~Unused.lost
BY SMTT(60) DEF Unused, Conn

\* A subscription that ended is still one.
LEMMA EndedIs == Ended \in Sub /\ Ended # NoSub
<1>1. Ended \in Sub
  BY SMTT(60) DEF Ended, Sub
<1> QED BY <1>1, SubscriptionsAssumption

\* A connection changes, and subscriptions of its own or not yet used ones.
LEMMA OneConn ==
  ASSUME ConnsInv, node = "up", NEW c \in Conns, NEW r \in Conn,
         conn' = [conn EXCEPT ![c] = r],
         subs' \in [SubIds -> Sub \cup {NoSub}],
         UNCHANGED <<node, head>>,
         emit' \in [open : SUBSET Conns, shut : SUBSET Conns],
         \A d \in Conns : d # c => (d \in emit'.open <=> d \in emit.open),
         c \in emit'.open => r.at \in {"open", "closed"},
         \A d \in Conns : d # c => r.ids \cap conn[d].ids = {},
         \A s \in SubIds : subs'[s] # subs[s] =>
           subs[s] # Ended /\ \A d \in Conns : d # c => s \notin conn[d].ids,
         ConnOK(r, subs', c \in emit'.open, head)
  PROVE  ConnsInv'
<1>1. /\ conn' \in [Conns -> Conn] /\ conn'[c] = r
      /\ \A d \in Conns : d # c => conn'[d] = conn[d]
  BY DEF ConnsInv
<1>2. ASSUME NEW d \in Conns, d # c
      PROVE  ConnOK(conn[d], subs', d \in emit'.open, head)
  <2>1. ConnOK(conn[d], subs, d \in emit.open, head) /\ conn[d] \in Conn
    BY DEF ConnsInv
  <2>2. (d \in emit'.open) = (d \in emit.open)
    BY <1>2, SMTT(60)
  <2>3. /\ \A s \in conn[d].ids : s \in SubIds /\ subs'[s] = subs[s]
        /\ \A s \in conn[d].left : s \in SubIds
        /\ conn[d].send \in Seq(Note)
    BY <1>2, <2>1 DEF Conn
  <2>4. \A s \in SubIds : subs[s] = Ended => subs'[s] = Ended
    OBVIOUS
  <2>5. \A i \in DOMAIN conn[d].send : NoteOK(conn[d].send[i], conn[d].ids, subs')
    <3> TAKE i \in DOMAIN conn[d].send
    <3>1. conn[d].send[i] \in Note
      BY <2>3, SMTT(60)
    <3>2. NoteOK(conn[d].send[i], conn[d].ids, subs)
      BY <2>1 DEF ConnOK
    <3> QED BY <2>4, <3>1, <3>2 DEF NoteOK, Note
  <2>6. \A s \in conn[d].left : conn[d].ev # 0 /\ (s \in conn[d].ids \/ subs'[s] = Ended)
    BY <2>1, <2>3, <2>4 DEF ConnOK
  <2> QED BY <2>1, <2>2, <2>3, <2>5, <2>6 DEF ConnOK
<1>3. \A d \in Conns : ConnOK(conn'[d], subs', d \in emit'.open, head)
  BY <1>1, <1>2
<1>4. \A d \in emit'.open : conn'[d].at \in {"open", "closed"}
  BY <1>1 DEF ConnsInv
<1>5. \A d, e \in Conns : d # e => conn'[d].ids \cap conn'[e].ids = {}
  <2> TAKE d, e \in Conns
  <2> HAVE d # e
  <2>1. CASE d = c
    BY <1>1, <2>1
  <2>2. CASE e = c
    BY <1>1, <2>2
  <2>3. CASE d # c /\ e # c
    BY <1>1, <2>3 DEF ConnsInv
  <2> QED BY <2>1, <2>2, <2>3
<1> QED BY <1>1, <1>3, <1>4, <1>5 DEF ConnsInv

\* As far as notes are concerned, nothing happens, or the connection closes.
LEMMA ConnSame ==
  ASSUME NEW r, NEW r2, NEW ss, NEW p, NEW h, ConnOK(r, ss, p, h),
         r2.at = "open" => r.at = "open",
         r2.ids = r.ids, r2.events = r.events, r2.ev = r.ev, r2.left = r.left,
         r2.send = r.send, r2.lost = r.lost
  PROVE  ConnOK(r2, ss, p, h)
<1>1. r.at = "open" /\ Stream(r, p, h) => Stream(r2, p, h)
  BY DEF Stream
<1>2. \A s : Line(s, r, ss[s], p, h) => Line(s, r2, ss[s], p, h)
  BY LineSame
<1> QED BY <1>1, <1>2 DEF ConnOK

\* A connection that was never used or is taken down has nothing to say.
LEMMA ConnFresh ==
  ASSUME NEW r, NEW ss, NEW h \in Nat, r.ids = {}, r.events = << >>, r.ev = 0,
         r.left = {}, r.send = << >>, NEW p, ~p
  PROVE  ConnOK(r, ss, p, h)
<1>1. DOMAIN r.send = {} /\ DOMAIN r.events = {}
  BY SMTT(60)
<1>2. Range(r.events) = {} /\ Rises(r.events)
  BY <1>1 DEF Range, Rises
<1>3. 0 <= h /\ h + 1 \in 1 .. h + 1 /\ (h + 1) .. h = {}
  BY SMTT(60)
<1>4. ChannelRises(r.ev, r.events, p, h)
  BY <1>2, <1>3 DEF ChannelRises
<1>5. ChannelWhole(r.events, p, h)
  BY <1>2, <1>3 DEF ChannelWhole, Coming
<1> QED BY <1>1, <1>4, <1>5 DEF ConnOK, Stream

\* What an action of one connection may assume.
ConnAt(c) ==
  /\ conn[c] \in Conn
  /\ ConnOK(conn[c], subs, c \in emit.open, head)
  /\ \A s \in conn[c].ids : s \in SubIds /\ subs[s] \in Sub
  /\ \A d \in Conns : d # c => conn[c].ids \cap conn[d].ids = {}

\* A connection's subscriptions are live ones.
LEMMA ConnIds ==
  ASSUME NEW r, NEW ss, NEW p, NEW h, ConnOK(r, ss, p, h)
  PROVE  \A s \in r.ids : ss[s] # NoSub /\ ss[s] # Ended
BY DEF ConnOK

\* It may assume so while ConnsInv holds.
LEMMA ConnAtIs ==
  ASSUME ConnsInv, NEW c \in Conns
  PROVE  ConnAt(c)
<1>1. conn[c] \in Conn /\ ConnOK(conn[c], subs, c \in emit.open, head)
  BY DEF ConnsInv
<1>2. \A s \in conn[c].ids : s \in SubIds /\ subs[s] # NoSub
  <2>1. conn[c].ids \in SUBSET SubIds
    BY <1>1 DEF Conn
  <2>2. \A s \in conn[c].ids : subs[s] # NoSub
    BY <1>1, ConnIds
  <2> QED BY <2>1, <2>2
<1>3. \A s \in conn[c].ids : subs[s] \in Sub
  BY <1>2 DEF ConnsInv
<1> QED BY <1>1, <1>2, <1>3 DEF ConnsInv, ConnAt

\* An unused id belongs to no connection.
LEMMA Unowned ==
  ASSUME ConnsInv, NEW s, subs[s] = NoSub
  PROVE  \A d \in Conns : s \notin conn[d].ids
<1> TAKE d \in Conns
<1>1. ConnOK(conn[d], subs, d \in emit.open, head)
  BY DEF ConnsInv
<1> QED BY <1>1, ConnIds

\* There are connections only while the node runs.
LEMMA InUse ==
  ASSUME ConnsInv, NEW c \in Conns, conn[c] # Unused
  PROVE  node = "up"
BY DEF ConnsInv

\* serveWS, Hangup, WriteFails and a refused subscribe: no note moves.
LEMMA NoNoteMoves ==
  ASSUME ConnsInv, NEW c \in Conns, NEW r \in Conn, node = "up",
         conn' = [conn EXCEPT ![c] = r], UNCHANGED <<node, head, emit, subs>>,
         r.at = "open" => conn[c].at = "open",
         c \in emit.open => r.at \in {"open", "closed"},
         r.ids = conn[c].ids, r.events = conn[c].events, r.ev = conn[c].ev,
         r.left = conn[c].left, r.send = conn[c].send, r.lost = conn[c].lost
  PROVE  ConnsInv'
<1>1. ConnAt(c)
  BY ConnAtIs
<1>2. ConnOK(r, subs, c \in emit.open, head)
  BY <1>1, ConnSame DEF ConnAt
<1>3. /\ subs' \in [SubIds -> Sub \cup {NoSub}]
      /\ emit' \in [open : SUBSET Conns, shut : SUBSET Conns]
      /\ ConnOK(r, subs', c \in emit'.open, head)
      /\ \A d \in Conns : d # c => r.ids \cap conn[d].ids = {}
  BY <1>1, <1>2 DEF ConnsInv, ConnAt
<1> QED BY <1>3, OneConn

\* serveWS lets a connection in below the limit.
LEMMA serveWSKeeps ==
  ASSUME ConnsInv, NEW c \in Conns, serveWS(c)
  PROVE  ConnsInv'
<1> DEFINE r == [conn[c] EXCEPT !.at = "checked"]
<1>1. conn[c] \in Conn /\ node = "up" /\ conn[c].at = "none"
  BY DEF ConnsInv, serveWS
<1>2. /\ r \in Conn /\ r.at = "checked" /\ r.ids = conn[c].ids /\ r.events = conn[c].events
      /\ r.ev = conn[c].ev /\ r.left = conn[c].left /\ r.send = conn[c].send
      /\ r.lost = conn[c].lost
  BY <1>1 DEF Conn
<1>3. conn' = [conn EXCEPT ![c] = r] /\ UNCHANGED <<node, head, emit, subs>>
  BY DEF serveWS, WSUnchanged, chain
<1>4. c \notin emit.open
  BY <1>1 DEF ConnsInv
<1> HIDE DEF r
<1> QED BY <1>1, <1>2, <1>3, <1>4, NoNoteMoves

\* The reader ends and the connection is closed.
LEMMA HangupKeeps ==
  ASSUME ConnsInv, NEW c \in Conns, Hangup(c)
  PROVE  ConnsInv'
<1> DEFINE r == [conn[c] EXCEPT !.at = "closed"]
<1>1. conn[c] \in Conn /\ conn[c].at = "open"
  BY DEF ConnsInv, Hangup
<1>2. /\ r \in Conn /\ r.at = "closed" /\ r.ids = conn[c].ids /\ r.events = conn[c].events
      /\ r.ev = conn[c].ev /\ r.left = conn[c].left /\ r.send = conn[c].send
      /\ r.lost = conn[c].lost
  BY <1>1 DEF Conn
<1>3. conn' = [conn EXCEPT ![c] = r] /\ UNCHANGED <<node, head, emit, subs>>
  BY DEF Hangup, WSUnchanged, chain
<1>4. node = "up"
  BY <1>1, InUse, UnusedIs
<1> HIDE DEF r
<1> QED BY <1>1, <1>2, <1>3, <1>4, NoNoteMoves

\* A write fails and the writer ends.
LEMMA WriteFailsKeeps ==
  ASSUME ConnsInv, NEW c \in Conns, WriteFails(c)
  PROVE  ConnsInv'
<1> DEFINE r == [conn[c] EXCEPT !.writer = FALSE]
<1>1. conn[c] \in Conn /\ conn[c].at = "open"
  BY DEF ConnsInv, WriteFails
<1>2. /\ r \in Conn /\ r.at = "open" /\ r.ids = conn[c].ids /\ r.events = conn[c].events
      /\ r.ev = conn[c].ev /\ r.left = conn[c].left /\ r.send = conn[c].send
      /\ r.lost = conn[c].lost
  BY <1>1 DEF Conn
<1>3. conn' = [conn EXCEPT ![c] = r] /\ UNCHANGED <<node, head, emit, subs>>
  BY DEF WriteFails, WSUnchanged, chain
<1>4. node = "up"
  BY <1>1, InUse, UnusedIs
<1> HIDE DEF r
<1> QED BY <1>1, <1>2, <1>3, <1>4, NoNoteMoves

\* Upgrade: nothing is queued yet, and no event is on its way.
LEMMA UpgradeKeeps ==
  ASSUME ConnsInv, NEW c \in Conns, head \in Nat, Upgrade(c)
  PROVE  ConnsInv'
<1> DEFINE o == [Unused EXCEPT !.at = "open", !.writer = TRUE]
<1>1. conn[c] \in Conn /\ conn[c].at = "checked"
  BY DEF ConnsInv, Upgrade
<1>2. node = "up"
  BY <1>1, InUse, UnusedIs
<1>3. c \notin emit.open
  BY <1>1 DEF ConnsInv
<1>4. /\ o \in Conn /\ o.ids = {} /\ o.events = << >> /\ o.ev = 0
      /\ o.left = {} /\ o.send = << >>
  BY UnusedIs DEF Conn
<1>5. PICK r \in {o, Unused} : conn' = [conn EXCEPT ![c] = r]
  BY DEF Upgrade
<1> HIDE DEF o
<1>6. /\ r \in Conn /\ r.ids = {} /\ r.events = << >> /\ r.ev = 0
      /\ r.left = {} /\ r.send = << >>
  BY <1>4, UnusedIs
<1>7. ConnOK(r, subs, c \in emit.open, head)
  BY <1>3, <1>6, ConnFresh
<1>8. UNCHANGED <<node, head, emit, subs>>
  BY DEF Upgrade, chain
<1>9. /\ subs' \in [SubIds -> Sub \cup {NoSub}]
      /\ emit' \in [open : SUBSET Conns, shut : SUBSET Conns]
      /\ ConnOK(r, subs', c \in emit'.open, head)
      /\ \A d \in Conns : d # c => r.ids \cap conn[d].ids = {}
      /\ c \notin emit'.open
  BY <1>3, <1>6, <1>7, <1>8 DEF ConnsInv
<1> QED BY <1>2, <1>5, <1>6, <1>8, <1>9, OneConn

\* close takes the registration out of the feed.
LEMMA unsubChainKeeps ==
  ASSUME ConnsInv, NEW c \in Conns, unsubChain(c)
  PROVE  ConnsInv'
<1> DEFINE r == [conn[c] EXCEPT !.at = "unsubscribed"]
<1>1. ConnAt(c) /\ conn[c] \in Conn /\ conn[c].at = "closed"
  BY ConnAtIs DEF ConnAt, unsubChain
<1>2. /\ r \in Conn /\ r.at = "unsubscribed" /\ r.ids = conn[c].ids
      /\ r.left = conn[c].left /\ r.send = conn[c].send /\ r.ev = conn[c].ev
  BY <1>1 DEF Conn
<1>3. conn' = [conn EXCEPT ![c] = r] /\ UNCHANGED <<node, head, subs>>
  BY DEF unsubChain
<1>4. /\ emit' \in [open : SUBSET Conns, shut : SUBSET Conns]
      /\ emit'.open = emit.open \ {c}
  <2> DEFINE S == IF c \in emit.open THEN emit.shut \cup {c} ELSE emit.shut
  <2>1. emit \in [open : SUBSET Conns, shut : SUBSET Conns]
    BY DEF ConnsInv
  <2>2. S \in SUBSET Conns
    BY <2>1
  <2>3. emit' = [emit EXCEPT !.open = emit.open \ {c}, !.shut = S]
    BY DEF unsubChain
  <2> HIDE DEF S
  <2> QED BY <2>1, <2>2, <2>3
<1>5. node = "up"
  BY <1>1, InUse, UnusedIs
<1> HIDE DEF r
<1>6. ConnOK(r, subs, c \in emit'.open, head)
  BY <1>1, <1>2 DEF ConnAt, ConnOK
<1>7. /\ subs' \in [SubIds -> Sub \cup {NoSub}]
      /\ ConnOK(r, subs', c \in emit'.open, head)
      /\ \A d \in Conns : d # c => r.ids \cap conn[d].ids = {}
      /\ c \notin emit'.open
      /\ \A d \in Conns : d # c => (d \in emit'.open <=> d \in emit.open)
  BY <1>1, <1>2, <1>3, <1>4, <1>6 DEF ConnsInv, ConnAt
<1> QED BY <1>2, <1>3, <1>4, <1>5, <1>7, OneConn

\* The rest of close: the connection ends, and its subscriptions with it.
LEMMA ClosedKeeps ==
  ASSUME ConnsInv, NEW c \in Conns, head \in Nat, Closed(c)
  PROVE  ConnsInv'
<1>1. ConnAt(c) /\ conn[c] \in Conn /\ conn[c].at = "unsubscribed"
  BY ConnAtIs DEF ConnAt, Closed
<1>2. node = "up"
  BY <1>1, InUse, UnusedIs
<1>3. c \notin emit.open
  BY <1>1 DEF ConnsInv
<1>4. UNCHANGED <<node, head, emit>> /\ conn' = [conn EXCEPT ![c] = Unused]
  BY DEF Closed, chain
<1>5. /\ subs' \in [SubIds -> Sub \cup {NoSub}]
      /\ \A s \in SubIds : subs'[s] # subs[s] => s \in conn[c].ids
  BY EndedIs DEF ConnsInv, Closed
<1>6. \A s \in SubIds : subs'[s] # subs[s] =>
        subs[s] # Ended /\ \A d \in Conns : d # c => s \notin conn[d].ids
  <2>1. \A s \in conn[c].ids : subs[s] # Ended
    BY <1>1, ConnIds DEF ConnAt
  <2>2. \A d \in Conns : d # c => conn[c].ids \cap conn[d].ids = {}
    BY <1>1 DEF ConnAt
  <2> QED BY <1>5, <2>1, <2>2
<1>7. ConnOK(Unused, subs', c \in emit'.open, head)
  BY <1>3, <1>4, UnusedIs, ConnFresh
<1>8. /\ emit' \in [open : SUBSET Conns, shut : SUBSET Conns]
      /\ c \notin emit'.open
      /\ \A d \in Conns : d # c => (d \in emit'.open <=> d \in emit.open)
      /\ \A d \in Conns : d # c => Unused.ids \cap conn[d].ids = {}
  BY <1>3, <1>4, UnusedIs DEF ConnsInv
<1> QED BY <1>2, <1>4, <1>5, <1>6, <1>7, <1>8, UnusedIs, OneConn

\* A connection changes and sends no event; its own subscriptions may change.
LEMMA OneConnOnly ==
  ASSUME ConnsInv, NEW c \in Conns, NEW r \in Conn, conn[c].at = "open",
         r.at = "open", conn' = [conn EXCEPT ![c] = r],
         subs' \in [SubIds -> Sub \cup {NoSub}], UNCHANGED <<node, head, emit>>,
         \A d \in Conns : d # c => r.ids \cap conn[d].ids = {},
         \A s \in SubIds : subs'[s] # subs[s] => subs[s] = NoSub \/ s \in conn[c].ids,
         ConnOK(r, subs', c \in emit.open, head)
  PROVE  ConnsInv'
<1>1. ConnAt(c) /\ node = "up"
  BY ConnAtIs, InUse, UnusedIs
<1>2. \A s \in SubIds : subs'[s] # subs[s] =>
        subs[s] # Ended /\ \A d \in Conns : d # c => s \notin conn[d].ids
  <2> TAKE s \in SubIds
  <2> HAVE subs'[s] # subs[s]
  <2>1. CASE subs[s] = NoSub
    <3>1. \A d \in Conns : s \notin conn[d].ids
      BY <2>1, Unowned
    <3> QED BY <2>1, <3>1, EndedIs
  <2>2. CASE s \in conn[c].ids
    <3>0. ConnOK(conn[c], subs, c \in emit.open, head)
      BY <1>1 DEF ConnAt
    <3>1. subs[s] # Ended
      BY <2>2, <3>0, ConnIds
    <3> QED BY <1>1, <2>2, <3>1 DEF ConnAt
  <2> QED BY <2>1, <2>2
<1>3. /\ emit' \in [open : SUBSET Conns, shut : SUBSET Conns]
      /\ \A d \in Conns : d # c => (d \in emit'.open <=> d \in emit.open)
      /\ ConnOK(r, subs', c \in emit'.open, head)
      /\ c \in emit'.open => r.at \in {"open", "closed"}
  BY DEF ConnsInv
<1> QED BY <1>1, <1>2, <1>3, OneConn

\* eth_subscribe, refused or granted, keeps ConnsInv.
LEMMA subscribeKeeps ==
  \A c \in Conns, s \in SubIds, k \in {"newHeads", "logs"} :
    ConnsInv /\ head \in Nat /\ subscribe(c, s, k) => ConnsInv'
\* subscribe: what is still coming is all there is.
<1>LineStarts. ASSUME NEW s, NEW r \in Conn, NEW sub, NEW p \in BOOLEAN, NEW h \in Nat, Stream(r, p, h),
                      sub.since = h, sub.got = << >>, s \notin r.left,
                      \A i \in DOMAIN r.send : r.send[i].id # s
               PROVE  Line(s, r, sub, p, h)
  <2> USE <1>LineStarts
  <2>0. Queued(r.send, s) = {}
    BY DEF Queued
  <2>1. Range(sub.got) = {} /\ Rises(sub.got)
    <3>1. DOMAIN sub.got = {}
      BY SMTT(60)
    <3> QED BY <3>1 DEF Range, Rises
  <2>2. QueueRises(r.send, s)
    BY DEF QueueRises
  <2>3. LineRises(s, sub.got, r.send, r.ev, FALSE)
    BY <2>0, <2>1, <2>2 DEF LineRises
  <2>4. Due(s, sub, r.send, r.ev, FALSE, Coming(r.events, p, h))
          = {b \in Coming(r.events, p, h) : Wants(sub.kind, b)}
    BY <2>0, <2>1 DEF Due
  <2>5. h <= h
    BY SMTT(60)
  <2>6. (s \in r.left) = FALSE
    BY SMTT(60)
  <2> QED BY <2>3, <2>4, <2>5, <2>6 DEF Line, LineWhole, Stream, ChannelWhole
\* subscribe: the new subscription has no notes, the others keep theirs.
<1>ConnSubscribes. ASSUME NEW r \in Conn, NEW r2, NEW ss \in [SubIds -> Sub \cup {NoSub}],
                          NEW p \in BOOLEAN, NEW h \in Nat, ConnOK(r, ss, p, h), r.at = "open",
                          NEW s \in SubIds, ss[s] = NoSub, NEW sub \in Sub, sub # Ended,
                          sub.since = h, sub.got = << >>,
                          r2.ids = r.ids \cup {s}, r2.events = r.events, r2.ev = r.ev,
                          r2.left = r.left, r2.send = r.send, r2.lost = r.lost, r2.at = r.at,
                          NEW ss2, ss2[s] = sub, \A t \in SubIds : t # s => ss2[t] = ss[t]
                   PROVE  ConnOK(r2, ss2, p, h)
  <2> USE <1>ConnSubscribes
  <2>1. /\ r.ids \in SUBSET SubIds /\ r.left \in SUBSET SubIds
        /\ \A i \in DOMAIN r.send : r.send[i] \in Note
    <3>1. r.ids \in SUBSET SubIds /\ r.left \in SUBSET SubIds /\ r.send \in Seq(Note)
      BY DEF Conn
    <3>2. \A i \in DOMAIN r.send : r.send[i] \in Note
      BY <3>1, SMTT(60)
    <3> QED BY <3>1, <3>2
  <2>3. s \notin r.ids /\ s \notin r.left /\ sub # NoSub /\ s # NoSub
    <3>1. s \notin r.ids
      BY ConnIds
    <3>2. \A t \in r.left : t \in r.ids \/ ss[t] = Ended
      BY DEF ConnOK
    <3>3. s \notin r.left
      BY <3>1, <3>2, EndedIs
    <3> QED BY <3>1, <3>3, SubscriptionsAssumption
  <2>4. \A i \in DOMAIN r.send : NoteOK(r.send[i], r.ids, ss) /\ r.send[i].id # s
    BY <2>3, EndedIs DEF ConnOK, NoteOK
  <2>6. Stream(r, p, h) /\ Stream(r2, p, h)
    BY DEF ConnOK, Stream
  <2>7. Line(s, r, sub, p, h)
    BY <2>3, <2>4, <2>6, <1>LineStarts, SMTT(60)
  <2>8. \A t \in r2.ids : Line(t, r2, ss2[t], p, h) /\ ss2[t] # NoSub /\ ss2[t] # Ended
    <3> TAKE t \in r2.ids
    <3>1. CASE t = s
      BY <2>3, <2>7, <3>1, LineSame
    <3>2. CASE t # s
      <4>1. ss2[t] = ss[t] /\ Line(t, r, ss[t], p, h) /\ ss[t] # NoSub /\ ss[t] # Ended
        BY <2>1, <3>2 DEF ConnOK
      <4> QED BY <4>1, LineSame
    <3> QED BY <3>1, <3>2
  <2>9. \A t \in r2.left : r2.ev # 0 /\ (t \in r2.ids \/ ss2[t] = Ended)
    <3>1. \A t \in r.left : r.ev # 0 /\ (t \in r.ids \/ ss[t] = Ended)
      BY DEF ConnOK
    <3>2. \A t \in r.left : ss2[t] = ss[t]
      BY <2>1, <2>3
    <3> QED BY <3>1, <3>2
  <2>10. \A i \in DOMAIN r2.send : NoteOK(r2.send[i], r2.ids, ss2)
    <3> TAKE i \in DOMAIN r2.send
    <3>1. /\ r.send[i] \in Note /\ r.send[i].id # s /\ NoteOK(r.send[i], r.ids, ss)
          /\ r2.send[i] = r.send[i]
      BY <2>1, <2>4
    <3>2. r.send[i].id \in SubIds \cup {NoSub}
      BY <3>1 DEF Note
    <3> QED BY <3>1, <3>2 DEF NoteOK
  <2> QED BY <2>6, <2>8, <2>9, <2>10 DEF ConnOK
<1>step. ASSUME ConnsInv, head \in Nat, NEW c \in Conns, NEW s \in SubIds,
                NEW k \in {"newHeads", "logs"}, subscribe(c, s, k)
         PROVE  ConnsInv'
  <2> USE <1>step
  <2>1. ConnAt(c) /\ conn[c] \in Conn /\ conn[c].at = "open" /\ subs[s] = NoSub
    BY ConnAtIs DEF ConnAt, subscribe
  <2>2. UNCHANGED <<node, head, emit>>
    BY DEF subscribe, chain
  <2>3. CASE Full(c)
    <3> DEFINE r == [conn[c] EXCEPT !.reply = TRUE]
    <3>1. /\ r \in Conn /\ r.at = "open" /\ r.ids = conn[c].ids /\ r.events = conn[c].events
          /\ r.ev = conn[c].ev /\ r.left = conn[c].left /\ r.send = conn[c].send
          /\ r.lost = conn[c].lost
      BY <2>1 DEF Conn
    <3>2. conn' = [conn EXCEPT ![c] = r] /\ UNCHANGED subs
      BY <2>3 DEF subscribe
    <3>3. node = "up"
      BY <2>1, InUse, UnusedIs
    <3> HIDE DEF r
    <3> QED BY <2>1, <2>2, <3>1, <3>2, <3>3, NoNoteMoves
  <2>4. CASE ~Full(c)
    <3> DEFINE r == [conn[c] EXCEPT !.ids = conn[c].ids \cup {s}, !.reply = TRUE]
               sub == [kind |-> k, since |-> head, got |-> << >>]
    <3>1. /\ r \in Conn /\ r.at = "open" /\ r.ids = conn[c].ids \cup {s}
          /\ r.events = conn[c].events
          /\ r.ev = conn[c].ev /\ r.left = conn[c].left /\ r.send = conn[c].send
          /\ r.lost = conn[c].lost
      BY <2>1 DEF Conn
    <3>2. conn' = [conn EXCEPT ![c] = r] /\ subs' = [subs EXCEPT ![s] = sub]
      BY <2>4 DEF subscribe
    <3>3. sub \in Sub /\ sub # Ended /\ sub.since = head /\ sub.got = << >>
      <4>1. << >> \in Seq(Nat)
        BY SMTT(60)
      <4>2. sub.kind # Ended.kind
        BY SMTT(60) DEF Ended
      <4> QED BY <4>1, <4>2 DEF Sub
    <3> HIDE DEF r, sub
    <3>4. subs \in [SubIds -> Sub \cup {NoSub}] /\ (c \in emit.open) \in BOOLEAN
      BY SMTT(60) DEF ConnsInv
    <3>5. ConnOK(r, subs', c \in emit.open, head)
      <4> DEFINE p == c \in emit.open
      <4>1. ConnOK(conn[c], subs, p, head) /\ p \in BOOLEAN /\ r.at = conn[c].at
        BY <2>1, <3>1, <3>4 DEF ConnAt
      <4> HIDE DEF p
      <4>2. subs'[s] = sub /\ \A t \in SubIds : t # s => subs'[t] = subs[t]
        BY <3>2, <3>4
      <4>3. ConnOK(r, subs', p, head)
        BY <2>1, <3>1, <3>3, <3>4, <4>1, <4>2, <1>ConnSubscribes, SMTT(60)
      <4> QED BY <4>3 DEF p
    <3>6. /\ subs' \in [SubIds -> Sub \cup {NoSub}]
          /\ \A t \in SubIds : subs'[t] # subs[t] => subs[t] = NoSub
      BY <2>1, <3>2, <3>3, <3>4
    <3>7. \A d \in Conns : d # c => r.ids \cap conn[d].ids = {}
      <4>1. \A d \in Conns : s \notin conn[d].ids
        BY <2>1, Unowned
      <4> QED BY <2>1, <3>1, <4>1 DEF ConnAt
    <3> QED BY <2>1, <2>2, <3>1, <3>2, <3>5, <3>6, <3>7, OneConnOnly
  <2> QED BY <2>3, <2>4
<1> QED BY <1>step

\* eth_unsubscribe, of a live id or of none, keeps ConnsInv.
LEMMA unsubscribeKeeps ==
  \A c \in Conns, s \in SubIds : ConnsInv /\ unsubscribe(c, s) => ConnsInv'
\* A subscription ends: unsubscribe.
<1>ConnUnsubscribes. ASSUME NEW r \in Conn, NEW r2, NEW ss \in [SubIds -> Sub \cup {NoSub}],
                            NEW p, NEW h, ConnOK(r, ss, p, h), NEW s \in r.ids,
                            r2.ids = r.ids \ {s}, r2.events = r.events, r2.ev = r.ev,
                            r2.left = r.left, r2.send = r.send, r2.lost = r.lost, r2.at = r.at
                     PROVE  ConnOK(r2, [ss EXCEPT ![s] = Ended], p, h)
  <2> USE <1>ConnUnsubscribes
  <2> DEFINE ss2 == [ss EXCEPT ![s] = Ended]
  <2>1. /\ r.ids \in SUBSET SubIds /\ r.left \in SUBSET SubIds
        /\ \A i \in DOMAIN r.send : r.send[i] \in Note
    <3>1. r.ids \in SUBSET SubIds /\ r.left \in SUBSET SubIds /\ r.send \in Seq(Note)
      BY DEF Conn
    <3>2. \A i \in DOMAIN r.send : r.send[i] \in Note
      BY <3>1, SMTT(60)
    <3> QED BY <3>1, <3>2
  <2>2. ss2[s] = Ended /\ \A t \in SubIds : t # s => ss2[t] = ss[t]
    BY <2>1
  <2> HIDE DEF ss2
  <2>3. r2.at = "open" => Stream(r2, p, h)
    BY DEF ConnOK, Stream
  <2>4. \A t \in r2.ids : ss2[t] = ss[t] /\ t \in r.ids
    BY <2>1, <2>2
  <2>5. \A t \in r2.ids : /\ ss2[t] # NoSub /\ ss2[t] # Ended
                          /\ r2.at = "open" => Line(t, r2, ss2[t], p, h)
    <3> TAKE t \in r2.ids
    <3>1. /\ ss[t] # NoSub /\ ss[t] # Ended
          /\ r.at = "open" => Line(t, r, ss[t], p, h)
      BY <2>4 DEF ConnOK
    <3> QED BY <2>4, <3>1, LineSame
  <2>6. \A t \in r2.left : r2.ev # 0 /\ (t \in r2.ids \/ ss2[t] = Ended)
    BY <2>1, <2>2 DEF ConnOK
  <2>7. \A i \in DOMAIN r2.send : NoteOK(r2.send[i], r2.ids, ss2)
    <3> TAKE i \in DOMAIN r2.send
    <3>1. r.send[i] \in Note /\ NoteOK(r.send[i], r.ids, ss) /\ r2.send[i] = r.send[i]
      BY <2>1 DEF ConnOK
    <3>2. r.send[i].id \in SubIds \cup {NoSub}
      BY <3>1 DEF Note
    <3> QED BY <2>2, <3>1, <3>2 DEF NoteOK
  <2> QED BY <2>3, <2>5, <2>6, <2>7 DEF ConnOK, ss2
<1>step. ASSUME ConnsInv, NEW c \in Conns, NEW s \in SubIds, unsubscribe(c, s)
         PROVE  ConnsInv'
  <2> USE <1>step
  <2> DEFINE r == [conn[c] EXCEPT !.ids = conn[c].ids \ {s}, !.reply = TRUE]
  <2>1. ConnAt(c) /\ conn[c] \in Conn /\ conn[c].at = "open"
    BY ConnAtIs DEF ConnAt, unsubscribe
  <2>2. UNCHANGED <<node, head, emit>> /\ conn' = [conn EXCEPT ![c] = r]
    BY DEF unsubscribe, chain
  <2>3. /\ r \in Conn /\ r.at = "open" /\ r.ids = conn[c].ids \ {s} /\ r.events = conn[c].events
        /\ r.ev = conn[c].ev /\ r.left = conn[c].left /\ r.send = conn[c].send
        /\ r.lost = conn[c].lost
    BY <2>1 DEF Conn
  <2> HIDE DEF r
  <2>4. subs \in [SubIds -> Sub \cup {NoSub}]
    BY DEF ConnsInv
  <2>5. CASE s \in conn[c].ids
    <3>1. subs' = [subs EXCEPT ![s] = Ended]
      BY <2>5 DEF unsubscribe
    <3>2. ConnOK(r, subs', c \in emit.open, head)
      <4>1. ConnOK(conn[c], subs, c \in emit.open, head) /\ r.at = conn[c].at
        BY <2>1, <2>3 DEF ConnAt
      <4>2. ConnOK(r, [subs EXCEPT ![s] = Ended], c \in emit.open, head)
        BY <2>1, <2>3, <2>4, <2>5, <4>1, <1>ConnUnsubscribes
      <4> QED BY <3>1, <4>2
    <3>3. /\ subs' \in [SubIds -> Sub \cup {NoSub}]
          /\ \A t \in SubIds : subs'[t] # subs[t] => t \in conn[c].ids
      BY <2>4, <2>5, <3>1, EndedIs
    <3>4. \A d \in Conns : d # c => r.ids \cap conn[d].ids = {}
      BY <2>1, <2>3 DEF ConnAt
    <3> QED BY <2>1, <2>2, <2>3, <3>2, <3>3, <3>4, OneConnOnly
  <2>6. CASE s \notin conn[c].ids
    <3>1. UNCHANGED subs /\ r.ids = conn[c].ids
      BY <2>3, <2>6 DEF unsubscribe
    <3>2. node = "up"
      BY <2>1, InUse, UnusedIs
    <3> QED BY <2>1, <2>2, <2>3, <3>1, <3>2, NoNoteMoves
  <2> QED BY <2>5, <2>6
<1> QED BY <1>step

\* Answer and dispatchEvent, which enqueue a note.
LEMMA EnqueuesKeep ==
  \A c \in Conns :
    ConnsInv /\ (Answer(c) \/ \E s \in SubIds : dispatchEvent(c, s)) => ConnsInv'
\* A note joins a queue.
<1>QueueAppend. ASSUME NEW q \in Seq(Note), NEW m \in Note, NEW s
                PROVE  Joined(q, m, s)
  <2> USE <1>QueueAppend
  <2> DEFINE a == Append(q, m)
             n == Len(q)
  <2>1. /\ a \in Seq(Note) /\ n \in Nat /\ DOMAIN q = 1 .. n /\ DOMAIN a = 1 .. n + 1
        /\ \A i \in 1 .. n : a[i] = q[i]
        /\ a[n + 1] = m
    BY SMTT(60)
  <2>2. /\ \A i \in 1 .. n : i \in 1 .. n + 1
        /\ n + 1 \in 1 .. n + 1
        /\ \A i \in 1 .. n + 1 : i = n + 1 \/ i \in 1 .. n
        /\ \A i, j \in 1 .. n + 1 : i < j => i \in 1 .. n
    BY <2>1, SMTT(60)
  <2> HIDE DEF a, n
  <2>3. Queued(a, s) \subseteq Queued(q, s) \cup (IF m.id = s THEN {m.blk} ELSE {})
    <3> SUFFICES ASSUME NEW i \in 1 .. n + 1, a[i].id = s
                 PROVE  a[i].blk \in Queued(q, s) \cup (IF m.id = s THEN {m.blk} ELSE {})
      BY <2>1 DEF Queued
    <3> QED BY <2>1, <2>2 DEF Queued
  <2>4. Queued(q, s) \cup (IF m.id = s THEN {m.blk} ELSE {}) \subseteq Queued(a, s)
    <3>1. Queued(q, s) \subseteq Queued(a, s)
      BY <2>1, <2>2 DEF Queued
    <3>2. m.id = s => m.blk \in Queued(a, s)
      BY <2>1, <2>2 DEF Queued
    <3> QED BY <3>1, <3>2
  <2>5. ASSUME QueueRises(q, s), m.id = s => \A y \in Queued(q, s) : y < m.blk
        PROVE  QueueRises(a, s)
    <3> SUFFICES ASSUME NEW i \in 1 .. n + 1, NEW j \in 1 .. n + 1, i < j,
                        a[i].id = s, a[j].id = s
                 PROVE  a[i].blk < a[j].blk
      BY <2>1 DEF QueueRises
    <3>1. i \in 1 .. n /\ a[i] = q[i]
      BY <2>1, <2>2
    <3>2. CASE j \in 1 .. n
      BY <2>1, <2>5, <3>1, <3>2 DEF QueueRises
    <3>3. CASE j = n + 1
      BY <2>1, <2>5, <3>1, <3>3 DEF Queued
    <3> QED BY <2>2, <3>2, <3>3
  <2> QED BY <2>1, <2>3, <2>4, <2>5 DEF a, Joined
\* A note for another subscription, or an answer, joins the queue or is dropped.
<1>LineOther. ASSUME NEW s, NEW r \in Conn, NEW r2, NEW sub, NEW p, NEW h, NEW m \in Note, m.id # s,
                     Line(s, r, sub, p, h),
                     r2.ev = r.ev, r2.events = r.events, s \in r2.left <=> s \in r.left,
                     \/ r2.lost = r.lost /\ r2.send = Append(r.send, m)
                     \/ r2.lost /\ r2.send = r.send
              PROVE  Line(s, r2, sub, p, h)
  <2> USE <1>LineOther
  <2>1. r.send \in Seq(Note)
    BY DEF Conn
  <2>2. /\ Queued(r2.send, s) = Queued(r.send, s)
        /\ QueueRises(r.send, s) => QueueRises(r2.send, s)
    <3> DEFINE a == Append(r.send, m)
    <3>1. /\ Queued(a, s) = Queued(r.send, s) \cup (IF m.id = s THEN {m.blk} ELSE {})
          /\ QueueRises(r.send, s) /\ (m.id = s => \A y \in Queued(r.send, s) : y < m.blk)
               => QueueRises(a, s)
      <4>1. Joined(r.send, m, s)
        BY <2>1, <1>QueueAppend
      <4> QED BY <4>1 DEF Joined
    <3> HIDE DEF a
    <3>2. Queued(a, s) = Queued(r.send, s)
      BY <3>1
    <3>3. r2.send = a \/ r2.send = r.send
      BY DEF a
    <3> QED BY <3>1, <3>2, <3>3
  <2>3. (s \in r2.left) = (s \in r.left)
    BY SMTT(60)
  <2>4. LineRises(s, sub.got, r2.send, r2.ev, s \in r2.left)
    BY <2>2, <2>3 DEF Line, LineRises
  <2>5. Due(s, sub, r2.send, r2.ev, s \in r2.left, Coming(r2.events, p, h))
          = Due(s, sub, r.send, r.ev, s \in r.left, Coming(r.events, p, h))
    BY <2>2, <2>3 DEF Due
  <2> QED BY <2>3, <2>4, <2>5 DEF Line
\* dispatchEvent: the event at hand joins the queue or is dropped.
<1>LineDispatch. ASSUME NEW s, NEW r \in Conn, NEW r2, NEW sub \in Sub, NEW p, NEW h, NEW m \in Note,
                        m.id = s, m.blk = r.ev, Line(s, r, sub, p, h), s \in r.left, s \notin r2.left,
                        r2.ev = r.ev, r2.events = r.events,
                        \/ r2.lost = r.lost /\ r2.send = Append(r.send, m)
                        \/ r2.lost /\ r2.send = r.send
                 PROVE  Line(s, r2, sub, p, h)
  <2> USE <1>LineDispatch
  <2>1. r.send \in Seq(Note) /\ r.ev \in Nat
    BY DEF Conn
  <2>2. r.ev <= r.ev
    BY <2>1, SMTT(60)
  <2>3. LineRises(s, sub.got, r.send, r.ev, TRUE)
    BY DEF Line
  <2>4. CASE r2.lost = r.lost /\ r2.send = Append(r.send, m)
    <3>1. /\ Queued(r2.send, s) = Queued(r.send, s) \cup {r.ev}
          /\ QueueRises(r.send, s) /\ (\A y \in Queued(r.send, s) : y < r.ev)
               => QueueRises(r2.send, s)
      <4> DEFINE a == Append(r.send, m)
      <4>1. /\ Queued(a, s) = Queued(r.send, s) \cup (IF m.id = s THEN {m.blk} ELSE {})
            /\ QueueRises(r.send, s) /\ (m.id = s => \A y \in Queued(r.send, s) : y < m.blk)
                 => QueueRises(a, s)
        <5>1. Joined(r.send, m, s)
          BY <2>1, <1>QueueAppend
        <5> QED BY <5>1 DEF Joined
      <4> HIDE DEF a
      <4>2. r2.send = a
        BY <2>4 DEF a
      <4>3. Queued(a, s) = Queued(r.send, s) \cup {r.ev}
        BY <4>1
      <4> QED BY <4>1, <4>2, <4>3
    <3>2. LineRises(s, sub.got, r2.send, r2.ev, s \in r2.left)
      BY <2>2, <2>3, <3>1 DEF LineRises
    <3>3. Due(s, sub, r2.send, r2.ev, s \in r2.left, Coming(r2.events, p, h))
            = Due(s, sub, r.send, r.ev, s \in r.left, Coming(r.events, p, h))
      BY <3>1 DEF Due
    <3> QED BY <2>4, <3>2, <3>3 DEF Line
  <2>5. CASE r2.lost /\ r2.send = r.send
    BY <2>3, <2>5 DEF Line, LineRises
  <2> QED BY <2>4, <2>5
<1>EnqueuedIs. ASSUME NEW r \in Conn, NEW m \in Note
               PROVE  /\ Enqueued(r, m) \in Conn
                      /\ r.at # "open" => Enqueued(r, m) = r
                      /\ r.at = "open" =>
                           \/ Enqueued(r, m) = [r EXCEPT !.send = Append(r.send, m)]
                           \/ Enqueued(r, m) = [r EXCEPT !.lost = TRUE]
  <2> USE <1>EnqueuedIs
  <2>1. r.send \in Seq(Note) /\ Append(r.send, m) \in Seq(Note)
    <3>1. r.send \in Seq(Note)
      BY DEF Conn
    <3> QED BY <3>1, SMTT(60)
  <2>2. [r EXCEPT !.send = Append(r.send, m)] \in Conn
    BY <2>1 DEF Conn
  <2>3. [r EXCEPT !.lost = TRUE] \in Conn
    BY DEF Conn
  <2> QED BY <2>2, <2>3 DEF Enqueued
\* enqueueJSON: a note m joins the queue of an open connection, or is lost; if
\* it is the event at hand for s, s leaves the ones it is to be dispatched to.
<1>ConnEnqueues. ASSUME NEW r \in Conn, NEW r2, NEW ss \in [SubIds -> Sub \cup {NoSub}],
                        NEW p, NEW h, ConnOK(r, ss, p, h), r.at = "open", NEW m \in Note,
                        NoteOK(m, r.ids, ss), r2.left = r.left \ {m.id},
                        m.id # NoSub => m.id \in r.left /\ m.blk = r.ev,
                        r2.ids = r.ids, r2.events = r.events, r2.ev = r.ev, r2.at = r.at,
                        \/ r2.lost = r.lost /\ r2.send = Append(r.send, m)
                        \/ r2.lost /\ r2.send = r.send
                 PROVE  ConnOK(r2, ss, p, h)
  <2> USE <1>ConnEnqueues
  <2>1. r.ids \in SUBSET SubIds /\ r.left \in SUBSET SubIds /\ r.send \in Seq(Note)
    BY DEF Conn
  <2>2. Stream(r2, p, h)
    BY DEF ConnOK, Stream
  <2>3. \A t \in r2.ids : Line(t, r2, ss[t], p, h) /\ ss[t] # NoSub /\ ss[t] # Ended
    <3> TAKE t \in r2.ids
    <3>1. t \in SubIds /\ Line(t, r, ss[t], p, h) /\ ss[t] # NoSub /\ ss[t] # Ended
      BY <2>1 DEF ConnOK
    <3>2. ss[t] \in Sub /\ t # NoSub
      BY <3>1, SubscriptionsAssumption
    <3>3. CASE t = m.id
      <4>1. t \in r.left /\ t \notin r2.left /\ m.blk = r.ev
        BY <3>2, <3>3
      <4> QED BY <3>1, <3>2, <3>3, <4>1, <1>LineDispatch
    <3>4. CASE t # m.id
      <4>1. t \in r2.left <=> t \in r.left
        BY <3>4
      <4> QED BY <3>1, <3>4, <4>1, <1>LineOther
    <3> QED BY <3>3, <3>4
  <2>4. \A t \in r2.left : r2.ev # 0 /\ (t \in r2.ids \/ ss[t] = Ended)
    BY DEF ConnOK
  <2>5. \A i \in DOMAIN Append(r.send, m) :
          \/ i \in DOMAIN r.send /\ Append(r.send, m)[i] = r.send[i]
          \/ Append(r.send, m)[i] = m
    BY <2>1, SMTT(60)
  <2>6. \A i \in DOMAIN r2.send : NoteOK(r2.send[i], r2.ids, ss)
    BY <2>5 DEF ConnOK
  <2> QED BY <2>2, <2>3, <2>4, <2>6 DEF ConnOK
\* Answer: an answer is queued, or lost.
<1>AnswerKeeps. ASSUME ConnsInv, NEW c \in Conns, Answer(c)
                PROVE  ConnsInv'
  <2> USE <1>AnswerKeeps
  <2> DEFINE m == [id |-> NoSub, blk |-> 0]
             e == Enqueued(conn[c], m)
             r == [e EXCEPT !.reply = FALSE]
  <2>1. ConnAt(c) /\ conn[c] \in Conn /\ conn[c].reply
    BY ConnAtIs DEF ConnAt, Answer
  <2>2. UNCHANGED <<node, head, emit, subs>> /\ conn' = [conn EXCEPT ![c] = r]
    BY DEF Answer, WSUnchanged, chain
  <2>3. m \in Note /\ m.id = NoSub /\ m.blk = 0
    BY SMTT(60) DEF Note
  <2> HIDE DEF m
  <2>4. /\ e \in Conn
        /\ conn[c].at # "open" => e = conn[c]
        /\ conn[c].at = "open" =>
             \/ e = [conn[c] EXCEPT !.send = Append(conn[c].send, m)]
             \/ e = [conn[c] EXCEPT !.lost = TRUE]
    BY <2>1, <2>3, <1>EnqueuedIs
  <2> HIDE DEF e
  <2>5. /\ r \in Conn /\ r.at = e.at /\ r.ids = e.ids /\ r.events = e.events /\ r.ev = e.ev
        /\ r.left = e.left /\ r.send = e.send /\ r.lost = e.lost
    BY <2>4 DEF Conn
  <2> HIDE DEF r
  <2>6. node = "up"
    BY <2>1, InUse, UnusedIs
  <2>7. CASE conn[c].at # "open"
    <3>1. c \in emit.open => r.at \in {"open", "closed"}
      BY <2>4, <2>5, <2>7 DEF ConnsInv
    <3>2. r.at # "open"
      BY <2>4, <2>5, <2>7
    <3> QED BY <2>2, <2>4, <2>5, <2>6, <2>7, <3>1, <3>2, NoNoteMoves
  <2>8. CASE conn[c].at = "open"
    <3>1. /\ e.at = conn[c].at /\ e.ids = conn[c].ids /\ e.events = conn[c].events
          /\ e.ev = conn[c].ev /\ e.left = conn[c].left
          /\ \/ e.lost = conn[c].lost /\ e.send = Append(conn[c].send, m)
             \/ e.lost /\ e.send = conn[c].send
      BY <2>1, <2>4, <2>8 DEF Conn
    <3>2. NoteOK(m, conn[c].ids, subs)
      BY <2>3 DEF NoteOK
    <3>3. r.left = conn[c].left \ {m.id}
      <4>1. conn[c].left \in SUBSET SubIds
        BY <2>1 DEF Conn
      <4> QED BY <2>3, <2>5, <3>1, <4>1, SubscriptionsAssumption
    <3>4. subs \in [SubIds -> Sub \cup {NoSub}] /\ ConnOK(conn[c], subs, c \in emit.open, head)
      BY <2>1 DEF ConnsInv, ConnAt
    <3>5. /\ r.at = conn[c].at /\ r.ids = conn[c].ids /\ r.events = conn[c].events
          /\ r.ev = conn[c].ev
          /\ \/ r.lost = conn[c].lost /\ r.send = Append(conn[c].send, m)
             \/ r.lost /\ r.send = conn[c].send
      BY <2>5, <3>1
    <3>6. ConnOK(r, subs, c \in emit.open, head)
      BY <2>1, <2>3, <2>8, <3>2, <3>3, <3>4, <3>5, <1>ConnEnqueues
    <3>7. \A d \in Conns : d # c => r.ids \cap conn[d].ids = {}
      BY <2>1, <3>5 DEF ConnAt
    <3>8. ConnOK(r, subs', c \in emit.open, head) /\ subs' \in [SubIds -> Sub \cup {NoSub}]
      BY <2>2, <3>4, <3>6
    <3> QED BY <2>2, <2>5, <2>8, <3>5, <3>7, <3>8, OneConnOnly
  <2> QED BY <2>7, <2>8
\* dispatchEvent: a note for s is queued, or lost.
<1>dispatchEventKeeps. ASSUME ConnsInv, NEW c \in Conns, NEW s \in SubIds, dispatchEvent(c, s)
                       PROVE  ConnsInv'
  <2> USE <1>dispatchEventKeeps
  <2> DEFINE m == [id |-> s, blk |-> conn[c].ev]
             e == Enqueued(conn[c], m)
             r == [e EXCEPT !.left = e.left \ {s}]
  <2>1. ConnAt(c) /\ conn[c] \in Conn /\ s \in conn[c].left
    BY ConnAtIs DEF ConnAt, dispatchEvent
  <2>2. UNCHANGED <<node, head, emit, subs>> /\ conn' = [conn EXCEPT ![c] = r]
    BY DEF dispatchEvent, WSUnchanged, chain
  <2>3. m \in Note /\ m.id = s /\ m.blk = conn[c].ev
    BY <2>1 DEF Note, Conn
  <2> HIDE DEF m
  <2>4. /\ e \in Conn
        /\ conn[c].at # "open" => e = conn[c]
        /\ conn[c].at = "open" =>
             \/ e = [conn[c] EXCEPT !.send = Append(conn[c].send, m)]
             \/ e = [conn[c] EXCEPT !.lost = TRUE]
    BY <2>1, <2>3, <1>EnqueuedIs
  <2> HIDE DEF e
  <2>5. /\ r \in Conn /\ r.at = e.at /\ r.ids = e.ids /\ r.events = e.events /\ r.ev = e.ev
        /\ r.left = e.left \ {s} /\ r.send = e.send /\ r.lost = e.lost
    BY <2>4 DEF Conn
  <2> HIDE DEF r
  <2>6. /\ node = "up" /\ subs \in [SubIds -> Sub \cup {NoSub}]
        /\ ConnOK(conn[c], subs, c \in emit.open, head)
    <3>1. conn[c] # Unused
      BY <2>1, UnusedIs
    <3>2. node = "up"
      BY <3>1, InUse
    <3> QED BY <2>1, <3>2 DEF ConnsInv, ConnAt
  <2>7. CASE conn[c].at # "open"
    <3>1. /\ r.at = conn[c].at /\ r.ids = conn[c].ids /\ r.send = conn[c].send
          /\ r.ev = conn[c].ev /\ r.left \subseteq conn[c].left
      BY <2>4, <2>5, <2>7
    <3>2. ConnOK(r, subs, c \in emit.open, head)
      BY <2>6, <2>7, <3>1 DEF ConnOK
    <3>3. /\ emit' \in [open : SUBSET Conns, shut : SUBSET Conns]
          /\ \A d \in Conns : d # c => (d \in emit'.open <=> d \in emit.open)
          /\ ConnOK(r, subs', c \in emit'.open, head)
          /\ c \in emit'.open => r.at \in {"open", "closed"}
          /\ subs' \in [SubIds -> Sub \cup {NoSub}]
      BY <2>2, <3>1, <3>2 DEF ConnsInv
    <3>4. \A d \in Conns : d # c => r.ids \cap conn[d].ids = {}
      BY <2>1, <3>1 DEF ConnAt
    <3> QED BY <2>2, <2>5, <2>6, <3>3, <3>4, OneConn
  <2>8. CASE conn[c].at = "open"
    <3>1. /\ e.at = conn[c].at /\ e.ids = conn[c].ids /\ e.events = conn[c].events
          /\ e.ev = conn[c].ev /\ e.left = conn[c].left
          /\ \/ e.lost = conn[c].lost /\ e.send = Append(conn[c].send, m)
             \/ e.lost /\ e.send = conn[c].send
      BY <2>1, <2>4, <2>8 DEF Conn
    <3>2. NoteOK(m, conn[c].ids, subs)
      <4>1. conn[c].ev # 0 /\ (s \in conn[c].ids \/ subs[s] = Ended)
        BY <2>1, <2>6 DEF ConnOK
      <4>2. s # NoSub
        BY SubscriptionsAssumption
      <4> QED BY <2>3, <4>1, <4>2 DEF NoteOK
    <3>3. r.left = conn[c].left \ {m.id}
      BY <2>3, <2>5, <3>1
    <3>5. /\ r.at = conn[c].at /\ r.ids = conn[c].ids /\ r.events = conn[c].events
          /\ r.ev = conn[c].ev
          /\ \/ r.lost = conn[c].lost /\ r.send = Append(conn[c].send, m)
             \/ r.lost /\ r.send = conn[c].send
      BY <2>5, <3>1
    <3>6. ConnOK(r, subs, c \in emit.open, head)
      BY <2>1, <2>3, <2>6, <2>8, <3>2, <3>3, <3>5, <1>ConnEnqueues
    <3>7. \A d \in Conns : d # c => r.ids \cap conn[d].ids = {}
      BY <2>1, <3>5 DEF ConnAt
    <3>8. ConnOK(r, subs', c \in emit.open, head) /\ subs' \in [SubIds -> Sub \cup {NoSub}]
      BY <2>2, <2>6, <3>6
    <3>9. /\ r \in Conn /\ r.at = "open" /\ conn' = [conn EXCEPT ![c] = r]
          /\ \A t \in SubIds : subs'[t] = subs[t]
      BY <2>2, <2>5, <2>8, <3>5
    <3> QED BY <2>2, <2>8, <3>7, <3>8, <3>9, OneConnOnly
  <2> QED BY <2>7, <2>8
<1>step. ASSUME ConnsInv, NEW c \in Conns, Answer(c) \/ \E s \in SubIds : dispatchEvent(c, s)
         PROVE  ConnsInv'
  BY <1>step, <1>AnswerKeeps, <1>dispatchEventKeeps
<1> QED BY <1>step

\* The feed sends the head to one connection, or drops it when the channel is full.
LEMMA EmitKeeps ==
  \A c \in Conns : ConnsInv /\ head \in Nat /\ Emit(c) => ConnsInv'
\* Emit: the head joins the channel, or is dropped.
<1>EmitChannel. ASSUME NEW ev \in Nat, NEW events \in Seq(Nat), NEW h \in Nat,
                       ChannelRises(ev, events, TRUE, h)
                PROVE  /\ ChannelRises(ev, events, FALSE, h)
                       /\ Append(events, h) \in Seq(Nat)
                       /\ ChannelRises(ev, Append(events, h), FALSE, h)
                       /\ Coming(Append(events, h), FALSE, h) = Coming(events, TRUE, h)
  <2> USE <1>EmitChannel
  <2>1. ChannelRises(ev, events, FALSE, h)
    BY DEF ChannelRises
  <2>2. /\ Append(events, h) \in Seq(Nat) /\ Rises(Append(events, h))
        /\ Range(Append(events, h)) = Range(events) \cup {h}
    BY AppendRises DEF ChannelRises
  <2>3. h <= h /\ ev <= h /\ ev < h
    BY SMTT(60) DEF ChannelRises
  <2>4. ChannelRises(ev, Append(events, h), FALSE, h)
    BY <2>1, <2>2, <2>3 DEF ChannelRises
  <2>5. Coming(Append(events, h), FALSE, h) = Coming(events, TRUE, h)
    BY <2>2 DEF Coming
  <2> QED BY <2>1, <2>2, <2>4, <2>5
<1>LineEmit. ASSUME NEW s, NEW r \in Conn, NEW r2, NEW sub, NEW h \in Nat,
                    Stream(r, TRUE, h), Line(s, r, sub, TRUE, h),
                    r2.ev = r.ev, r2.send = r.send, r2.left = r.left,
                    \/ r2.lost = r.lost /\ r2.events = Append(r.events, h)
                    \/ r2.lost /\ r2.events = r.events
             PROVE  Line(s, r2, sub, FALSE, h)
  <2> USE <1>LineEmit
  <2>1. r.ev \in Nat /\ r.events \in Seq(Nat) /\ ChannelRises(r.ev, r.events, TRUE, h)
    BY DEF Conn, Stream
  <2>2. ~r2.lost => ~r.lost /\ Coming(r2.events, FALSE, h) = Coming(r.events, TRUE, h)
    BY <2>1, <1>EmitChannel
  <2> QED BY <2>2 DEF Line
\* emitChainEventLocked: the head joins the channel, or is lost.
<1>ConnEmits. ASSUME NEW r \in Conn, NEW r2, NEW ss, NEW h \in Nat, ConnOK(r, ss, TRUE, h),
                     r2.ids = r.ids, r2.ev = r.ev, r2.left = r.left, r2.send = r.send, r2.at = r.at,
                     \/ r2.lost = r.lost /\ r2.events = Append(r.events, h)
                     \/ r2.lost /\ r2.events = r.events
              PROVE  ConnOK(r2, ss, FALSE, h)
  <2> USE <1>ConnEmits
  <2>1. r.ev \in Nat /\ r.events \in Seq(Nat)
    BY DEF Conn
  <2>2. r2.at = "open" => Stream(r2, FALSE, h)
    <3> HAVE r2.at = "open"
    <3>1. Stream(r, TRUE, h)
      BY DEF ConnOK
    <3>2. /\ ChannelRises(r.ev, r.events, TRUE, h)
          /\ ~r.lost => ChannelWhole(r.events, TRUE, h)
      BY <3>1 DEF Stream
    <3>3. /\ ChannelRises(r.ev, r.events, FALSE, h)
          /\ ChannelRises(r.ev, Append(r.events, h), FALSE, h)
          /\ Coming(Append(r.events, h), FALSE, h) = Coming(r.events, TRUE, h)
      BY <2>1, <3>2, <1>EmitChannel
    <3>4. ChannelWhole(r.events, TRUE, h) => ChannelWhole(Append(r.events, h), FALSE, h)
      BY <3>3 DEF ChannelWhole
    <3> QED BY <3>2, <3>3, <3>4 DEF Stream
  <2>3. \A s \in r2.ids : /\ ss[s] # NoSub /\ ss[s] # Ended
                          /\ r2.at = "open" => Line(s, r2, ss[s], FALSE, h)
    <3> TAKE s \in r2.ids
    <3>1. /\ ss[s] # NoSub /\ ss[s] # Ended
          /\ r.at = "open" => Line(s, r, ss[s], TRUE, h) /\ Stream(r, TRUE, h)
      BY DEF ConnOK
    <3> QED BY <3>1, <1>LineEmit
  <2> QED BY <2>2, <2>3 DEF ConnOK
<1>step. ASSUME ConnsInv, head \in Nat, NEW c \in Conns, Emit(c)
         PROVE  ConnsInv'
  <2> USE <1>step
  <2> DEFINE a == [conn[c] EXCEPT !.events = Append(conn[c].events, head)]
             b == [conn[c] EXCEPT !.lost = TRUE]
  <2>1. ConnAt(c) /\ conn[c] \in Conn /\ c \in emit.open
    BY ConnAtIs DEF ConnAt, Emit
  <2>2. /\ emit' \in [open : SUBSET Conns, shut : SUBSET Conns]
        /\ emit'.open = emit.open \ {c}
    BY DEF Emit, ConnsInv
  <2>3. a \in Conn /\ b \in Conn
    <3>1. conn[c].events \in Seq(Nat)
      BY <2>1 DEF Conn
    <3>2. Append(conn[c].events, head) \in Seq(Nat)
      BY <3>1, SMTT(60)
    <3> QED BY <2>1, <3>2 DEF Conn
  <2>4. /\ a.ids = conn[c].ids /\ a.ev = conn[c].ev /\ a.left = conn[c].left
        /\ a.send = conn[c].send /\ a.at = conn[c].at /\ a.lost = conn[c].lost
        /\ a.events = Append(conn[c].events, head)
        /\ b.ids = conn[c].ids /\ b.ev = conn[c].ev /\ b.left = conn[c].left
        /\ b.send = conn[c].send /\ b.at = conn[c].at /\ b.lost
        /\ b.events = conn[c].events
    BY <2>1 DEF Conn
  <2>5. PICK r \in {a, b} : conn' = [conn EXCEPT ![c] = r]
    BY DEF Emit
  <2> HIDE DEF a, b
  <2>6. /\ r \in Conn /\ r.ids = conn[c].ids /\ r.ev = conn[c].ev /\ r.left = conn[c].left
        /\ r.send = conn[c].send /\ r.at = conn[c].at
        /\ \/ r.lost = conn[c].lost /\ r.events = Append(conn[c].events, head)
           \/ r.lost /\ r.events = conn[c].events
    BY <2>3, <2>4
  <2>7. node = "up"
    BY <2>1 DEF ConnsInv
  <2>8. (c \in emit.open) = TRUE /\ (c \in emit'.open) = FALSE
    BY <2>1, <2>2, SMTT(60)
  <2>9. ConnOK(conn[c], subs, TRUE, head)
    BY <2>1, <2>8 DEF ConnAt
  <2>10. ConnOK(r, subs, FALSE, head)
    BY <2>1, <2>6, <2>9, <1>ConnEmits
  <2>11. UNCHANGED <<node, head, subs>>
    BY DEF Emit
  <2>12. /\ subs' \in [SubIds -> Sub \cup {NoSub}]
         /\ ConnOK(r, subs', c \in emit'.open, head)
         /\ c \notin emit'.open
         /\ \A d \in Conns : d # c => (d \in emit'.open <=> d \in emit.open)
    BY <2>2, <2>8, <2>10, <2>11 DEF ConnsInv
  <2>13. \A d \in Conns : d # c => r.ids \cap conn[d].ids = {}
    BY <2>1, <2>6 DEF ConnAt
  <2> QED BY <2>2, <2>5, <2>6, <2>7, <2>11, <2>12, <2>13, OneConn
<1> QED BY <1>step

\* A connection takes the next event off its channel.
LEMMA eventPumpKeeps ==
  \A c \in Conns : ConnsInv /\ head \in Nat /\ eventPump(c) => ConnsInv'
\* What the sequences of the connection do.
<1>TailRises. ASSUME NEW q \in Seq(Nat), q # << >>, Rises(q)
              PROVE  /\ Tail(q) \in Seq(Nat) /\ Rises(Tail(q)) /\ Head(q) \in Nat
                     /\ Range(q) = {Head(q)} \cup Range(Tail(q))
                     /\ \A y \in Range(Tail(q)) : Head(q) < y
  <2> USE <1>TailRises
  <2> DEFINE t == Tail(q)
  <2>1. /\ t \in Seq(Nat) /\ Len(q) \in Nat /\ Len(q) >= 1 /\ Head(q) = q[1] /\ q[1] \in Nat
        /\ DOMAIN q = 1 .. Len(q) /\ DOMAIN t = 1 .. Len(q) - 1
        /\ \A i \in 1 .. Len(q) - 1 : t[i] = q[i + 1]
    BY SMTT(60)
  <2> HIDE DEF t
  <2>2. /\ \A i \in 1 .. Len(q) - 1 : i + 1 \in 1 .. Len(q) /\ 1 < i + 1
        /\ \A i, j \in 1 .. Len(q) - 1 : i < j => i + 1 < j + 1
        /\ 1 \in 1 .. Len(q)
        /\ \A i \in 1 .. Len(q) : i = 1 \/ (i - 1 \in 1 .. Len(q) - 1 /\ (i - 1) + 1 = i)
    BY <2>1, SMTT(60)
  <2>3. Rises(t)
    <3> SUFFICES ASSUME NEW i \in 1 .. Len(q) - 1, NEW j \in 1 .. Len(q) - 1, i < j
                 PROVE  t[i] < t[j]
      BY <2>1 DEF Rises
    <3>1. /\ i + 1 \in DOMAIN q /\ j + 1 \in DOMAIN q /\ i + 1 < j + 1
          /\ t[i] = q[i + 1] /\ t[j] = q[j + 1]
      BY <2>1, <2>2
    <3> QED BY <3>1 DEF Rises
  <2>4. Range(q) \subseteq {q[1]} \cup Range(t)
    <3> SUFFICES ASSUME NEW i \in 1 .. Len(q), i # 1 PROVE q[i] \in Range(t)
      BY <2>1 DEF Range
    <3>1. i - 1 \in DOMAIN t /\ t[i - 1] = q[i]
      BY <2>1, <2>2
    <3> QED BY <3>1 DEF Range
  <2>5. ASSUME NEW i \in DOMAIN t PROVE t[i] \in Range(q) /\ q[1] < t[i]
    <3>1. i + 1 \in DOMAIN q /\ 1 \in DOMAIN q /\ 1 < i + 1 /\ t[i] = q[i + 1]
      BY <2>1, <2>2
    <3> QED BY <3>1 DEF Range, Rises
  <2>6. {q[1]} \cup Range(t) \subseteq Range(q) /\ \A y \in Range(t) : q[1] < y
    <3>1. q[1] \in Range(q)
      BY <2>1, <2>2 DEF Range
    <3> QED BY <2>5, <3>1 DEF Range
  <2> QED BY <2>1, <2>3, <2>4, <2>6 DEF t
\* eventPump: the first event leaves the channel.
<1>PumpChannel. ASSUME NEW ev \in Nat, NEW events \in Seq(Nat), events # << >>, NEW h \in Nat,
                       NEW p \in BOOLEAN, ChannelRises(ev, events, p, h)
                PROVE  Pumped(ev, events, p, h)
  <2> USE <1>PumpChannel
  <2> DEFINE e == Head(events)
             t == Tail(events)
  <2>1. /\ t \in Seq(Nat) /\ Rises(t) /\ e \in Nat
        /\ Range(events) = {e} \cup Range(t)
        /\ \A y \in Range(t) : e < y
    BY <1>TailRises DEF ChannelRises
  <2> HIDE DEF e, t
  <2>2. ev < e /\ e <= h /\ (p => e < h)
    BY <2>1 DEF ChannelRises
  <2>3. 1 <= e
    BY <2>1, <2>2, SMTT(60)
  <2>4. ChannelRises(e, t, p, h)
    BY <2>1, <2>2 DEF ChannelRises
  <2>5. Coming(events, p, h) = Coming(t, p, h) \cup {e}
    BY <2>1 DEF Coming
  <2>6. \A x \in Coming(t, p, h) : x \in Nat /\ e < x
    <3>1. \A x \in Range(t) : x \in Nat
      BY <2>1, SMTT(60) DEF Range
    <3> QED BY <2>1, <2>2, <3>1 DEF Coming
  <2>7. ASSUME ChannelWhole(events, p, h) PROVE ChannelWhole(t, p, h)
    <3>1. PICK g \in 1 .. h + 1 : Coming(events, p, h) = g .. h
      BY <2>7 DEF ChannelWhole
    <3>2. g = e /\ g + 1 \in 1 .. h + 1
      <4>1. e \in g .. h
        BY <2>5, <3>1
      <4>2. g \in g .. h
        BY <4>1, SMTT(60)
      <4>3. ~(e < g) /\ ~(g # e /\ ~(e < g))
        <5>1. g = e \/ e < g
          BY <2>5, <2>6, <3>1, <4>2
        <5>2. ~(e < g)
          BY <4>1, SMTT(60)
        <5> QED BY <5>1, <5>2
      <4> QED BY <2>1, <4>1, <4>3, SMTT(60)
    <3>3. Coming(t, p, h) = (g + 1) .. h
      <4>1. \A x : x \in Coming(t, p, h) => x \in (g + 1) .. h
        <5> TAKE x
        <5> HAVE x \in Coming(t, p, h)
        <5>1. x \in g .. h /\ x \in Nat /\ e < x
          BY <2>5, <2>6, <3>1
        <5> QED BY <3>2, <5>1, SMTT(60)
      <4>2. \A x : x \in (g + 1) .. h => x \in Coming(t, p, h)
        <5> TAKE x
        <5> HAVE x \in (g + 1) .. h
        <5>1. x \in g .. h /\ x # e
          BY <3>2, SMTT(60)
        <5> QED BY <2>5, <3>1, <5>1
      <4> QED BY <4>1, <4>2
    <3> QED BY <3>2, <3>3 DEF ChannelWhole
  <2> QED BY <2>1, <2>2, <2>3, <2>4, <2>5, <2>7 DEF e, t, Pumped
<1>LinePump. ASSUME NEW s, NEW r \in Conn, NEW r2, NEW sub \in Sub, NEW p \in BOOLEAN, NEW h \in Nat,
                    Stream(r, p, h), Line(s, r, sub, p, h), s \notin r.left, r.events # << >>,
                    r2.ev = Head(r.events), r2.events = Tail(r.events),
                    r2.send = r.send, r2.lost = r.lost,
                    s \in r2.left <=> Wants(sub.kind, Head(r.events))
             PROVE  Line(s, r2, sub, p, h)
  <2> USE <1>LinePump
  <2> DEFINE e == Head(r.events)
             t == Tail(r.events)
  <2>1. /\ e \in Nat /\ t \in Seq(Nat) /\ r.ev \in Nat /\ r.ev < e /\ 1 <= e
        /\ Coming(r.events, p, h) = Coming(t, p, h) \cup {e}
    <3>1. r.ev \in Nat /\ r.events \in Seq(Nat) /\ ChannelRises(r.ev, r.events, p, h)
      BY DEF Conn, Stream
    <3>2. Pumped(r.ev, r.events, p, h)
      BY <3>1, <1>PumpChannel
    <3> QED BY <3>1, <3>2 DEF Pumped
  <2> HIDE DEF e, t
  <2>2. LineRises(s, sub.got, r.send, e, s \in r2.left)
    <3>1. \A x \in Range(sub.got) \cup Queued(r.send, s) : x \in Nat
      <4>1. \A x \in Range(sub.got) : x \in Nat
        <5>1. sub.got \in Seq(Nat)
          BY DEF Sub
        <5> QED BY <5>1, SMTT(60) DEF Range
      <4>2. \A x \in Queued(r.send, s) : x \in Nat
        <5>1. r.send \in Seq(Note)
          BY DEF Conn
        <5>2. \A i \in DOMAIN r.send : r.send[i] \in Note
          BY <5>1, SMTT(60)
        <5> QED BY <5>2 DEF Queued, Note
      <4> QED BY <4>1, <4>2
    <3>2. \A x \in Nat : x <= r.ev => x <= e /\ x < e
      BY <2>1, SMTT(60)
    <3> QED BY <2>1, <3>1, <3>2 DEF Line, LineRises
  <2>3. Due(s, sub, r.send, e, s \in r2.left, Coming(t, p, h))
          = Due(s, sub, r.send, r.ev, s \in r.left, Coming(r.events, p, h))
    BY <2>1 DEF Due, e
  <2>4. s \in r2.left => Wants(sub.kind, e)
    BY DEF e
  <2>5. r2.ev = e /\ r2.events = t
    BY DEF e, t
  <2> QED BY <2>2, <2>3, <2>4, <2>5 DEF Line
\* eventPump: the first event leaves the channel and is at hand for those who
\* want it.
<1>ConnPumps. ASSUME NEW r \in Conn, NEW r2, NEW ss \in [SubIds -> Sub \cup {NoSub}],
                     NEW p \in BOOLEAN, NEW h \in Nat, ConnOK(r, ss, p, h), r.at = "open",
                     r.left = {}, r.events # << >>,
                     r2.ev = Head(r.events), r2.events = Tail(r.events),
                     r2.left = {s \in r.ids : Wants(ss[s].kind, Head(r.events))},
                     r2.ids = r.ids, r2.send = r.send, r2.lost = r.lost, r2.at = r.at
              PROVE  ConnOK(r2, ss, p, h)
  <2> USE <1>ConnPumps
  <2>1. r.ev \in Nat /\ r.events \in Seq(Nat) /\ r.ids \in SUBSET SubIds
    BY DEF Conn
  <2>2. Stream(r, p, h)
    BY DEF ConnOK
  <2>3. Pumped(r.ev, r.events, p, h)
    BY <2>1, <2>2, <1>PumpChannel DEF Stream
  <2>4. Stream(r2, p, h)
    BY <2>2, <2>3 DEF Stream, Pumped
  <2>5. \A s \in r2.ids : Line(s, r2, ss[s], p, h) /\ ss[s] # NoSub /\ ss[s] # Ended
    <3> TAKE s \in r2.ids
    <3>1. Line(s, r, ss[s], p, h) /\ ss[s] # NoSub /\ ss[s] # Ended /\ s \in SubIds
      BY <2>1 DEF ConnOK
    <3>2. ss[s] \in Sub /\ s \notin r.left
      BY <3>1
    <3>3. s \in r2.left <=> Wants(ss[s].kind, Head(r.events))
      OBVIOUS
    <3> QED BY <2>2, <3>1, <3>2, <3>3, <1>LinePump, SMTT(60)
  <2>6. r2.ev # 0
    <3>1. 1 <= r2.ev
      BY <2>3 DEF Pumped
    <3> QED BY <3>1, SMTT(60)
  <2>7. \A s \in r2.left : s \in r2.ids
    OBVIOUS
  <2> QED BY <2>4, <2>5, <2>6, <2>7 DEF ConnOK
<1>step. ASSUME ConnsInv, head \in Nat, NEW c \in Conns, eventPump(c)
         PROVE  ConnsInv'
  <2> USE <1>step
  <2> DEFINE q == conn[c].events
             L == {s \in conn[c].ids : Wants(subs[s].kind, Head(q))}
             r == [conn[c] EXCEPT !.ev = Head(q), !.events = Tail(q), !.left = L]
  <2>1. /\ ConnAt(c) /\ conn[c] \in Conn /\ conn[c].at = "open" /\ conn[c].left = {}
        /\ conn[c].events # << >>
    BY ConnAtIs DEF ConnAt, eventPump
  <2>2. UNCHANGED <<node, head, emit, subs>> /\ conn' = [conn EXCEPT ![c] = r]
    BY DEF eventPump, WSUnchanged, chain, Wanted, Wants
  <2>3. Head(q) \in Nat /\ Tail(q) \in Seq(Nat) /\ L \in SUBSET SubIds
    <3>1. q \in Seq(Nat) /\ conn[c].ids \in SUBSET SubIds
      BY <2>1 DEF Conn
    <3>2. Head(q) \in Nat /\ Tail(q) \in Seq(Nat)
      BY <2>1, <3>1, SMTT(60)
    <3> QED BY <3>1, <3>2
  <2>4. /\ r \in Conn /\ r.ids = conn[c].ids /\ r.send = conn[c].send /\ r.at = conn[c].at
        /\ r.lost = conn[c].lost /\ r.ev = Head(q) /\ r.events = Tail(q) /\ r.left = L
    BY <2>1, <2>3 DEF Conn
  <2> HIDE DEF r
  <2> DEFINE p == c \in emit.open
  <2>5. p \in BOOLEAN
    BY SMTT(60)
  <2>6. subs \in [SubIds -> Sub \cup {NoSub}] /\ ConnOK(conn[c], subs, p, head)
    BY <2>1 DEF ConnsInv, ConnAt
  <2> HIDE DEF p
  <2>7. ConnOK(r, subs, p, head)
    BY <2>1, <2>4, <2>5, <2>6, <1>ConnPumps
  <2>8. /\ ConnOK(r, subs', c \in emit.open, head) /\ subs' \in [SubIds -> Sub \cup {NoSub}]
        /\ r.at = "open" /\ \A t \in SubIds : subs'[t] = subs[t]
    BY <2>1, <2>2, <2>4, <2>6, <2>7 DEF p
  <2>9. \A d \in Conns : d # c => r.ids \cap conn[d].ids = {}
    BY <2>1, <2>4 DEF ConnAt
  <2> QED BY <2>1, <2>2, <2>4, <2>8, <2>9, OneConnOnly
<1> QED BY <1>step

\* The writer takes the next note off the queue.
LEMMA writePumpKeeps ==
  \A c \in Conns : ConnsInv /\ writePump(c) => ConnsInv'
<1>QueueTail. ASSUME NEW q \in Seq(Note), q # << >>, NEW s
              PROVE  /\ Tail(q) \in Seq(Note) /\ Head(q) \in Note
                     /\ Queued(q, s) = Queued(Tail(q), s) \cup (IF Head(q).id = s THEN {Head(q).blk} ELSE {})
                     /\ QueueRises(q, s) =>
                          /\ QueueRises(Tail(q), s)
                          /\ Head(q).id = s => \A y \in Queued(Tail(q), s) : Head(q).blk < y
  <2> USE <1>QueueTail
  <2> DEFINE t == Tail(q)
             n == Len(q)
  <2>1. /\ t \in Seq(Note) /\ n \in Nat /\ n >= 1 /\ Head(q) = q[1] /\ q[1] \in Note
        /\ DOMAIN q = 1 .. n /\ DOMAIN t = 1 .. n - 1
        /\ \A i \in 1 .. n - 1 : t[i] = q[i + 1]
    BY SMTT(60)
  <2> HIDE DEF t, n
  <2>2. /\ \A i \in 1 .. n - 1 : i + 1 \in 1 .. n /\ 1 < i + 1
        /\ \A i, j \in 1 .. n - 1 : i < j => i + 1 < j + 1
        /\ 1 \in 1 .. n
        /\ \A i \in 1 .. n : i = 1 \/ (i - 1 \in 1 .. n - 1 /\ (i - 1) + 1 = i)
    BY <2>1, SMTT(60)
  <2>3. Queued(q, s) \subseteq Queued(t, s) \cup (IF q[1].id = s THEN {q[1].blk} ELSE {})
    <3> SUFFICES ASSUME NEW i \in 1 .. n, q[i].id = s, i # 1 PROVE q[i].blk \in Queued(t, s)
      BY <2>1 DEF Queued
    <3>1. i - 1 \in DOMAIN t /\ t[i - 1] = q[i]
      BY <2>1, <2>2
    <3> QED BY <3>1 DEF Queued
  <2>4. Queued(t, s) \cup (IF q[1].id = s THEN {q[1].blk} ELSE {}) \subseteq Queued(q, s)
    <3>1. Queued(t, s) \subseteq Queued(q, s)
      <4> SUFFICES ASSUME NEW i \in DOMAIN t, t[i].id = s PROVE t[i].blk \in Queued(q, s)
        BY DEF Queued
      <4>1. i + 1 \in DOMAIN q /\ t[i] = q[i + 1]
        BY <2>1, <2>2
      <4> QED BY <4>1 DEF Queued
    <3>2. q[1].id = s => q[1].blk \in Queued(q, s)
      BY <2>1, <2>2 DEF Queued
    <3> QED BY <3>1, <3>2
  <2>5. QueueRises(q, s) => QueueRises(t, s)
    <3> SUFFICES ASSUME QueueRises(q, s), NEW i \in 1 .. n - 1, NEW j \in 1 .. n - 1, i < j,
                        t[i].id = s, t[j].id = s
                 PROVE  t[i].blk < t[j].blk
      BY <2>1 DEF QueueRises
    <3>1. /\ i + 1 \in DOMAIN q /\ j + 1 \in DOMAIN q /\ i + 1 < j + 1
          /\ t[i] = q[i + 1] /\ t[j] = q[j + 1]
      BY <2>1, <2>2
    <3> QED BY <3>1 DEF QueueRises
  <2>6. QueueRises(q, s) /\ q[1].id = s => \A y \in Queued(t, s) : q[1].blk < y
    <3> SUFFICES ASSUME QueueRises(q, s), q[1].id = s, NEW i \in 1 .. n - 1, t[i].id = s
                 PROVE  q[1].blk < t[i].blk
      BY <2>1 DEF Queued
    <3>1. i + 1 \in DOMAIN q /\ 1 \in DOMAIN q /\ 1 < i + 1 /\ t[i] = q[i + 1]
      BY <2>1, <2>2
    <3> QED BY <3>1 DEF QueueRises
  <2> QED BY <2>1, <2>3, <2>4, <2>5, <2>6 DEF t
\* writePump: the first note is sent, to s or to another.
<1>LineWrite. ASSUME NEW s, NEW r \in Conn, NEW r2, NEW sub \in Sub, NEW sub2, NEW p, NEW h,
                     r.send # << >>, Line(s, r, sub, p, h),
                     r2.ev = r.ev, r2.events = r.events, r2.left = r.left, r2.lost = r.lost,
                     r2.send = Tail(r.send), sub2.kind = sub.kind, sub2.since = sub.since,
                     IF Head(r.send).id = s THEN sub2.got = Append(sub.got, Head(r.send).blk)
                     ELSE sub2.got = sub.got
              PROVE  Line(s, r2, sub2, p, h)
  <2> USE <1>LineWrite
  <2> DEFINE m == Head(r.send)
             q == Tail(r.send)
  <2>1. r.send \in Seq(Note) /\ sub.got \in Seq(Nat)
    BY DEF Conn, Sub
  <2>2. /\ m \in Note
        /\ Queued(r.send, s) = Queued(q, s) \cup (IF m.id = s THEN {m.blk} ELSE {})
        /\ QueueRises(r.send, s) =>
             /\ QueueRises(q, s)
             /\ m.id = s => \A y \in Queued(q, s) : m.blk < y
    BY <2>1, <1>QueueTail
  <2>3. m.blk \in Nat
    BY <2>2 DEF Note
  <2> HIDE DEF m, q
  <2>4. LineRises(s, sub.got, r.send, r.ev, s \in r.left)
    BY DEF Line
  <2>5. CASE m.id # s
    <3>1. Queued(q, s) = Queued(r.send, s) /\ sub2.got = sub.got
      BY <2>2, <2>5 DEF m
    <3>2. LineRises(s, sub2.got, q, r.ev, s \in r.left)
      BY <2>2, <2>4, <3>1 DEF LineRises
    <3>3. Due(s, sub2, q, r.ev, s \in r.left, Coming(r.events, p, h))
            = Due(s, sub, r.send, r.ev, s \in r.left, Coming(r.events, p, h))
      BY <3>1 DEF Due
    <3> QED BY <3>2, <3>3 DEF Line, LineWhole, q
  <2>6. CASE m.id = s
    <3>1. /\ Queued(r.send, s) = Queued(q, s) \cup {m.blk}
          /\ QueueRises(q, s) /\ (\A y \in Queued(q, s) : m.blk < y)
      BY <2>2, <2>4, <2>6 DEF LineRises
    <3>2. sub2.got = Append(sub.got, m.blk)
      BY <2>6 DEF m
    <3>3. Rises(sub2.got) /\ Range(sub2.got) = Range(sub.got) \cup {m.blk}
      <4>1. Rises(sub.got) /\ \A x \in Range(sub.got) : x < m.blk
        BY <2>4, <3>1 DEF LineRises
      <4> QED BY <2>1, <2>3, <3>2, <4>1, AppendRises
    <3>4. LineRises(s, sub2.got, q, r.ev, s \in r.left)
      BY <2>4, <3>1, <3>3 DEF LineRises
    <3>5. Due(s, sub2, q, r.ev, s \in r.left, Coming(r.events, p, h))
            = Due(s, sub, r.send, r.ev, s \in r.left, Coming(r.events, p, h))
      BY <3>1, <3>3 DEF Due
    <3> QED BY <3>4, <3>5 DEF Line, LineWhole, q
  <2> QED BY <2>5, <2>6
\* writePump: the first note reaches its subscription, if it is still there.
<1>ConnWrites. ASSUME NEW r \in Conn, NEW r2, NEW ss \in [SubIds -> Sub \cup {NoSub}],
                      NEW ss2 \in [SubIds -> Sub \cup {NoSub}],
                      NEW p, NEW h, ConnOK(r, ss, p, h), r.at = "open", r.send # << >>,
                      \A s \in SubIds : IF s = Head(r.send).id /\ s \in r.ids
                                        THEN /\ ss2[s] # NoSub /\ ss2[s] # Ended
                                             /\ ss2[s].kind = ss[s].kind
                                             /\ ss2[s].since = ss[s].since
                                             /\ ss2[s].got = Append(ss[s].got, Head(r.send).blk)
                                        ELSE ss2[s] = ss[s],
                      r2.send = Tail(r.send), r2.events = r.events, r2.ev = r.ev, r2.left = r.left,
                      r2.ids = r.ids, r2.lost = r.lost, r2.at = r.at
               PROVE  ConnOK(r2, ss2, p, h)
  <2> USE <1>ConnWrites
  <2>1. r.ids \in SUBSET SubIds /\ r.left \in SUBSET SubIds /\ r.send \in Seq(Note)
    BY DEF Conn
  <2>2. /\ \A i \in DOMAIN r.send : r.send[i] \in Note
        /\ \A i \in DOMAIN Tail(r.send) : i + 1 \in DOMAIN r.send
                                          /\ Tail(r.send)[i] = r.send[i + 1]
    BY <2>1, SMTT(60)
  <2>3. Stream(r2, p, h)
    BY DEF ConnOK, Stream
  <2>4. \A s \in r2.ids : Line(s, r2, ss2[s], p, h) /\ ss2[s] # NoSub /\ ss2[s] # Ended
    <3> TAKE s \in r2.ids
    <3>1. Line(s, r, ss[s], p, h) /\ ss[s] # NoSub /\ ss[s] # Ended /\ s \in SubIds
      BY <2>1 DEF ConnOK
    <3>2. ss[s] \in Sub
      BY <3>1
    <3>3. /\ ss2[s] # NoSub /\ ss2[s] # Ended
          /\ ss2[s].kind = ss[s].kind /\ ss2[s].since = ss[s].since
          /\ IF Head(r.send).id = s THEN ss2[s].got = Append(ss[s].got, Head(r.send).blk)
             ELSE ss2[s].got = ss[s].got
      BY <3>1
    <3> QED BY <3>1, <3>2, <3>3, <1>LineWrite
  <2>5. \A s \in SubIds : ss[s] = Ended => ss2[s] = Ended
    <3> TAKE s \in SubIds
    <3> HAVE ss[s] = Ended
    <3>1. s \notin r.ids
      BY ConnIds
    <3> QED BY <3>1
  <2>6. \A s \in r2.left : r2.ev # 0 /\ (s \in r2.ids \/ ss2[s] = Ended)
    <3>1. \A s \in r.left : r.ev # 0 /\ (s \in r.ids \/ ss[s] = Ended)
      BY DEF ConnOK
    <3> QED BY <2>1, <2>5, <3>1
  <2>7. \A i \in DOMAIN r2.send : NoteOK(r2.send[i], r2.ids, ss2)
    <3> TAKE i \in DOMAIN r2.send
    <3>1. /\ r2.send[i] = r.send[i + 1] /\ NoteOK(r.send[i + 1], r.ids, ss)
          /\ r.send[i + 1] \in Note
      BY <2>2 DEF ConnOK
    <3>2. r.send[i + 1].id \in SubIds \cup {NoSub}
      BY <3>1 DEF Note
    <3> QED BY <2>5, <3>1, <3>2 DEF NoteOK
  <2> QED BY <2>3, <2>4, <2>6, <2>7 DEF ConnOK
<1>step. ASSUME ConnsInv, NEW c \in Conns, writePump(c)
         PROVE  ConnsInv'
  <2> USE <1>step
  <2> DEFINE q == conn[c].send
             m == Head(q)
             r == [conn[c] EXCEPT !.send = Tail(q)]
  <2>1. ConnAt(c) /\ conn[c] \in Conn /\ conn[c].at = "open" /\ q # << >>
    BY ConnAtIs DEF ConnAt, writePump
  <2>2. /\ UNCHANGED <<node, head, emit>> /\ conn' = [conn EXCEPT ![c] = r]
        /\ subs' = IF m.blk = 0 \/ subs[m.id] = Ended THEN subs
                   ELSE [subs EXCEPT ![m.id].got = Append(@, m.blk)]
    BY DEF writePump, chain
  <2>3. q \in Seq(Note) /\ conn[c].ids \in SUBSET SubIds
    BY <2>1 DEF Conn
  <2>4. Tail(q) \in Seq(Note) /\ 1 \in DOMAIN q /\ m = q[1] /\ m \in Note
    BY <2>1, <2>3, SMTT(60)
  <2>5. /\ subs \in [SubIds -> Sub \cup {NoSub}]
        /\ ConnOK(conn[c], subs, c \in emit.open, head)
    BY <2>1 DEF ConnsInv, ConnAt
  <2>6. NoteOK(m, conn[c].ids, subs)
    BY <2>4, <2>5 DEF ConnOK
  <2>7. /\ r \in Conn /\ r.ids = conn[c].ids /\ r.send = Tail(q) /\ r.at = "open"
        /\ r.lost = conn[c].lost /\ r.ev = conn[c].ev /\ r.events = conn[c].events
        /\ r.left = conn[c].left
    BY <2>1, <2>4 DEF Conn
  <2>8. m.blk \in Nat /\ m.id \in SubIds \cup {NoSub}
    BY <2>4 DEF Note
  <2> HIDE DEF r, m
  <2>9. /\ subs' \in [SubIds -> Sub \cup {NoSub}]
        /\ \A s \in SubIds : IF s = m.id /\ s \in conn[c].ids
                             THEN /\ subs'[s] # NoSub /\ subs'[s] # Ended
                                  /\ subs'[s].kind = subs[s].kind
                                  /\ subs'[s].since = subs[s].since
                                  /\ subs'[s].got = Append(subs[s].got, m.blk)
                             ELSE subs'[s] = subs[s]
    <3>1. CASE m.blk = 0 \/ subs[m.id] = Ended
      <4>1. \A s \in SubIds : ~(s = m.id /\ s \in conn[c].ids)
        BY <2>5, <2>6, <3>1, ConnIds, SubscriptionsAssumption DEF NoteOK
      <4> QED BY <2>2, <2>5, <3>1, <4>1
    <3>2. CASE m.blk # 0 /\ subs[m.id] # Ended
      <4> DEFINE old == subs[m.id]
                 new == [old EXCEPT !.got = Append(old.got, m.blk)]
      <4>1. m.id \in conn[c].ids /\ m.id \in SubIds
        BY <2>3, <2>6, <3>2 DEF NoteOK
      <4>2. old \in Sub /\ old # Ended
        BY <2>1, <3>2, <4>1 DEF ConnAt
      <4>3. old.got \in Seq(Nat)
        BY <4>2 DEF Sub
      <4>4. Append(old.got, m.blk) \in Seq(Nat) /\ Append(old.got, m.blk) # << >>
        BY <2>8, <4>3, SMTT(60)
      <4>5. subs' = [subs EXCEPT ![m.id] = new]
        BY <2>2, <3>2
      <4> HIDE DEF old
      <4>6. /\ new \in Sub /\ new.kind = old.kind /\ new.since = old.since
            /\ new.got = Append(old.got, m.blk)
        BY <4>2, <4>4 DEF Sub
      <4>7. new # NoSub /\ new # Ended
        <5>1. Ended.got = << >>
          BY DEF Ended
        <5> QED BY <4>4, <4>6, <5>1, SubscriptionsAssumption
      <4> HIDE DEF new
      <4>8. subs'[m.id] = new /\ \A s \in SubIds : s # m.id => subs'[s] = subs[s]
        BY <2>5, <4>1, <4>5
      <4>9. subs' \in [SubIds -> Sub \cup {NoSub}]
        BY <2>5, <4>5, <4>6
      <4> QED BY <4>1, <4>6, <4>7, <4>8, <4>9 DEF old
    <3> QED BY <3>1, <3>2
  <2>10. ConnOK(r, subs', c \in emit.open, head)
    BY <2>1, <2>5, <2>7, <2>9, <1>ConnWrites DEF m
  <2>11. \A s \in SubIds : subs'[s] # subs[s] => s \in conn[c].ids
    BY <2>9
  <2>12. \A d \in Conns : d # c => r.ids \cap conn[d].ids = {}
    BY <2>1, <2>7 DEF ConnAt
  <2>13. subs' \in [SubIds -> Sub \cup {NoSub}]
    BY <2>9
  <2> QED BY <2>1, <2>2, <2>7, <2>10, <2>11, <2>12, <2>13, OneConnOnly
<1> QED BY <1>step

\* Every step of a connection keeps ConnsInv.
LEMMA WebSocketKeeps ==
  ASSUME ConnsInv, head \in Nat, SubscriptionsStep
  PROVE  ConnsInv'
<1>1. PICK c \in Conns :
        \/ serveWS(c) \/ Upgrade(c) \/ Hangup(c) \/ Closing(c)
        \/ \E s \in SubIds : \/ \E k \in {"newHeads", "logs"} : subscribe(c, s, k)
                             \/ unsubscribe(c, s)
        \/ Answer(c) \/ Emit(c) \/ Pumps(c) \/ WriteFails(c)
  BY DEF SubscriptionsStep
<1>2. CASE serveWS(c) \/ Upgrade(c) \/ Hangup(c) \/ Closing(c)
  BY <1>2, serveWSKeeps, UpgradeKeeps, HangupKeeps, unsubChainKeeps, ClosedKeeps DEF Closing
<1>3. CASE \E s \in SubIds : \/ \E k \in {"newHeads", "logs"} : subscribe(c, s, k)
                             \/ unsubscribe(c, s)
  BY <1>3, subscribeKeeps, unsubscribeKeeps
<1>4. CASE Answer(c) \/ Emit(c) \/ WriteFails(c)
  BY <1>4, EnqueuesKeep, EmitKeeps, WriteFailsKeeps
<1>5. CASE Pumps(c)
  BY <1>5, eventPumpKeeps, writePumpKeeps, EnqueuesKeep DEF Pumps
<1> QED BY <1>1, <1>2, <1>3, <1>4, <1>5

\* A feed with nothing to send.
LEMMA SilentIs ==
  Silent \in [open : SUBSET Conns, shut : SUBSET Conns] /\ Silent.open = {}
BY DEF Silent

\* A new head: it is still to be sent to every connection.
LEMMA CommitKeepsConns ==
  ConnsInv /\ head \in Nat /\ Commit => ConnsInv'
\* A block is committed.
<1>CommitChannel. ASSUME NEW ev \in Nat, NEW events \in Seq(Nat), NEW h \in Nat,
                         ChannelRises(ev, events, FALSE, h)
                  PROVE  /\ ChannelRises(ev, events, TRUE, h + 1)
                         /\ Coming(events, TRUE, h + 1) = Coming(events, FALSE, h) \cup {h + 1}
                         /\ ChannelWhole(events, FALSE, h) => ChannelWhole(events, TRUE, h + 1)
  <2> USE <1>CommitChannel
  <2>1. \A x \in Range(events) : x \in Nat
    BY SMTT(60) DEF Range
  <2>2. \A x \in Nat : x <= h => x <= h + 1 /\ x < h + 1
    BY SMTT(60)
  <2>3. ChannelRises(ev, events, TRUE, h + 1)
    BY <2>1, <2>2 DEF ChannelRises
  <2>4. Coming(events, TRUE, h + 1) = Coming(events, FALSE, h) \cup {h + 1}
    BY DEF Coming
  <2>5. ASSUME ChannelWhole(events, FALSE, h) PROVE ChannelWhole(events, TRUE, h + 1)
    <3>1. PICK g \in 1 .. h + 1 : Coming(events, FALSE, h) = g .. h
      BY <2>5 DEF ChannelWhole
    <3>2. g \in 1 .. (h + 1) + 1 /\ (g .. h) \cup {h + 1} = g .. (h + 1)
      BY SMTT(60)
    <3> QED BY <2>4, <3>1, <3>2 DEF ChannelWhole
  <2> QED BY <2>3, <2>4, <2>5
<1>LineCommit. ASSUME NEW s, NEW r \in Conn, NEW sub \in Sub, NEW h \in Nat,
                      Stream(r, FALSE, h), Line(s, r, sub, FALSE, h)
               PROVE  Line(s, r, sub, TRUE, h + 1)
  <2> USE <1>LineCommit
  <2> DEFINE due == Due(s, sub, r.send, r.ev, s \in r.left, Coming(r.events, FALSE, h))
             due2 == Due(s, sub, r.send, r.ev, s \in r.left, Coming(r.events, TRUE, h + 1))
  <2>0. sub.since \in Nat /\ sub.since <= h /\ sub.since <= h + 1
    <3>1. sub.since \in Nat /\ sub.since <= h
      BY DEF Sub, Line
    <3> QED BY <3>1, SMTT(60)
  <2>1. Coming(r.events, TRUE, h + 1) = Coming(r.events, FALSE, h) \cup {h + 1}
    <3>1. r.ev \in Nat /\ r.events \in Seq(Nat) /\ ChannelRises(r.ev, r.events, FALSE, h)
      BY DEF Conn, Stream
    <3> QED BY <3>1, <1>CommitChannel
  <2>2. due2 = due \cup {b \in {h + 1} : Wants(sub.kind, b)}
    BY <2>1 DEF Due
  <2> HIDE DEF due, due2
  <2>3. ASSUME LineWhole(sub, due, h) PROVE LineWhole(sub, due2, h + 1)
    <3>1. PICK f \in 1 .. sub.since + 1 : due = {b \in f .. h : Wants(sub.kind, b)}
      BY <2>3 DEF LineWhole
    <3>2. (f .. h) \cup {h + 1} = f .. (h + 1)
      BY <2>0, SMTT(60)
    <3>3. due2 = {b \in f .. (h + 1) : Wants(sub.kind, b)}
      BY <2>2, <3>1, <3>2
    <3> QED BY <3>3 DEF LineWhole
  <2> QED BY <2>0, <2>3 DEF Line, due, due2
\* A block is committed: every open connection is registered for it.
<1>ConnCommits. ASSUME NEW r \in Conn, NEW ss \in [SubIds -> Sub \cup {NoSub}], NEW h \in Nat,
                       ConnOK(r, ss, FALSE, h), NEW p \in BOOLEAN, r.at = "open" => p
                PROVE  ConnOK(r, ss, p, h + 1)
  <2> USE <1>ConnCommits
  <2>1. r.ids \in SUBSET SubIds /\ r.ev \in Nat /\ r.events \in Seq(Nat)
    BY DEF Conn
  <2>2. ASSUME r.at = "open" PROVE ConnOK(r, ss, TRUE, h + 1)
    <3>1. Stream(r, FALSE, h)
      BY <2>2 DEF ConnOK
    <3>2. Stream(r, TRUE, h + 1)
      BY <2>1, <3>1, <1>CommitChannel DEF Stream
    <3>3. \A s \in r.ids : Line(s, r, ss[s], TRUE, h + 1) /\ ss[s] # NoSub /\ ss[s] # Ended
      <4> TAKE s \in r.ids
      <4>1. Line(s, r, ss[s], FALSE, h) /\ ss[s] # NoSub /\ ss[s] # Ended /\ s \in SubIds
        BY <2>1, <2>2 DEF ConnOK
      <4>2. ss[s] \in Sub
        BY <4>1
      <4> QED BY <3>1, <4>1, <4>2, <1>LineCommit
    <3> QED BY <3>2, <3>3 DEF ConnOK
  <2>3. CASE r.at = "open"
    <3>1. p = TRUE
      BY <2>3, SMTT(60)
    <3> QED BY <2>2, <2>3, <3>1
  <2>4. CASE r.at # "open"
    BY <2>4 DEF ConnOK
  <2> QED BY <2>3, <2>4
<1>step. ASSUME ConnsInv, head \in Nat, Commit
         PROVE  ConnsInv'
  <2> USE <1>step
  <2>1. /\ node = "up" /\ emit.open = {} /\ UNCHANGED <<node, conn, subs>>
        /\ head' = head + 1 /\ emit' = [open |-> Registered, shut |-> {}]
    <3>1. emit = Silent /\ node = "up" /\ UNCHANGED <<node, conn, subs>> /\ head' = head + 1
      BY DEF Commit, persistBlockLocked, CommitBlockLocked, Readable, Emitting, wsVars
    <3>2. emit' = [open |-> Registered, shut |-> {}]
      BY DEF Commit, persistBlockLocked, CommitBlockLocked
    <3> QED BY <3>1, <3>2, SilentIs
  <2>2. /\ emit' \in [open : SUBSET Conns, shut : SUBSET Conns] /\ emit'.open = Registered
        /\ \A c \in Conns : c \in emit'.open <=> conn[c].at \in {"open", "closed"}
    BY <2>1 DEF Registered
  <2>3. \A c \in Conns : ConnOK(conn[c], subs, c \in emit'.open, head + 1)
    <3> TAKE c \in Conns
    <3>1. (c \in emit.open) = FALSE
      BY <2>1, SMTT(60)
    <3>2. conn[c] \in Conn /\ ConnOK(conn[c], subs, FALSE, head)
      BY <3>1 DEF ConnsInv
    <3> DEFINE p == c \in emit'.open
    <3>3. p \in BOOLEAN /\ (conn[c].at = "open" => p)
      BY <2>2, SMTT(60)
    <3>4. subs \in [SubIds -> Sub \cup {NoSub}]
      BY DEF ConnsInv
    <3> HIDE DEF p
    <3>5. ConnOK(conn[c], subs, p, head + 1)
      BY <3>2, <3>3, <3>4, <1>ConnCommits
    <3> QED BY <3>5 DEF p
  <2>4. \A c \in Conns : ConnOK(conn'[c], subs', c \in emit'.open, head')
    BY <2>1, <2>3
  <2>5. \A c \in emit'.open : conn'[c].at \in {"open", "closed"}
    BY <2>1, <2>2
  <2> QED BY <2>1, <2>2, <2>4, <2>5 DEF ConnsInv
<1> QED BY <1>step

\* The node starts without connections.
LEMMA ConnsStart ==
  ASSUME Init
  PROVE  ConnsInv
<1>1. /\ \A c \in Conns : conn[c] = Unused
      /\ conn \in [Conns -> {Unused}] /\ subs \in [SubIds -> Sub \cup {NoSub}]
      /\ emit = Silent /\ head \in Nat
  BY StoreInit DEF Init, SubscriptionsInit, ChainInit, StoreInv
<1>2. \A c \in Conns : ConnOK(conn[c], subs, c \in emit.open, head)
  BY <1>1, UnusedIs, SilentIs, ConnFresh
<1>3. conn \in [Conns -> Conn] /\ \A c, d \in Conns : c # d => conn[c].ids \cap conn[d].ids = {}
  BY <1>1, UnusedIs
<1> QED BY <1>1, <1>2, <1>3, SilentIs DEF ConnsInv

\* No connection is in use after a start.
LEMMA NoConns ==
  ASSUME conn' \in [Conns -> {Unused}], subs' \in [SubIds -> Sub \cup {NoSub}],
         emit' \in [open : SUBSET Conns, shut : SUBSET Conns], emit'.open = {}, head' \in Nat
  PROVE  ConnsInv'
<1>1. \A c \in Conns : conn'[c] = Unused
  OBVIOUS
<1>2. \A c \in Conns : ConnOK(conn'[c], subs', c \in emit'.open, head')
  BY <1>1, UnusedIs, ConnFresh
<1>3. conn' \in [Conns -> Conn]
  BY <1>1, UnusedIs
<1>4. \A c, d \in Conns : c # d => conn'[c].ids \cap conn'[d].ids = {}
  BY <1>1, UnusedIs
<1> QED BY <1>1, <1>2, <1>3, <1>4 DEF ConnsInv

\* Every step keeps ConnsInv.
LEMMA ConnsNext ==
  ASSUME StoreInv, StoreInv', ConnsInv, [Next]_vars
  PROVE  ConnsInv'
<1>1. head \in Nat /\ head' \in Nat
  BY DEF StoreInv
<1>2. ASSUME UNCHANGED <<node, head, emit, conn, subs>>
      PROVE  ConnsInv'
  BY <1>2 DEF ConnsInv
<1>3. ASSUME ConnsLost, Down
      PROVE  ConnsInv'
  <2>1. /\ conn' \in [Conns -> {Unused}] /\ subs' \in [SubIds -> Sub \cup {NoSub}]
        /\ emit' = Silent
    BY <1>3, EndedIs DEF ConnsInv, ConnsLost, Down
  <2>2. /\ emit' \in [open : SUBSET Conns, shut : SUBSET Conns] /\ emit'.open = {}
    BY <2>1, SilentIs
  <2> QED BY <1>1, <2>1, <2>2, NoConns
<1>4. CASE Open
  <2>1. node # "up" /\ UNCHANGED <<emit, conn, subs>>
    BY <1>4 DEF Open, CommitGenesis, persistGenesisLocked, openWithDatabase, wsVars
  <2>2. /\ conn' \in [Conns -> {Unused}] /\ subs' \in [SubIds -> Sub \cup {NoSub}]
        /\ emit' \in [open : SUBSET Conns, shut : SUBSET Conns] /\ emit'.open = {}
    BY <2>1 DEF ConnsInv
  <2> QED BY <1>1, <2>2, NoConns
<1>5. CASE Commit
  BY <1>1, <1>5, CommitKeepsConns
<1>6. CASE WebSocket
  BY <1>1, <1>6, WebSocketKeeps DEF WebSocket
<1>7. CASE Crash \/ PanicOnCommit
  BY <1>3, <1>7 DEF Crash, PanicOnCommit, Panic
<1> QED
  BY <1>2, <1>4, <1>5, <1>6, <1>7 DEF Next, FilterRequests, Ingest, IngestError, Drips,
     DripError, vars, chain, wsVars

----------------------------------------------------------------------------
(* What a subscription is told.                                            *)

\* q has the members of S, in order.
Lists(q, S) == q \in Seq(Nat) /\ Rises(q) /\ Range(q) = S

\* What the walks over the queues are shown to do below: Keep picks what is in
\* S, and what rises still does.
WalksKeep ==
  /\ \A T : \A q \in Seq(T) : \A S :
       Keep(q, S) \in Seq(T) /\ \E g : Picks(g, Keep(q, S), q, S, Len(q))
  /\ \A q \in Seq(Nat) : \A S : Rises(q) =>
       /\ Keep(q, S) \in Seq(Nat) /\ Rises(Keep(q, S))
       /\ Range(Keep(q, S)) = Range(q) \cap S

From(f, h, W) == {b \in f .. h : b \in W}

Complete(told, since, h, W) ==
  LET first == IF told = <<>> \/ told[1] > since THEN since + 1 ELSE told[1]
  IN  Range(told) = From(first, h, W)

\* ConnsInv is enough for what a subscription is told.
LEMMA ConnsTell ==
  WalksKeep /\ StoreInv /\ ConnsInv => NotesFollowTheChain
<1>ListsJoin. ASSUME NEW a, NEW A, NEW b, NEW B, Lists(a, A), Lists(b, B),
                     \A x \in A, y \in B : x < y
              PROVE  Lists(a \o b, A \cup B)
  <2> USE <1>ListsJoin
  <2>1. a \o b \in Seq(Nat) /\ Rises(a \o b)
    BY JoinRises DEF Lists
  <2>2. Range(a \o b) = Range(a) \cup Range(b)
    BY JoinRange DEF Lists
  <2> QED BY <2>1, <2>2 DEF Lists
<1>ListsOne. ASSUME NEW x \in Nat, NEW t \in BOOLEAN
             PROVE  Lists(IF t THEN <<x>> ELSE << >>, IF t THEN {x} ELSE {})
  <2> USE <1>ListsOne
  <2>1. /\ <<x>> \in Seq(Nat) /\ DOMAIN <<x>> = {1} /\ <<x>>[1] = x
        /\ << >> \in Seq(Nat) /\ DOMAIN << >> = {}
        /\ ~(1 < 1)
    BY SMTT(60)
  <2>2. Lists(<<x>>, {x})
    BY <2>1 DEF Lists, Rises, Range
  <2>3. Lists(<< >>, {})
    BY <2>1 DEF Lists, Rises, Range
  <2> QED BY <2>2, <2>3
\* The blocks queued for s, in the order of the queue.
<1>QueueLists. ASSUME WalksKeep, NEW q \in Seq(Note), NEW s \in SubIds, QueueRises(q, s),
                      \A x \in Queued(q, s) : x \in 1 .. MaxBlock
               PROVE  LET K == Keep(q, {[id |-> s, blk |-> b] : b \in 1 .. MaxBlock})
                      IN  Lists([i \in DOMAIN K |-> K[i].blk], Queued(q, s))
  <2> USE <1>QueueLists
  <2> DEFINE S == {[id |-> s, blk |-> b] : b \in 1 .. MaxBlock}
             K == Keep(q, S)
             B == [i \in DOMAIN K |-> K[i].blk]
  <2>1. K \in Seq(Note) /\ \E g : Picks(g, K, q, S, Len(q))
    BY DEF WalksKeep
  <2>2. PICK g : Picks(g, K, q, S, Len(q))
    BY <2>1
  <2>3. \A k \in DOMAIN q : q[k] \in Note
    BY SMTT(60)
  <2>4. \A k \in DOMAIN q : q[k] \in S <=> q[k].id = s
    <3> TAKE k \in DOMAIN q
    <3>1. ASSUME q[k] \in S PROVE q[k].id = s
      <4>1. PICK b \in 1 .. MaxBlock : q[k] = [id |-> s, blk |-> b]
        BY <3>1
      <4> QED BY <4>1, SMTT(60)
    <3>2. ASSUME q[k].id = s PROVE q[k] \in S
      <4>1. q[k].blk \in 1 .. MaxBlock
        BY <3>2 DEF Queued
      <4>2. q[k] = [id |-> s, blk |-> q[k].blk]
        BY <2>3, <3>2 DEF Note
      <4> QED BY <4>1, <4>2
    <3> QED BY <3>1, <3>2
  <2> HIDE DEF S, K
  <2>5. Len(K) \in Nat /\ DOMAIN K = 1 .. Len(K) /\ DOMAIN q = 1 .. Len(q)
    BY <2>1, SMTT(60)
  <2>6. \A i \in DOMAIN K : /\ g[i] \in DOMAIN q /\ K[i] = q[g[i]] /\ q[g[i]].id = s
                            /\ q[g[i]].blk \in Nat
    BY <2>2, <2>3, <2>4, <2>5 DEF Picks, Note
  <2>7. B \in Seq(Nat) /\ DOMAIN B = DOMAIN K
    <3>1. \A i \in 1 .. Len(K) : K[i].blk \in Nat
      BY <2>5, <2>6
    <3> QED BY <2>5, <3>1, SMTT(60)
  <2>8. \A i \in DOMAIN K : B[i] = q[g[i]].blk
    BY <2>6
  <2> HIDE DEF B
  <2>9. Rises(B)
    <3> SUFFICES ASSUME NEW i \in DOMAIN K, NEW j \in DOMAIN K, i < j
                 PROVE  B[i] < B[j]
      BY <2>7 DEF Rises
    <3>1. g[i] < g[j]
      BY <2>2, <2>5 DEF Picks
    <3> QED BY <2>6, <2>8, <3>1 DEF QueueRises
  <2>10. Range(B) \subseteq Queued(q, s)
    <3> SUFFICES ASSUME NEW i \in DOMAIN K PROVE B[i] \in Queued(q, s)
      BY <2>7 DEF Range
    <3> QED BY <2>6, <2>8 DEF Queued
  <2>11. Queued(q, s) \subseteq Range(B)
    <3> SUFFICES ASSUME NEW k \in DOMAIN q, q[k].id = s PROVE q[k].blk \in Range(B)
      BY DEF Queued
    <3>1. PICK i \in DOMAIN K : g[i] = k
      BY <2>2, <2>4, <2>5 DEF Picks
    <3>2. B[i] = q[k].blk
      BY <2>8, <3>1
    <3> QED BY <2>7, <3>1, <3>2 DEF Range
  <2> QED BY <2>7, <2>9, <2>10, <2>11 DEF Lists, B, K, S
\* The five parts of Told follow each other.
<1>TellsDue. ASSUME WalksKeep, NEW r \in Conn, NEW s \in SubIds, NEW sub \in Sub, NEW p \in BOOLEAN,
                    NEW h \in 0 .. MaxBlock, Stream(r, p, h), Line(s, r, sub, p, h),
                    NEW told,
                    LET notes == Keep(r.send, {[id |-> s, blk |-> b] : b \in 1 .. MaxBlock})
                    IN  told = sub.got
                                 \o [i \in DOMAIN notes |-> notes[i].blk]
                                 \o (IF s \in r.left THEN <<r.ev>> ELSE <<>>)
                                 \o Keep(r.events, {b \in 1 .. MaxBlock : Wants(sub.kind, b)})
                                 \o (IF p /\ Wants(sub.kind, h) THEN <<h>> ELSE <<>>)
             PROVE  Lists(told, Due(s, sub, r.send, r.ev, s \in r.left, Coming(r.events, p, h)))
  <2> USE <1>TellsDue
  <2> DEFINE notes == Keep(r.send, {[id |-> s, blk |-> b] : b \in 1 .. MaxBlock})
             busy == s \in r.left
             final == p /\ Wants(sub.kind, h)
             W == {b \in 1 .. MaxBlock : Wants(sub.kind, b)}
             a == sub.got
             b == [i \in DOMAIN notes |-> notes[i].blk]
             c == IF busy THEN <<r.ev>> ELSE <<>>
             d == Keep(r.events, W)
             e == IF final THEN <<h>> ELSE <<>>
             A == Range(a)
             B == Queued(r.send, s)
             C == IF busy THEN {r.ev} ELSE {}
             D == Range(r.events) \cap W
             E == IF final THEN {h} ELSE {}
  <2>1. told = a \o b \o c \o d \o e
    OBVIOUS
  <2>2. /\ a \in Seq(Nat) /\ r.send \in Seq(Note) /\ r.events \in Seq(Nat) /\ r.ev \in Nat
        /\ busy \in BOOLEAN /\ final \in BOOLEAN /\ h \in Nat /\ h <= MaxBlock /\ MaxBlock \in Nat
    <3>1. a \in Seq(Nat) /\ r.send \in Seq(Note) /\ r.events \in Seq(Nat) /\ r.ev \in Nat
      BY DEF Conn, Sub
    <3>2. busy \in BOOLEAN /\ final \in BOOLEAN
      BY SMTT(60)
    <3>3. h \in Nat /\ h <= MaxBlock /\ MaxBlock \in Nat
      BY ChainStoreAssumption, SMTT(60)
    <3> QED BY <3>1, <3>2, <3>3
  <2>3. /\ Rises(a) /\ QueueRises(r.send, s)
        /\ \A x \in A, y \in B : x < y
        /\ \A x \in A \cup B : 1 <= x /\ x <= r.ev /\ (busy => x < r.ev)
        /\ busy => 1 <= r.ev
    BY DEF Line, LineRises
  <2>4. /\ Rises(r.events) /\ \A x \in Range(r.events) : r.ev < x /\ x <= h /\ (p => x < h)
        /\ r.ev <= h /\ (p => r.ev < h)
    BY DEF Stream, ChannelRises
  <2>5. A \subseteq Nat /\ B \subseteq Nat /\ Range(r.events) \subseteq Nat
    <3> HIDE <1>TellsDue
    <3>1. \A i \in DOMAIN r.send : r.send[i] \in Note
      BY <2>2, ElementInSeq
    <3>2. (\A i \in DOMAIN a : a[i] \in Nat) /\ (\A i \in DOMAIN r.events : r.events[i] \in Nat)
      BY <2>2, ElementInSeq
    <3> QED BY <3>1, <3>2 DEF Range, Queued, Note
  <2>6. \A x \in B : x \in 1 .. MaxBlock
    <3>1. B \subseteq Nat /\ \A x \in B : 1 <= x /\ x <= r.ev
      BY <2>3, <2>5
    <3>2. r.ev <= h
      BY <2>4
    <3> QED BY <2>2, <3>1, <3>2, UpToLastBlock
  <2>7. Lists(b, B)
    BY <2>2, <2>3, <2>6, <1>QueueLists
  <2>8. Lists(c, C) /\ Lists(e, E)
    BY <2>2, <1>ListsOne
  <2>9. Lists(d, D)
    <3>1. d \in Seq(Nat) /\ Rises(d) /\ Range(d) = Range(r.events) \cap W
      BY <2>2, <2>4 DEF WalksKeep
    <3> QED BY <3>1 DEF Lists
  <2>10. Lists(a, A)
    BY <2>2, <2>3 DEF Lists
  <2>11. D = {x \in Range(r.events) : Wants(sub.kind, x)}
    <3>1. \A x \in Range(r.events) : 1 <= x /\ x <= h
      <4>1. \A x \in Range(r.events) : x \in Nat /\ r.ev < x /\ x <= h
        BY <2>4, <2>5
      <4> HIDE <1>TellsDue
      <4> QED BY <2>2, <4>1, SMTT(60)
    <3>2. h <= h
      BY <2>2, SMTT(60)
    <3>3. \A x \in Range(r.events) : x \in 1 .. MaxBlock
      BY <2>2, <2>5, <3>1, <3>2, UpToLastBlock
    <3> QED BY <3>3
  <2> HIDE DEF a, b, c, d, e, A, B, W
  <2>12. \A x \in A \cup B, y \in C : x < y
    BY <2>3
  <2>12a. \A x \in A \cup B \cup C : x \in Nat /\ x <= r.ev
    <3>1. r.ev <= r.ev
      BY <2>2, SMTT(60)
    <3>2. \A x \in A \cup B : x \in Nat /\ x <= r.ev
      BY <2>3, <2>5
    <3>3. \A x \in C : x = r.ev
      OBVIOUS
    <3> QED BY <2>2, <3>1, <3>2, <3>3
  <2>13. \A x \in A \cup B \cup C, y \in D : x < y
    <3>2. \A y \in D : y \in Nat /\ r.ev < y
      BY <2>4, <2>5
    <3> HIDE <1>TellsDue DEF C, D
    <3>3. r.ev \in Nat
      BY <2>2
    <3> QED BY <2>12a, <3>2, <3>3, SMTT(60)
  <2>14. \A x \in A \cup B \cup C \cup D, y \in E : x < y
    <3>1. ASSUME p PROVE \A x \in A \cup B \cup C \cup D : x < h
      <4>1. r.ev < h
        BY <2>4, <3>1
      <4>2. \A x \in D : x < h
        BY <2>4, <3>1
      <4> HIDE DEF C
      <4>3. \A x \in A \cup B \cup C : x < h
        <5> HIDE <1>TellsDue
        <5>1. r.ev \in Nat /\ h \in Nat
          BY <2>2
        <5> QED BY <2>12a, <4>1, <5>1, SMTT(60)
      <4> QED BY <4>2, <4>3
    <3> QED BY <3>1
  <2> HIDE DEF C, D, E
  <2>15. Lists(a \o b, A \cup B)
    BY <2>3, <2>7, <2>10, <1>ListsJoin
  <2>16. Lists(a \o b \o c, A \cup B \cup C)
    BY <2>8, <2>12, <2>15, <1>ListsJoin
  <2>17. Lists(a \o b \o c \o d, A \cup B \cup C \cup D)
    BY <2>9, <2>13, <2>16, <1>ListsJoin
  <2>18. Lists(a \o b \o c \o d \o e, A \cup B \cup C \cup D \cup E)
    BY <2>8, <2>14, <2>17, <1>ListsJoin
  <2>19. D \cup E = {x \in Coming(r.events, p, h) : Wants(sub.kind, x)}
    BY <2>11 DEF Coming, E
  <2>20. A \cup B \cup C \cup D \cup E = Due(s, sub, r.send, r.ev, s \in r.left, Coming(r.events, p, h))
    <3>1. A \cup B \cup C \cup D \cup E = A \cup B \cup C \cup (D \cup E)
      OBVIOUS
    <3> QED BY <2>19, <3>1 DEF Due, A, B, C, a
  <2> QED BY <2>1, <2>18, <2>20
\* What is listed in order and complete from some block, is complete from the
\* first one listed or the one after the subscription was made.
<1>CompleteFrom. ASSUME NEW told, NEW since \in Nat, NEW h \in Nat, NEW W, NEW f \in 1 .. since + 1,
                        Lists(told, From(f, h, W))
                 PROVE  Complete(told, since, h, W)
  <2> USE <1>CompleteFrom
  <2> DEFINE due == From(f, h, W)
             first == IF told = <<>> \/ told[1] > since THEN since + 1 ELSE told[1]
  <2>1. told \in Seq(Nat) /\ Rises(told) /\ Range(told) = due
    BY DEF Lists
  <2>2. CASE told = <<>>
    <3>1. DOMAIN told = {}
      BY <2>2, SMTT(60)
    <3>2. due = {}
      BY <2>1, <3>1 DEF Range
    <3>3. \A b \in since + 1 .. h : b \in f .. h
      BY SMTT(60)
    <3>4. first = since + 1
      BY <2>2
    <3> QED BY <2>1, <3>2, <3>3, <3>4 DEF Complete, From
  <2>3. CASE told # <<>>
    <3>1. /\ 1 \in DOMAIN told /\ told[1] \in Nat /\ DOMAIN told = 1 .. Len(told)
          /\ \A i \in DOMAIN told : told[i] \in Nat /\ (i = 1 \/ 1 < i)
      BY <2>1, <2>3, SMTT(60)
    <3>2. \A x \in due : told[1] <= x
      <4> SUFFICES ASSUME NEW i \in DOMAIN told PROVE told[1] <= told[i]
        BY <2>1 DEF Range
      <4>1. i = 1 \/ told[1] < told[i]
        BY <2>1, <3>1 DEF Rises
      <4> QED BY <3>1, <4>1, SMTT(60)
    <3>3. told[1] \in f .. h
      BY <2>1, <3>1 DEF Range, From
    <3>4. first \in Nat /\ f <= first /\ \A x \in f .. h : told[1] <= x => first <= x
      BY <2>3, <3>1, <3>3, SMTT(60)
    <3> HIDE DEF first
    <3>5. \A b \in first .. h : b \in f .. h
      BY <3>4, SMTT(60)
    <3>6. \A b \in f .. h : first <= b => b \in first .. h
      BY <3>4, SMTT(60)
    <3>7. \A b \in due : b \in first .. h
      BY <3>2, <3>4, <3>6 DEF From
    <3> QED BY <2>1, <3>5, <3>7 DEF Complete, From, first
  <2> QED BY <2>2, <2>3
<1>step. ASSUME WalksKeep, StoreInv, ConnsInv
         PROVE  NotesFollowTheChain
  <2> USE <1>step
  <2> SUFFICES ASSUME NEW c \in Conns, NEW s \in conn[c].ids, conn[c].at = "open"
               PROVE  LET told == Told(c, s)
                          first == IF told = <<>> \/ told[1] > subs[s].since
                                   THEN subs[s].since + 1 ELSE told[1]
                      IN  /\ \A i, j \in DOMAIN told : i < j => told[i] < told[j]
                          /\ ~conn[c].lost =>
                               Range(told) = {b \in first .. head : Wanted(s, b)}
    BY DEF NotesFollowTheChain
  <2> DEFINE r == conn[c]
             sub == subs[s]
             p == c \in emit.open
             told == Told(c, s)
             due == Due(s, sub, r.send, r.ev, s \in r.left, Coming(r.events, p, head))
             W == {b \in Nat : Wants(sub.kind, b)}
  <2>1. ConnAt(c) /\ node = "up"
    BY ConnAtIs, InUse, UnusedIs
  <2>2. r \in Conn /\ s \in SubIds /\ sub \in Sub /\ p \in BOOLEAN
    <3>1. p \in BOOLEAN
      BY SMTT(60)
    <3> QED BY <2>1, <3>1 DEF ConnAt
  <2>3. head \in 0 .. MaxBlock /\ head \in Nat
    <3>1. head \in Nat /\ head <= MaxBlock
      BY <2>1 DEF StoreInv
    <3> QED BY <3>1, ChainStoreAssumption, SMTT(60)
  <2>4. Stream(r, p, head) /\ Line(s, r, sub, p, head)
    BY <2>1 DEF ConnAt, ConnOK
  <2>5. LET notes == Keep(r.send, {[id |-> s, blk |-> b] : b \in 1 .. MaxBlock})
        IN  told = sub.got
                     \o [i \in DOMAIN notes |-> notes[i].blk]
                     \o (IF s \in r.left THEN <<r.ev>> ELSE <<>>)
                     \o Keep(r.events, {b \in 1 .. MaxBlock : Wants(sub.kind, b)})
                     \o (IF p /\ Wants(sub.kind, head) THEN <<head>> ELSE <<>>)
    BY DEF Told, Wanted, Wants
  <2> HIDE DEF told, r, p, sub
  <2>6. Lists(told, due)
    BY <2>2, <2>3, <2>4, <2>5, <1>TellsDue
  <2>7. \A i, j \in DOMAIN told : i < j => told[i] < told[j]
    BY <2>6 DEF Lists, Rises
  <2> DEFINE first == IF told = <<>> \/ told[1] > sub.since THEN sub.since + 1 ELSE told[1]
  <2>8. ASSUME ~r.lost
        PROVE  Range(told) = {b \in first .. head : Wants(sub.kind, b)}
    <3>1. LineWhole(sub, due, head)
      BY <2>4, <2>8 DEF Line
    <3> HIDE DEF due
    <3>2. PICK f \in 1 .. sub.since + 1 : due = {b \in f .. head : Wants(sub.kind, b)}
      BY <3>1 DEF LineWhole
    <3>3. sub.since \in Nat
      BY <2>2 DEF Sub
    <3>4. Lists(told, From(f, head, W))
      <4>1. \A b \in f .. head : b \in Nat
        BY <2>3, <3>3, SMTT(60)
      <4>2. due = From(f, head, W)
        BY <3>2, <4>1 DEF From
      <4> QED BY <2>6, <4>2
    <3> HIDE DEF W
    <3>5. Complete(told, sub.since, head, W)
      BY <2>3, <3>3, <3>4, <1>CompleteFrom
    <3>6. \A b \in first .. head : b \in Nat
      <4>1. told \in Seq(Nat)
        BY <2>6 DEF Lists
      <4>2. first \in Nat
        BY <3>3, <4>1, SMTT(60)
      <4> HIDE DEF first
      <4> QED BY <2>3, <4>2, SMTT(60)
    <3> QED BY <3>5, <3>6 DEF Complete, From, W
  <2> QED BY <2>7, <2>8 DEF told, r, sub, Wanted, Wants
<1> QED BY <1>step

----------------------------------------------------------------------------
(* Log queries.                                                            *)

\* The logs in memory are those of committed blocks, once and in order.
LogsInv ==
  allLogs \in Seq(Nat) /\ Rises(allLogs) /\ Range(allLogs) \subseteq Within(Logged, 1, head)

\* The log cache starts as a rising sequence.
LEMMA LogsInit ==
  ASSUME Init
  PROVE  LogsInv
<1>1. allLogs = <<>>
  BY DEF Init, ChainInit
<1>2. allLogs \in Seq(Nat) /\ DOMAIN allLogs = {}
  BY <1>1, SMTT(60)
<1> QED BY <1>2 DEF LogsInv, Rises, Range

\* Every step keeps the log cache rising.
LEMMA LogsStep ==
  ASSUME StoreInv, LogsInv, [Next]_vars
  PROVE  LogsInv'
<1>1. ASSUME allLogs' = <<>>
      PROVE  LogsInv'
  <2>1. allLogs' \in Seq(Nat) /\ DOMAIN (allLogs') = {}
    BY <1>1, SMTT(60)
  <2> QED BY <2>1 DEF LogsInv, Rises, Range
<1>2. ASSUME UNCHANGED <<allLogs, head>>
      PROVE  LogsInv'
  BY <1>2 DEF LogsInv
<1>3. CASE Commit
  <2> DEFINE b == head + 1
  <2>1. /\ head' = b
        /\ allLogs' = IF b \in Logged THEN Append(allLogs, b) ELSE allLogs
    BY <1>3 DEF Commit, persistBlockLocked, CommitBlockLocked
  <2>2. b \in Nat /\ head \in Nat /\ b \in Within({b}, 1, b)
    BY SMTT(60) DEF StoreInv, Within
  <2>3. /\ allLogs \in Seq(Nat) /\ Rises(allLogs)
        /\ Range(allLogs) \subseteq Within(Logged, 1, head)
    BY DEF LogsInv
  <2>4. \A x \in Range(allLogs) : x \in Nat /\ x < b /\ x \in Within(Logged, 1, b)
    <3>1. \A x \in Within(Logged, 1, head) : x \in Nat /\ x < b /\ x \in Within(Logged, 1, b)
      BY <2>2, ChainStoreAssumption, SMTT(60) DEF Within
    <3> QED BY <2>3, <3>1
  <2> HIDE DEF b
  <2>5. CASE b \notin Logged
    BY <2>1, <2>3, <2>4, <2>5 DEF LogsInv
  <2>6. CASE b \in Logged
    <3>1. /\ Append(allLogs, b) \in Seq(Nat) /\ Rises(Append(allLogs, b))
          /\ Range(Append(allLogs, b)) = Range(allLogs) \cup {b}
      BY <2>2, <2>3, <2>4, AppendRises
    <3>2. b \in Within(Logged, 1, b)
      BY <2>2, <2>6 DEF Within
    <3> QED BY <2>1, <2>4, <2>6, <3>1, <3>2 DEF LogsInv
  <2> QED BY <2>5, <2>6
<1>4. CASE WebSocket
  BY <1>4, <1>2, SubscriptionsKeepStore DEF WebSocket
<1>5. CASE Open \/ Crash \/ PanicOnCommit
  BY <1>1, <1>2, <1>5 DEF Open, CommitGenesis, persistGenesisLocked, openWithDatabase,
     Crash, PanicOnCommit, Panic, Down
<1> QED
  BY <1>2, <1>3, <1>4, <1>5 DEF Next, FilterRequests, Ingest, IngestError, Drips,
     DripError, vars, chain

----------------------------------------------------------------------------
(* Filters.                                                                *)

\* What a filter d owes its client and has given, g: logs, those in memory, go
\* back to its installation.
Served(d, g, logs, h) ==
  /\ g # NoFilter /\ g.start <= d.last /\ d.last <= h
  /\ Within(Logged, g.start + 1, h) \subseteq logs
  /\ Asked(d.kind, g.start + 1, d.last) \subseteq g.got
  /\ ~g.overlapped => g.exact /\ g.got = Asked(d.kind, g.start + 1, d.last)

\* A poll q of the filter d: it goes on from a block up to which the client has
\* everything, and, alone, from the cursor.
Current(q, d, g, h) ==
  /\ q.kind = d.kind /\ g.start <= q.last /\ q.last <= h
  /\ q.tip # Unread => q.last <= q.tip /\ q.tip <= h
  /\ Asked(q.kind, g.start + 1, q.last) \subseteq g.got
  /\ ~g.overlapped => q.last = d.last

\* PollsMissNothing, and the polls in progress.
FiltersInv ==
  /\ filters \in [FilterIds -> Filter \cup {NoFilter}]
  /\ poll \in [Polls -> Poll \cup {NoFilter}]
  /\ polled \in [FilterIds -> Polled \cup {NoFilter}]
  /\ node # "up" => /\ \A f \in FilterIds : filters[f] = NoFilter
                    /\ \A p \in Polls : poll[p] = NoFilter
  /\ \A f \in FilterIds :
       filters[f] # NoFilter => Served(filters[f], polled[f], Range(allLogs), head)
  /\ \A p \in Polls : poll[p] # NoFilter =>
       /\ polled[poll[p].id] # NoFilter
       /\ filters[poll[p].id] # NoFilter =>
            Current(poll[p], filters[poll[p].id], polled[poll[p].id], head)
       /\ ~polled[poll[p].id].overlapped => Others(p, poll[p].id) = {}

\* The node starts without filters.
LEMMA FiltersStart ==
  ASSUME Init
  PROVE  FiltersInv
BY DEF Init, FiltersInit, FiltersInv

\* What is asked for up to b and what is asked for from b on.
Joins(k, a, b, c) ==
  /\ Asked(k, a + 1, c) = Asked(k, a + 1, b) \cup Asked(k, b + 1, c)
  /\ \A x \in Asked(k, a + 1, b), y \in Asked(k, b + 1, c) : x < y
  /\ Asked(k, a + 1, a) = {}

\* Two adjoining ranges ask for what their union asks for.
LEMMA AskedJoin ==
  ASSUME NEW k \in Kinds, NEW a \in Nat, NEW b \in Nat, NEW c \in Nat, a <= b, b <= c
  PROVE  Joins(k, a, b, c)
<1> USE DEF Joins
<1>0. Logged \subseteq Nat
  BY ChainStoreAssumption, SMTT(60)
<1>1. CASE k = "pending"
  BY <1>1 DEF Asked
<1>2. CASE k = "blocks"
  <2>1. \A x, y : Asked(k, x, y) = x .. y
    BY <1>2 DEF Asked
  <2> QED BY <2>1, SMTT(60)
<1>3. CASE k = "logs"
  <2>1. \A x, y : Asked(k, x, y) = Within(Logged, x, y)
    BY <1>3 DEF Asked
  <2>2. \A x \in Logged :
          /\ a + 1 <= x /\ x <= c <=> (a + 1 <= x /\ x <= b) \/ (b + 1 <= x /\ x <= c)
          /\ ~(a + 1 <= x /\ x <= a)
    BY <1>0, SMTT(60)
  <2>3. \A x, y \in Logged : x <= b /\ b + 1 <= y => x < y
    BY <1>0, SMTT(60)
  <2>4. \A x, lo, hi : x \in Asked(k, lo, hi) <=> x \in Logged /\ lo <= x /\ x <= hi
    BY <2>1 DEF Within
  <2>5. \A x : x \in Asked(k, a + 1, c) <=> x \in Asked(k, a + 1, b) \/ x \in Asked(k, b + 1, c)
    BY <2>2, <2>4
  <2>6. \A x : x \notin Asked(k, a + 1, a)
    BY <2>2, <2>4
  <2>7. \A x \in Asked(k, a + 1, b), y \in Asked(k, b + 1, c) : x < y
    BY <2>3, <2>4
  <2> QED BY <2>5, <2>6, <2>7
<1> QED BY <1>1, <1>2, <1>3 DEF Kinds

\* Filters that are used, run out or are removed.
LEMMA FiltersShrink ==
  ASSUME FiltersInv, filters' \in [FilterIds -> Filter \cup {NoFilter}],
         \A f \in FilterIds :
           \/ filters'[f] = NoFilter
           \/ /\ filters[f] # NoFilter /\ filters'[f] # NoFilter
              /\ filters'[f].kind = filters[f].kind
              /\ filters'[f].last = filters[f].last,
         UNCHANGED <<chain, poll, polled>>
  PROVE  FiltersInv'
<1>1. ASSUME NEW f \in FilterIds, filters'[f] # NoFilter
      PROVE  Served(filters'[f], polled[f], Range(allLogs), head)
  <2>1. Served(filters[f], polled[f], Range(allLogs), head)
    BY <1>1 DEF FiltersInv
  <2> QED BY <1>1, <2>1 DEF Served
<1>2. ASSUME NEW p \in Polls, poll[p] # NoFilter, filters'[poll[p].id] # NoFilter
      PROVE  Current(poll[p], filters'[poll[p].id], polled[poll[p].id], head)
  <2>1. poll[p].id \in FilterIds
    BY <1>2 DEF FiltersInv, Poll
  <2>2. Current(poll[p], filters[poll[p].id], polled[poll[p].id], head)
    BY <1>2, <2>1 DEF FiltersInv
  <2> QED BY <1>2, <2>1, <2>2 DEF Current
<1>3. UNCHANGED <<node, allLogs, head>> /\ \A p, f : Others(p, f)' = Others(p, f)
  BY DEF chain, Others
<1> QED BY <1>1, <1>2, <1>3 DEF FiltersInv

\* purgeExpiredLocked keeps or removes.
LEMMA PurgedIs ==
  ASSUME FiltersInv
  PROVE  /\ Purged \in [FilterIds -> Filter \cup {NoFilter}]
         /\ \A f \in FilterIds : Purged[f] = NoFilter \/ Purged[f] = filters[f]
BY DEF FiltersInv, Purged

Used(f) == [Purged EXCEPT ![f].idle = FALSE]

\* A filter counts as used.
LEMMA UsedIs ==
  ASSUME FiltersInv, NEW f \in FilterIds, Purged[f] # NoFilter
  PROVE  /\ Used(f) \in [FilterIds -> Filter \cup {NoFilter}]
         /\ \A x \in FilterIds :
              \/ Used(f)[x] = NoFilter
              \/ /\ filters[x] # NoFilter /\ Used(f)[x] # NoFilter
                 /\ Used(f)[x].kind = filters[x].kind /\ Used(f)[x].last = filters[x].last
<1> DEFINE d == [filters[f] EXCEPT !.idle = FALSE]
<1>1. filters[f] \in Filter /\ Purged[f] = filters[f] /\ filters[f] # NoFilter
  BY PurgedIs DEF FiltersInv
<1>2. d \in Filter /\ d.kind = filters[f].kind /\ d.last = filters[f].last
  BY <1>1 DEF Filter
<1>3. d # NoFilter
  BY <1>2, FiltersAssumption
<1>4. Used(f) = [Purged EXCEPT ![f] = d]
  BY <1>1, PurgedIs DEF Used
<1> HIDE DEF d
<1> QED BY <1>1, <1>2, <1>3, <1>4, PurgedIs

\* A new filter, granted or refused, keeps FiltersInv.
LEMMA NewFilterKeeps ==
  ASSUME StoreInv, FiltersInv, NEW f \in FilterIds, NEW k \in Kinds, NewFilter(f, k),
         UNCHANGED chain
  PROVE  FiltersInv'
<1> DEFINE d == [kind |-> k, last |-> head, idle |-> FALSE]
           g == [start |-> head, got |-> {}, exact |-> TRUE, overlapped |-> FALSE]
<1>1. CASE filters' = Purged /\ UNCHANGED <<poll, polled>>
  BY <1>1, PurgedIs, FiltersShrink
<1>2. CASE /\ filters' = [Purged EXCEPT ![f] = d]
           /\ polled' = [polled EXCEPT ![f] = g]
           /\ UNCHANGED poll
  <2>0. node = "up" /\ head \in Nat /\ polled[f] = NoFilter
    BY DEF NewFilter, Readable, StoreInv
  <2>1. d \in Filter /\ g \in Polled
    BY <2>0, SMTT(60) DEF Filter, Polled
  <2>2. d # NoFilter /\ g # NoFilter
    BY <2>1, FiltersAssumption
  <2>3. Served(d, g, Range(allLogs), head)
    <3>0. head <= head
      BY <2>0, SMTT(60)
    <3>1. Asked(k, head + 1, head) = {}
      BY <2>0, <3>0, AskedJoin DEF Joins
    <3>2. Within(Logged, head + 1, head) = {}
      <4>1. \A x \in Logged : ~(head + 1 <= x /\ x <= head)
        BY <2>0, ChainStoreAssumption, SMTT(60)
      <4> QED BY <4>1 DEF Within
    <3>3. d.kind = k /\ d.last = head /\ g.start = head /\ g.got = {} /\ g.exact
      OBVIOUS
    <3> HIDE DEF d, g
    <3> QED BY <2>2, <3>0, <3>1, <3>2, <3>3 DEF Served
  <2> HIDE DEF d, g
  <2>4. /\ filters' \in [FilterIds -> Filter \cup {NoFilter}]
        /\ polled' \in [FilterIds -> Polled \cup {NoFilter}]
        /\ filters'[f] = d /\ polled'[f] = g
        /\ \A x \in FilterIds : x # f =>
             /\ filters'[x] = NoFilter \/ filters'[x] = filters[x]
             /\ polled'[x] = polled[x]
    BY <1>2, <2>1, PurgedIs DEF FiltersInv
  <2>5. ASSUME NEW p \in Polls, poll[p] # NoFilter
        PROVE  /\ poll[p].id # f /\ poll[p].id \in FilterIds
               /\ polled'[poll[p].id] = polled[poll[p].id]
    BY <2>0, <2>4, <2>5 DEF FiltersInv, Poll
  <2>6. UNCHANGED <<node, allLogs, head>> /\ \A p, x : Others(p, x)' = Others(p, x)
    BY <1>2 DEF chain, Others
  <2>7. \A x \in FilterIds :
          filters'[x] # NoFilter => Served(filters'[x], polled'[x], Range(allLogs), head)
    BY <2>3, <2>4 DEF FiltersInv
  <2>8. \A p \in Polls : poll[p] # NoFilter =>
          /\ polled'[poll[p].id] # NoFilter
          /\ filters'[poll[p].id] # NoFilter =>
               Current(poll[p], filters'[poll[p].id], polled'[poll[p].id], head)
          /\ ~polled'[poll[p].id].overlapped => Others(p, poll[p].id) = {}
    <3> SUFFICES ASSUME NEW p \in Polls, poll[p] # NoFilter
                 PROVE  /\ polled'[poll[p].id] # NoFilter
                        /\ filters'[poll[p].id] # NoFilter =>
                             Current(poll[p], filters'[poll[p].id], polled'[poll[p].id], head)
                        /\ ~polled'[poll[p].id].overlapped => Others(p, poll[p].id) = {}
      OBVIOUS
    <3>1. /\ polled[poll[p].id] # NoFilter
          /\ filters[poll[p].id] # NoFilter =>
               Current(poll[p], filters[poll[p].id], polled[poll[p].id], head)
          /\ ~polled[poll[p].id].overlapped => Others(p, poll[p].id) = {}
      BY DEF FiltersInv
    <3>2. polled'[poll[p].id] = polled[poll[p].id]
      BY <2>5
    <3>3. filters'[poll[p].id] # NoFilter => filters'[poll[p].id] = filters[poll[p].id]
      BY <2>4, <2>5
    <3> QED BY <3>1, <3>2, <3>3
  <2> QED BY <1>2, <2>0, <2>4, <2>6, <2>7, <2>8 DEF FiltersInv
<1> QED BY <1>1, <1>2 DEF NewFilter

\* A poll takes the filter's last block.
LEMMA SnapshotKeeps ==
  ASSUME StoreInv, FiltersInv, NEW p \in Polls, NEW f \in FilterIds, Snapshot(p, f),
         UNCHANGED chain
  PROVE  FiltersInv'
<1> DEFINE q == [id |-> f, kind |-> filters[f].kind, last |-> filters[f].last, tip |-> Unread]
           g == polled[f]
           alone == Others(p, f) = {}
           g2 == IF alone THEN g ELSE [g EXCEPT !.overlapped = TRUE]
<1>1. CASE Purged[f] = NoFilter
  BY <1>1, PurgedIs, FiltersShrink DEF Snapshot
<1>2. CASE Purged[f] # NoFilter
  <2>1. /\ filters' = [Purged EXCEPT ![f].idle = FALSE]
        /\ poll' = [poll EXCEPT ![p] = q]
        /\ polled' = IF alone THEN polled ELSE [polled EXCEPT ![f].overlapped = TRUE]
        /\ node = "up" /\ poll[p] = NoFilter /\ g # NoFilter
    BY <1>2 DEF Snapshot
  <2>2. filters[f] \in Filter /\ filters[f] # NoFilter /\ g \in Polled
    BY <1>2, <2>1, PurgedIs DEF FiltersInv
  <2>3. /\ q \in Poll /\ q.id = f /\ q.kind = filters[f].kind /\ q.last = filters[f].last
        /\ q.tip = Unread
    BY <2>2 DEF Poll, Filter
  <2>4. /\ g2 \in Polled /\ g2.start = g.start /\ g2.got = g.got /\ g2.exact = g.exact
        /\ ~g2.overlapped => alone /\ ~g.overlapped
    BY <2>2 DEF Polled
  <2>5. polled' = [polled EXCEPT ![f] = g2]
    BY <2>1, <2>2 DEF FiltersInv
  <2>6. q # NoFilter /\ g2 # NoFilter
    BY <2>3, <2>4, FiltersAssumption
  <2>7. /\ filters' \in [FilterIds -> Filter \cup {NoFilter}]
        /\ \A x \in FilterIds :
             \/ filters'[x] = NoFilter
             \/ /\ filters[x] # NoFilter /\ filters'[x] # NoFilter
                /\ filters'[x].kind = filters[x].kind
                /\ filters'[x].last = filters[x].last
    <3>1. filters' = Used(f)
      BY <2>1 DEF Used
    <3> QED BY <1>2, <3>1, UsedIs
  <2> HIDE DEF q, g2
  <2>8. /\ poll' \in [Polls -> Poll \cup {NoFilter}] /\ poll'[p] = q
        /\ \A x \in Polls : x # p => poll'[x] = poll[x]
        /\ polled' \in [FilterIds -> Polled \cup {NoFilter}] /\ polled'[f] = g2
        /\ \A x \in FilterIds : x # f => polled'[x] = polled[x]
    <3>1. poll \in [Polls -> Poll \cup {NoFilter}] /\ poll' = [poll EXCEPT ![p] = q]
      BY <2>1 DEF FiltersInv
    <3>2. polled \in [FilterIds -> Polled \cup {NoFilter}]
      BY DEF FiltersInv
    <3>3. /\ poll' \in [Polls -> Poll \cup {NoFilter}] /\ poll'[p] = q
          /\ \A x \in Polls : x # p => poll'[x] = poll[x]
      BY <2>3, <3>1
    <3> QED BY <2>4, <2>5, <3>2, <3>3
  <2>9. UNCHANGED <<node, allLogs, head>>
    BY DEF chain
  <2>10. ASSUME NEW x \in FilterIds, filters'[x] # NoFilter
         PROVE  Served(filters'[x], polled'[x], Range(allLogs), head)
    <3>1. Served(filters[x], polled[x], Range(allLogs), head)
      BY <2>7, <2>10 DEF FiltersInv
    <3>2. Served(filters'[x], polled[x], Range(allLogs), head)
      BY <2>7, <2>10, <3>1 DEF Served
    <3>3. CASE x = f
      BY <2>4, <2>6, <2>8, <3>2, <3>3 DEF Served
    <3> QED BY <2>8, <3>2, <3>3
  <2>11. ASSUME NEW x \in Polls, poll'[x] # NoFilter, filters'[poll'[x].id] # NoFilter
         PROVE  Current(poll'[x], filters'[poll'[x].id], polled'[poll'[x].id], head)
    <3>1. CASE x = p
      <4>1. Served(filters'[f], g2, Range(allLogs), head)
        BY <2>3, <2>8, <2>10, <2>11, <3>1
      <4>2. q.kind = filters'[f].kind /\ q.last = filters'[f].last
        BY <2>3, <2>7, <2>8, <2>11, <3>1
      <4> HIDE DEF g
      <4> QED BY <2>3, <2>8, <3>1, <4>1, <4>2 DEF Served, Current
    <3>2. CASE x # p
      <4>1. poll'[x] = poll[x] /\ poll[x].id \in FilterIds /\ poll[x] # NoFilter
        BY <2>8, <2>11, <3>2 DEF FiltersInv, Poll
      <4>2. Current(poll[x], filters[poll[x].id], polled[poll[x].id], head)
        BY <2>7, <2>11, <4>1 DEF FiltersInv
      <4>3. Current(poll[x], filters'[poll[x].id], polled[poll[x].id], head)
        BY <2>7, <2>11, <4>1, <4>2 DEF Current
      <4>4. CASE poll[x].id = f
        BY <2>4, <2>8, <4>1, <4>3, <4>4 DEF Current
      <4> QED BY <2>8, <4>1, <4>3, <4>4
    <3> QED BY <3>1, <3>2
  <2>12. ASSUME NEW x \in Polls, poll'[x] # NoFilter
         PROVE  /\ polled'[poll'[x].id] # NoFilter
                /\ ~polled'[poll'[x].id].overlapped => Others(x, poll[x].id)' = {}
    <3>1. CASE x = p
      <4>1. Others(p, f)' = Others(p, f)
        BY <2>8 DEF Others
      <4> QED BY <2>3, <2>4, <2>6, <2>8, <3>1, <4>1
    <3>2. CASE x # p
      <4>1. /\ poll'[x] = poll[x] /\ poll[x].id \in FilterIds /\ poll[x] # NoFilter
            /\ polled[poll[x].id] # NoFilter
            /\ ~polled[poll[x].id].overlapped => Others(x, poll[x].id) = {}
        BY <2>8, <2>12, <3>2 DEF FiltersInv, Poll
      <4>2. CASE poll[x].id = f
        <5>1. x \in Others(p, f)
          BY <3>2, <4>1, <4>2 DEF Others
        <5> QED BY <2>4, <2>6, <2>8, <4>1, <4>2, <5>1
      <4>3. CASE poll[x].id # f
        <5>1. Others(x, poll[x].id)' = Others(x, poll[x].id)
          BY <2>1, <2>3, <2>8, <4>1, <4>3 DEF Others
        <5> QED BY <2>8, <4>1, <4>3, <5>1
      <4> QED BY <4>2, <4>3
    <3> QED BY <3>1, <3>2
  <2>13. \A x \in Polls : poll'[x] # NoFilter =>
           /\ polled'[poll'[x].id] # NoFilter
           /\ filters'[poll'[x].id] # NoFilter =>
                Current(poll'[x], filters'[poll'[x].id], polled'[poll'[x].id], head)
           /\ ~polled'[poll'[x].id].overlapped => Others(x, poll[x].id)' = {}
    BY <2>11, <2>12
  <2>14. node' = "up" /\ UNCHANGED <<allLogs, head>>
    BY <2>1, <2>9
  <2>15. \A x \in FilterIds :
           filters'[x] # NoFilter => Served(filters'[x], polled'[x], Range(allLogs), head)
    BY <2>10
  <2> QED BY <2>7, <2>8, <2>13, <2>14, <2>15 DEF FiltersInv
<1> QED BY <1>1, <1>2

\* A poll reads the tip.
LEMMA ReadTipKeeps ==
  ASSUME StoreInv, FiltersInv, NEW p \in Polls, ReadTip(p), UNCHANGED chain
  PROVE  FiltersInv'
<1> DEFINE q == [poll[p] EXCEPT !.tip = head]
<1>1. /\ poll[p] # NoFilter /\ poll' = [poll EXCEPT ![p] = q]
      /\ UNCHANGED <<filters, polled>>
  BY DEF ReadTip
<1>2. poll[p] \in Poll /\ head \in Nat
  BY <1>1 DEF FiltersInv, StoreInv
<1>3. /\ q \in Poll /\ q.id = poll[p].id /\ q.kind = poll[p].kind /\ q.last = poll[p].last
      /\ q.tip = head
  BY <1>2 DEF Poll
<1>4. q # NoFilter /\ head <= head
  BY <1>2, <1>3, FiltersAssumption, SMTT(60)
<1> HIDE DEF q
<1>5. /\ poll' \in [Polls -> Poll \cup {NoFilter}] /\ poll'[p] = q
      /\ \A x \in Polls : x # p => poll'[x] = poll[x]
  BY <1>1, <1>3 DEF FiltersInv
<1>6. \A x \in Polls : (poll'[x] # NoFilter <=> poll[x] # NoFilter) /\ poll'[x].id = poll[x].id
  BY <1>1, <1>3, <1>4, <1>5
<1>7. \A x, f : Others(x, f)' = Others(x, f)
  BY <1>6 DEF Others
<1>8. \A x \in Polls : poll'[x] # NoFilter =>
        /\ polled[poll'[x].id] # NoFilter
        /\ ~polled[poll'[x].id].overlapped => Others(x, poll[x].id)' = {}
  BY <1>6, <1>7 DEF FiltersInv
<1>9. ASSUME NEW x \in Polls, poll'[x] # NoFilter, filters[poll'[x].id] # NoFilter
      PROVE  Current(poll'[x], filters[poll'[x].id], polled[poll'[x].id], head)
  <2>1. Current(poll[x], filters[poll[x].id], polled[poll[x].id], head)
    BY <1>6, <1>9 DEF FiltersInv
  <2>2. CASE x = p
    BY <1>3, <1>4, <1>5, <2>1, <2>2 DEF Current
  <2> QED BY <1>5, <2>1, <2>2
<1>10. UNCHANGED <<node, allLogs, head>> /\ node = "up"
  BY DEF chain, ReadTip, Readable
<1> QED BY <1>1, <1>5, <1>8, <1>9, <1>10 DEF FiltersInv

\* A poll that answers: what is asked for between its cursor and the head it
\* read joins what the client has.
LEMMA AnswerServes ==
  ASSUME NEW d \in Filter, NEW g \in Polled, NEW q \in Poll, NEW h \in Nat, NEW logs,
         NEW d2, d2.kind = d.kind, d2.last = q.tip,
         NEW answer \in Seq(Nat), Rises(answer),
         Range(answer) = Asked(q.kind, q.last + 1, q.tip),
         NEW g2, g2 # NoFilter, g2.start = g.start, g2.overlapped = g.overlapped,
         g2.got = g.got \cup Range(answer),
         GoesOn(answer, g.got) => g2.exact = g.exact,
         q.tip # Unread, Served(d, g, logs, h), Current(q, d, g, h)
  PROVE  Served(d2, g2, logs, h)
<1>1. /\ g.start \in Nat /\ q.last \in Nat /\ q.tip \in Nat /\ q.kind \in Kinds
      /\ q.kind = d.kind /\ g.start <= q.last /\ q.last <= q.tip /\ q.tip <= h
  <2>1. g.start \in Nat /\ q.last \in Nat /\ q.tip \in Nat \cup {Unread} /\ q.kind \in Kinds
    BY DEF Polled, Poll
  <2> QED BY <2>1 DEF Current
<1>2. g.start <= q.tip
  BY <1>1, SMTT(60)
<1>3. /\ Asked(q.kind, g.start + 1, q.tip)
           = Asked(q.kind, g.start + 1, q.last) \cup Asked(q.kind, q.last + 1, q.tip)
      /\ \A x \in Asked(q.kind, g.start + 1, q.last), y \in Asked(q.kind, q.last + 1, q.tip) : x < y
  <2>1. Joins(q.kind, g.start, q.last, q.tip)
    BY <1>1, AskedJoin
  <2> QED BY <2>1 DEF Joins
<1>4. Asked(q.kind, g.start + 1, q.last) \subseteq g.got
  BY DEF Current
<1>5. Asked(d2.kind, g2.start + 1, d2.last) \subseteq g2.got
  BY <1>1, <1>3, <1>4
<1>6. ASSUME ~g2.overlapped
      PROVE  g2.exact /\ g2.got = Asked(d2.kind, g2.start + 1, d2.last)
  <2>1. q.last = d.last /\ g.exact /\ g.got = Asked(q.kind, g.start + 1, q.last)
    BY <1>1, <1>6 DEF Served, Current
  <2>2. GoesOn(answer, g.got)
    <3>1. \A i \in DOMAIN answer : answer[i] \in Asked(q.kind, q.last + 1, q.tip)
      BY DEF Range
    <3> QED BY <1>3, <2>1, <3>1 DEF GoesOn, Rises
  <2> QED BY <1>1, <1>3, <2>1, <2>2
<1> QED BY <1>1, <1>2, <1>5, <1>6 DEF Served

\* The answer of a poll: numbers of blocks and, as long as memory has the logs
\* from its cursor on, what is asked for between the cursor and the head it read,
\* in order.
Answers(q) ==
  /\ Changes(q) \in Seq(Nat)
  /\ /\ q.last <= q.tip /\ q.tip <= head
     /\ Within(Logged, q.last + 1, head) \subseteq Range(allLogs)
     => Rises(Changes(q)) /\ Range(Changes(q)) = Asked(q.kind, q.last + 1, q.tip)

\* What the walks over memory, index and chain are shown to do below.
PollsAnswer == node = "up" => \A q \in Poll : q.tip # Unread => Answers(q)

\* A poll answers and moves the filter on.
LEMMA ChangesKeep ==
  ASSUME StoreInv, PollsAnswer, FiltersInv, NEW p \in Polls, ethGetFilterChanges(p),
         UNCHANGED chain
  PROVE  FiltersInv'
<1> DEFINE q == poll[p]
           f == q.id
           d == filters[f]
           g == polled[f]
           answer == Changes(q)
           d2 == [d EXCEPT !.last = q.tip, !.idle = FALSE]
           g2 == [g EXCEPT !.got = @ \cup Range(answer),
                           !.exact = @ /\ GoesOn(answer, g.got)]
<1>1. q # NoFilter /\ q \in Poll /\ f \in FilterIds /\ g # NoFilter /\ g \in Polled
      /\ q.tip # Unread /\ q.tip \in Nat /\ node = "up" /\ head \in Nat
  <2>1. q # NoFilter /\ q.tip # Unread /\ node = "up"
    BY DEF ethGetFilterChanges, Readable
  <2>2. q \in Poll
    BY <2>1 DEF FiltersInv
  <2>3. f \in FilterIds /\ q.tip \in Nat
    BY <2>1, <2>2 DEF Poll
  <2>4. g # NoFilter /\ g \in Polled
    BY <2>1, <2>3 DEF FiltersInv
  <2> QED BY <2>1, <2>2, <2>3, <2>4 DEF StoreInv
<1>2. /\ filters' = IF d = NoFilter THEN filters ELSE [filters EXCEPT ![f] = d2]
      /\ poll' = [poll EXCEPT ![p] = NoFilter]
  BY DEF ethGetFilterChanges, Advance
<1>3. polled' = [polled EXCEPT ![f] = g2]
  BY <1>1 DEF ethGetFilterChanges, FiltersInv
<1>4. ASSUME d # NoFilter PROVE d \in Filter /\ d2 \in Filter /\ d2.kind = d.kind /\ d2.last = q.tip
  BY <1>1, <1>4 DEF FiltersInv, Filter
<1> HIDE DEF answer
<1>5. /\ g2.start = g.start /\ g2.overlapped = g.overlapped
      /\ g2.got = g.got \cup Range(answer)
      /\ g2.exact = (g.exact /\ GoesOn(answer, g.got))
  BY <1>1 DEF Polled
<1>6. answer \in Seq(Nat)
  BY <1>1 DEF answer, PollsAnswer, Answers
<1>7. g2 \in Polled
  <2>1. Range(answer) \subseteq Nat
    BY <1>6, SMTT(60) DEF Range
  <2>2. (g.exact /\ GoesOn(answer, g.got)) \in BOOLEAN
    OBVIOUS
  <2>3. g.got \cup Range(answer) \in SUBSET Nat
    BY <1>1, <2>1 DEF Polled
  <2> HIDE DEF g
  <2> QED BY <1>1, <2>2, <2>3 DEF Polled
<1> HIDE DEF g2, d2
<1>8. g2 # NoFilter
  BY <1>7, FiltersAssumption
<1>9. /\ filters' \in [FilterIds -> Filter \cup {NoFilter}]
      /\ \A x \in FilterIds : x # f => filters'[x] = filters[x]
      /\ d = NoFilter => filters'[f] = NoFilter
      /\ d # NoFilter => filters'[f] = d2
  BY <1>1, <1>2, <1>4 DEF FiltersInv
<1>10. /\ poll' \in [Polls -> Poll \cup {NoFilter}] /\ poll'[p] = NoFilter
       /\ \A x \in Polls : x # p => poll'[x] = poll[x]
  BY <1>2 DEF FiltersInv
<1>11. /\ polled' \in [FilterIds -> Polled \cup {NoFilter}] /\ polled'[f] = g2
       /\ \A x \in FilterIds : x # f => polled'[x] = polled[x]
  BY <1>1, <1>3, <1>7 DEF FiltersInv
<1>12. ASSUME d # NoFilter
       PROVE  /\ Served(d, g, Range(allLogs), head) /\ Current(q, d, g, head)
              /\ Served(d2, g2, Range(allLogs), head)
  <2>1. Served(d, g, Range(allLogs), head) /\ Current(q, d, g, head)
    BY <1>1, <1>12 DEF FiltersInv
  <2>2. /\ q.last <= q.tip /\ q.tip <= head /\ q.last \in Nat
        /\ g.start \in Nat /\ g.start <= q.last
    BY <1>1, <2>1 DEF Current, Poll, Polled
  <2>3. Within(Logged, q.last + 1, head) \subseteq Range(allLogs)
    <3>1. \A x \in Logged : q.last + 1 <= x => g.start + 1 <= x
      <4>1. PICK u \in Nat, w \in Nat : u = q.last /\ w = g.start
        BY <2>2
      <4>2. w <= u
        BY <2>2, <4>1
      <4>3. \A x \in Logged : u + 1 <= x => w + 1 <= x
        <5> HIDE DEF q, g
        <5> QED BY <4>2, ChainStoreAssumption, SMTT(60)
      <4> QED BY <4>1, <4>3
    <3>2. Within(Logged, g.start + 1, head) \subseteq Range(allLogs)
      BY <2>1 DEF Served
    <3> QED BY <3>1, <3>2 DEF Within
  <2>4. Rises(answer) /\ Range(answer) = Asked(q.kind, q.last + 1, q.tip)
    BY <1>1, <2>2, <2>3 DEF answer, PollsAnswer, Answers
  <2>5. GoesOn(answer, g.got) => g2.exact = g.exact
    <3>1. g.exact \in BOOLEAN
      BY <1>1 DEF Polled
    <3> HIDE DEF g
    <3> QED BY <1>5, <3>1
  <2> HIDE DEF q, f, d, g
  <2> QED BY <1>1, <1>4, <1>5, <1>6, <1>8, <1>12, <2>1, <2>4, <2>5, AnswerServes
<1>13. ASSUME NEW x \in FilterIds, filters'[x] # NoFilter
       PROVE  Served(filters'[x], polled'[x], Range(allLogs), head)
  BY <1>9, <1>11, <1>12, <1>13 DEF FiltersInv
<1>14. ASSUME NEW x \in Polls, poll'[x] # NoFilter
       PROVE  /\ x # p /\ poll'[x] = poll[x] /\ poll[x] # NoFilter /\ poll[x].id \in FilterIds
              /\ polled[poll[x].id] # NoFilter
              /\ ~polled[poll[x].id].overlapped => Others(x, poll[x].id) = {}
  BY <1>10, <1>14 DEF FiltersInv, Poll
<1>15. ASSUME NEW x \in Polls, poll'[x] # NoFilter
       PROVE  /\ polled'[poll'[x].id] # NoFilter
              /\ ~polled'[poll'[x].id].overlapped => Others(x, poll[x].id)' = {}
  <2>1. Others(x, poll[x].id)' \subseteq Others(x, poll[x].id)
    BY <1>10, <1>14, <1>15 DEF Others
  <2>2. polled'[poll[x].id] # NoFilter
    BY <1>8, <1>11, <1>14, <1>15
  <2>3. polled'[poll[x].id].overlapped = polled[poll[x].id].overlapped
    BY <1>5, <1>11, <1>14, <1>15
  <2> QED BY <1>14, <1>15, <2>1, <2>2, <2>3
<1>16. ASSUME NEW x \in Polls, poll'[x] # NoFilter, filters'[poll'[x].id] # NoFilter
       PROVE  Current(poll'[x], filters'[poll'[x].id], polled'[poll'[x].id], head)
  <2>1. CASE poll[x].id # f
    BY <1>9, <1>11, <1>14, <1>16, <2>1 DEF FiltersInv
  <2>2. CASE poll[x].id = f
    <3>1. d # NoFilter
      BY <1>9, <1>14, <1>16, <2>2
    <3>2. Current(poll[x], d, g, head)
      BY <1>14, <1>16, <2>2, <3>1 DEF FiltersInv
    <3>3. g.overlapped
      <4>1. p \in Others(x, f)
        BY <1>1, <1>14, <1>16 DEF Others
      <4> QED BY <1>14, <1>16, <2>2, <4>1
    <3>4. Current(poll[x], d2, g2, head)
      <4> HIDE DEF d, g, f, q
      <4>1. d2.kind = d.kind
        BY <1>4, <3>1
      <4> QED BY <1>5, <3>2, <3>3, <4>1 DEF Current
    <3> QED BY <1>9, <1>11, <1>14, <1>16, <2>2, <3>1, <3>4
  <2> QED BY <2>1, <2>2
<1>17. UNCHANGED <<node, allLogs, head>>
  BY DEF chain
<1>18. \A x \in Polls : poll'[x] # NoFilter =>
         /\ polled'[poll'[x].id] # NoFilter
         /\ filters'[poll'[x].id] # NoFilter =>
              Current(poll'[x], filters'[poll'[x].id], polled'[poll'[x].id], head)
         /\ ~polled'[poll'[x].id].overlapped => Others(x, poll[x].id)' = {}
  BY <1>15, <1>16
<1>19. \A x \in FilterIds :
         filters'[x] # NoFilter => Served(filters'[x], polled'[x], Range(allLogs), head)
  BY <1>13
<1>20. filters' \in [FilterIds -> Filter \cup {NoFilter}]
       /\ poll' \in [Polls -> Poll \cup {NoFilter}]
       /\ polled' \in [FilterIds -> Polled \cup {NoFilter}]
       /\ node' = "up"
  BY <1>1, <1>9, <1>10, <1>11, <1>17
<1> HIDE DEF q, f, d, g
<1> QED BY <1>17, <1>18, <1>19, <1>20 DEF FiltersInv

\* What the filters do to themselves.
LEMMA FiltersKeep ==
  ASSUME StoreInv, PollsAnswer, FiltersInv, FiltersStep, UNCHANGED chain
  PROVE  FiltersInv'
<1>1. ASSUME NEW f \in FilterIds, Uninstall(f)
      PROVE  FiltersInv'
  <2>1. filters' = [Purged EXCEPT ![f] = NoFilter] /\ UNCHANGED <<poll, polled>>
    BY <1>1 DEF Uninstall
  <2>2. /\ filters' \in [FilterIds -> Filter \cup {NoFilter}]
        /\ \A x \in FilterIds : filters'[x] = NoFilter \/ filters'[x] = filters[x]
    BY <2>1, PurgedIs
  <2> QED BY <2>1, <2>2, FiltersShrink
<1>2. ASSUME NEW f \in FilterIds, ethGetFilterLogs(f)
      PROVE  FiltersInv'
  <2>1. CASE Purged[f] = NoFilter
    BY <1>2, <2>1, PurgedIs, FiltersShrink DEF ethGetFilterLogs
  <2>2. CASE Purged[f] # NoFilter
    <3>1. filters' = Used(f) /\ UNCHANGED <<poll, polled>>
      BY <1>2, <2>2 DEF ethGetFilterLogs, Used
    <3> QED BY <2>2, <3>1, UsedIs, FiltersShrink
  <2> QED BY <2>1, <2>2
<1>3. CASE Idle
  <2>1. /\ UNCHANGED <<poll, polled>>
        /\ filters' = [f \in FilterIds |-> IF filters[f] = NoFilter THEN NoFilter
                                           ELSE [filters[f] EXCEPT !.idle = TRUE]]
    BY <1>3 DEF Idle
  <2>2. ASSUME NEW f \in FilterIds, filters[f] # NoFilter
        PROVE  /\ filters'[f] \in Filter /\ filters'[f] # NoFilter
               /\ filters'[f].kind = filters[f].kind /\ filters'[f].last = filters[f].last
    <3> DEFINE d == [filters[f] EXCEPT !.idle = TRUE]
    <3>1. filters[f] \in Filter /\ filters'[f] = d
      BY <2>1, <2>2 DEF FiltersInv
    <3>2. d \in Filter /\ d.kind = filters[f].kind /\ d.last = filters[f].last
      BY <3>1 DEF Filter
    <3> HIDE DEF d
    <3> QED BY <3>1, <3>2, FiltersAssumption
  <2>3. \A f \in FilterIds : filters[f] = NoFilter => filters'[f] = NoFilter
    BY <2>1
  <2>4. filters' \in [FilterIds -> Filter \cup {NoFilter}]
    <3>1. \A f \in FilterIds : filters'[f] \in Filter \cup {NoFilter}
      BY <2>2, <2>3
    <3> QED BY <2>1, <3>1
  <2> QED BY <2>1, <2>2, <2>3, <2>4, FiltersShrink
<1> QED
  BY <1>1, <1>2, <1>3, NewFilterKeeps, SnapshotKeeps, ReadTipKeeps, ChangesKeep
  DEF FiltersStep

\* A block is committed: it is above every cursor, and its logs are in memory.
LEMMA CommitServes ==
  ASSUME StoreInv, LogsInv, FiltersInv, Commit
  PROVE  FiltersInv'
<1>1. /\ node = "up" /\ node' = node /\ head' = head + 1
      /\ allLogs' = IF head + 1 \in Logged THEN Append(allLogs, head + 1) ELSE allLogs
      /\ UNCHANGED <<filters, poll, polled>>
  BY DEF Commit, persistBlockLocked, CommitBlockLocked, Readable, filterVars
<1>2. head \in Nat /\ head + 1 \in Nat
  BY SMTT(60) DEF StoreInv
<1>3. /\ Range(allLogs) \subseteq Range(allLogs')
      /\ head + 1 \in Logged => head + 1 \in Range(allLogs')
  <2>1. CASE head + 1 \in Logged
    <3>1. \A x \in Within(Logged, 1, head) : x < head + 1
      BY <1>2, ChainStoreAssumption, SMTT(60) DEF Within
    <3>2. Range(Append(allLogs, head + 1)) = Range(allLogs) \cup {head + 1}
      BY <1>2, <3>1, AppendRises DEF LogsInv
    <3> QED BY <1>1, <2>1, <3>2
  <2>2. CASE head + 1 \notin Logged
    BY <1>1, <2>2
  <2> QED BY <2>1, <2>2
<1>4. ASSUME NEW f \in FilterIds, filters[f] # NoFilter
      PROVE  Served(filters[f], polled[f], Range(allLogs'), head + 1)
  <2>1. Served(filters[f], polled[f], Range(allLogs), head)
    BY <1>4 DEF FiltersInv
  <2>2. polled[f] \in Polled /\ filters[f] \in Filter
    BY <1>4, <2>1 DEF FiltersInv, Served
  <2>3. polled[f].start \in Nat /\ filters[f].last \in Nat
    BY <2>2 DEF Polled, Filter
  <2>4. filters[f].last <= head
    BY <2>1 DEF Served
  <2>5. filters[f].last <= head + 1
    BY <1>2, <2>3, <2>4, SMTT(60)
  <2>6. Within(Logged, polled[f].start + 1, head + 1) \subseteq Range(allLogs')
    <3>1. \A x \in Logged : x <= head + 1 => x <= head \/ x = head + 1
      BY <1>2, ChainStoreAssumption, SMTT(60)
    <3>2. Within(Logged, polled[f].start + 1, head) \subseteq Range(allLogs)
      BY <2>1 DEF Served
    <3> QED BY <1>3, <3>1, <3>2 DEF Within
  <2> QED BY <2>1, <2>5, <2>6 DEF Served
<1>5. ASSUME NEW p \in Polls, poll[p] # NoFilter, filters[poll[p].id] # NoFilter
      PROVE  Current(poll[p], filters[poll[p].id], polled[poll[p].id], head + 1)
  <2>1. Current(poll[p], filters[poll[p].id], polled[poll[p].id], head)
    BY <1>5 DEF FiltersInv
  <2>2. poll[p].last \in Nat /\ (poll[p].tip # Unread => poll[p].tip \in Nat)
    BY <1>5 DEF FiltersInv, Poll
  <2>3. \A x \in Nat : x <= head => x <= head + 1
    BY <1>2, SMTT(60)
  <2> QED BY <2>1, <2>2, <2>3 DEF Current
<1>6. \A p, f : Others(p, f)' = Others(p, f)
  BY <1>1 DEF Others
<1> QED BY <1>1, <1>4, <1>5, <1>6 DEF FiltersInv

\* Every step keeps FiltersInv.
LEMMA FiltersNext ==
  ASSUME StoreInv, LogsInv, PollsAnswer, FiltersInv, [Next]_vars
  PROVE  FiltersInv'
<1>1. ASSUME UNCHANGED <<node, head, allLogs, filters, poll, polled>>
      PROVE  FiltersInv'
  <2>1. \A p, f : Others(p, f)' = Others(p, f)
    BY <1>1 DEF Others
  <2> QED BY <1>1, <2>1 DEF FiltersInv
<1>2. ASSUME FiltersLost
      PROVE  FiltersInv'
  BY <1>2 DEF FiltersLost, FiltersInv
<1>3. CASE Open
  <2>1. node # "up" /\ UNCHANGED <<filters, poll, polled>>
    BY <1>3 DEF Open, CommitGenesis, persistGenesisLocked, openWithDatabase, filterVars
  <2> QED BY <2>1 DEF FiltersInv
<1>4. CASE FilterRequests
  BY <1>4, FiltersKeep DEF FilterRequests
<1>5. CASE WebSocket
  BY <1>1, <1>5, SubscriptionsKeepStore DEF WebSocket, filterVars
<1> QED
  BY <1>1, <1>2, <1>3, <1>4, <1>5, CommitServes DEF Next, Crash, PanicOnCommit, Ingest,
     IngestError, Drips, DripError, vars, chain, filterVars

----------------------------------------------------------------------------
INSTANCE SumTheorems

----------------------------------------------------------------------------
(* The faucet's limits.                                                    *)

\* The requests that took a place of the recipient a's limit in its window w.
Charged(a, w) ==
  {r \in Requests : /\ request[r] # NoRequest /\ request[r].at # "refused"
                    /\ request[r].to = a /\ request[r].window = w}

\* What a's limiter counts in its current window, and allows in those before.
Places(a, w) ==
  IF w = addrLim[a].window THEN addrLim[a].count
  ELSE IF w < addrLim[a].window THEN PerAddress ELSE 0

\* No window has more charged requests than places, and every payment is of a
\* charged request.  The requests that failed keep their places.
LimitInv ==
  /\ \A a \in Addrs : addrLim[a].count <= PerAddress
  /\ \A a \in Addrs, w \in Nat :
       IsFiniteSet(Charged(a, w)) /\ Cardinality(Charged(a, w)) <= Places(a, w)
  /\ \A p \in paid : \E r \in Requests :
       /\ request[r] # NoRequest /\ request[r].at # "refused"
       /\ p = <<r, request[r].to, request[r].window>>

\* The faucet starts without charges.
LEMMA LimitInit ==
  ASSUME Init
  PROVE  LimitInv
<1>1. \A a, w : Charged(a, w) = {}
  BY DEF Init, FaucetInit, Charged
<1>2. \A a \in Addrs : addrLim[a].count = 0 /\ addrLim[a].window = 0 /\ paid = {}
  BY DEF Init, FaucetInit, NoWindow
<1>3. \A a \in Addrs, w \in Nat : Places(a, w) = 0
  BY <1>2, SMTT(60) DEF Places
<1>4. paid = {}
  BY DEF Init, FaucetInit
<1>5. \A a, w : IsFiniteSet(Charged(a, w)) /\ Cardinality(Charged(a, w)) = 0
  BY <1>1, FS_EmptySet
<1> QED
  BY <1>1, <1>2, <1>3, <1>4, <1>5, FaucetAssumption, SMTT(60) DEF LimitInv

\* As long as requests only move on and limiters stay or run out, the charged
\* requests are the same.
LEMMA LimitStays ==
  ASSUME TransfersInv, LimitInv,
         \A a \in Addrs : /\ addrLim'[a].count = addrLim[a].count
                          /\ addrLim'[a].window = addrLim[a].window,
         \A r \in Requests :
           \/ request'[r] = request[r]
           \/ /\ request[r] # NoRequest /\ request'[r] # NoRequest
              /\ request[r].at # "refused" /\ request'[r].at # "refused"
              /\ request'[r].to = request[r].to
              /\ request'[r].window = request[r].window,
         \A p \in paid' : p \in paid \/ \E r \in Requests :
              /\ request[r] # NoRequest /\ request[r].at # "refused"
              /\ p = <<r, request[r].to, request[r].window>>
  PROVE  LimitInv'
<1>1. \A a, w : Charged(a, w)' = Charged(a, w)
  BY DEF Charged
<1>2. \A a \in Addrs, w \in Nat : Places(a, w)' = Places(a, w)
  BY DEF Places
<1>3. \A p \in paid' : \E r \in Requests :
        /\ request'[r] # NoRequest /\ request'[r].at # "refused"
        /\ p = <<r, request'[r].to, request'[r].window>>
  <2> TAKE p \in paid'
  <2>1. PICK r \in Requests :
          /\ request[r] # NoRequest /\ request[r].at # "refused"
          /\ p = <<r, request[r].to, request[r].window>>
    BY DEF LimitInv
  <2> QED
    BY <2>1
<1> QED
  BY <1>1, <1>2, <1>3 DEF LimitInv

\* handleDrip takes one place, in the window or in a new one, for one request.
LEMMA DripTakesPlace ==
  ASSUME TransfersInv, LimitInv, NEW r \in Requests, NEW i \in IPs, NEW a \in Addrs,
         handleDrip(r, i, a)
  PROVE  LimitInv'
<1> DEFINE e == addrLim[a]
           after == IF Allowed(ipLim[i], PerIP) THEN Allow(e, PerAddress) ELSE e
           ok == Allowed(ipLim[i], PerIP) /\ Allowed(e, PerAddress)
           q == [at |-> IF ok THEN "queued" ELSE "refused",
                 to |-> a, window |-> after.window, nonce |-> 0]
<1>1. /\ request[r] = NoRequest /\ request' = [request EXCEPT ![r] = q]
      /\ addrLim' = [addrLim EXCEPT ![a] = after] /\ paid' = paid
  BY DEF handleDrip
<1>2. /\ e \in Limit /\ after \in Limit
      /\ ~ok => after = e
      /\ ok => \/ after.window = e.window + 1 /\ after.count = 1
               \/ /\ after.window = e.window /\ after.count = e.count + 1
                  /\ e.count < PerAddress
  BY AllowCounts, FaucetAssumption DEF TransfersInv
<1>3. /\ q \in Request /\ q # NoRequest /\ q.to = a /\ q.window = after.window
      /\ q.at # "refused" <=> ok
  <2> HIDE DEF after, ok
  <2> QED
    BY <1>2, FaucetAssumption, SMTT(60) DEF Limit, Request
<1> HIDE DEF q, ok, after
<1>4. request'[r] = q /\ \A x \in Requests \ {r} : request'[x] = request[x]
  BY <1>1 DEF TransfersInv
<1>5. addrLim'[a] = after /\ \A b \in Addrs \ {a} : addrLim'[b] = addrLim[b]
  BY <1>1 DEF TransfersInv
<1>6. \A b, w : Charged(b, w)' =
        IF ok /\ b = a /\ w = after.window THEN Charged(b, w) \cup {r} ELSE Charged(b, w)
  BY <1>1, <1>3, <1>4, SMTT(60) DEF Charged
<1>7. r \notin Charged(a, after.window)
  BY <1>1 DEF Charged
<1>8. \A b \in Addrs : addrLim'[b].count <= PerAddress
  <2>1. after.count <= PerAddress
    <3>1. e.count <= PerAddress
      BY DEF LimitInv
    <3>2. e.count \in Nat /\ PerAddress \in Nat \ {0}
      BY <1>2, FaucetAssumption, SMTT(60) DEF Limit
    <3>3. after = e \/ after.count = 1 \/ (after.count = e.count + 1 /\ e.count < PerAddress)
      BY <1>2
    <3> HIDE DEF e
    <3> QED
      BY <3>1, <3>2, <3>3, SMTT(60)
  <2> QED
    BY <2>1, <1>5 DEF LimitInv
<1>9. ASSUME NEW b \in Addrs, NEW w \in Nat
      PROVE  IsFiniteSet(Charged(b, w)') /\ Cardinality(Charged(b, w)') <= Places(b, w)'
  <2>0. /\ IsFiniteSet(Charged(b, w)) /\ Cardinality(Charged(b, w)) <= Places(b, w)
        /\ Cardinality(Charged(b, w)) \in Nat
    BY FS_CardinalityType DEF LimitInv
  <2>1. CASE b # a
    <3>1. Charged(b, w)' = Charged(b, w)
      BY <2>1, <1>6
    <3>2. addrLim'[b] = addrLim[b]
      BY <2>1, <1>5
    <3>3. Places(b, w)' = Places(b, w)
      BY <3>2, SMTT(60) DEF Places
    <3> QED
      BY <3>1, <3>3, <2>0
  <2>2. CASE b = a /\ ~ok
    <3>1. Charged(b, w)' = Charged(b, w) /\ Places(b, w)' = Places(b, w)
      BY <2>2, <1>2, <1>5, <1>6 DEF Places
    <3> QED
      BY <3>1, <2>0
  <2>3. CASE b = a /\ ok /\ w = after.window
    <3>1. /\ Charged(b, w)' = Charged(b, w) \cup {r} /\ Places(b, w)' = after.count
      BY <2>3, <1>5, <1>6 DEF Places
    <3>2. /\ IsFiniteSet(Charged(b, w)')
          /\ Cardinality(Charged(b, w)') = Cardinality(Charged(b, w)) + 1
      <4>1. r \notin Charged(b, w)
        BY <2>3, <1>7
      <4>2. /\ IsFiniteSet(Charged(b, w) \cup {r})
            /\ Cardinality(Charged(b, w) \cup {r}) = Cardinality(Charged(b, w)) + 1
        BY <2>0, <4>1, FS_AddElement
      <4> QED
        BY <3>1, <4>2
    <3>3. Places(b, w) + 1 = after.count /\ Places(b, w) \in Nat
      BY <2>3, <1>2, SMTT(60) DEF Places, Limit
    <3> QED
      BY <3>1, <3>2, <3>3, <2>0, SMTT(60)
  <2>4. CASE b = a /\ ok /\ w # after.window
    <3>1. Charged(b, w)' = Charged(b, w)
      BY <2>4, <1>6
    <3>2. Places(b, w) <= Places(b, w)' /\ Places(b, w) \in Nat /\ Places(b, w)' \in Nat
      <4>1. /\ e.window \in Nat /\ e.count \in Nat /\ after.window \in Nat
            /\ PerAddress \in Nat
        BY <1>2, FaucetAssumption, SMTT(60) DEF Limit
      <4>2. e.count <= PerAddress
        BY DEF LimitInv
      <4>3. after.window = e.window + 1 \/ after.window = e.window
        BY <1>2, <2>4
      <4>4. /\ Places(b, w) = IF w = e.window THEN e.count
                             ELSE IF w < e.window THEN PerAddress ELSE 0
            /\ Places(b, w)' = IF w < after.window THEN PerAddress ELSE 0
        BY <2>4, <1>5 DEF Places
      <4> DEFINE n == e.count
                 v == e.window
                 u == after.window
      <4>5. w # u
        BY <2>4
      <4> HIDE DEF e, n, v, u
      <4>6. CASE w = v
        BY <4>1, <4>2, <4>3, <4>4, <4>5, <4>6, SMTT(60) DEF n, v, u
      <4>7. CASE w # v
        BY <4>1, <4>3, <4>4, <4>5, <4>7, SMTT(60) DEF n, v, u
      <4> QED
        BY <4>6, <4>7
    <3> QED
      BY <3>1, <3>2, <2>0, SMTT(60)
  <2> QED
    BY <2>1, <2>2, <2>3, <2>4
<1>10. \A p \in paid' : \E x \in Requests :
        /\ request'[x] # NoRequest /\ request'[x].at # "refused"
        /\ p = <<x, request'[x].to, request'[x].window>>
  <2> TAKE p \in paid'
  <2>1. PICK x \in Requests :
          /\ request[x] # NoRequest /\ request[x].at # "refused"
          /\ p = <<x, request[x].to, request[x].window>>
    BY <1>1 DEF LimitInv
  <2>2. x # r
    BY <2>1, <1>1
  <2> QED
    BY <2>1, <2>2, <1>4
<1> QED
  BY <1>8, <1>9, <1>10 DEF LimitInv

\* Every step keeps LimitInv.
LEMMA LimitStep ==
  ASSUME TransfersInv, LimitInv, [Next]_vars
  PROVE  LimitInv'
<1>1. ASSUME UNCHANGED <<addrLim, request, paid>>
      PROVE  LimitInv'
  BY <1>1, LimitStays
<1>2. ASSUME NEW r \in Requests, request[r] # NoRequest, request[r].at # "refused",
             NEW step \in {"balance", "nonce", "send", "done", "failed"},
             \/ To(r, step)
             \/ request' = [request EXCEPT ![r].at = "send", ![r].nonce = Len(mined)],
             UNCHANGED addrLim,
             \/ paid' = paid
             \/ paid' = paid \cup {<<r, request[r].to, request[r].window>>}
      PROVE  LimitInv'
  <2>1. /\ \A x \in Requests \ {r} : request'[x] = request[x]
        /\ request'[r] # NoRequest /\ request'[r].at # "refused"
        /\ request'[r].to = request[r].to /\ request'[r].window = request[r].window
    <3>1. CASE To(r, step)
      BY <3>1, <1>2, RequestMoves, FaucetAssumption DEF TransfersInv
    <3>2. CASE request' = [request EXCEPT ![r].at = "send", ![r].nonce = Len(mined)]
      <4> DEFINE q == [request[r] EXCEPT !.at = "send", !.nonce = Len(mined)]
      <4>1. request' = [request EXCEPT ![r] = q] /\ request[r] \in Request
        BY <3>2, <1>2 DEF TransfersInv
      <4>2. /\ q \in Request /\ q.at = "send"
            /\ q.to = request[r].to /\ q.window = request[r].window
        <5>1. Len(mined) \in Nat
          BY SMTT(60) DEF TransfersInv
        <5> QED
          BY <4>1, <5>1 DEF Request
      <4> HIDE DEF q
      <4> QED
        BY <4>1, <4>2, FaucetAssumption DEF TransfersInv
    <3> QED
      BY <3>1, <3>2, <1>2
  <2> QED
    BY <1>2, <2>1, LimitStays
<1>3. CASE Drips \/ DripError
  <2>1. ASSUME NEW r \in Requests, NEW i \in IPs, NEW a \in Addrs, handleDrip(r, i, a)
        PROVE  LimitInv'
    BY <2>1, DripTakesPlace
  <2>2. ASSUME NEW r \in Requests, Lock(r) \/ CheckBalance(r) \/ Nonce(r) \/ DripFails(r)
        PROVE  LimitInv'
    BY <2>2, <1>2 DEF Lock, CheckBalance, Nonce, DripFails, Holding, At
  <2>3. ASSUME NEW r \in Requests, SendRaw(r)
        PROVE  LimitInv'
    BY <2>3, <1>2 DEF SendRaw, At
  <2>4. CASE WindowOver
    <3>1. \A a \in Addrs : /\ addrLim'[a].count = addrLim[a].count
                           /\ addrLim'[a].window = addrLim[a].window
      BY <2>4, WindowEnds DEF TransfersInv
    <3>2. UNCHANGED <<request, paid>>
      BY <2>4 DEF WindowOver
    <3> QED
      BY <3>1, <3>2, LimitStays
  <2> QED
    BY <1>3, <2>1, <2>2, <2>3, <2>4 DEF Drips, DripError, FaucetStep
<1> QED
  BY <1>1, <1>3 DEF Next, Open, Commit, Crash, PanicOnCommit, Mine, PoolLost,
     FilterRequests, WebSocket, Ingest, IngestError, vars, faucetVars

\* The recipient's limit holds in every window, whatever fails or times out.
THEOREM LimitsHold == Spec => []PaymentsWithinLimit
<1>1. TransfersInv /\ [Next]_vars => TransfersInv'
  BY TransfersStep
<1>2. TransfersInv /\ LimitInv /\ [Next]_vars => LimitInv'
  BY LimitStep
<1>3. ASSUME TransfersInv, LimitInv
      PROVE  PaymentsWithinLimit
  <2> SUFFICES ASSUME NEW p \in paid
               PROVE  Cardinality({q \in paid : q[2] = p[2] /\ q[3] = p[3]}) <= PerAddress
    BY DEF PaymentsWithinLimit
  <2>1. PICK r \in Requests :
          /\ request[r] # NoRequest /\ request[r].at # "refused"
          /\ p = <<r, request[r].to, request[r].window>>
    BY <1>3 DEF LimitInv
  <2>2. PICK a \in Addrs, w \in Nat : p[2] = a /\ p[3] = w
    BY <1>3, <2>1 DEF TransfersInv, Request
  <2> DEFINE Q == {q \in paid : q[2] = a /\ q[3] = w}
             f == [q \in Q |-> q[1]]
  <2>3. \A q \in Q : q[1] \in Charged(a, w) /\ q = <<q[1], a, w>>
    BY <1>3, SMTT(60) DEF LimitInv, Charged
  <2>4. f \in Injection(Q, Charged(a, w))
    BY <2>3 DEF Injection, IsInjective
  <2>5. /\ IsFiniteSet(Charged(a, w)) /\ Cardinality(Charged(a, w)) <= Places(a, w)
        /\ Places(a, w) <= PerAddress /\ Places(a, w) \in Nat
    BY <1>3, FaucetAssumption, SMTT(60) DEF LimitInv, TransfersInv, Limit, Places
  <2>6. /\ Cardinality(Q) <= Cardinality(Charged(a, w)) /\ IsFiniteSet(Q)
    BY <2>4, <2>5, FS_Injection
  <2> HIDE DEF Q
  <2>7. Cardinality(Q) \in Nat /\ Cardinality(Charged(a, w)) \in Nat
    BY <2>5, <2>6, FS_CardinalityType
  <2>8. Cardinality(Q) <= PerAddress
    BY <2>5, <2>6, <2>7, FaucetAssumption, SMTT(60)
  <2> QED
    BY <2>2, <2>8 DEF Q
<1> QED
  BY <1>1, <1>2, <1>3, TransfersInit, LimitInit, PTL DEF Spec

----------------------------------------------------------------------------
(* Walks over sequences.                                                   *)

\* f has what is taken after each step of a walk over q.
IsWalk(f, q, S, T) ==
  /\ f \in [0 .. Len(q) -> Seq(T)]
  /\ f[0] = <<>>
  /\ \A k \in 1 .. Len(q) :
       f[k] = IF q[k] \in S THEN Append(f[k - 1], q[k]) ELSE f[k - 1]

\* Keep is a walk to the end.
LEMMA KeepIs ==
  ASSUME NEW T, NEW q \in Seq(T), NEW S
  PROVE  \E f : IsWalk(f, q, S, T) /\ Keep(q, S) = f[Len(q)]
<1> DEFINE n == Len(q)
           Step(r, k) == IF q[k] \in S THEN Append(r, q[k]) ELSE r
           Body(h, k) == IF k = 0 THEN <<>>
                         ELSE IF q[k] \in S THEN Append(h[k - 1], q[k]) ELSE h[k - 1]
           Is(h) == h = [k \in 0 .. n |-> Body(h, k)]
           f == CHOOSE h : Is(h)
           G == [k \in 1 .. n |-> [r \in Seq(T) |-> Step(r, k)]]
<1>1. n \in Nat /\ \A k \in 1 .. n : q[k] \in T
  BY SMTT(60)
<1>2. << >> \in Seq(T)
  BY SMTT(60)
<1>3. \A r \in Seq(T), k \in 1 .. n : Step(r, k) \in Seq(T)
  BY <1>1, SMTT(60)
<1>4. Keep(q, S) = f[n]
  BY DEF Keep
<1>5. PICK h : Follows(h, <<>>, G, n, Seq(T))
  <2>1. AreSteps(G, n, Seq(T))
    BY <1>1, <1>3 DEF AreSteps
  <2> HIDE DEF G
  <2> QED BY <1>2, <2>1, StepsExist
<1> HIDE DEF n
<1>6. /\ 0 \in 0 .. n
      /\ \A k \in 1 .. n : k \in 0 .. n /\ k - 1 \in 0 .. n /\ k # 0
      /\ \A k \in 0 .. n : k = 0 \/ k \in 1 .. n
  BY <1>1, SMTT(60)
<1>7. h \in [0 .. n -> Seq(T)] /\ h[0] = <<>>
  BY <1>5 DEF Follows
<1>8. \A k \in 1 .. n : h[k] = Step(h[k - 1], k)
  BY <1>5, <1>6, <1>7 DEF Follows
<1>9. Is(h)
  <2>1. \A k \in 0 .. n : h[k] = Body(h, k)
    BY <1>6, <1>7, <1>8
  <2> HIDE DEF Body
  <2> QED BY <1>7, <2>1
<1>10. Is(f)
  BY <1>9
<1> HIDE DEF f, G
<1>11. f[0] = <<>> /\ \A k \in 1 .. n : f[k] = Step(f[k - 1], k)
  BY <1>6, <1>10
<1>12. f \in [0 .. n -> Seq(T)]
  <2> DEFINE U == {k \in 0 .. n : f[k] \in Seq(T)}
  <2>1. 0 \in U
    BY <1>2, <1>6, <1>11
  <2>2. ASSUME NEW k \in 1 .. n, k - 1 \in U PROVE k \in U
    <3>1. Step(f[k - 1], k) \in Seq(T)
      BY <1>3, <2>2
    <3> QED BY <1>6, <1>11, <3>1
  <2> HIDE DEF U
  <2>3. \A k \in 0 .. n : k \in U
    BY <1>1, <2>1, <2>2, UpTo
  <2>4. \A k \in 0 .. n : f[k] \in Seq(T)
    BY <2>3 DEF U
  <2> HIDE DEF Body
  <2> QED BY <2>4, <1>10
<1> QED BY <1>4, <1>11, <1>12 DEF IsWalk, n

\* Keep takes what is in S and nothing else, once and in order.
LEMMA KeepPicks ==
  ASSUME NEW T, NEW q \in Seq(T), NEW S
  PROVE  /\ Keep(q, S) \in Seq(T)
         /\ \E g : Picks(g, Keep(q, S), q, S, Len(q))
<1>1. PICK f : IsWalk(f, q, S, T) /\ Keep(q, S) = f[Len(q)]
  BY KeepIs
<1> DEFINE n == Len(q)
           U == {k \in 0 .. n : \E g : Picks(g, f[k], q, S, k)}
<1>2. n \in Nat /\ \A k \in 1 .. n : q[k] \in T
  BY SMTT(60)
<1>3. 0 \in U
  <2>1. Len(f[0]) = 0 /\ 1 .. 0 = {} /\ 0 \in 0 .. n
    BY <1>1, <1>2, SMTT(60) DEF IsWalk
  <2> DEFINE g == [i \in 1 .. 0 |-> i]
  <2>2. Picks(g, f[0], q, S, 0)
    BY <2>1 DEF Picks
  <2> QED BY <2>1, <2>2
<1>4. ASSUME NEW k \in 1 .. n, k - 1 \in U PROVE k \in U
  <2>1. /\ k - 1 \in 0 .. n /\ k \in 0 .. n /\ f[k - 1] \in Seq(T) /\ k \in Nat
        /\ f[k] = IF q[k] \in S THEN Append(f[k - 1], q[k]) ELSE f[k - 1]
    BY <1>1, <1>2, SMTT(60) DEF IsWalk
  <2>2. PICK g : Picks(g, f[k - 1], q, S, k - 1)
    BY <1>4
  <2>3. CASE q[k] \notin S
    <3>1. Picks(g, f[k], q, S, k)
      BY <2>1, <2>2, <2>3, SMTT(60) DEF Picks
    <3> QED BY <2>1, <3>1
  <2>4. CASE q[k] \in S
    <3> DEFINE K == f[k - 1]
               m == Len(K)
               h == [i \in 1 .. m + 1 |-> IF i <= m THEN g[i] ELSE k]
    <3>1. /\ f[k] = Append(K, q[k]) /\ m \in Nat /\ Len(f[k]) = m + 1
          /\ f[k][m + 1] = q[k] /\ \A i \in 1 .. m : f[k][i] = K[i]
      BY <2>1, <2>4, <1>2, SMTT(60)
    <3>2. /\ g \in [1 .. m -> 1 .. k - 1]
          /\ \A i \in 1 .. m : K[i] = q[g[i]] /\ K[i] \in S
          /\ \A i, j \in 1 .. m : i < j => g[i] < g[j]
          /\ \A l \in 1 .. k - 1 : q[l] \in S => \E i \in 1 .. m : g[i] = l
      BY <2>2 DEF Picks
    <3> HIDE DEF m, K
    <3>3. h \in [1 .. m + 1 -> 1 .. k]
      BY <2>1, <3>1, <3>2, SMTT(60)
    <3>4. \A i \in 1 .. m + 1 : f[k][i] = q[h[i]] /\ f[k][i] \in S
      BY <2>1, <2>4, <3>1, <3>2, SMTT(60)
    <3>5. \A i, j \in 1 .. m + 1 : i < j => h[i] < h[j]
      BY <2>1, <3>1, <3>2, SMTT(60)
    <3>6. \A l \in 1 .. k : q[l] \in S => \E i \in 1 .. m + 1 : h[i] = l
      <4>1. h[m + 1] = k /\ m + 1 \in 1 .. m + 1
        BY <2>1, <3>1, SMTT(60)
      <4>2. \A i \in 1 .. m : i \in 1 .. m + 1 /\ h[i] = g[i]
        BY <3>1, SMTT(60)
      <4>3. \A l \in 1 .. k : l = k \/ l \in 1 .. k - 1
        BY <2>1, SMTT(60)
      <4> HIDE DEF h
      <4> QED BY <3>2, <4>1, <4>2, <4>3
    <3> HIDE DEF h
    <3>7. Picks(h, f[k], q, S, k)
      BY <3>1, <3>3, <3>4, <3>5, <3>6 DEF Picks
    <3> QED BY <2>1, <3>7
  <2> QED BY <2>3, <2>4
<1> HIDE DEF U
<1>5. \A k \in 0 .. n : k \in U
  BY <1>2, <1>3, <1>4, UpTo
<1>6. n \in 0 .. n
  BY <1>2, SMTT(60)
<1>7. f[n] \in Seq(T)
  BY <1>1, <1>6 DEF IsWalk
<1> QED BY <1>1, <1>5, <1>6, <1>7 DEF U

\* A walk over a rising sequence keeps a rising one.
LEMMA KeepRises ==
  ASSUME NEW q \in Seq(Nat), Rises(q), NEW S
  PROVE  /\ Keep(q, S) \in Seq(Nat)
         /\ Rises(Keep(q, S))
         /\ Range(Keep(q, S)) = Range(q) \cap S
<1> DEFINE K == Keep(q, S)
<1>1. K \in Seq(Nat)
  BY KeepPicks
<1>2. PICK g : Picks(g, K, q, S, Len(q))
  BY KeepPicks
<1> HIDE DEF K
<1>3. DOMAIN K = 1 .. Len(K) /\ DOMAIN q = 1 .. Len(q)
  BY <1>1, SMTT(60)
<1>4. Rises(K)
  <2> SUFFICES ASSUME NEW i \in 1 .. Len(K), NEW j \in 1 .. Len(K), i < j PROVE K[i] < K[j]
    BY <1>3 DEF Rises
  <2>1. /\ K[i] = q[g[i]] /\ K[j] = q[g[j]] /\ g[i] < g[j]
        /\ g[i] \in DOMAIN q /\ g[j] \in DOMAIN q
    BY <1>2, <1>3 DEF Picks
  <2> QED BY <2>1 DEF Rises
<1>5. Range(K) \subseteq Range(q) \cap S
  BY <1>2, <1>3 DEF Picks, Range
<1>6. Range(q) \cap S \subseteq Range(K)
  <2> SUFFICES ASSUME NEW k \in DOMAIN q, q[k] \in S PROVE q[k] \in Range(K)
    BY DEF Range
  <2>1. PICK i \in 1 .. Len(K) : g[i] = k
    BY <1>2, <1>3 DEF Picks
  <2>2. K[i] = q[k]
    BY <1>2, <2>1 DEF Picks
  <2> QED BY <1>3, <2>2 DEF Range
<1> QED BY <1>1, <1>4, <1>5, <1>6 DEF K

\* A set of blocks in ascending order.
LEMMA AscendingIs ==
  ASSUME NEW S
  PROVE  /\ Ascending(S) \in Seq(Nat)
         /\ Rises(Ascending(S))
         /\ Range(Ascending(S)) = S \cap 1 .. MaxBlock
<1> DEFINE q == [b \in 1 .. MaxBlock |-> b]
<1>1. q \in Seq(Nat) /\ Rises(q)
  BY ChainStoreAssumption, SMTT(60) DEF Rises
<1>2. Range(q) = 1 .. MaxBlock
  BY DEF Range
<1> HIDE DEF q
<1>3. Ascending(S) = Keep(q, S)
  BY DEF Ascending, q
<1>4. /\ Keep(q, S) \in Seq(Nat) /\ Rises(Keep(q, S))
      /\ Range(Keep(q, S)) = Range(q) \cap S
  BY <1>1, KeepRises
<1> QED BY <1>2, <1>3, <1>4

\* What rises twice, without meeting, has nothing twice.
LEMMA JoinInjective ==
  ASSUME NEW a \in Seq(Nat), NEW b \in Seq(Nat), Rises(a), Rises(b),
         \A x \in Range(a) : x \notin Range(b)
  PROVE  IsInjective(a \o b)
<1>1. /\ Len(a) \in Nat /\ Len(b) \in Nat
      /\ DOMAIN (a \o b) = 1 .. Len(a) + Len(b)
      /\ DOMAIN a = 1 .. Len(a) /\ DOMAIN b = 1 .. Len(b)
      /\ \A i \in 1 .. Len(a) : (a \o b)[i] = a[i] /\ a[i] \in Nat
      /\ \A i \in 1 .. Len(b) : (a \o b)[Len(a) + i] = b[i] /\ b[i] \in Nat
  BY SMTT(60)
<1> DEFINE c == a \o b
<1> HIDE DEF c
<1>2. ASSUME NEW i \in DOMAIN c, NEW j \in DOMAIN c, i < j PROVE c[i] # c[j]
  <2>1. CASE j \in 1 .. Len(a)
    <3>1. i \in 1 .. Len(a)
      BY <1>1, <1>2, <2>1, SMTT(60) DEF c
    <3>2. a[i] < a[j] /\ a[i] \in Nat /\ a[j] \in Nat
      BY <1>1, <1>2, <2>1, <3>1 DEF Rises
    <3>3. a[i] # a[j]
      BY <3>2, SMTT(60)
    <3> QED BY <1>1, <2>1, <3>1, <3>3 DEF c
  <2>2. CASE i \in 1 .. Len(a) /\ j \notin 1 .. Len(a)
    <3>1. PICK k \in 1 .. Len(b) : j = Len(a) + k
      <4>1. j - Len(a) \in 1 .. Len(b) /\ j = Len(a) + (j - Len(a))
        BY <1>1, <1>2, <2>2, SMTT(60) DEF c
      <4> QED BY <4>1
    <3>2. a[i] \in Range(a) /\ b[k] \in Range(b)
      BY <1>1, <2>2, <3>1 DEF Range
    <3> QED BY <1>1, <2>2, <3>1, <3>2 DEF c
  <2>3. CASE i \notin 1 .. Len(a)
    <3>1. PICK k \in 1 .. Len(b), l \in 1 .. Len(b) : i = Len(a) + k /\ j = Len(a) + l /\ k < l
      <4>1. /\ j - Len(a) \in 1 .. Len(b) /\ j = Len(a) + (j - Len(a))
            /\ i - Len(a) \in 1 .. Len(b) /\ i = Len(a) + (i - Len(a))
            /\ i - Len(a) < j - Len(a)
        BY <1>1, <1>2, <2>3, SMTT(60) DEF c
      <4> QED BY <4>1
    <3>2. b[k] < b[l] /\ b[k] \in Nat /\ b[l] \in Nat
      BY <1>1, <3>1 DEF Rises
    <3>3. b[k] # b[l]
      BY <3>2, SMTT(60)
    <3> QED BY <1>1, <3>1, <3>3 DEF c
  <2> QED BY <2>1, <2>2, <2>3
<1>3. \A i, j \in DOMAIN c : i = j \/ i < j \/ j < i
  BY <1>1, SMTT(60) DEF c
<1> QED BY <1>2, <1>3 DEF IsInjective, c

----------------------------------------------------------------------------
(* Answers.                                                                *)

\* FilterLogs: the answer has each log of the range once; and in order, if all
\* of the range's are in memory.
LEMMA FilterLogsIs ==
  ASSUME StoreInv, LogsInv, node = "up", NEW from \in Nat, NEW to \in Nat
  PROVE  /\ FilterLogs(from, to) \in Seq(Nat)
         /\ Range(FilterLogs(from, to))
              = Within(Logged, from, IF to < head THEN to ELSE head)
         /\ IsInjective(FilterLogs(from, to))
         /\ Within(Logged, from, head) \subseteq Range(allLogs)
              => Rises(FilterLogs(from, to))
<1> DEFINE a == Keep(allLogs, from .. to)
           S == Within(disk.index, from, to) \ Range(a)
           b == Ascending(S)
           top == IF to < head THEN to ELSE head
<1>1. disk.marked /\ disk.index = (0 .. head) \cap Logged /\ head \in Nat
  BY DEF StoreInv
<1>2. FilterLogs(from, to) = a \o b
  BY <1>1 DEF FilterLogs
<1>3. a \in Seq(Nat) /\ Rises(a) /\ Range(a) = Range(allLogs) \cap from .. to
  BY KeepRises DEF LogsInv
<1>4. b \in Seq(Nat) /\ Rises(b) /\ Range(b) = S \cap 1 .. MaxBlock
  BY AscendingIs
<1>5. Within(disk.index, from, to) = Within(Logged, from, top)
  <2>1. \A x \in Logged : x \in 0 .. head /\ from <= x /\ x <= to <=> from <= x /\ x <= top
    BY <1>1, ChainStoreAssumption, SMTT(60)
  <2> QED BY <1>1, <2>1 DEF Within
<1>6. Range(a) \subseteq Within(Logged, from, top)
  <2>1. \A x \in Within(Logged, 1, head) : x \in from .. to => x \in Within(Logged, from, top)
    BY <1>1, ChainStoreAssumption, SMTT(60) DEF Within
  <2> HIDE DEF a, top
  <2> QED BY <1>3, <2>1 DEF LogsInv
<1>7. Within(Logged, from, top) \subseteq 1 .. MaxBlock
  BY ChainStoreAssumption DEF Within
<1> HIDE DEF a, b, top
<1>8. Range(b) = Within(Logged, from, top) \ Range(a)
  BY <1>4, <1>5, <1>7
<1>9. Range(a \o b) = Range(a) \cup Range(b)
  BY <1>3, <1>4, JoinRange
<1>10. Range(a \o b) = Within(Logged, from, top)
  BY <1>6, <1>8, <1>9
<1>11. IsInjective(a \o b)
  BY <1>3, <1>4, <1>8, JoinInjective
<1>12. a \o b \in Seq(Nat)
  BY <1>3, <1>4, SMTT(60)
<1>13. ASSUME Within(Logged, from, head) \subseteq Range(allLogs) PROVE Rises(a \o b)
  <2>1. \A x \in Within(Logged, from, top) : x \in Within(Logged, from, head) /\ x \in from .. to
    BY <1>1, ChainStoreAssumption, SMTT(60) DEF Within, top
  <2>2. Range(b) = {}
    BY <1>3, <1>8, <1>13, <2>1
  <2> QED BY <1>3, <1>4, <2>2, JoinRises
<1> QED BY <1>2, <1>10, <1>11, <1>12, <1>13 DEF top

\* Every log query is complete and has no log twice.
THEOREM LogQueriesAreComplete == Spec => []LogsAreComplete
<1>1. StoreInv /\ [Next]_vars => StoreInv'
  BY StoreStep
<1>2. StoreInv /\ LogsInv /\ [Next]_vars => LogsInv'
  BY LogsStep
<1>3. ASSUME StoreInv, LogsInv PROVE LogsAreComplete
  <2>1. \A from \in 1 .. MaxBlock : from \in Nat
    BY ChainStoreAssumption, SMTT(60)
  <2> QED BY <1>3, <2>1, FilterLogsIs DEF LogsAreComplete
<1> QED
  BY <1>1, <1>2, <1>3, StoreInit, LogsInit, PTL DEF Spec

\* A poll answers what is asked for between its cursor and the head it read, in
\* order.
LEMMA ChangesAre ==
  ASSUME StoreInv, LogsInv, node = "up", NEW q \in Poll, q.tip # Unread,
         q.last <= q.tip, q.tip <= head,
         Within(Logged, q.last + 1, head) \subseteq Range(allLogs)
  PROVE  /\ Changes(q) \in Seq(Nat) /\ Rises(Changes(q))
         /\ Range(Changes(q)) = Asked(q.kind, q.last + 1, q.tip)
<1>1. q.kind \in Kinds /\ q.last \in Nat /\ q.tip \in Nat /\ q.last + 1 \in Nat
  BY SMTT(60) DEF Poll
<1>2. head \in Nat /\ head <= MaxBlock /\ disk.blocks = 0 .. head
  BY DEF StoreInv
<1>3. CASE q.kind = "pending"
  <2>1. Changes(q) = <<>> /\ Asked(q.kind, q.last + 1, q.tip) = {}
    BY <1>3 DEF Changes, Asked
  <2>2. << >> \in Seq(Nat) /\ DOMAIN << >> = {}
    BY SMTT(60)
  <2> QED BY <2>1, <2>2 DEF Rises, Range
<1>4. CASE q.kind = "blocks"
  <2> DEFINE S == {b \in (q.last + 1) .. q.tip : GetBlockByNumber(b)}
  <2>1. Changes(q) = Ascending(S) /\ Asked(q.kind, q.last + 1, q.tip) = (q.last + 1) .. q.tip
    BY <1>4 DEF Changes, Asked
  <2>2. \A b \in (q.last + 1) .. q.tip : b \in 0 .. head /\ b \in 1 .. MaxBlock
    BY <1>1, <1>2, ChainStoreAssumption, SMTT(60)
  <2>3. S \cap 1 .. MaxBlock = (q.last + 1) .. q.tip
    BY <1>2, <2>2 DEF GetBlockByNumber
  <2> HIDE DEF S
  <2> QED BY <2>1, <2>3, AscendingIs
<1>5. CASE q.kind = "logs"
  <2>1. /\ Changes(q) = FilterLogs(q.last + 1, q.tip)
        /\ Asked(q.kind, q.last + 1, q.tip) = Within(Logged, q.last + 1, q.tip)
    BY <1>5 DEF Changes, Asked
  <2>2. (IF q.tip < head THEN q.tip ELSE head) = q.tip
    BY <1>1, <1>2, SMTT(60)
  <2> QED BY <1>1, <2>1, <2>2, FilterLogsIs
<1> QED BY <1>1, <1>3, <1>4, <1>5 DEF Kinds

\* An answer is a sequence of blocks.
LEMMA ChangesType ==
  ASSUME StoreInv, LogsInv, node = "up", NEW q \in Poll, q.tip \in Nat
  PROVE  Changes(q) \in Seq(Nat)
<1>1. q.kind \in Kinds /\ q.last + 1 \in Nat /\ << >> \in Seq(Nat)
  BY SMTT(60) DEF Poll
<1>2. CASE q.kind = "pending"
  BY <1>1, <1>2 DEF Changes
<1>3. CASE q.kind = "blocks"
  BY <1>3, AscendingIs DEF Changes
<1>4. CASE q.kind = "logs"
  BY <1>1, <1>4, FilterLogsIs DEF Changes
<1> QED BY <1>1, <1>2, <1>3, <1>4 DEF Kinds

\* Every poll is answered so.
LEMMA PollsAreAnswered ==
  ASSUME StoreInv, LogsInv
  PROVE  PollsAnswer
<1> SUFFICES ASSUME node = "up", NEW q \in Poll, q.tip # Unread PROVE Answers(q)
  BY DEF PollsAnswer
<1>1. q.tip \in Nat
  BY DEF Poll
<1> QED BY <1>1, ChangesAre, ChangesType DEF Answers

\* Whatever is committed or polled in between, polling misses nothing.
THEOREM PollingMissesNothing == Spec => []PollsMissNothing
<1>1. StoreInv /\ [Next]_vars => StoreInv'
  BY StoreStep
<1>2. StoreInv /\ LogsInv /\ [Next]_vars => LogsInv'
  BY LogsStep
<1>3. StoreInv /\ LogsInv /\ FiltersInv /\ [Next]_vars => FiltersInv'
  BY FiltersNext, PollsAreAnswered
<1>4. FiltersInv => PollsMissNothing
  BY DEF FiltersInv, Served, PollsMissNothing, Installed
<1> QED
  BY <1>1, <1>2, <1>3, <1>4, StoreInit, LogsInit, FiltersStart, PTL DEF Spec

\* Whatever is committed, subscribed, written or dropped meanwhile, and through
\* closing, crashes and restarts, notes follow the chain.
THEOREM NotesStayInOrder == Spec => []NotesFollowTheChain
<1>1. StoreInv /\ [Next]_vars => StoreInv'
  BY StoreStep
<1>2. StoreInv /\ StoreInv' /\ ConnsInv /\ [Next]_vars => ConnsInv'
  BY ConnsNext
<1>3. WalksKeep
  BY KeepPicks, KeepRises DEF WalksKeep
<1>4. StoreInv /\ ConnsInv => NotesFollowTheChain
  BY <1>3, ConnsTell
<1> QED
  BY <1>1, <1>2, <1>4, StoreInit, ConnsStart, PTL DEF Spec

=============================================================================
