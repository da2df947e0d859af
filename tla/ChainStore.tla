----------------------------- MODULE ChainStore -----------------------------
(***************************************************************************)
(* The chain a node keeps and serves: opening the database (node/open.go), *)
(* writing a block (node/persist.go), the log index (node/logindex.go),    *)
(* log queries (FilterLogs) and the fan-out of chain events                *)
(* (node/events.go).                                                       *)
(*                                                                         *)
(* Consensus has decided the chain, so a block is its number; Logged are   *)
(* the blocks whose transactions left a log a client asks for.  The maps   *)
(* of blocks, lookups and receipts in memory are read-through caches of    *)
(* keys that are written once, so they are not state of their own.         *)
(* Everything but the fan-out runs under n.mu: a client's read waits for   *)
(* the fan-out to end (Readable), while subscribing does not.              *)
(***************************************************************************)
EXTENDS Integers, Sequences, FiniteSets, Functions

CONSTANTS
  Logged,     \* the blocks that have a log
  OldTip,     \* the tip of a database written before the log index existed
  MaxBlock,   \* bound: no block above it
  Conns       \* WebSocket connections, the subscribers of chain events

ASSUME ChainStoreAssumption ==
  MaxBlock \in Nat /\ OldTip \in 0 .. MaxBlock /\ Logged \subseteq 1 .. MaxBlock

VARIABLES
  node,     \* "down", "opening" or "up"
  disk,     \* the database, see Fresh
  head,     \* number of n.header
  allLogs,  \* blocks whose logs are in memory, in the order they were added
  emit      \* subscribers the current event has still to be sent to

chain == <<node, disk, head, allLogs, emit>>

\* An empty database.  meta: the meta keys are there; state: the block whose
\* state the leaves hold, -1 for none; tip; blocks: those with header, body,
\* receipts and lookups; index: those with log-index keys; marked: the
\* log-index version is written.
Fresh == [meta |-> FALSE, state |-> -1, tip |-> 0, blocks |-> {},
          index |-> {}, marked |-> FALSE]

Old == [meta |-> TRUE, state |-> OldTip, tip |-> OldTip,
        blocks |-> 0 .. OldTip, index |-> {}, marked |-> FALSE]

\* open: subscribers still to be sent to; shut: those among them whose channel
\* has been closed in the meantime.
Silent == [open |-> {}, shut |-> {}]

ChainInit(database) ==
  /\ disk = database
  /\ node = "down"
  /\ head = 0
  /\ allLogs = <<>>
  /\ emit = Silent

Emitting == emit # Silent
Readable == node = "up" /\ ~Emitting

----------------------------------------------------------------------------
(* Opening.                                                                *)

\* newNodeFromGenesisDB up to Genesis.Commit: the state of block 0 is written.
CommitGenesis ==
  /\ node = "down"
  /\ ~disk.meta
  /\ node' = "opening"
  /\ disk' = [disk EXCEPT !.state = 0]
  /\ UNCHANGED <<head, allLogs, emit>>

\* persistGenesisLocked: meta keys, block 0, tip and index version in one batch.
persistGenesisLocked ==
  /\ node = "opening"
  /\ node' = "up"
  /\ disk' = [disk EXCEPT !.meta = TRUE, !.tip = 0, !.blocks = {0},
                          !.marked = TRUE]
  /\ head' = 0
  /\ allLogs' = <<>>
  /\ UNCHANGED emit

\* Mutant: only the tip's receipts are scanned, as only the tip is hydrated.
RebuildLogIndexTipOnly(d) ==
  [d EXCEPT !.index = {d.tip} \cap Logged, !.marked = TRUE]

\* rebuildLogIndex: the keys of every stored receipt's logs and the version,
\* in one batch.
RebuildLogIndex(d) ==
  [d EXCEPT !.index = @ \cup (d.blocks \cap Logged), !.marked = TRUE]

EnsureLogIndex(d) == IF d.marked THEN d ELSE RebuildLogIndex(d)

\* openWithDatabase on a database with meta keys: hydrateLocked needs the tip
\* block and brings back nothing else.
openWithDatabase ==
  /\ node = "down"
  /\ disk.meta
  /\ disk.tip \in disk.blocks
  /\ node' = "up"
  /\ head' = disk.tip
  /\ allLogs' = <<>>
  /\ disk' = EnsureLogIndex(disk)
  /\ UNCHANGED emit

----------------------------------------------------------------------------
(* Committing a block.                                                     *)

\* What FlushDirtyTo and writeChainKeys put for block b.
WriteBlock(d, b) ==
  [d EXCEPT !.state = b, !.tip = b, !.blocks = @ \cup {b},
            !.index = @ \cup ({b} \cap Logged), !.marked = TRUE]

\* commitBlockLocked up to the snapshot emitChainEventLocked takes of the
\* subscribers subs.
CommitBlockLocked(b, subs) ==
  /\ head' = b
  /\ allLogs' = IF b \in Logged THEN Append(allLogs, b) ELSE allLogs
  /\ emit' = [open |-> subs, shut |-> {}]

\* Mutant: state and chain keys in two writes, with a crash between them.
persistBlockLockedTwoWrites(subs) ==
  /\ Readable
  /\ head < MaxBlock
  /\ \/ /\ disk' = WriteBlock(disk, head + 1)
        /\ CommitBlockLocked(head + 1, subs)
        /\ UNCHANGED node
     \/ /\ disk' = [disk EXCEPT !.state = head + 1]
        /\ node' = "down"
        /\ UNCHANGED <<head, allLogs, emit>>

\* Mutant: blocks without logs are not announced.
persistBlockLockedQuiet(subs) ==
  /\ Readable
  /\ head < MaxBlock
  /\ disk' = WriteBlock(disk, head + 1)
  /\ CommitBlockLocked(head + 1, IF head + 1 \in Logged THEN subs ELSE {})
  /\ UNCHANGED node

\* persistBlockLocked: one batch, then the memory, then the events.
persistBlockLocked(subs) ==
  /\ Readable
  /\ head < MaxBlock
  /\ disk' = WriteBlock(disk, head + 1)
  /\ CommitBlockLocked(head + 1, subs)
  /\ UNCHANGED node

\* The process ends: memory is gone, an unfinished Open is started over.
Down ==
  /\ node' = "down"
  /\ head' = 0
  /\ allLogs' = <<>>
  /\ emit' = Silent
  /\ UNCHANGED disk

----------------------------------------------------------------------------
(* Reading.                                                                *)

GetBlockByNumber(b) == b \in disk.blocks

Within(S, from, to) == {b \in S : from <= b /\ b <= to}

\* A walk over q that takes what is in S.
Keep(q, S) ==
  LET taken[k \in 0 .. Len(q)] ==
        IF k = 0 THEN <<>>
        ELSE IF q[k] \in S THEN Append(taken[k - 1], q[k])
        ELSE taken[k - 1]
  IN  taken[Len(q)]

Ascending(S) == Keep([b \in 1 .. MaxBlock |-> b], S)

\* FilterLogs: what is in memory, then what only the index has (the receipts,
\* if there is no index), each in its own order.
FilterLogs(from, to) ==
  LET stored == IF disk.marked THEN disk.index ELSE disk.blocks \cap Logged
      recent == Keep(allLogs, from .. to)
  IN  recent \o Ascending(Within(stored, from, to) \ Range(recent))

----------------------------------------------------------------------------
(* What the database and the log queries promise.                          *)

\* persistBlockLocked and openWithDatabase: whenever the process stops, the
\* database holds one block's state, that block is the tip, and every block
\* below it is stored, so Open can always go on from it.
DatabaseIsOneBlock ==
  disk.meta => /\ disk.state = disk.tip
               /\ disk.blocks = 0 .. disk.tip
               /\ node = "up" => head = disk.tip

\* FilterLogs: a range is answered with each log of its blocks exactly once,
\* whether the block was committed before or after the last start and whether
\* or not the database is older than the log index.
LogsAreComplete ==
  node = "up" =>
    \A from \in 1 .. MaxBlock, to \in 1 .. MaxBlock :
      LET answer == FilterLogs(from, to)
      IN  /\ Range(answer) = Within(Logged, from, IF to < head THEN to ELSE head)
          /\ IsInjective(answer)
=============================================================================
