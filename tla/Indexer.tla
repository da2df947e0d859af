------------------------------ MODULE Indexer -------------------------------
(***************************************************************************)
(* The history indexer (indexer/ingest.go, indexer/store.go): a process of *)
(* its own that follows a node over JSON-RPC and keeps its rows in SQLite. *)
(* A tick reads the head, then indexes block after block; the rows of a    *)
(* block and last_indexed_block are one SQL transaction.                   *)
(***************************************************************************)
EXTENDS ChainStore

CONSTANTS
  StartBlock,
  MaxBlocksPerTick

ASSUME IndexerAssumption ==
  StartBlock \in Nat /\ MaxBlocksPerTick \in Nat \ {0}

VARIABLES
  ingest,   \* the ingest loop: [at, tip, next, n]
  rows,     \* blocks whose rows are committed
  last      \* last_indexed_block, NoMeta while the key is missing

indexerVars == <<ingest, rows, last>>

NoMeta == -1
Waiting == [at |-> "tick", tip |-> 0, next |-> 0, n |-> 0]

IndexerInit ==
  /\ ingest = Waiting
  /\ rows = {}
  /\ last = NoMeta

\* Mutant: the head itself is left for later.
catchUpBelowHead ==
  /\ Readable
  /\ ingest.at = "tick"
  /\ LET next == IF last = NoMeta THEN StartBlock ELSE last + 1
     IN  /\ next < head
         /\ ingest' = [at |-> "loop", tip |-> head - 1, next |-> next, n |-> 0]
  /\ UNCHANGED <<rows, last>>

\* catchUp up to the loop: eth_blockNumber, then the first block to index.
catchUp ==
  /\ Readable
  /\ ingest.at = "tick"
  /\ LET next == IF last = NoMeta THEN StartBlock ELSE last + 1
     IN  /\ next <= head
         /\ ingest' = [at |-> "loop", tip |-> head, next |-> next, n |-> 0]
  /\ UNCHANGED <<rows, last>>

\* indexBlock up to the SQL transaction: eth_getBlockByNumber.
getBlock ==
  /\ Readable
  /\ ingest.at = "loop"
  /\ GetBlockByNumber(ingest.next)
  /\ ingest' = [ingest EXCEPT !.at = "insert"]
  /\ UNCHANGED <<rows, last>>

\* The loop after a block: up to the head that was read, within the tick.
Onward ==
  IF ingest.next + 1 <= ingest.tip /\ ingest.n + 1 < MaxBlocksPerTick
  THEN [ingest EXCEPT !.at = "loop", !.next = @ + 1, !.n = @ + 1]
  ELSE Waiting

\* Mutant: last_indexed_block is written on its own, before the rows.
indexBlockMetaFirst ==
  /\ Readable
  /\ ingest.at = "insert"
  /\ \/ last' = ingest.next /\ rows' = rows \cup {ingest.next} /\ ingest' = Onward
     \/ last' = ingest.next /\ rows' = rows /\ ingest' = Waiting

\* The rest of indexBlock: the receipts are fetched, the block, transaction
\* and transfer rows and last_indexed_block are committed.
indexBlock ==
  /\ Readable
  /\ ingest.at = "insert"
  /\ rows' = rows \cup {ingest.next}
  /\ last' = ingest.next
  /\ ingest' = Onward

\* A call fails, the database is locked or the process restarts: the
\* transaction is rolled back and the next tick starts over.
IngestFails ==
  /\ ingest.at # "tick"
  /\ ingest' = Waiting
  /\ UNCHANGED <<rows, last>>

IndexerStep == catchUp \/ getBlock \/ indexBlock

----------------------------------------------------------------------------

\* catchUp and indexBlock: across failures and restarts of either process, the
\* rows are those of StartBlock up to last_indexed_block without a gap, and no
\* row is of a block the node could still lose.
RowsHaveNoGap ==
  /\ rows = IF last = NoMeta THEN {} ELSE StartBlock .. last
  /\ rows \subseteq disk.blocks
=============================================================================
