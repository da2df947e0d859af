------------------------------ MODULE Filters -------------------------------
(***************************************************************************)
(* HTTP polling filters (rpc/filter.go) over the chain a node serves.  A   *)
(* poll takes a snapshot of the filter under the store's lock, reads the   *)
(* head and the blocks under the node's, and moves the cursor under the    *)
(* store's again; polls run at the same time and blocks are committed in   *)
(* between.  Filters live in memory and go with the process.               *)
(***************************************************************************)
EXTENDS ChainStore

CONSTANTS
  FilterIds,   \* random in the code, so an id is used once
  Polls,       \* requests that may be served at the same time
  MaxFilters,
  NoFilter

VARIABLES
  filters,   \* the installed filters, see Filter, or NoFilter
  poll,      \* the polls in progress, see Poll, or NoFilter
  polled     \* ghost, per filter, see Polled, or NoFilter

filterVars == <<filters, poll, polled>>

Kinds == {"logs", "blocks", "pending"}
Unread == -1   \* the poll has not read the head yet

Filter == [kind : Kinds, last : Nat, idle : BOOLEAN]
Poll == [id : FilterIds, kind : Kinds, last : Nat, tip : Nat \cup {Unread}]
Polled == [start : Nat, got : SUBSET Nat, exact : BOOLEAN, overlapped : BOOLEAN]

ASSUME FiltersAssumption ==
  MaxFilters \in Nat \ {0} /\ NoFilter \notin Filter \cup Poll \cup Polled

FiltersInit ==
  /\ filters = [f \in FilterIds |-> NoFilter]
  /\ poll = [p \in Polls |-> NoFilter]
  /\ polled = [f \in FilterIds |-> NoFilter]

Installed == {f \in FilterIds : filters[f] # NoFilter}

\* purgeExpiredLocked: filters nobody asked for in FilterIdleTTL go.
Purged == [f \in FilterIds |->
            IF filters[f] # NoFilter /\ filters[f].idle THEN NoFilter
            ELSE filters[f]]

Kept == {f \in FilterIds : Purged[f] # NoFilter}

\* ethNewFilter, ethNewBlockFilter, ethNewPendingTransactionFilter: the cursor
\* starts at the head.  A full store refuses; the purge stays.
NewFilter(f, kind) ==
  /\ Readable
  /\ polled[f] = NoFilter
  /\ IF Cardinality(Kept) >= MaxFilters
     THEN filters' = Purged /\ UNCHANGED polled
     ELSE /\ filters' = [Purged EXCEPT ![f] =
                           [kind |-> kind, last |-> head, idle |-> FALSE]]
          /\ polled' = [polled EXCEPT ![f] =
                          [start |-> head, got |-> {}, exact |-> TRUE,
                           overlapped |-> FALSE]]
  /\ UNCHANGED poll

\* ethUninstallFilter.
Uninstall(f) ==
  /\ node = "up"
  /\ polled[f] # NoFilter
  /\ filters' = [Purged EXCEPT ![f] = NoFilter]
  /\ UNCHANGED <<poll, polled>>

\* ethGetFilterLogs: the answer is FilterLogs over the filter's own range; the
\* filter counts as used and its cursor stays.
ethGetFilterLogs(f) ==
  /\ Readable
  /\ polled[f] # NoFilter
  /\ filters' = IF Purged[f] = NoFilter THEN Purged
                ELSE [Purged EXCEPT ![f].idle = FALSE]
  /\ UNCHANGED <<poll, polled>>

Others(p, f) == {q \in Polls \ {p} : poll[q] # NoFilter /\ poll[q].id = f}

\* ethGetFilterChanges up to the end of snapshot.
Snapshot(p, f) ==
  /\ node = "up"
  /\ poll[p] = NoFilter
  /\ polled[f] # NoFilter
  /\ IF Purged[f] = NoFilter
     THEN filters' = Purged /\ UNCHANGED <<poll, polled>>
     ELSE /\ filters' = [Purged EXCEPT ![f].idle = FALSE]
          /\ poll' = [poll EXCEPT ![p] =
                        [id |-> f, kind |-> filters[f].kind,
                         last |-> filters[f].last, tip |-> Unread]]
          /\ polled' = IF Others(p, f) = {} THEN polled
                       ELSE [polled EXCEPT ![f].overlapped = TRUE]

\* The head is read once; blocks up to it do not change any more.
ReadTip(p) ==
  /\ Readable
  /\ poll[p] # NoFilter
  /\ poll[p].tip = Unread
  /\ poll' = [poll EXCEPT ![p].tip = head]
  /\ UNCHANGED <<filters, polled>>

\* What a poll answers.
Changes(q) ==
  CASE q.kind = "pending" -> <<>>
    [] q.kind = "blocks" ->
         Ascending({b \in (q.last + 1) .. q.tip : GetBlockByNumber(b)})
    [] q.kind = "logs" -> FilterLogs(q.last + 1, q.tip)

\* The answer goes on, in order, where the answers before it ended.
GoesOn(answer, before) ==
  /\ \A i, j \in DOMAIN answer : i < j => answer[i] < answer[j]
  /\ \A i \in DOMAIN answer, b \in before : b < answer[i]

\* Mutant: the cursor moves to the head of that moment.
AdvanceToHead(f, tip) ==
  filters' = IF filters[f] = NoFilter THEN filters
             ELSE [filters EXCEPT ![f].last = head, ![f].idle = FALSE]

\* advance: the cursor moves to the head the poll has read, even backwards.
Advance(f, tip) ==
  filters' = IF filters[f] = NoFilter THEN filters
             ELSE [filters EXCEPT ![f].last = tip, ![f].idle = FALSE]

\* The rest of ethGetFilterChanges: the blocks are read, the cursor moves and
\* the client has its answer.
ethGetFilterChanges(p) ==
  /\ Readable
  /\ poll[p] # NoFilter
  /\ poll[p].tip # Unread
  /\ Advance(poll[p].id, poll[p].tip)
  /\ LET answer == Changes(poll[p])
         before == polled[poll[p].id].got
     IN  polled' = [polled EXCEPT
           ![poll[p].id].got = @ \cup Range(answer),
           ![poll[p].id].exact = @ /\ GoesOn(answer, before)]
  /\ poll' = [poll EXCEPT ![p] = NoFilter]

\* FilterIdleTTL passes without a request.
Idle ==
  /\ \E f \in Installed : ~filters[f].idle
  /\ filters' = [f \in FilterIds |->
                   IF filters[f] = NoFilter THEN NoFilter
                   ELSE [filters[f] EXCEPT !.idle = TRUE]]
  /\ UNCHANGED <<poll, polled>>

\* The process ends.  A client that polls an old id is told it is not found.
FiltersLost ==
  /\ filters' = [f \in FilterIds |-> NoFilter]
  /\ poll' = [p \in Polls |-> NoFilter]
  /\ UNCHANGED polled

FiltersStep ==
  \/ \E f \in FilterIds, k \in Kinds : NewFilter(f, k)
  \/ \E f \in FilterIds : Uninstall(f) \/ ethGetFilterLogs(f)
  \/ \E p \in Polls, f \in FilterIds : Snapshot(p, f)
  \/ \E p \in Polls : ReadTip(p) \/ ethGetFilterChanges(p)
  \/ Idle

----------------------------------------------------------------------------

Asked(kind, from, to) ==
  CASE kind = "pending" -> {}
    [] kind = "blocks" -> from .. to
    [] kind = "logs" -> Within(Logged, from, to)

\* ethGetFilterChanges: nothing between a filter's installation and its cursor
\* is missed, whatever is committed or polled in between; and a client that
\* polls one request at a time gets it once and in the order of the chain.
\* (Polls of one filter that overlap may answer the same blocks twice.)
PollsMissNothing ==
  \A f \in Installed :
    LET g == polled[f]
        due == Asked(filters[f].kind, g.start + 1, filters[f].last)
    IN  /\ due \subseteq g.got
        /\ ~g.overlapped => g.exact /\ g.got = due
=============================================================================
