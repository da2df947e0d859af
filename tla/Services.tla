------------------------------ MODULE Services ------------------------------
(***************************************************************************)
(* A node and the services that follow its chain: HTTP filters and         *)
(* WebSocket subscriptions inside the node's process, the indexer and the  *)
(* faucet as processes of their own.  They meet only in the node: each     *)
(* block it commits, each fan-out it holds its lock for, each time it goes *)
(* down and comes back.  A deployment is the set of services in use.       *)
(***************************************************************************)
EXTENDS Filters, Subscriptions, Indexer, Faucet

CONSTANT Deployments   \* records [use, database, blocks, faults]

ASSUME ServicesAssumption ==
  \A d \in Deployments : /\ d.database \in {Fresh, Old}
                         /\ d.blocks \in Nat /\ d.faults \in Nat

VARIABLES
  deployed,   \* the deployment, one of Deployments
  faults      \* crashes and failed calls still to come

vars == <<chain, filterVars, wsVars, indexerVars, faucetVars, deployed, faults>>

Uses(service) == service \in deployed.use

Init ==
  /\ deployed \in Deployments
  /\ faults = deployed.faults
  /\ ChainInit(deployed.database)
  /\ FiltersInit
  /\ SubscriptionsInit
  /\ IndexerInit
  /\ FaucetInit

----------------------------------------------------------------------------
(* The node.                                                               *)

Open ==
  /\ CommitGenesis \/ persistGenesisLocked \/ openWithDatabase
  /\ UNCHANGED <<filterVars, wsVars, indexerVars, faucetVars, deployed, faults>>

Commit ==
  /\ head < deployed.blocks
  /\ persistBlockLocked(Registered)
  /\ IF Uses("faucet") THEN Mine ELSE UNCHANGED faucetVars
  /\ UNCHANGED <<filterVars, wsVars, indexerVars, deployed, faults>>

Fault == faults > 0 /\ faults' = faults - 1

\* Filters, connections and the pool go with the process.
Crash ==
  /\ Fault
  /\ node # "down"
  /\ Down
  /\ FiltersLost
  /\ ConnsLost
  /\ PoolLost
  /\ UNCHANGED <<indexerVars, deployed>>

PanicOnCommit ==
  /\ Panic
  /\ FiltersLost
  /\ PoolLost
  /\ UNCHANGED <<indexerVars, deployed, faults>>

----------------------------------------------------------------------------
(* The services.                                                           *)

FilterRequests ==
  /\ Uses("filters")
  /\ FiltersStep
  /\ UNCHANGED <<chain, wsVars, indexerVars, faucetVars, deployed, faults>>

WebSocket ==
  /\ Uses("ws")
  /\ SubscriptionsStep
  /\ UNCHANGED <<filterVars, indexerVars, faucetVars, deployed, faults>>

Ingest ==
  /\ Uses("indexer")
  /\ IndexerStep
  /\ UNCHANGED <<chain, filterVars, wsVars, faucetVars, deployed, faults>>

IngestError ==
  /\ Fault
  /\ IngestFails
  /\ UNCHANGED <<chain, filterVars, wsVars, faucetVars, deployed>>

Drips ==
  /\ Uses("faucet")
  /\ FaucetStep
  /\ UNCHANGED <<chain, filterVars, wsVars, indexerVars, deployed, faults>>

DripError ==
  /\ Fault
  /\ \E r \in Requests : DripFails(r)
  /\ UNCHANGED <<chain, filterVars, wsVars, indexerVars, deployed>>

Next ==
  \/ Open \/ Commit \/ Crash \/ PanicOnCommit
  \/ FilterRequests \/ WebSocket \/ Ingest \/ IngestError \/ Drips \/ DripError

\* The process manager restarts the node and Open ends; a fan-out, which only
\* has non-blocking sends, ends; the indexer's ticker fires; an answer is
\* enqueued and a connection that is being closed goes on to the end; and once
\* the read deadline of a connection without a writer has passed (nothing
\* extends it any more), its reader's next read fails, so requests in between
\* do not keep it alive: strong fairness.
Fairness ==
  /\ WF_vars(Open)
  /\ WF_vars(PanicOnCommit \/ (WebSocket /\ \E c \in Conns : Emit(c)))
  /\ WF_vars(Ingest)
  /\ \A c \in Conns :
       /\ WF_vars(WebSocket /\ (Answer(c) \/ Closing(c)))
       /\ SF_vars(WebSocket /\ ~conn[c].writer /\ Hangup(c))

Spec == Init /\ [][Next]_vars /\ Fairness

\* RunIngest and catchUp: once blocks stop coming and nothing fails any more,
\* the index reaches the head, also after a restart of the node and from more
\* than MaxBlocksPerTick blocks behind.
IndexCatchesUp == <>[](Uses("indexer") => last = disk.tip)
=============================================================================
