--------------------------- MODULE Subscriptions ----------------------------
(***************************************************************************)
(* eth_subscribe over WebSocket (rpc/ws.go) on the events of the chain     *)
(* (node/events.go).  A connection has a reader, which serves requests and *)
(* closes it, a pump that turns chain events into notes for each of its    *)
(* subscriptions, and a writer.  The event channel and the send queue are  *)
(* bounded and drop what does not fit, answers included.                   *)
(*                                                                         *)
(* Closing runs beside a fan-out in progress: the fan-out works on a copy  *)
(* of the subscribers, and a send on a channel closed meanwhile panics on  *)
(* the commit path, which ends the process (emit.shut).                    *)
(***************************************************************************)
EXTENDS ChainStore

CONSTANTS
  SubIds,                     \* random in the code, so an id is used once
  MaxWSConnections,
  MaxWSSubscriptionsPerConn,
  EventBuf, SendBuf,          \* capacities of the two queues
  NoSub

VARIABLES
  conn,     \* per connection, see Unused
  wsConns,  \* the server's count of connections
  subs      \* ghost, per subscription, see Sub, or NoSub

wsVars == <<conn, wsConns, subs>>

\* at: "none", "checked" (limit passed, upgrading), "open", "closed" (flag set),
\* "unsubscribed"; ids: c.subs; reply: the reader has a request to answer;
\* events: the channel; left: subscriptions the event at hand has still to be
\* dispatched to; send: the queue of notes [id, blk], blk 0 for an answer;
\* writer: the writer runs; lost (ghost): something was dropped.
Unused == [at |-> "none", ids |-> {}, reply |-> FALSE, events |-> <<>>,
           ev |-> 0, left |-> {}, send |-> <<>>, writer |-> FALSE,
           lost |-> FALSE]

Ended == [kind |-> "ended", since |-> 0, got |-> <<>>]

Note == [id : SubIds \cup {NoSub}, blk : Nat]
Conn == [at : {"none", "checked", "open", "closed", "unsubscribed"},
         ids : SUBSET SubIds, reply : BOOLEAN, events : Seq(Nat), ev : Nat,
         left : SUBSET SubIds, send : Seq(Note), writer : BOOLEAN,
         lost : BOOLEAN]
Sub == [kind : {"newHeads", "logs", "ended"}, since : Nat, got : Seq(Nat)]

ASSUME SubscriptionsAssumption ==
  /\ MaxWSConnections \in Nat \ {0} /\ MaxWSSubscriptionsPerConn \in Nat \ {0}
  /\ EventBuf \in Nat \ {0} /\ SendBuf \in Nat \ {0}
  /\ NoSub \notin SubIds \cup Sub

SubscriptionsInit ==
  /\ conn = [c \in Conns |-> Unused]
  /\ wsConns = 0
  /\ subs = [s \in SubIds |-> NoSub]

\* eventSubs: connections that are registered for chain events.
Registered == {c \in Conns : conn[c].at \in {"open", "closed"}}

WSUnchanged == UNCHANGED <<chain, wsConns, subs>>

----------------------------------------------------------------------------
(* Opening and closing.                                                    *)

\* serveWS up to the upgrade: the limit is read, not taken.
serveWS(c) ==
  /\ node = "up"
  /\ conn[c].at = "none"
  /\ wsConns < MaxWSConnections
  /\ conn' = [conn EXCEPT ![c].at = "checked"]
  /\ WSUnchanged

\* The upgrade fails, or the connection is counted and registered.
Upgrade(c) ==
  /\ conn[c].at = "checked"
  /\ \/ conn' = [conn EXCEPT ![c] = Unused] /\ UNCHANGED wsConns
     \/ /\ conn' = [conn EXCEPT ![c] = [Unused EXCEPT !.at = "open",
                                                      !.writer = TRUE]]
        /\ wsConns' = wsConns + 1
  /\ UNCHANGED <<chain, subs>>

\* Mutant: the reader has no deadline and only ends with the client, which a
\* writer that ended did not take along.
HangupByClient(c) ==
  /\ conn[c].at = "open"
  /\ ~conn[c].reply
  /\ conn[c].writer
  /\ conn' = [conn EXCEPT ![c].at = "closed"]
  /\ WSUnchanged

\* The reader ends: the client is gone, or no pong came in wsPongWait.
Hangup(c) ==
  /\ conn[c].at = "open"
  /\ ~conn[c].reply
  /\ conn' = [conn EXCEPT ![c].at = "closed"]
  /\ WSUnchanged

\* close: unsubChain takes the registration out and closes the channel.
unsubChain(c) ==
  /\ conn[c].at = "closed"
  /\ conn' = [conn EXCEPT ![c].at = "unsubscribed"]
  /\ emit' = [emit EXCEPT !.open = @ \ {c},
                          !.shut = IF c \in emit.open THEN @ \cup {c} ELSE @]
  /\ UNCHANGED <<node, disk, head, allLogs, wsConns, subs>>

\* The rest of close, and serveWS returns.
Closed(c) ==
  /\ conn[c].at = "unsubscribed"
  /\ conn' = [conn EXCEPT ![c] = Unused]
  /\ wsConns' = wsConns - 1
  /\ subs' = [s \in SubIds |-> IF s \in conn[c].ids THEN Ended ELSE subs[s]]
  /\ UNCHANGED chain

----------------------------------------------------------------------------
(* Requests.                                                               *)

Full(c) == Cardinality(conn[c].ids) >= MaxWSSubscriptionsPerConn

\* subscribe, under c.mu: refused at the limit; otherwise the id is in place
\* before the client knows it.
subscribe(c, s, kind) ==
  /\ conn[c].at = "open"
  /\ ~conn[c].reply
  /\ subs[s] = NoSub
  /\ IF Full(c)
     THEN conn' = [conn EXCEPT ![c].reply = TRUE] /\ UNCHANGED subs
     ELSE /\ conn' = [conn EXCEPT ![c].ids = @ \cup {s}, ![c].reply = TRUE]
          /\ subs' = [subs EXCEPT ![s] =
                        [kind |-> kind, since |-> head, got |-> <<>>]]
  /\ UNCHANGED <<chain, wsConns>>

\* unsubscribe; an id the connection does not have is answered, too.
unsubscribe(c, s) ==
  /\ conn[c].at = "open"
  /\ ~conn[c].reply
  /\ subs[s] # NoSub
  /\ conn' = [conn EXCEPT ![c].ids = @ \ {s}, ![c].reply = TRUE]
  /\ subs' = IF s \in conn[c].ids THEN [subs EXCEPT ![s] = Ended] ELSE subs
  /\ UNCHANGED <<chain, wsConns>>

\* enqueueJSON: nothing once the connection is closed; dropped if it is full.
Enqueued(r, note) ==
  IF r.at # "open" THEN r
  ELSE IF Len(r.send) < SendBuf THEN [r EXCEPT !.send = Append(@, note)]
  ELSE [r EXCEPT !.lost = TRUE]

\* handleMessage: the answer of the request is enqueued.
Answer(c) ==
  /\ conn[c].reply
  /\ LET r == Enqueued(conn[c], [id |-> NoSub, blk |-> 0])
     IN  conn' = [conn EXCEPT ![c] = [r EXCEPT !.reply = FALSE]]
  /\ WSUnchanged

----------------------------------------------------------------------------
(* Events.                                                                 *)

\* emitChainEventLocked, one send: dropped when the channel is full.
Emit(c) ==
  /\ c \in emit.open
  /\ emit' = [emit EXCEPT !.open = @ \ {c}]
  /\ conn' = IF Len(conn[c].events) < EventBuf
             THEN [conn EXCEPT ![c].events = Append(@, head)]
             ELSE [conn EXCEPT ![c].lost = TRUE]
  /\ UNCHANGED <<node, disk, head, allLogs, wsConns, subs>>

Wanted(s, b) == subs[s].kind = "newHeads" \/ b \in Logged

\* eventPump takes the next event and dispatchEvent copies the subscriptions.
eventPump(c) ==
  /\ conn[c].at = "open"
  /\ conn[c].left = {}
  /\ conn[c].events # <<>>
  /\ conn' = [conn EXCEPT
                ![c].ev = Head(conn[c].events),
                ![c].events = Tail(@),
                ![c].left = {s \in conn[c].ids : Wanted(s, Head(conn[c].events))}]
  /\ WSUnchanged

\* dispatchEvent, one subscription; the map is walked in any order.
dispatchEvent(c, s) ==
  /\ s \in conn[c].left
  /\ LET r == Enqueued(conn[c], [id |-> s, blk |-> conn[c].ev])
     IN  conn' = [conn EXCEPT ![c] = [r EXCEPT !.left = r.left \ {s}]]
  /\ WSUnchanged

\* writePump sends the oldest note.
writePump(c) ==
  /\ conn[c].at = "open"
  /\ conn[c].writer
  /\ conn[c].send # <<>>
  /\ conn' = [conn EXCEPT ![c].send = Tail(@)]
  /\ LET note == Head(conn[c].send)
     IN  subs' = IF note.blk = 0 \/ subs[note.id] = Ended THEN subs
                 ELSE [subs EXCEPT ![note.id].got = Append(@, note.blk)]
  /\ UNCHANGED <<chain, wsConns>>

\* A write fails: the writer ends and leaves the connection to the reader,
\* whose deadline nothing extends any more.
WriteFails(c) ==
  /\ conn[c].at = "open"
  /\ conn[c].writer
  /\ conn' = [conn EXCEPT ![c].writer = FALSE]
  /\ WSUnchanged

ConnsLost ==
  /\ conn' = [c \in Conns |-> Unused]
  /\ wsConns' = 0
  /\ subs' = [s \in SubIds |-> IF subs[s] = NoSub THEN NoSub ELSE Ended]

\* The send on a closed channel: the process ends.
Panic ==
  /\ emit.shut # {}
  /\ Down
  /\ ConnsLost

Pumps(c) == eventPump(c) \/ writePump(c) \/ \E s \in SubIds : dispatchEvent(c, s)
Closing(c) == unsubChain(c) \/ Closed(c)

SubscriptionsStep ==
  \E c \in Conns :
    \/ serveWS(c) \/ Upgrade(c) \/ Hangup(c) \/ Closing(c)
    \/ \E s \in SubIds : \/ \E k \in {"newHeads", "logs"} : subscribe(c, s, k)
                         \/ unsubscribe(c, s)
    \/ Answer(c) \/ Emit(c) \/ Pumps(c) \/ WriteFails(c)

----------------------------------------------------------------------------

\* The blocks subscription s of connection c was told of, and those on their
\* way to it: queued, being dispatched, in the channel, being sent.
Told(c, s) ==
  LET r == conn[c]
      notes == Keep(r.send, {[id |-> s, blk |-> b] : b \in 1 .. MaxBlock})
  IN  subs[s].got
        \o [i \in DOMAIN notes |-> notes[i].blk]
        \o (IF s \in r.left THEN <<r.ev>> ELSE <<>>)
        \o Keep(r.events, {b \in 1 .. MaxBlock : Wanted(s, b)})
        \o (IF c \in emit.open /\ Wanted(s, head) THEN <<head>> ELSE <<>>)

\* emitChainEventLocked, eventPump, dispatchEvent and writePump: as long as no
\* queue overflowed, a subscription is told of every block committed after it
\* was made, in order, once, and without a gap; an overflow loses notes and
\* never reorders or repeats them.
NotesFollowTheChain ==
  \A c \in Conns : \A s \in conn[c].ids :
    LET told == Told(c, s)
        first == IF told = <<>> \/ told[1] > subs[s].since
                 THEN subs[s].since + 1 ELSE told[1]
    IN  conn[c].at = "open" =>
          /\ \A i, j \in DOMAIN told : i < j => told[i] < told[j]
          /\ ~conn[c].lost =>
               Range(told) = {b \in first .. head : Wanted(s, b)}

\* writePump and readPump: a connection whose writer has ended is given up,
\* and its place is free again.
DeadConnectionsEnd ==
  \A c \in Conns : (conn[c].at = "open" /\ ~conn[c].writer) ~> conn[c].at = "none"
=============================================================================
