--------------------------- MODULE NetworkProofs ----------------------------
(***************************************************************************)
(* Proofs about the sessions of any number of hosts with any number of     *)
(* connections, dials that cross and faults; and about gossip over any     *)
(* network of them.                                                        *)
(***************************************************************************)
EXTENDS Sessions, Gossip, TLAPS

\* A leaf is for Zenon unless it names another prover.
USE ZenonT(90)

----------------------------------------------------------------------------
(* Sessions.                                                               *)

\* A connection joins two hosts, and both are somewhere in its life.
Proper(k) == k \in Connection /\ k.from # k.to /\ k.st \in [{k.from, k.to} -> Stage]

\* The inductive invariant of TableIsExact.
SessionInv ==
    /\ net \in Networks
    /\ conn \in [Conns -> Connection \cup {NoConn}]
    /\ active \in [Nodes -> [Nodes -> Conns \cup {NoConn}]]
    /\ \A c \in Live : Proper(conn[c])
    /\ ActiveIsOwned

\* The hosts start without sessions.
LEMMA SessionInit ==
    ASSUME Init
    PROVE  SessionInv
BY SessionAssumption DEF Init, SessionInv, Live, ActiveIsOwned

\* One connection changes, no end becomes or ceases to be active: a connection
\* that goes away has no active end.
LEMMA OneChanges ==
    ASSUME SessionInv, NEW c \in Live, NEW k, conn' = [conn EXCEPT ![c] = k],
           \/ /\ k = NoConn
              /\ \A x \in Ends(c) : conn[c].st[x] # "active"
           \/ /\ Proper(k) /\ {k.from, k.to} = Ends(c)
              /\ \A x \in Ends(c) : k.st[x] = "active" <=> conn[c].st[x] = "active",
           UNCHANGED <<net, active>>
    PROVE  SessionInv'
<1>1. c \in Conns /\ Proper(conn[c])
    BY DEF Live, SessionInv
<1>2. conn' \in [Conns -> Connection \cup {NoConn}]
    BY DEF SessionInv, Proper
<1>3. conn'[c] = k /\ \A d \in Conns \ {c} : conn'[d] = conn[d]
    BY <1>1 DEF SessionInv
<1>4. \A d \in Live' : Proper(conn'[d])
    BY <1>3 DEF SessionInv, Live
<1>5. ASSUME NEW n \in Nodes, NEW m \in Nodes, NEW d \in Conns
      PROVE  active[n][m] = d <=>
                /\ d \in Live' /\ n # m
                /\ Ends(d)' = {n, m} /\ conn'[d].st[n] = "active"
    <2>1. active[n][m] = d <=>
                /\ d \in Live /\ n # m
                /\ Ends(d) = {n, m} /\ conn[d].st[n] = "active"
        BY SMTT(60) DEF SessionInv, ActiveIsOwned
    <2>2. CASE d # c
        BY <2>1, <2>2, <1>3 DEF Live, Ends
    <2>3. CASE d = c /\ k = NoConn
        <3>1. ~(Ends(c) = {n, m} /\ conn[c].st[n] = "active")
            BY <2>3, SessionAssumption, <1>1 DEF Proper
        <3> QED
            BY <3>1, <2>1, <2>3, <1>3 DEF Live
    <2>4. CASE d = c /\ k # NoConn
        BY <2>1, <2>4, <1>1, <1>3 DEF Live, Ends
    <2> QED
        BY <2>2, <2>3, <2>4
<1> QED
    BY <1>2, <1>4, <1>5, SMTT(60) DEF SessionInv, ActiveIsOwned

\* Shut: what becomes of the connection of an end that closes.
LEMMA ShutEnds ==
    ASSUME SessionInv, NEW c \in Live, NEW n \in Ends(c), Shut(c, n)
    PROVE  \E k : /\ conn' = [conn EXCEPT ![c] = k]
                  /\ \/ k = NoConn /\ conn[c].st[Other(c, n)] = "closed"
                     \/ /\ Proper(k) /\ {k.from, k.to} = Ends(c)
                        /\ k.st[n] = "closed"
                        /\ k.st[Other(c, n)] = conn[c].st[Other(c, n)]
<1>1. c \in Conns /\ Proper(conn[c]) /\ conn \in [Conns -> Connection \cup {NoConn}]
    BY DEF Live, SessionInv
<1>2. Other(c, n) # n /\ Ends(c) = {n, Other(c, n)}
    BY <1>1, SMTT(60) DEF Other, Ends, Proper
<1> DEFINE s == [conn[c].st EXCEPT ![n] = "closed"]
           k == [conn[c] EXCEPT !.open = FALSE, !.st = s]
<1>3. /\ s \in [{conn[c].from, conn[c].to} -> Stage] /\ s[n] = "closed"
      /\ s[Other(c, n)] = conn[c].st[Other(c, n)]
    BY <1>1, <1>2 DEF Proper, Ends, Stage
<1> HIDE DEF s
<1>4. /\ k \in Connection /\ k.st = s /\ k.from = conn[c].from /\ k.to = conn[c].to
    <2>1. s \in UNION {[ends -> Stage] : ends \in SUBSET Nodes}
        BY <1>1, <1>3, SMTT(60) DEF Proper, Connection
    <2>2. conn[c] \in Connection
        BY <1>1 DEF Proper
    <2> QED
        BY <2>1, <2>2 DEF Connection
<1>5. \/ /\ conn' = [conn EXCEPT ![c] = NoConn]
         /\ conn[c].st[Other(c, n)] = "closed"
      \/ conn' = [conn EXCEPT ![c] = k]
    BY <1>1 DEF Shut, Proper, Connection, s
<1> HIDE DEF k
<1>6. Proper(k) /\ {k.from, k.to} = Ends(c)
    BY <1>1, <1>3, <1>4 DEF Proper, Ends
<1> QED
    BY <1>3, <1>4, <1>5, <1>6

\* The only end that is active after a failed negotiation was so before.
LEMMA ShutNegotiating ==
    ASSUME SessionInv, NEW c \in Live, NEW n \in Ends(c), Shut(c, n),
           Negotiating(c, n), UNCHANGED <<net, active>>
    PROVE  SessionInv'
<1>1. Ends(c) = {n, Other(c, n)} /\ conn[c].st[n] # "active"
    BY DEF Other, Ends, Negotiating
<1>2. PICK k : /\ conn' = [conn EXCEPT ![c] = k]
               /\ \/ k = NoConn /\ conn[c].st[Other(c, n)] = "closed"
                  \/ /\ Proper(k) /\ {k.from, k.to} = Ends(c)
                     /\ k.st[n] = "closed"
                     /\ k.st[Other(c, n)] = conn[c].st[Other(c, n)]
    BY ShutEnds
<1> QED
    BY <1>1, <1>2, OneChanges

\* A dial, refused or begun, keeps SessionInv.
LEMMA ConnectStep ==
    ASSUME SessionInv, NEW n \in Nodes, NEW m \in Nodes \ {n},
           NEW by \in {"loop", "boot"}, Connect(n, m, by), UNCHANGED <<net, active>>
    PROVE  SessionInv'
<1>1. CASE conn' = conn
    <2>1. Live' = Live /\ \A d : Ends(d)' = Ends(d)
        BY <1>1 DEF Live, Ends
    <2>2. ActiveIsOwned'
        BY <1>1, <2>1, SMTT(60) DEF SessionInv, ActiveIsOwned
    <2>3. \A d \in Live' : Proper(conn'[d])
        BY <1>1, <2>1 DEF SessionInv
    <2> QED
        BY <1>1, <2>2, <2>3 DEF SessionInv
<1>2. CASE conn' # conn
    <2> DEFINE c == CHOOSE c \in Conns : c \notin Live
               s == [k \in {n, m} |-> "hello"]
               k == [from |-> n, to |-> m, by |-> by, open |-> TRUE, st |-> s, sent |-> {}]
    <2>1. conn' = [conn EXCEPT ![c] = k] /\ Conns # Live
        BY <1>2 DEF Connect
    <2>2. c \in Conns /\ c \notin Live
        BY <2>1 DEF Live
    <2> HIDE DEF c
    <2>3. s \in [{n, m} -> Stage] /\ s[n] = "hello" /\ s[m] = "hello"
        BY DEF Stage
    <2> HIDE DEF s
    <2>4. k \in Connection /\ k.from = n /\ k.to = m /\ k.st = s
        <3>1. s \in UNION {[ends -> Stage] : ends \in SUBSET Nodes}
            BY <2>3
        <3> QED
            BY <3>1 DEF Connection
    <2> HIDE DEF k
    <2>5. Proper(k) /\ k # NoConn
        BY <2>3, <2>4, SessionAssumption DEF Proper
    <2>6. conn'[c] = k /\ \A d \in Conns \ {c} : conn'[d] = conn[d]
        BY <2>1, <2>2 DEF SessionInv
    <2>7. conn' \in [Conns -> Connection \cup {NoConn}]
        BY <2>1, <2>2, <2>4 DEF SessionInv
    <2>8. \A d \in Live' : Proper(conn'[d])
        BY <2>5, <2>6 DEF SessionInv, Live
    <2>9. ASSUME NEW x \in Nodes, NEW y \in Nodes, NEW d \in Conns
          PROVE  active[x][y] = d <=>
                    /\ d \in Live' /\ x # y
                    /\ Ends(d)' = {x, y} /\ conn'[d].st[x] = "active"
        <3>1. active[x][y] = d <=>
                    /\ d \in Live /\ x # y
                    /\ Ends(d) = {x, y} /\ conn[d].st[x] = "active"
            BY SMTT(60) DEF SessionInv, ActiveIsOwned
        <3>2. CASE d # c
            BY <3>1, <3>2, <2>6 DEF Live, Ends
        <3>3. CASE d = c
            <4>1. Ends(d)' = {n, m} /\ conn'[d].st[n] = "hello" /\ conn'[d].st[m] = "hello"
                BY <3>3, <2>3, <2>4, <2>6 DEF Ends
            <4> QED
                BY <4>1, <3>1, <3>3, <2>2
        <3> QED
            BY <3>2, <3>3
    <2>10. ActiveIsOwned'
        BY <2>9, SMTT(60) DEF ActiveIsOwned
    <2> QED
        BY <2>7, <2>8, <2>10 DEF SessionInv
<1> QED
    BY <1>1, <1>2

\* What the table and the connections do not change, the invariant keeps.
LEMMA SameKeeps ==
    ASSUME SessionInv, UNCHANGED <<net, conn, active>>
    PROVE  SessionInv'
<1>1. Live' = Live /\ \A d : Ends(d)' = Ends(d)
    BY DEF Live, Ends
<1>2. ActiveIsOwned'
    BY <1>1, SMTT(60) DEF SessionInv, ActiveIsOwned
<1>3. \A d \in Live' : Proper(conn'[d])
    BY <1>1 DEF SessionInv
<1> QED
    BY <1>2, <1>3 DEF SessionInv

\* Connections change, but no end does: Close.
LEMMA CloseStep ==
    ASSUME SessionInv, NEW n \in Nodes, Close(n)
    PROVE  SessionInv'
<1>1. UNCHANGED <<net, active>>
    BY DEF Close
<1>2. ASSUME NEW d \in Conns
      PROVE  /\ conn'[d] \in Connection \cup {NoConn}
             /\ conn'[d] # NoConn <=> conn[d] # NoConn
             /\ conn[d] # NoConn => /\ Proper(conn'[d]) /\ Ends(d)' = Ends(d)
                                    /\ conn'[d].st = conn[d].st
    <2>1. CASE conn'[d] = conn[d]
        BY <2>1 DEF SessionInv, Ends, Live
    <2>2. CASE conn'[d] # conn[d]
        <3>1. /\ conn'[d] = [conn[d] EXCEPT !.open = FALSE]
              /\ \E m \in Nodes : active[n][m] = d
            BY <2>2 DEF Close
        <3>2. d \in Live /\ Proper(conn[d])
            BY <3>1, SMTT(60) DEF SessionInv, ActiveIsOwned
        <3>3. /\ conn'[d] \in Connection /\ conn'[d].st = conn[d].st
              /\ conn'[d].from = conn[d].from /\ conn'[d].to = conn[d].to
            BY <3>1, <3>2 DEF Proper, Connection
        <3> QED
            BY <3>2, <3>3, SessionAssumption DEF Proper, Ends, Live
    <2> QED
        BY <2>1, <2>2
<1>3. conn' \in [Conns -> Connection \cup {NoConn}]
    BY <1>2 DEF Close
<1>4. Live' = Live
    BY <1>2 DEF Live
<1>5. \A d \in Live' : Proper(conn'[d])
    BY <1>2, <1>4 DEF Live
<1>6. ActiveIsOwned'
    BY <1>1, <1>2, <1>4, SMTT(60) DEF SessionInv, ActiveIsOwned, Live
<1> QED
    BY <1>1, <1>3, <1>5, <1>6 DEF SessionInv

\* A process dies: all its ends are closed, and its table is gone.
LEMMA CrashStep ==
    ASSUME SessionInv, NEW n \in Nodes, Crash(n)
    PROVE  SessionInv'
<1>1. /\ net' = net /\ active' = [active EXCEPT ![n] = [m \in Nodes |-> NoConn]]
    BY DEF Crash
<1>2. ASSUME NEW d \in Running(n)
      PROVE  /\ d \in Live /\ n \in Ends(d) /\ Proper(conn[d])
             /\ Ends(d) = {n, Other(d, n)} /\ Other(d, n) # n
             /\ \/ conn'[d] = NoConn /\ conn[d].st[Other(d, n)] = "closed"
                \/ /\ Proper(conn'[d]) /\ conn'[d] # NoConn /\ Ends(d)' = Ends(d)
                   /\ conn'[d].st[n] = "closed"
                   /\ conn'[d].st[Other(d, n)] = conn[d].st[Other(d, n)]
    <2>1. d \in Live /\ d \in Conns /\ n \in Ends(d) /\ Proper(conn[d])
        BY DEF Running, Live, SessionInv
    <2>2. Ends(d) = {n, Other(d, n)} /\ Other(d, n) # n
        BY <2>1, SMTT(60) DEF Ends, Other, Proper
    <2> DEFINE s == [conn[d].st EXCEPT ![n] = "closed"]
               k == [conn[d] EXCEPT !.open = FALSE, !.st = s]
    <2>3. /\ s \in [{conn[d].from, conn[d].to} -> Stage] /\ s[n] = "closed"
          /\ s[Other(d, n)] = conn[d].st[Other(d, n)]
        BY <2>1, <2>2 DEF Proper, Ends, Stage
    <2>4. \/ conn'[d] = NoConn /\ conn[d].st[Other(d, n)] = "closed"
          \/ conn'[d] = k
        BY <2>1 DEF Crash, Proper, Connection
    <2> HIDE DEF s
    <2>5. /\ k \in Connection /\ k.st = s /\ k.from = conn[d].from /\ k.to = conn[d].to
        <3>1. s \in UNION {[ends -> Stage] : ends \in SUBSET Nodes}
            BY <2>1, <2>3, SMTT(60) DEF Proper, Connection
        <3>2. conn[d] \in Connection
            BY <2>1 DEF Proper
        <3> QED
            BY <3>1, <3>2 DEF Connection
    <2> HIDE DEF k
    <2>6. Proper(k) /\ k # NoConn
        BY <2>1, <2>3, <2>5, SessionAssumption DEF Proper
    <2> QED
        BY <2>1, <2>2, <2>3, <2>4, <2>5, <2>6 DEF Ends
<1>3. \A d \in Conns \ Running(n) : conn'[d] = conn[d] /\ Ends(d)' = Ends(d)
    BY DEF Crash, Ends
<1>4. conn' \in [Conns -> Connection \cup {NoConn}]
    <2>1. \A d \in Conns : conn'[d] \in Connection \cup {NoConn}
        BY <1>2, <1>3 DEF SessionInv, Proper
    <2> QED
        BY <2>1 DEF Crash
<1>5. \A d \in Live' : Proper(conn'[d])
    BY <1>2, <1>3 DEF SessionInv, Live
<1>6. active' \in [Nodes -> [Nodes -> Conns \cup {NoConn}]]
    BY <1>1 DEF SessionInv
<1>7. ASSUME NEW x \in Nodes, NEW y \in Nodes, NEW d \in Conns
      PROVE  active'[x][y] = d <=>
                /\ d \in Live' /\ x # y
                /\ Ends(d)' = {x, y} /\ conn'[d].st[x] = "active"
    <2>1. active[x][y] = d <=>
                /\ d \in Live /\ x # y
                /\ Ends(d) = {x, y} /\ conn[d].st[x] = "active"
        BY SMTT(60) DEF SessionInv, ActiveIsOwned
    <2>2. CASE x = n
        <3>1. active'[x][y] # d
            BY <2>2, <1>1, SessionAssumption DEF SessionInv
        <3>2. ~(d \in Live' /\ Ends(d)' = {x, y} /\ conn'[d].st[x] = "active")
            <4>1. CASE d \in Running(n)
                BY <4>1, <2>2, <1>2 DEF Live
            <4>2. CASE d \notin Running(n)
                BY <4>2, <2>2, <1>3 DEF Running, Live
            <4> QED
                BY <4>1, <4>2
        <3> QED
            BY <3>1, <3>2
    <2>3. CASE x # n
        <3>1. active'[x][y] = active[x][y]
            BY <2>3, <1>1 DEF SessionInv
        <3>2. CASE d \in Running(n)
            <4>1. CASE conn'[d] = NoConn
                BY <4>1, <3>1, <3>2, <2>1, <2>3, <1>2 DEF Live
            <4>2. CASE conn'[d] # NoConn
                <5>1. d \in Live' /\ d \in Live /\ Ends(d)' = Ends(d)
                    BY <4>2, <3>2, <1>2 DEF Live
                <5>2. x \in Ends(d) => conn'[d].st[x] = conn[d].st[x]
                    BY <4>2, <3>2, <2>3, <1>2
                <5> QED
                    BY <5>1, <5>2, <3>1, <2>1
            <4> QED
                BY <4>1, <4>2
        <3>3. CASE d \notin Running(n)
            BY <3>1, <3>3, <2>1, <1>3 DEF Live
        <3> QED
            BY <3>2, <3>3
    <2> QED
        BY <2>2, <2>3
<1>8. ActiveIsOwned'
    BY <1>7 DEF ActiveIsOwned
<1> QED
    BY <1>1, <1>4, <1>5, <1>6, <1>8 DEF SessionInv

\* One connection and its entry in one table change together: negotiate when it
\* registers a peer, and runRead when a session ends.
LEMMA EntryChanges ==
    ASSUME SessionInv, NEW c \in Live, NEW n \in Ends(c), NEW k, NEW entry,
           conn' = [conn EXCEPT ![c] = k],
           active' = [active EXCEPT ![n][Other(c, n)] = entry],
           \/ /\ entry = c /\ active[n][Other(c, n)] = NoConn
              /\ Proper(k) /\ {k.from, k.to} = Ends(c) /\ k.st[n] = "active"
              /\ k.st[Other(c, n)] = conn[c].st[Other(c, n)]
           \/ /\ entry = NoConn /\ conn[c].st[n] = "active"
              /\ \/ k = NoConn /\ conn[c].st[Other(c, n)] = "closed"
                 \/ /\ Proper(k) /\ {k.from, k.to} = Ends(c) /\ k.st[n] = "closed"
                    /\ k.st[Other(c, n)] = conn[c].st[Other(c, n)],
           net' = net
    PROVE  SessionInv'
<1>1. PICK m : m = Other(c, n)
    OBVIOUS
<1>2. c \in Conns /\ Proper(conn[c])
    BY DEF Live, SessionInv
<1>3. /\ n \in Nodes /\ m \in Nodes /\ n # m /\ Ends(c) = {n, m}
    BY <1>1, <1>2 DEF Other, Ends, Proper, Connection
<1>4. conn'[c] = k /\ \A d \in Conns \ {c} : conn'[d] = conn[d] /\ Ends(d)' = Ends(d)
    BY <1>2 DEF SessionInv, Ends
<1>5. conn' \in [Conns -> Connection \cup {NoConn}]
    BY DEF SessionInv, Proper
<1>6. \A d \in Live' : Proper(conn'[d])
    BY <1>4 DEF SessionInv, Live
<1>7. /\ active' \in [Nodes -> [Nodes -> Conns \cup {NoConn}]]
      /\ active'[n][m] = entry
      /\ \A x, y \in Nodes : x # n \/ y # m => active'[x][y] = active[x][y]
    BY <1>1, <1>2, <1>3 DEF SessionInv
<1>8. ASSUME NEW x \in Nodes, NEW y \in Nodes, NEW d \in Conns
      PROVE  active'[x][y] = d <=>
                /\ d \in Live' /\ x # y
                /\ Ends(d)' = {x, y} /\ conn'[d].st[x] = "active"
    <2>1. active[x][y] = d <=>
                /\ d \in Live /\ x # y
                /\ Ends(d) = {x, y} /\ conn[d].st[x] = "active"
        BY SMTT(60) DEF SessionInv, ActiveIsOwned
    <2>2. conn[c].st[n] = "active" => active[n][m] = c
        BY <1>2, <1>3, SMTT(60) DEF SessionInv, ActiveIsOwned
    <2>3. CASE d # c
        <3>1. CASE x = n /\ y = m
            <4>1. active[n][m] # d
                BY <2>2, <2>3, <1>1, SessionAssumption
            <4>2. active'[x][y] # d
                BY <3>1, <2>3, <1>7, SessionAssumption, SMTT(60)
            <4> QED
                BY <4>1, <4>2, <3>1, <2>1, <2>3, <1>4 DEF Live
        <3>2. CASE ~(x = n /\ y = m)
            BY <3>2, <2>1, <2>3, <1>4, <1>7 DEF Live
        <3> QED
            BY <3>1, <3>2
    <2>4. CASE d = c /\ k = NoConn
        <3>1. d \notin Live' /\ entry = NoConn /\ conn[c].st[m] = "closed"
            BY <2>4, <1>1, <1>4, SessionAssumption DEF Live, Proper
        <3>2. active'[x][y] # d
            <4>1. CASE x = n /\ y = m
                BY <4>1, <3>1, <1>7, SessionAssumption, SMTT(60)
            <4>2. CASE ~(x = n /\ y = m)
                <5>1. Ends(c) = {x, y} => x = m \/ (x = n /\ y = m)
                    <6> SUFFICES ASSUME Ends(c) = {x, y}
                                 PROVE  x = m \/ (x = n /\ y = m)
                        OBVIOUS
                    <6>1. (x = n \/ x = m) /\ (m = x \/ m = y)
                        BY <1>3
                    <6> QED
                        BY <6>1
                <5> QED
                    BY <5>1, <4>2, <3>1, <2>1, <2>4, <1>7
            <4> QED
                BY <4>1, <4>2
        <3> QED
            BY <3>1, <3>2
    <2>5. CASE d = c /\ k # NoConn
        <3>1. /\ d \in Live' /\ Ends(d)' = Ends(c)
              /\ k.st[m] = conn[c].st[m]
              /\ k.st[n] = "active" <=> entry = c
            BY <2>5, <1>1, <1>2, <1>4, SessionAssumption DEF Live, Ends
        <3>2. CASE x = n /\ y = m
            BY <3>1, <3>2, <2>5, <1>3, <1>4, <1>7
        <3>3. CASE x = m /\ y = n
            BY <3>1, <3>3, <2>1, <2>5, <1>3, <1>4, <1>7, SMTT(60)
        <3>4. CASE {x, y} # {n, m}
            BY <3>1, <3>4, <2>1, <2>5, <1>3, <1>7
        <3>5. {x, y} = {n, m} /\ x # y => (x = n /\ y = m) \/ (x = m /\ y = n)
            OBVIOUS
        <3>6. CASE x = y
            BY <3>6, <2>1, <1>3, <1>7, SMTT(60)
        <3> QED
            BY <3>2, <3>3, <3>4, <3>5, <3>6
    <2> QED
        BY <2>3, <2>4, <2>5
<1>9. ActiveIsOwned'
    BY <1>8 DEF ActiveIsOwned
<1> QED
    BY <1>5, <1>6, <1>7, <1>9 DEF SessionInv

\* A step of one end of a connection keeps SessionInv.
LEMMA EndStep ==
    ASSUME SessionInv, NEW c \in Live, NEW n \in Ends(c), End(c, n)
    PROVE  SessionInv'
<1>1. c \in Conns /\ Proper(conn[c]) /\ conn \in [Conns -> Connection \cup {NoConn}]
    BY DEF Live, SessionInv
<1>2. Ends(c) = {n, Other(c, n)} /\ Other(c, n) # n /\ n \in Nodes
    BY <1>1 DEF Ends, Other, Proper, Connection
<1>3. net' = net
    BY DEF End, Exchange, Hello, Fail, Register, runRead, env
<1>4. ASSUME NEW stage \in Stage, conn' = [conn EXCEPT ![c].st[n] = stage]
      PROVE  \E k : /\ conn' = [conn EXCEPT ![c] = k]
                    /\ Proper(k) /\ {k.from, k.to} = Ends(c) /\ k.st[n] = stage
                    /\ k.st[Other(c, n)] = conn[c].st[Other(c, n)]
    <2> DEFINE s == [conn[c].st EXCEPT ![n] = stage]
               k == [conn[c] EXCEPT !.st = s]
    <2>1. conn' = [conn EXCEPT ![c] = k]
        BY <1>1, <1>4 DEF Proper, Connection
    <2>2. /\ s \in [{conn[c].from, conn[c].to} -> Stage] /\ s[n] = stage
          /\ s[Other(c, n)] = conn[c].st[Other(c, n)]
        BY <1>1, <1>2 DEF Proper, Ends
    <2> HIDE DEF s
    <2>3. /\ k \in Connection /\ k.st = s /\ k.from = conn[c].from /\ k.to = conn[c].to
        <3>1. s \in UNION {[ends -> Stage] : ends \in SUBSET Nodes}
            <4>1. {conn[c].from, conn[c].to} \in SUBSET Nodes
                BY <1>1 DEF Proper, Connection
            <4> QED
                BY <4>1, <2>2
        <3>2. conn[c] \in Connection
            BY <1>1 DEF Proper
        <3> QED
            BY <3>1, <3>2 DEF Connection
    <2> HIDE DEF k
    <2> QED
        BY <1>1, <2>1, <2>2, <2>3 DEF Proper, Ends
<1>5. CASE Exchange(c, n)
    <2> DEFINE p == conn[c].st[n]
               k == [conn[c] EXCEPT !.sent = @ \cup {<<n, p>>}]
    <2>1. conn' = [conn EXCEPT ![c] = k] /\ UNCHANGED active
        BY <1>1, <1>5 DEF Exchange
    <2>2. p \in Stage
        BY <1>1, <1>2 DEF Proper, Ends
    <2> HIDE DEF p
    <2>3. /\ k \in Connection /\ k.st = conn[c].st
          /\ k.from = conn[c].from /\ k.to = conn[c].to
        <3>1. conn[c] \in Connection
            BY <1>1 DEF Proper
        <3> QED
            BY <3>1, <2>2, <1>2, SMTT(60) DEF Connection
    <2> HIDE DEF k
    <2> QED
        BY <1>1, <1>3, <2>1, <2>3, OneChanges DEF Proper, Ends
<1>6. CASE Hello(c, n)
    <2>1. conn[c].st[n] = "hello" /\ UNCHANGED active
        BY <1>6 DEF Hello, Exchanged
    <2>2. PICK k : /\ conn' = [conn EXCEPT ![c] = k]
                   /\ Proper(k) /\ {k.from, k.to} = Ends(c) /\ k.st[n] = "handshake"
                   /\ k.st[Other(c, n)] = conn[c].st[Other(c, n)]
        BY <1>4, <1>6 DEF Hello, Stage
    <2> QED
        BY <1>2, <1>3, <2>1, <2>2, OneChanges
<1>7. CASE Fail(c, n)
    BY <1>3, <1>7, ShutNegotiating DEF Fail
<1>8. CASE Register(c, n)
    <2>1. conn[c].st[n] = "handshake"
        BY <1>8 DEF Register, Exchanged
    <2>2. CASE Shut(c, n) /\ UNCHANGED active
        BY <1>3, <2>1, <2>2, ShutNegotiating DEF Negotiating
    <2>3. CASE /\ active[n][Other(c, n)] = NoConn
               /\ conn' = [conn EXCEPT ![c].st[n] = "active"]
               /\ active' = [active EXCEPT ![n][Other(c, n)] = c]
        <3>1. PICK k : /\ conn' = [conn EXCEPT ![c] = k]
                       /\ Proper(k) /\ {k.from, k.to} = Ends(c) /\ k.st[n] = "active"
                       /\ k.st[Other(c, n)] = conn[c].st[Other(c, n)]
            BY <1>4, <2>3 DEF Stage
        <3> QED
            BY <1>3, <2>3, <3>1, EntryChanges
    <2> QED
        BY <1>8, <2>2, <2>3 DEF Register
<1>9. CASE runRead(c, n)
    <2>1. /\ conn[c].st[n] = "active" /\ Shut(c, n)
          /\ active' = [active EXCEPT ![n][Other(c, n)] = NoConn]
        BY <1>9 DEF runRead
    <2>2. PICK k : /\ conn' = [conn EXCEPT ![c] = k]
                   /\ \/ k = NoConn /\ conn[c].st[Other(c, n)] = "closed"
                      \/ /\ Proper(k) /\ {k.from, k.to} = Ends(c)
                         /\ k.st[n] = "closed"
                         /\ k.st[Other(c, n)] = conn[c].st[Other(c, n)]
        BY <2>1, ShutEnds
    <2> QED
        BY <1>3, <2>1, <2>2, EntryChanges
<1> QED
    BY <1>5, <1>6, <1>7, <1>8, <1>9 DEF End

\* Every step keeps SessionInv.
LEMMA SessionStep ==
    ASSUME SessionInv, [Next]_vars
    PROVE  SessionInv'
<1>1. ASSUME NEW n \in Nodes,
             \/ Evict(n) \/ maybeSavePeers(n) \/ Closed(n) \/ NewHost(n)
             \/ \E m \in Nodes : Due(n, m)
      PROVE  SessionInv'
    BY <1>1, SameKeeps DEF Evict, maybeSavePeers, Closed, NewHost, Due, env
<1>2. ASSUME NEW n \in Nodes, NEW m \in Nodes \ {n}, maintainOnce(n, m)
      PROVE  SessionInv'
    BY <1>2, ConnectStep DEF maintainOnce
<1>3. ASSUME NEW n \in Nodes, dialBootnode(n)
      PROVE  SessionInv'
    <2>1. PICK m \in Boots[n] : Connect(n, m, "boot")
        BY <1>3 DEF dialBootnode
    <2>2. m \in Nodes \ {n}
        BY SessionAssumption DEF SessionInv, Boots
    <2> QED
        BY <1>3, <2>1, <2>2, ConnectStep DEF dialBootnode
<1>4. ASSUME NEW c \in Live, Break(c)
      PROVE  SessionInv'
    <2> DEFINE k == [conn[c] EXCEPT !.open = FALSE]
    <2>1. conn' = [conn EXCEPT ![c] = k] /\ UNCHANGED <<net, active>>
        BY <1>4 DEF Break
    <2>2. Proper(conn[c])
        BY DEF SessionInv
    <2>3. /\ k \in Connection /\ k.st = conn[c].st
          /\ k.from = conn[c].from /\ k.to = conn[c].to
        BY <2>2 DEF Connection, Proper
    <2> HIDE DEF k
    <2> QED
        BY <2>1, <2>2, <2>3, OneChanges DEF Proper, Ends
<1>5. CASE UNCHANGED vars
    BY <1>5, SameKeeps DEF vars
<1> QED
    BY <1>1, <1>2, <1>3, <1>4, <1>5, CloseStep, CrashStep, EndStep DEF Next

\* The table of sessions is exact, for any number of hosts and connections.
THEOREM TableIsExact == Spec => []ActiveIsOwned
<1>1. SessionInv /\ [Next]_vars => SessionInv'
    BY SessionStep
<1>2. SessionInv => ActiveIsOwned
    BY DEF SessionInv
<1> QED
    BY <1>1, <1>2, SessionInit, PTL DEF Spec

\* The two ends of any connection derive matching keys, one for each direction.
THEOREM KeysMatch == Spec => []KeysAgree
<1>1. SessionInv /\ [Next]_vars => SessionInv'
    BY SessionStep
<1>2. ASSUME SessionInv
      PROVE  KeysAgree
    <2> SUFFICES ASSUME NEW c \in Live, NEW n \in Ends(c),
                        Chain[n] = Chain[Other(c, n)]
                 PROVE  /\ Opens(c, n, Other(c, n))
                        /\ Keys(c, n).send # Keys(c, Other(c, n)).send
        BY DEF KeysAgree
    <2>1. Proper(conn[c])
        BY <1>2 DEF SessionInv
    <2> QED
        BY <2>1, SMTT(60) DEF Proper, Ends, Other, Opens, Keys, Material
<1> QED
    BY <1>1, <1>2, SessionInit, PTL DEF Spec

----------------------------------------------------------------------------
(* Gossip.                                                                 *)

\* What may be announced, and what a frame may carry.
Items == ({"block"} \X Nat)
           \cup ({"tx"} \X UNION {w.txs : w \in Works})
           \cup ({"bft"} \X UNION {w.bft : w \in Works})

\* The kinds of frames, and the frames.
Types == {"inv", "getdata", "payload", "bft", "getblocks", "blocks"}
Frames == [type : Types, item : Items \cup Nat \cup (Nat \X Nat)]

\* The frames in a queue.
On(s) == {s[i] : i \in DOMAIN s}

\* A frame on the way from a to b: who announces an item has it, so has who is
\* asked for it, and consensus messages are not asked for.
FrameOK(a, b, f) ==
    /\ f.type = "inv" => f.item \in Items /\ f.item[1] # "bft" /\ Has(a, f.item)
    /\ f.type = "getdata" => f.item \in Items /\ f.item[1] # "bft" /\ Has(b, f.item)
    /\ f.type = "payload" => f.item \in Items /\ f.item[1] # "bft"
    /\ f.type = "bft" => f.item \in Items /\ f.item[1] = "bft"
    /\ f.type = "getblocks" => f.item \in Nat
    /\ f.type = "blocks" => f.item \in Nat \X Nat

\* Frames travel over sessions, and sync calls use them.
Carried == \A a, b \in Hosts : \A f \in On(link[a][b]) :
               FrameOK(a, b, f) /\ {a, b} \in up

\* The inductive invariant of SeenComes.
GossipInv ==
    /\ work \in Works /\ up \subseteq work.links
    /\ link \in [Hosts -> [Hosts -> Seq(Frames)]]
    /\ head \in [Hosts -> Nat]
    /\ DOMAIN pool = Hosts
    /\ seen \in [Hosts -> SUBSET Items]
    /\ DOMAIN gone = Hosts
    /\ DOMAIN sync = Hosts
    /\ \A n \in Hosts : \A task \in sync[n] : task.peer \in Peers(n)
    /\ Carried
    /\ SeenIsComing

\* What a queue holds after an append.
LEMMA OnAppend ==
    ASSUME NEW S, NEW s \in Seq(S), NEW t \in Seq(S)
    PROVE  s \o t \in Seq(S) /\ On(s \o t) = On(s) \cup On(t)
<1>1. s \o t \in Seq(S) /\ DOMAIN (s \o t) = 1..(Len(s) + Len(t))
      /\ DOMAIN s = 1..Len(s) /\ DOMAIN t = 1..Len(t) /\ Len(s) \in Nat /\ Len(t) \in Nat
    BY SMTT(60)
<1>2. ASSUME NEW i \in DOMAIN (s \o t)
      PROVE  (s \o t)[i] \in On(s) \cup On(t)
    <2>1. CASE i <= Len(s)
        <3>1. i \in DOMAIN s /\ (s \o t)[i] = s[i]
            BY <1>1, <2>1, SMTT(60)
        <3> QED
            BY <3>1 DEF On
    <2>2. CASE i > Len(s)
        <3>1. i - Len(s) \in DOMAIN t /\ (s \o t)[i] = t[i - Len(s)]
            BY <1>1, <2>2, SMTT(60)
        <3> QED
            BY <3>1 DEF On
    <2> QED
        BY <2>1, <2>2, <1>1, SMTT(60)
<1>3. ASSUME NEW i \in DOMAIN s
      PROVE  s[i] \in On(s \o t)
    <2>1. i \in DOMAIN (s \o t) /\ (s \o t)[i] = s[i]
        BY <1>1, SMTT(60)
    <2> QED
        BY <2>1 DEF On
<1>4. ASSUME NEW i \in DOMAIN t
      PROVE  t[i] \in On(s \o t)
    <2>1. Len(s) + i \in DOMAIN (s \o t) /\ (s \o t)[Len(s) + i] = t[i]
        BY <1>1, SMTT(60)
    <2> QED
        BY <2>1 DEF On
<1> QED
    BY <1>1, <1>2, <1>3, <1>4 DEF On

\* What a queue holds after its first frame is taken.
LEMMA OnTail ==
    ASSUME NEW S, NEW s \in Seq(S), s # <<>>
    PROVE  /\ Tail(s) \in Seq(S) /\ Head(s) \in On(s)
           /\ On(Tail(s)) \subseteq On(s) /\ On(s) \subseteq On(Tail(s)) \cup {Head(s)}
<1>1. /\ Tail(s) \in Seq(S) /\ 1 \in DOMAIN s /\ Head(s) = s[1]
      /\ DOMAIN s = 1..Len(s) /\ Len(s) \in Nat /\ DOMAIN Tail(s) = 1..(Len(s) - 1)
    BY SMTT(60)
<1>2. ASSUME NEW i \in DOMAIN Tail(s)
      PROVE  Tail(s)[i] \in On(s)
    <2>1. i + 1 \in DOMAIN s /\ Tail(s)[i] = s[i + 1]
        BY <1>1, SMTT(60)
    <2> QED
        BY <2>1 DEF On
<1>3. ASSUME NEW i \in DOMAIN s
      PROVE  s[i] \in On(Tail(s)) \cup {Head(s)}
    <2>1. CASE i = 1
        BY <2>1, <1>1
    <2>2. CASE i # 1
        <3>1. i - 1 \in DOMAIN Tail(s) /\ Tail(s)[i - 1] = s[i]
            BY <1>1, <2>2, SMTT(60)
        <3> QED
            BY <3>1 DEF On
    <2> QED
        BY <2>1, <2>2
<1> QED
    BY <1>1, <1>2, <1>3 DEF On

\* What a queue holds after one of its frames is dropped.
LEMMA OnRemove ==
    ASSUME NEW S, NEW s \in Seq(S), NEW i \in 1..Len(s)
    PROVE  /\ Without(s, i) \in Seq(S) /\ s[i] \in On(s)
           /\ On(Without(s, i)) \subseteq On(s)
           /\ On(s) \subseteq On(Without(s, i)) \cup {s[i]}
<1> DEFINE u == SubSeq(s, 1, i - 1)
           v == SubSeq(s, i + 1, Len(s))
<1>1. /\ u \in Seq(S) /\ v \in Seq(S) /\ DOMAIN s = 1..Len(s) /\ Len(s) \in Nat
      /\ DOMAIN u = 1..(i - 1) /\ DOMAIN v = 1..(Len(s) - i)
      /\ \A j \in 1..(i - 1) : u[j] = s[j]
      /\ \A j \in 1..(Len(s) - i) : v[j] = s[i + j]
    BY SMTT(60)
<1> HIDE DEF u, v
<1>2. Without(s, i) = u \o v
    BY DEF Without, u, v
<1>3. u \o v \in Seq(S) /\ On(u \o v) = On(u) \cup On(v)
    BY <1>1, OnAppend
<1>4. ASSUME NEW j \in DOMAIN u PROVE u[j] \in On(s)
    <2>1. j \in DOMAIN s /\ u[j] = s[j]
        BY <1>1, SMTT(60)
    <2> QED
        BY <2>1 DEF On
<1>5. ASSUME NEW j \in DOMAIN v PROVE v[j] \in On(s)
    <2>1. i + j \in DOMAIN s /\ v[j] = s[i + j]
        BY <1>1, SMTT(60)
    <2> QED
        BY <2>1 DEF On
<1>6. ASSUME NEW j \in DOMAIN s PROVE s[j] \in On(u) \cup On(v) \cup {s[i]}
    <2>1. CASE j < i
        <3>1. j \in DOMAIN u /\ u[j] = s[j]
            BY <1>1, <2>1, SMTT(60)
        <3> QED
            BY <3>1 DEF On
    <2>2. CASE j > i
        <3>1. j - i \in DOMAIN v /\ v[j - i] = s[j]
            BY <1>1, <2>2, SMTT(60)
        <3> QED
            BY <3>1 DEF On
    <2> QED
        BY <2>1, <2>2, <1>1, SMTT(60)
<1>7. i \in DOMAIN s
    BY <1>1
<1>8. On(u) \subseteq On(s) /\ On(v) \subseteq On(s) /\ s[i] \in On(s)
    BY <1>4, <1>5, <1>7 DEF On
<1>9. On(s) \subseteq On(u) \cup On(v) \cup {s[i]}
    BY <1>6 DEF On
<1> QED
    BY <1>2, <1>3, <1>8, <1>9

\* What HasBlock and HasTx say of an item.
LEMMA HasIs ==
    ASSUME NEW n, NEW it
    PROVE  /\ it[1] = "block" => (Has(n, it) <=> it[2] <= head[n])
           /\ it[1] = "tx" => (Has(n, it) <=> it[2] \in pool[n])
           /\ it[1] # "block" /\ it[1] # "tx" => ~Has(n, it)
BY SMTT(60) DEF Has

\* The same after a step.
LEMMA HasWillBe ==
    ASSUME NEW n, NEW it
    PROVE  /\ it[1] = "block" => (Has(n, it)' <=> it[2] <= head'[n])
           /\ it[1] = "tx" => (Has(n, it)' <=> it[2] \in pool'[n])
           /\ it[1] # "block" /\ it[1] # "tx" => ~Has(n, it)'
BY SMTT(60) DEF Has

\* Chains and pools only grow.
Grows == /\ head' \in [Hosts -> Nat] /\ DOMAIN pool' = Hosts
         /\ \A n \in Hosts : head[n] <= head'[n] /\ pool[n] \subseteq pool'[n]

\* An item is of one kind.
LEMMA ItemIs ==
    ASSUME NEW it \in Items
    PROVE  /\ it[1] \in {"block", "tx", "bft"} /\ it = <<it[1], it[2]>>
           /\ it[1] = "block" => it[2] \in Nat
BY SMTT(60) DEF Items

\* The items there are.
LEMMA ItemOf ==
    /\ \A h \in Nat : Block(h) \in Items /\ Block(h)[1] = "block" /\ Block(h)[2] = h
    /\ \A w \in Works : \A t \in w.txs : <<"tx", t>> \in Items
    /\ \A w \in Works : \A v \in w.bft : <<"bft", v>> \in Items
BY SMTT(60) DEF Items, Block

\* A node that has an item keeps it.
LEMMA HasStays ==
    ASSUME head \in [Hosts -> Nat], Grows, NEW n \in Hosts, NEW it \in Items, Has(n, it)
    PROVE  Has(n, it)'
<1>1. /\ it[1] \in {"block", "tx", "bft"}
      /\ it[1] = "block" => it[2] \in Nat
    BY ItemIs
<1>2. head[n] <= head'[n] /\ head[n] \in Nat /\ head'[n] \in Nat /\ pool[n] \subseteq pool'[n]
    BY DEF Grows
<1>3. CASE it[1] = "block"
    <2>1. it[2] <= head[n]
        BY <1>3, HasIs
    <2>2. it[2] <= head'[n]
        BY <1>1, <1>2, <1>3, <2>1, SMTT(60)
    <2> QED
        BY <1>3, <2>2, HasWillBe
<1>4. CASE it[1] = "tx"
    BY <1>2, <1>4, HasIs, HasWillBe
<1>5. CASE it[1] = "bft"
    <2>1. it[1] # "block" /\ it[1] # "tx"
        BY <1>5
    <2> QED
        BY <2>1, HasIs
<1> QED
    BY <1>1, <1>3, <1>4, <1>5

\* A frame that is in order stays so.
LEMMA FrameStays ==
    ASSUME head \in [Hosts -> Nat], Grows, NEW a \in Hosts, NEW b \in Hosts, NEW f,
           FrameOK(a, b, f)
    PROVE  FrameOK(a, b, f)'
BY HasStays DEF FrameOK

\* A frame that is new is in order, or was there: then all are.
LEMMA CarriedOn ==
    ASSUME head \in [Hosts -> Nat], Carried, Grows, up \subseteq up',
           \A a, b \in Hosts : \A f \in On(link'[a][b]) :
               f \in On(link[a][b]) \/ (FrameOK(a, b, f)' /\ {a, b} \in up')
    PROVE  Carried'
<1>1. ASSUME NEW a \in Hosts, NEW b \in Hosts, NEW f \in On(link'[a][b])
      PROVE  FrameOK(a, b, f)' /\ {a, b} \in up'
    <2>1. CASE f \in On(link[a][b])
        <3>1. FrameOK(a, b, f) /\ {a, b} \in up
            BY <2>1 DEF Carried
        <3> QED
            BY <3>1, FrameStays
    <2> QED
        BY <2>1
<1> QED
    BY <1>1 DEF Carried

\* A session joins two nodes.
LEMMA UpIsPair ==
    ASSUME GossipInv, NEW n \in Hosts, NEW m \in Hosts, {n, m} \in up
    PROVE  n # m /\ {m, n} \in up /\ m \in Peers(n) /\ n \in Peers(m)
<1>1. {n, m} \in work.links /\ work \in Works
    BY DEF GossipInv
<1>2. PICK x \in Hosts, y \in Hosts : x # y /\ {n, m} = {x, y}
    BY GossipAssumption, <1>1
<1>3. n # m
    BY <1>2, SMTT(60)
<1>4. {m, n} = {n, m}
    OBVIOUS
<1> QED
    BY <1>3, <1>4 DEF Peers

\* A queue holds a frame of a type for an item.
Carries(s, t, it) == \E f \in On(s) : f.type = t /\ f.item = it

\* What is asked for, in terms of what the two queues hold.
LEMMA AskedIs ==
    ASSUME link \in [Hosts -> [Hosts -> Seq(Frames)]], NEW n \in Hosts, NEW m \in Hosts, NEW it
    PROVE  it \in Asked(n, m) <=>
              \/ Carries(link[n][m], "getdata", it)
              \/ Carries(link[m][n], "payload", it)
<1>1. link[n][m] \in Seq(Frames) /\ link[m][n] \in Seq(Frames)
    OBVIOUS
<1>2. DOMAIN link[n][m] = 1..Len(link[n][m]) /\ DOMAIN link[m][n] = 1..Len(link[m][n])
    BY <1>1, SMTT(60)
<1> QED
    BY <1>2 DEF Asked, On, Carries

\* The same after a step.
LEMMA AskedWillBe ==
    ASSUME link' \in [Hosts -> [Hosts -> Seq(Frames)]], NEW n \in Hosts, NEW m \in Hosts, NEW it
    PROVE  it \in Asked(n, m)' <=>
              \/ Carries(link'[n][m], "getdata", it)
              \/ Carries(link'[m][n], "payload", it)
<1>1. link'[n][m] \in Seq(Frames) /\ link'[m][n] \in Seq(Frames)
    OBVIOUS
<1>2. DOMAIN link'[n][m] = 1..Len(link'[n][m]) /\ DOMAIN link'[m][n] = 1..Len(link'[m][n])
    BY <1>1, SMTT(60)
<1> QED
    BY <1>2 DEF Asked, On, Carries

\* What a step may add to the queues of n, and take from that of m to n.
Added(n, out) == \A a, b \in Hosts : \A f \in On(link'[a][b]) :
                     f \in On(link[a][b]) \/ (a = n /\ f \in On(out[b]))
Kept(m, n, frame) == \A a, b \in Hosts : \A f \in On(link[a][b]) :
                        f \in On(link'[a][b]) \/ (a = m /\ b = n /\ f = frame)
KeptAll == \A a, b \in Hosts : On(link[a][b]) \subseteq On(link'[a][b])

\* What a handler may answer, and the queues.
Outs == [Hosts -> Seq(Frames)]
LinkType == link \in [Hosts -> [Hosts -> Seq(Frames)]]

\* Queueing adds.
LEMMA Queued ==
    ASSUME LinkType, NEW n \in Hosts, NEW out \in Outs, link' = Queue(n, out)
    PROVE  LinkType' /\ Added(n, out) /\ KeptAll
           /\ \A b \in Hosts : On(out[b]) \subseteq On(link'[n][b])
<1>1. ASSUME NEW b \in Hosts
      PROVE  /\ link[n][b] \o out[b] \in Seq(Frames)
             /\ On(link[n][b] \o out[b]) = On(link[n][b]) \cup On(out[b])
    <2>1. link[n][b] \in Seq(Frames) /\ out[b] \in Seq(Frames)
        BY DEF LinkType, Outs
    <2> QED
        BY <2>1, OnAppend
<1>2. link' = [link EXCEPT ![n] = [b \in Hosts |-> link[n][b] \o out[b]]]
    BY DEF Queue
<1>3. link'[n] = [b \in Hosts |-> link[n][b] \o out[b]]
      /\ \A a \in Hosts \ {n} : link'[a] = link[a]
    BY <1>2 DEF LinkType
<1>4. [b \in Hosts |-> link[n][b] \o out[b]] \in [Hosts -> Seq(Frames)]
    BY <1>1
<1>5. LinkType'
    BY <1>2, <1>4 DEF LinkType
<1>6. \A b \in Hosts : On(link'[n][b]) = On(link[n][b]) \cup On(out[b])
    BY <1>1, <1>3
<1> QED
    BY <1>5, <1>6, <1>3 DEF Added, KeptAll

\* A handler takes the first frame and adds its answers.
LEMMA Taken ==
    ASSUME LinkType, NEW n \in Hosts, NEW m \in Hosts, m # n, NEW out \in Outs,
           link[m][n] # <<>>, Handled(m, n, out)
    PROVE  LinkType' /\ Added(n, out) /\ Kept(m, n, Head(link[m][n]))
           /\ \A b \in Hosts : On(out[b]) \subseteq On(link'[n][b])
<1>1. ASSUME NEW b \in Hosts
      PROVE  /\ link[n][b] \o out[b] \in Seq(Frames)
             /\ On(link[n][b] \o out[b]) = On(link[n][b]) \cup On(out[b])
    <2>1. link[n][b] \in Seq(Frames) /\ out[b] \in Seq(Frames)
        BY DEF LinkType, Outs
    <2> QED
        BY <2>1, OnAppend
<1> DEFINE row == [b \in Hosts |-> link[n][b] \o out[b]]
           rest == Tail(link[m][n])
<1>2. link' = [[link EXCEPT ![n] = row] EXCEPT ![m][n] = rest]
    BY DEF Handled, Queue
<1>3. row \in [Hosts -> Seq(Frames)] /\ \A b \in Hosts : On(row[b]) = On(link[n][b]) \cup On(out[b])
    BY <1>1
<1>4. link[m][n] \in Seq(Frames)
    BY DEF LinkType
<1>5. /\ rest \in Seq(Frames)
      /\ On(rest) \subseteq On(link[m][n])
      /\ On(link[m][n]) \subseteq On(rest) \cup {Head(link[m][n])}
    BY <1>4, OnTail
<1> HIDE DEF row, rest
<1>6. [link EXCEPT ![n] = row] \in [Hosts -> [Hosts -> Seq(Frames)]]
    BY <1>3 DEF LinkType
<1>7. LinkType'
    BY <1>2, <1>5, <1>6 DEF LinkType
<1>8. /\ link'[n] = row /\ link'[m][n] = rest
      /\ \A b \in Hosts \ {n} : link'[m][b] = link[m][b]
      /\ \A a \in Hosts \ {m, n} : link'[a] = link[a]
    BY <1>2, <1>6 DEF LinkType
<1>9. Added(n, out)
    BY <1>3, <1>5, <1>8 DEF Added
<1>10. Kept(m, n, Head(link[m][n]))
    BY <1>3, <1>5, <1>8 DEF Kept
<1> QED
    BY <1>3, <1>7, <1>8, <1>9, <1>10

\* Who a broadcast goes to.
LEMMA BroadcastOut ==
    ASSUME NEW n \in Hosts, NEW frame \in Frames, NEW ex
    PROVE  /\ Broadcast(n, frame, ex) \in Outs
           /\ \A b \in Hosts : \A f \in On(Broadcast(n, frame, ex)[b]) :
                 f = frame /\ {n, b} \in up
<1>1. <<frame>> \in Seq(Frames) /\ <<>> \in Seq(Frames)
      /\ DOMAIN <<frame>> = {1} /\ <<frame>>[1] = frame /\ DOMAIN <<>> = {}
    BY SMTT(60)
<1>2. On(<<frame>>) = {frame} /\ On(<<>>) = {}
    BY <1>1 DEF On
<1>3. \A b \in Hosts : Broadcast(n, frame, ex)[b] =
          IF b \in Peers(n) \ ex THEN <<frame>> ELSE <<>>
    BY DEF Broadcast
<1>4. Broadcast(n, frame, ex) \in Outs
    BY <1>1 DEF Broadcast, Outs
<1>5. ASSUME NEW b \in Hosts, NEW f \in On(Broadcast(n, frame, ex)[b])
      PROVE  f = frame /\ {n, b} \in up
    <2>1. CASE b \in Peers(n) \ ex
        <3>1. Broadcast(n, frame, ex)[b] = <<frame>>
            BY <1>3, <2>1
        <3> QED
            BY <3>1, <1>2, <2>1, <1>5 DEF Peers
    <2>2. CASE ~(b \in Peers(n) \ ex)
        <3>1. Broadcast(n, frame, ex)[b] = <<>>
            BY <1>3, <2>2
        <3> QED
            BY <3>1, <1>2, <1>5
    <2> QED
        BY <2>1, <2>2
<1> QED
    BY <1>4, <1>5

\* What an answer is.
LEMMA SendOut ==
    ASSUME NEW m \in Hosts, NEW frame \in Frames
    PROVE  /\ Send(m, frame) \in Outs
           /\ \A b \in Hosts : \A f \in On(Send(m, frame)[b]) : f = frame /\ b = m
           /\ frame \in On(Send(m, frame)[m])
<1>1. <<frame>> \in Seq(Frames) /\ <<>> \in Seq(Frames)
      /\ DOMAIN <<frame>> = {1} /\ <<frame>>[1] = frame /\ DOMAIN <<>> = {}
    BY SMTT(60)
<1>2. On(<<frame>>) = {frame} /\ On(<<>>) = {}
    BY <1>1 DEF On
<1>3. \A b \in Hosts \ {m} : Send(m, frame)[b] = <<>>
    BY DEF Send
<1>4. Send(m, frame)[m] = <<frame>>
    BY DEF Send
<1>5. Send(m, frame) \in Outs
    BY <1>1 DEF Send, Outs
<1> QED
    BY <1>2, <1>3, <1>4, <1>5

\* No answer.
LEMMA NothingOut ==
    /\ Nothing \in Outs
    /\ \A b \in Hosts : On(Nothing[b]) = {}
<1>1. <<>> \in Seq(Frames) /\ DOMAIN <<>> = {}
    BY SMTT(60)
<1>2. On(<<>>) = {}
    BY <1>1 DEF On
<1> QED
    BY <1>1, <1>2 DEF Nothing, Outs

\* A mark that is new is of what the node has or asks for.
NewSeen == \A n \in Hosts : \A it \in seen'[n] \ gone'[n] :
               it[1] # "bft" /\ ~Has(n, it)' =>
                   \/ it \in seen[n] \ gone[n]
                   \/ \E m \in Peers(n)' : it \in Asked(n, m)'

\* What is asked for stays so until it is there, refused or lost.
StillAsked == \A n, m \in Hosts : \A it \in Asked(n, m) :
                  it \in seen'[n] \ gone'[n] /\ ~Has(n, it)' => it \in Asked(n, m)'

\* The parts of the invariant that are about one variable.
Plain == /\ work \in Works /\ up \subseteq work.links /\ LinkType
         /\ head \in [Hosts -> Nat] /\ DOMAIN pool = Hosts
         /\ seen \in [Hosts -> SUBSET Items]
         /\ DOMAIN gone = Hosts /\ DOMAIN sync = Hosts

\* Sync calls are with peers.
Tasks == \A n \in Hosts : \A task \in sync[n] : task.peer \in Peers(n)

\* The invariant is these parts.
LEMMA GossipParts ==
    /\ GossipInv <=> Plain /\ Tasks /\ Carried /\ SeenIsComing
    /\ GossipInv' <=> Plain' /\ Tasks' /\ Carried' /\ SeenIsComing'
BY DEF GossipInv, Plain, Tasks, LinkType

\* Sessions that stay and marks that are followed up keep what is seen coming.
LEMMA ComingStays ==
    ASSUME GossipInv, Plain', Grows, up \subseteq up', NewSeen, StillAsked
    PROVE  SeenIsComing'
<1>1. ASSUME NEW n \in Hosts, NEW it \in seen'[n] \ gone'[n], it[1] # "bft", ~Has(n, it)'
      PROVE  \E m \in Peers(n)' : it \in Asked(n, m)'
    <2>1. CASE it \in seen[n] \ gone[n]
        <3>1. it \in Items
            BY <2>1 DEF GossipInv
        <3>2. ~Has(n, it)
            BY <1>1, <3>1, HasStays DEF GossipInv
        <3>3. PICK m \in Peers(n) : it \in Asked(n, m)
            BY <1>1, <2>1, <3>2 DEF GossipInv, SeenIsComing
        <3>4. m \in Hosts /\ m \in Peers(n)'
            BY <3>3 DEF Peers
        <3> QED
            BY <1>1, <3>3, <3>4 DEF StillAsked
    <2> QED
        BY <1>1, <2>1 DEF NewSeen
<1> QED
    BY <1>1 DEF SeenIsComing

\* Nothing is taken: what was asked for still is.
LEMMA StillWhenKept ==
    ASSUME LinkType, LinkType', KeptAll
    PROVE  StillAsked
<1>1. ASSUME NEW n \in Hosts, NEW m \in Hosts, NEW it \in Asked(n, m)
      PROVE  it \in Asked(n, m)'
    <2>0. link \in [Hosts -> [Hosts -> Seq(Frames)]] /\ it \in Asked(n, m)
        BY <1>1 DEF LinkType
    <2>1. \/ Carries(link[n][m], "getdata", it)
          \/ Carries(link[m][n], "payload", it)
        BY <2>0, AskedIs
    <2>2. \/ Carries(link'[n][m], "getdata", it)
          \/ Carries(link'[m][n], "payload", it)
        BY <2>1 DEF KeptAll, Carries
    <2> QED
        BY <2>2, AskedWillBe DEF LinkType
<1> QED
    BY <1>1 DEF StillAsked

\* One frame is taken: if it asked, its answer is on the way; if it answered,
\* the item is there, refused or lost.
LEMMA StillWhenTaken ==
    ASSUME LinkType, LinkType', NEW n \in Hosts, NEW m \in Hosts, NEW frame,
           Kept(m, n, frame),
           frame.type = "getdata" =>
              frame.item \in Asked(m, n)' \/ frame.item \notin seen'[m] \ gone'[m],
           frame.type = "payload" =>
              frame.item \notin seen'[n] \ gone'[n] \/ Has(n, frame.item)'
    PROVE  StillAsked
<1>1. ASSUME NEW a \in Hosts, NEW b \in Hosts, NEW it \in Asked(a, b),
             it \in seen'[a] \ gone'[a], ~Has(a, it)'
      PROVE  it \in Asked(a, b)'
    <2>1. CASE Carries(link[a][b], "getdata", it)
        <3>1. PICK f \in On(link[a][b]) : f.type = "getdata" /\ f.item = it
            BY <2>1 DEF Carries
        <3>2. CASE f \in On(link'[a][b])
            BY <3>1, <3>2, AskedWillBe DEF LinkType, Carries
        <3>3. CASE a = m /\ b = n /\ f = frame
            BY <3>1, <3>3, <1>1
        <3> QED
            BY <3>2, <3>3 DEF Kept
    <2>2. CASE Carries(link[b][a], "payload", it)
        <3>1. PICK f \in On(link[b][a]) : f.type = "payload" /\ f.item = it
            BY <2>2 DEF Carries
        <3>2. CASE f \in On(link'[b][a])
            BY <3>1, <3>2, AskedWillBe DEF LinkType, Carries
        <3>3. CASE b = m /\ a = n /\ f = frame
            BY <3>1, <3>3, <1>1
        <3> QED
            BY <3>2, <3>3 DEF Kept
    <2>3. link \in [Hosts -> [Hosts -> Seq(Frames)]] /\ it \in Asked(a, b)
        BY <1>1 DEF LinkType
    <2> QED
        BY <2>1, <2>2, <2>3, AskedIs
<1> QED
    BY <1>1 DEF StillAsked

\* What is added goes to peers and is in order: then all frames are.
LEMMA CarriedAdded ==
    ASSUME GossipInv, Grows, up \subseteq up', NEW n \in Hosts, NEW out, Added(n, out),
           \A b \in Hosts : \A f \in On(out[b]) : FrameOK(n, b, f)' /\ {n, b} \in up'
    PROVE  Carried'
BY CarriedOn DEF Added, GossipInv

\* The first frame of a session.
LEMMA FirstIs ==
    ASSUME GossipInv, NEW m \in Hosts, NEW n \in Hosts, NEW t, First(m, n, t)
    PROVE  /\ link[m][n] # <<>> /\ Head(link[m][n]).type = t
           /\ FrameOK(m, n, Head(link[m][n])) /\ Head(link[m][n]) \in Frames
           /\ m # n /\ {m, n} \in up /\ {n, m} \in up /\ m \in Peers(n)
<1>0. link \in [Hosts -> [Hosts -> Seq(Frames)]]
    BY DEF GossipInv
<1>1. link[m][n] # <<>> /\ Head(link[m][n]).type = t
    BY DEF First
<1>5. link[m][n] \in Seq(Frames)
    BY <1>0, SMTT(60)
<1>2. Head(link[m][n]) \in On(link[m][n])
    BY <1>1, <1>5, OnTail
<1>3. Head(link[m][n]) \in Frames
    BY <1>1, <1>5, SMTT(60)
<1>4. FrameOK(m, n, Head(link[m][n])) /\ {m, n} \in up
    BY <1>2 DEF GossipInv, Carried
<1> QED
    BY <1>1, <1>3, <1>4, UpIsPair

\* Nothing that is held changes.
LEMMA GrowsSame ==
    ASSUME GossipInv, UNCHANGED <<head, pool>>
    PROVE  Grows
<1>1. \A n \in Hosts : head[n] \in Nat
    BY DEF GossipInv
<1>2. \A n \in Hosts : head[n] <= head[n]
    BY <1>1, SMTT(60)
<1> QED
    BY <1>2 DEF Grows, GossipInv

\* The frames there are.
LEMMA FrameIs ==
    ASSUME NEW t \in Types, NEW x \in Items \cup Nat \cup (Nat \X Nat)
    PROVE  Frame(t, x) \in Frames /\ Frame(t, x).type = t /\ Frame(t, x).item = x
BY SMTT(60) DEF Frame, Frames

\* A frame for an item.
LEMMA ItemFrame ==
    ASSUME NEW t \in {"inv", "getdata", "payload", "bft"}, NEW x \in Items
    PROVE  Frame(t, x) \in Frames /\ Frame(t, x).type = t /\ Frame(t, x).item = x
<1>1. t \in Types
    BY DEF Types
<1>2. x \in Items \cup Nat \cup (Nat \X Nat)
    OBVIOUS
<1> QED
    BY <1>1, <1>2, FrameIs

\* A handler that takes a frame, answers in order and marks what it follows up.
LEMMA HandlerStep ==
    ASSUME GossipInv, NEW m \in Hosts, NEW n \in Hosts, m # n, link[m][n] # <<>>,
           NEW out \in Outs, Handled(m, n, out), NEW frame, frame = Head(link[m][n]),
           UNCHANGED <<work, up>>, Grows, Tasks',
           seen' \in [Hosts -> SUBSET Items], DOMAIN gone' = Hosts, DOMAIN sync' = Hosts,
           \A b \in Hosts : \A f \in On(out[b]) : FrameOK(n, b, f)' /\ {n, b} \in up,
           NewSeen,
           frame.type = "getdata" =>
              \/ frame.item \in Asked(m, n)'
              \/ frame.item \notin seen'[m] \ gone'[m],
           frame.type = "payload" =>
              \/ frame.item \notin seen'[n] \ gone'[n]
              \/ Has(n, frame.item)'
    PROVE  GossipInv'
<1>1. LinkType
    BY DEF GossipInv, LinkType
<1>2. LinkType' /\ Added(n, out) /\ Kept(m, n, frame)
    BY <1>1, Taken
<1>3. Plain'
    BY <1>2 DEF Plain, GossipInv, Grows
<1>4. Carried'
    BY <1>2, CarriedAdded
<1>5. StillAsked
    BY <1>1, <1>2, StillWhenTaken
<1>6. SeenIsComing'
    BY <1>3, <1>5, ComingStays
<1> QED
    BY <1>3, <1>4, <1>6, GossipParts

\* Sync calls stay with their sessions.
LEMMA TasksStay ==
    ASSUME GossipInv, UNCHANGED <<up, sync>>
    PROVE  DOMAIN sync' = Hosts /\ Tasks'
BY DEF GossipInv, Tasks, Peers

\* A call for a peer joins them.
LEMMA TaskJoins ==
    ASSUME GossipInv, up' = up, NEW n \in Hosts, NEW m \in Peers(n), NEW by,
           sync' = [sync EXCEPT ![n] = @ \cup {Task(m, by)}]
    PROVE  DOMAIN sync' = Hosts /\ Tasks'
<1>1. Task(m, by).peer = m
    BY DEF Task
<1>2. DOMAIN sync' = Hosts /\ sync'[n] = sync[n] \cup {Task(m, by)}
      /\ \A x \in Hosts \ {n} : sync'[x] = sync[x]
    BY DEF GossipInv
<1>3. \A x \in Hosts : Peers(x)' = Peers(x)
    BY DEF Peers
<1>4. \A x \in Hosts : \A task \in sync[x] : task.peer \in Peers(x)
    BY DEF GossipInv
<1> QED
    BY <1>1, <1>2, <1>3, <1>4 DEF Tasks

\* No new mark.
LEMMA NewSeenSame ==
    ASSUME \A n \in Hosts : seen'[n] \ gone'[n] \subseteq seen[n] \ gone[n]
    PROVE  NewSeen
BY DEF NewSeen

\* No answer, nothing new held, no new mark: what remains is the frame.
LEMMA Idle ==
    ASSUME GossipInv, NEW m \in Hosts, NEW n \in Hosts, m # n, link[m][n] # <<>>,
           Handled(m, n, Nothing), NEW frame, frame = Head(link[m][n]),
           UNCHANGED <<work, up>>, Grows, Tasks',
           seen' \in [Hosts -> SUBSET Items], DOMAIN gone' = Hosts, DOMAIN sync' = Hosts,
           NewSeen,
           frame.type # "getdata",
           frame.type = "payload" =>
              \/ frame.item \notin seen'[n] \ gone'[n]
              \/ Has(n, frame.item)'
    PROVE  GossipInv'
<1>1. Nothing \in Outs
      /\ \A b \in Hosts : \A f \in On(Nothing[b]) : FrameOK(n, b, f)' /\ {n, b} \in up
    BY NothingOut
<1> QED
    BY <1>1, HandlerStep

\* An announcement is followed up, or is of what is had or marked.
LEMMA InventoryStep ==
    ASSUME GossipInv, NEW m \in Hosts, NEW n \in Hosts,
           handleInventory(m, n)
    PROVE  GossipInv'
<1>0. PICK frame : frame = Head(link[m][n])
    OBVIOUS
<1> DEFINE it == frame.item
           ask == Frame("getdata", it)
<1>1. First(m, n, "inv") /\ UNCHANGED <<work, up, head, pool, sync, gone>>
    BY DEF handleInventory, ghost
<1>2. /\ link[m][n] # <<>> /\ frame.type = "inv"
      /\ FrameOK(m, n, frame)
      /\ m # n /\ {n, m} \in up /\ m \in Peers(n)
    BY <1>0, <1>1, FirstIs
<1>3. it \in Items /\ it[1] # "bft" /\ Has(m, it)
    BY <1>2 DEF FrameOK
<1>4. Grows /\ DOMAIN sync' = Hosts /\ Tasks' /\ DOMAIN gone' = Hosts
    BY <1>1, GrowsSame, TasksStay DEF GossipInv
<1>5. Has(m, it)'
    BY <1>3, <1>4, HasStays DEF GossipInv
<1>6. seen \in [Hosts -> SUBSET Items]
    BY DEF GossipInv
<1>7. CASE it \notin seen[n] /\ ~Has(n, it)
    <2>1. Handled(m, n, Send(m, ask)) /\ seen' = [seen EXCEPT ![n] = @ \cup {it}]
        BY <1>0, <1>7 DEF handleInventory
    <2>2. ask \in Frames /\ ask.type = "getdata" /\ ask.item = it
        BY <1>3, ItemFrame
    <2> HIDE DEF ask, it
    <2>3. /\ Send(m, ask) \in Outs
          /\ \A b \in Hosts : \A f \in On(Send(m, ask)[b]) : f = ask /\ b = m
          /\ ask \in On(Send(m, ask)[m])
        BY <2>2, SendOut
    <2>4. FrameOK(n, m, ask)'
        BY <2>2, <1>3, <1>5 DEF FrameOK
    <2>5. LinkType' /\ On(Send(m, ask)[m]) \subseteq On(link'[n][m])
        BY <2>1, <2>3, <1>2, Taken DEF GossipInv, LinkType
    <2>6. Carries(link'[n][m], "getdata", it)
        BY <2>2, <2>3, <2>5 DEF Carries
    <2>7. it \in Asked(n, m)' /\ m \in Peers(n)'
        BY <2>5, <2>6, <1>1, <1>2, AskedWillBe DEF LinkType, Peers
    <2>8. seen' \in [Hosts -> SUBSET Items] /\ seen'[n] = seen[n] \cup {it}
          /\ \A x \in Hosts \ {n} : seen'[x] = seen[x]
        BY <2>1, <1>3, <1>6
    <2>9. NewSeen
        <3>1. ASSUME NEW x \in Hosts, NEW y \in seen'[x] \ gone'[x]
              PROVE  y \in seen[x] \ gone[x] \/ \E k \in Peers(x)' : y \in Asked(x, k)'
            <4>1. CASE x = n /\ y = it
                BY <2>7, <4>1
            <4>2. CASE ~(x = n /\ y = it)
                BY <2>8, <1>1, <3>1, <4>2
            <4> QED
                BY <4>1, <4>2
        <3> QED
            BY <3>1 DEF NewSeen
    <2>10. \A b \in Hosts : \A f \in On(Send(m, ask)[b]) : FrameOK(n, b, f)' /\ {n, b} \in up
        BY <2>3, <2>4, <1>2
    <2>11. frame.type # "getdata" /\ frame.type # "payload"
        BY <1>2
    <2> QED
        BY <1>0, <1>1, <1>2, <1>4, <2>1, <2>3, <2>8, <2>9, <2>10, <2>11, HandlerStep
<1>8. CASE ~(it \notin seen[n] /\ ~Has(n, it))
    <2>1. Handled(m, n, Nothing) /\ seen' = seen
        BY <1>0, <1>8 DEF handleInventory
    <2>2. NewSeen
        BY <2>1, <1>1, NewSeenSame
    <2>3. frame.type # "getdata" /\ frame.type # "payload"
        BY <1>2
    <2> QED
        BY <1>0, <1>1, <1>2, <1>4, <1>6, <2>1, <2>2, <2>3, Idle
<1> QED
    BY <1>7, <1>8

\* A request is answered: who is asked has the item.
LEMMA GetDataStep ==
    ASSUME GossipInv, NEW m \in Hosts, NEW n \in Hosts,
           handleGetData(m, n)
    PROVE  GossipInv'
<1>0. PICK frame : frame = Head(link[m][n])
    OBVIOUS
<1> DEFINE it == frame.item
           reply == Frame("payload", it)
<1>1. First(m, n, "getdata") /\ UNCHANGED <<work, up, head, pool, seen, sync, gone>>
    BY DEF handleGetData, ghost
<1>2. /\ link[m][n] # <<>> /\ frame.type = "getdata"
      /\ FrameOK(m, n, frame)
      /\ m # n /\ {n, m} \in up
    BY <1>0, <1>1, FirstIs
<1>3. it \in Items /\ it[1] # "bft" /\ Has(n, it)
    BY <1>2 DEF FrameOK
<1>4. Grows /\ DOMAIN sync' = Hosts /\ Tasks' /\ DOMAIN gone' = Hosts
    BY <1>1, GrowsSame, TasksStay DEF GossipInv
<1>5. seen' \in [Hosts -> SUBSET Items]
    BY <1>1 DEF GossipInv
<1>6. Handled(m, n, Send(m, reply))
    BY <1>0, <1>3 DEF handleGetData
<1>7. reply \in Frames /\ reply.type = "payload" /\ reply.item = it
    BY <1>3, ItemFrame
<1> HIDE DEF reply, it
<1>8. /\ Send(m, reply) \in Outs
      /\ \A b \in Hosts : \A f \in On(Send(m, reply)[b]) : f = reply /\ b = m
      /\ reply \in On(Send(m, reply)[m])
    BY <1>7, SendOut
<1>9. FrameOK(n, m, reply)'
    BY <1>7, <1>3 DEF FrameOK
<1>10. LinkType' /\ On(Send(m, reply)[m]) \subseteq On(link'[n][m])
    BY <1>6, <1>8, <1>2, Taken DEF GossipInv, LinkType
<1>11. Carries(link'[n][m], "payload", it)
    BY <1>7, <1>8, <1>10 DEF Carries
<1>12. it \in Asked(m, n)'
    BY <1>10, <1>11, AskedWillBe DEF LinkType
<1>13. frame.type = "getdata" => frame.item \in Asked(m, n)'
    BY <1>12 DEF it
<1>14. frame.type # "payload"
    BY <1>2
<1>15. NewSeen
    BY <1>1, NewSeenSame
<1>16. \A b \in Hosts : \A f \in On(Send(m, reply)[b]) : FrameOK(n, b, f)' /\ {n, b} \in up
    BY <1>8, <1>9, <1>2
<1> QED
    BY <1>0, <1>1, <1>2, <1>4, <1>5, <1>6, <1>8, <1>13, <1>14, <1>15, <1>16, HandlerStep

\* What is had is announced to the other peers.
LEMMA AnnounceOut ==
    ASSUME NEW n \in Hosts, NEW it \in Items, it[1] # "bft", Has(n, it)', NEW ex,
           NEW frame \in Frames, frame.type = "inv", frame.item = it
    PROVE  /\ Broadcast(n, frame, ex) \in Outs
           /\ \A b \in Hosts : \A f \in On(Broadcast(n, frame, ex)[b]) :
                 FrameOK(n, b, f)' /\ {n, b} \in up
<1>1. \A b \in Hosts : FrameOK(n, b, frame)'
    BY DEF FrameOK
<1>2. /\ Broadcast(n, frame, ex) \in Outs
      /\ \A b \in Hosts : \A f \in On(Broadcast(n, frame, ex)[b]) : f = frame /\ {n, b} \in up
    BY BroadcastOut
<1> QED
    BY <1>1, <1>2

\* A transaction arrives: it is had, enters the pool, or is refused.
LEMMA TxPayloadStep ==
    ASSUME GossipInv, NEW m \in Hosts, NEW n \in Hosts,
           handleTxPayload(m, n)
    PROVE  GossipInv'
<1>0. PICK frame : frame = Head(link[m][n])
    OBVIOUS
<1>1. /\ First(m, n, "payload") /\ frame.item[1] = "tx"
      /\ UNCHANGED <<work, up, head, seen, sync>>
    BY <1>0 DEF handleTxPayload, ghost
<1>2. /\ link[m][n] # <<>> /\ frame.type = "payload"
      /\ FrameOK(m, n, frame)
      /\ m # n /\ {n, m} \in up
    BY <1>0, <1>1, FirstIs
<1>3. PICK it : it = frame.item
    OBVIOUS
<1>4. it \in Items /\ it[1] = "tx" /\ it[1] # "bft"
    BY <1>1, <1>2, <1>3 DEF FrameOK
<1>5. DOMAIN sync' = Hosts /\ Tasks' /\ seen' \in [Hosts -> SUBSET Items]
      /\ frame.type # "getdata"
    BY <1>1, <1>2, TasksStay DEF GossipInv
<1>6. CASE Has(n, it) /\ Handled(m, n, Nothing) /\ UNCHANGED <<pool, gone>>
    <2>1. Grows /\ DOMAIN gone' = Hosts
        BY <1>1, <1>6, GrowsSame DEF GossipInv
    <2>2. Has(n, it)'
        BY <1>4, <1>6, <2>1, HasStays DEF GossipInv
    <2>3. NewSeen
        BY <1>1, <1>6, NewSeenSame
    <2> QED
        BY <1>0, <1>1, <1>2, <1>3, <1>5, <1>6, <2>1, <2>2, <2>3, Idle
<1>7. CASE /\ pool' = [pool EXCEPT ![n] = @ \cup {it[2]}]
           /\ Handled(m, n, Broadcast(n, Frame("inv", it), {m}))
           /\ UNCHANGED gone
    <2>1. DOMAIN pool' = Hosts /\ pool'[n] = pool[n] \cup {it[2]}
          /\ \A x \in Hosts \ {n} : pool'[x] = pool[x]
        BY <1>7 DEF GossipInv
    <2>2. Grows /\ DOMAIN gone' = Hosts
        <3>1. \A x \in Hosts : head[x] \in Nat
            BY DEF GossipInv
        <3>2. \A x \in Hosts : head[x] <= head[x]
            BY <3>1, SMTT(60)
        <3> QED
            BY <1>1, <1>7, <2>1, <3>2 DEF Grows, GossipInv
    <2>3. Has(n, it)'
        BY <1>4, <2>1, HasWillBe
    <2>4. NewSeen
        BY <1>1, <1>7, NewSeenSame
    <2>5. PICK inv \in Frames : inv = Frame("inv", it) /\ inv.type = "inv" /\ inv.item = it
        BY <1>4, ItemFrame
    <2>6. /\ Broadcast(n, inv, {m}) \in Outs
          /\ \A b \in Hosts : \A f \in On(Broadcast(n, inv, {m})[b]) :
                 FrameOK(n, b, f)' /\ {n, b} \in up
        BY <1>4, <2>3, <2>5, AnnounceOut
    <2>7. Handled(m, n, Broadcast(n, inv, {m}))
        BY <1>7, <2>5
    <2> QED
        BY <1>0, <1>1, <1>2, <1>3, <1>5, <2>2, <2>3, <2>4, <2>6, <2>7, HandlerStep
<1>8. CASE gone' = [gone EXCEPT ![n] = @ \cup {it}] /\ Handled(m, n, Nothing) /\ UNCHANGED pool
    <2>1. DOMAIN gone' = Hosts /\ it \in gone'[n] /\ \A x \in Hosts : gone[x] \subseteq gone'[x]
        BY <1>8 DEF GossipInv
    <2>2. Grows
        BY <1>1, <1>8, GrowsSame
    <2>3. NewSeen
        BY <1>1, <2>1, NewSeenSame
    <2> QED
        BY <1>0, <1>1, <1>2, <1>3, <1>5, <1>8, <2>1, <2>2, <2>3, Idle
<1>9. \/ Has(n, it) /\ Handled(m, n, Nothing) /\ UNCHANGED <<pool, gone>>
      \/ /\ pool' = [pool EXCEPT ![n] = @ \cup {it[2]}]
         /\ Handled(m, n, Broadcast(n, Frame("inv", it), {m}))
         /\ UNCHANGED gone
      \/ gone' = [gone EXCEPT ![n] = @ \cup {it}] /\ Handled(m, n, Nothing) /\ UNCHANGED pool
    BY <1>0, <1>3 DEF handleTxPayload
<1> QED
    BY <1>6, <1>7, <1>8, <1>9

\* A chain grows.
LEMMA GrowsHead ==
    ASSUME GossipInv, NEW n \in Hosts, NEW h \in Nat, head[n] <= h,
           head' = [head EXCEPT ![n] = h], pool' = pool
    PROVE  Grows /\ head'[n] = h
<1>1. \A x \in Hosts : head[x] \in Nat
    BY DEF GossipInv
<1>2. \A x \in Hosts : head[x] <= head[x]
    BY <1>1, SMTT(60)
<1>3. head' \in [Hosts -> Nat] /\ head'[n] = h /\ \A x \in Hosts \ {n} : head'[x] = head[x]
    BY DEF GossipInv
<1>4. DOMAIN pool' = Hosts
    BY DEF GossipInv
<1> QED
    BY <1>2, <1>3, <1>4 DEF Grows

\* A block arrives: it is had, imported, or refused and its mark cleared.
LEMMA BlockPayloadStep ==
    ASSUME GossipInv, NEW m \in Hosts, NEW n \in Hosts,
           handleBlockPayload(m, n)
    PROVE  GossipInv'
<1>0. PICK frame : frame = Head(link[m][n])
    OBVIOUS
<1>1. /\ First(m, n, "payload") /\ frame.item[1] = "block"
      /\ UNCHANGED <<work, up, pool, gone>>
    BY <1>0 DEF handleBlockPayload, ghost
<1>2. /\ link[m][n] # <<>> /\ frame.type = "payload"
      /\ FrameOK(m, n, frame)
      /\ m # n /\ {n, m} \in up /\ m \in Peers(n)
    BY <1>0, <1>1, FirstIs
<1>3. PICK it : it = frame.item
    OBVIOUS
<1>4. it \in Items /\ it[1] = "block" /\ it[1] # "bft" /\ it[2] \in Nat
    BY <1>1, <1>2, <1>3, ItemIs DEF FrameOK
<1>5. DOMAIN gone' = Hosts /\ frame.type # "getdata" /\ seen \in [Hosts -> SUBSET Items]
    BY <1>1, <1>2 DEF GossipInv
<1>6. CASE Has(n, it) /\ Handled(m, n, Nothing) /\ UNCHANGED <<head, seen, sync>>
    <2>1. Grows /\ DOMAIN sync' = Hosts /\ Tasks'
        BY <1>1, <1>6, GrowsSame, TasksStay
    <2>2. Has(n, it)'
        BY <1>4, <1>6, <2>1, HasStays DEF GossipInv
    <2>3. NewSeen
        BY <1>1, <1>6, NewSeenSame
    <2> QED
        BY <1>0, <1>1, <1>2, <1>3, <1>5, <1>6, <2>1, <2>2, <2>3, Idle
<1>7. CASE /\ it[2] = head[n] + 1 /\ head' = [head EXCEPT ![n] = it[2]]
           /\ Handled(m, n, Broadcast(n, Frame("inv", it), {m}))
           /\ UNCHANGED <<seen, sync>>
    <2>1. head[n] \in Nat
        BY DEF GossipInv
    <2>2. head[n] <= it[2] /\ it[2] <= it[2]
        BY <1>4, <1>7, <2>1, SMTT(60)
    <2>3. Grows /\ head'[n] = it[2] /\ DOMAIN sync' = Hosts /\ Tasks'
        BY <1>1, <1>4, <1>7, <2>2, GrowsHead, TasksStay
    <2>4. Has(n, it)'
        BY <1>4, <2>2, <2>3, HasWillBe
    <2>5. NewSeen
        BY <1>1, <1>7, NewSeenSame
    <2>6. PICK inv \in Frames : inv = Frame("inv", it) /\ inv.type = "inv" /\ inv.item = it
        BY <1>4, ItemFrame
    <2>7. /\ Broadcast(n, inv, {m}) \in Outs
          /\ \A b \in Hosts : \A f \in On(Broadcast(n, inv, {m})[b]) :
                 FrameOK(n, b, f)' /\ {n, b} \in up
        BY <1>4, <2>4, <2>6, AnnounceOut
    <2>8. Handled(m, n, Broadcast(n, inv, {m})) /\ seen' \in [Hosts -> SUBSET Items]
        BY <1>5, <1>7, <2>6
    <2> QED
        BY <1>0, <1>1, <1>2, <1>3, <1>5, <2>3, <2>4, <2>5, <2>7, <2>8, HandlerStep
<1>8. CASE /\ seen' = [seen EXCEPT ![n] = @ \ {it}]
           /\ sync' = [sync EXCEPT ![n] = @ \cup {Task(m, "import")}]
           /\ Handled(m, n, Nothing) /\ head' = head
    <2>1. /\ seen' \in [Hosts -> SUBSET Items] /\ it \notin seen'[n]
          /\ \A x \in Hosts : seen'[x] \subseteq seen[x]
        BY <1>5, <1>8
    <2>2. Grows
        BY <1>1, <1>8, GrowsSame
    <2>3. NewSeen
        BY <1>1, <2>1, NewSeenSame
    <2>4. DOMAIN sync' = Hosts /\ Tasks'
        BY <1>1, <1>2, <1>8, TaskJoins
    <2> QED
        BY <1>0, <1>1, <1>2, <1>3, <1>5, <1>8, <2>1, <2>2, <2>3, <2>4, Idle
<1>9. \/ Has(n, it) /\ Handled(m, n, Nothing) /\ UNCHANGED <<head, seen, sync>>
      \/ /\ it[2] = head[n] + 1 /\ head' = [head EXCEPT ![n] = it[2]]
         /\ Handled(m, n, Broadcast(n, Frame("inv", it), {m}))
         /\ UNCHANGED <<seen, sync>>
      \/ /\ seen' = [seen EXCEPT ![n] = @ \ {it}]
         /\ sync' = [sync EXCEPT ![n] = @ \cup {Task(m, "import")}]
         /\ Handled(m, n, Nothing) /\ head' = head
    BY <1>0, <1>3 DEF handleBlockPayload
<1> QED
    BY <1>6, <1>7, <1>8, <1>9

\* Blocks are sent to who asked for them.
LEMMA GetBlocksStep ==
    ASSUME GossipInv, NEW m \in Hosts, NEW n \in Hosts,
           handleGetBlocks(m, n)
    PROVE  GossipInv'
<1>0. PICK frame : frame = Head(link[m][n])
    OBVIOUS
<1>1. First(m, n, "getblocks") /\ UNCHANGED <<work, up, head, pool, seen, sync, gone>>
    BY DEF handleGetBlocks, ghost
<1>2. /\ link[m][n] # <<>> /\ frame.type = "getblocks"
      /\ FrameOK(m, n, frame)
      /\ m # n /\ {n, m} \in up
    BY <1>0, <1>1, FirstIs
<1>3. frame.item \in Nat /\ head[n] \in Nat /\ MaxBlocksPerRequest \in Nat \ {0}
    BY GossipAssumption, <1>2 DEF FrameOK, GossipInv
<1>4. PICK last \in Nat :
          Handled(m, n, Send(m, Frame("blocks", <<frame.item, last>>)))
    <2> DEFINE last == IF head[n] < frame.item + MaxBlocksPerRequest - 1
                       THEN head[n] ELSE frame.item + MaxBlocksPerRequest - 1
    <2>1. last \in Nat
        BY <1>3, SMTT(60)
    <2>2. Handled(m, n, Send(m, Frame("blocks", <<frame.item, last>>)))
        BY <1>0 DEF handleGetBlocks
    <2> HIDE DEF last
    <2> QED
        BY <2>1, <2>2
<1>5. <<frame.item, last>> \in Nat \X Nat
    BY <1>3, SMTT(60)
<1>6. PICK reply \in Frames : reply = Frame("blocks", <<frame.item, last>>)
            /\ reply.type = "blocks" /\ reply.item = <<frame.item, last>>
    <2> DEFINE range == <<frame.item, last>>
    <2>1. "blocks" \in Types /\ range \in Items \cup Nat \cup (Nat \X Nat)
        BY <1>5 DEF Types
    <2> HIDE DEF range
    <2>2. /\ Frame("blocks", range) \in Frames
          /\ Frame("blocks", range).type = "blocks"
          /\ Frame("blocks", range).item = range
        BY <2>1, FrameIs
    <2> QED
        BY <2>2 DEF range
<1>7. /\ Send(m, reply) \in Outs
      /\ \A b \in Hosts : \A f \in On(Send(m, reply)[b]) : f = reply /\ b = m
    BY SendOut
<1>8. reply.item \in Nat \X Nat
    BY <1>5, <1>6
<1>9. FrameOK(n, m, reply)'
    BY <1>6, <1>8 DEF FrameOK
<1>10. \A b \in Hosts : \A f \in On(Send(m, reply)[b]) : FrameOK(n, b, f)' /\ {n, b} \in up
    BY <1>7, <1>9, <1>2
<1>11. Grows /\ DOMAIN sync' = Hosts /\ Tasks' /\ DOMAIN gone' = Hosts
    BY <1>1, GrowsSame, TasksStay DEF GossipInv
<1>12. seen' \in [Hosts -> SUBSET Items] /\ NewSeen
    BY <1>1, NewSeenSame DEF GossipInv
<1>13. Handled(m, n, Send(m, reply)) /\ frame.type # "getdata" /\ frame.type # "payload"
    BY <1>2, <1>4, <1>6
<1> QED
    BY <1>0, <1>1, <1>2, <1>7, <1>10, <1>11, <1>12, <1>13, HandlerStep

\* Blocks arrive: the chain grows, or they are too early and a call is started.
LEMMA BlocksStep ==
    ASSUME GossipInv, NEW m \in Hosts, NEW n \in Hosts,
           handleBlocks(m, n)
    PROVE  GossipInv'
<1>0. PICK frame : frame = Head(link[m][n])
    OBVIOUS
<1>1. First(m, n, "blocks") /\ UNCHANGED <<work, up, pool, seen, gone>>
      /\ Handled(m, n, Nothing)
    BY DEF handleBlocks, ghost
<1>2. /\ link[m][n] # <<>> /\ frame.type = "blocks"
      /\ FrameOK(m, n, frame)
      /\ m # n /\ {n, m} \in up /\ m \in Peers(n)
    BY <1>0, <1>1, FirstIs
<1>3. frame.item \in Nat \X Nat
    BY <1>2 DEF FrameOK
<1>4. frame.item[1] \in Nat /\ frame.item[2] \in Nat
    BY <1>3, SMTT(60)
<1>5. head[n] \in Nat /\ head \in [Hosts -> Nat]
    BY DEF GossipInv
<1>6. Grows /\ DOMAIN sync' = Hosts /\ Tasks'
    <2>1. CASE frame.item[1] > head[n] + 1 /\ frame.item[2] >= frame.item[1]
        <3>1. head' = [head EXCEPT ![n] = @]
              /\ sync' = [sync EXCEPT ![n] = @ \cup {Task(m, "import")}]
            BY <1>0, <2>1 DEF handleBlocks
        <3>2. head' = head
            BY <3>1, <1>5
        <3> QED
            BY <1>1, <1>2, <3>1, <3>2, GrowsSame, TaskJoins
    <2>2. CASE ~(frame.item[1] > head[n] + 1 /\ frame.item[2] >= frame.item[1])
        <3>1. PICK h : h = Higher(head[n], frame.item[2])
            OBVIOUS
        <3>2. head' = [head EXCEPT ![n] = h] /\ sync' = sync
            BY <1>0, <2>2, <3>1 DEF handleBlocks
        <3>3. h \in Nat /\ head[n] <= h
            BY <1>4, <1>5, <3>1, SMTT(60) DEF Higher
        <3> QED
            BY <1>1, <3>2, <3>3, GrowsHead, TasksStay
    <2> QED
        BY <2>1, <2>2
<1>7. DOMAIN gone' = Hosts /\ seen' \in [Hosts -> SUBSET Items] /\ NewSeen
      /\ frame.type # "getdata" /\ frame.type # "payload"
    BY <1>1, <1>2, NewSeenSame DEF GossipInv
<1> QED
    BY <1>0, <1>1, <1>2, <1>6, <1>7, Idle

\* A consensus message is marked and passed on, refused, or known.
LEMMA VoteStep ==
    ASSUME GossipInv, NEW m \in Hosts, NEW n \in Hosts,
           handleVote(m, n)
    PROVE  GossipInv'
<1>0. PICK frame : frame = Head(link[m][n])
    OBVIOUS
<1>1. First(m, n, "bft") /\ UNCHANGED <<work, up, head, pool, sync>>
    BY DEF handleVote, ghost
<1>2. /\ link[m][n] # <<>> /\ frame.type = "bft"
      /\ FrameOK(m, n, frame)
      /\ m # n /\ {n, m} \in up
    BY <1>0, <1>1, FirstIs
<1>3. PICK it : it = frame.item
    OBVIOUS
<1>4. it \in Items /\ it[1] = "bft"
    BY <1>2, <1>3 DEF FrameOK
<1>5. Grows /\ DOMAIN sync' = Hosts /\ Tasks' /\ seen \in [Hosts -> SUBSET Items]
      /\ frame.type # "getdata" /\ frame.type # "payload" /\ DOMAIN gone = Hosts
    BY <1>1, <1>2, GrowsSame, TasksStay DEF GossipInv
<1>6. \/ Handled(m, n, Nothing)
      \/ Handled(m, n, Broadcast(n, Frame("bft", it), {m}))
    BY <1>0, <1>3 DEF handleVote
<1>12. seen' = seen \/ seen' = [seen EXCEPT ![n] = @ \cup {it}]
    BY <1>0, <1>3 DEF handleVote
<1>13. gone' = gone \/ gone' = [gone EXCEPT ![n] = @ \cup {it}]
    BY <1>0, <1>3 DEF handleVote
<1>7. DOMAIN gone' = Hosts /\ \A x \in Hosts : gone[x] \subseteq gone'[x]
    <2>1. CASE gone' = gone
        BY <1>5, <2>1
    <2>2. CASE gone' = [gone EXCEPT ![n] = @ \cup {it}]
        BY <1>5, <2>2
    <2> QED
        BY <1>13, <2>1, <2>2
<1>8. /\ seen' \in [Hosts -> SUBSET Items]
      /\ \A x \in Hosts : seen'[x] \subseteq seen[x] \cup {it}
    <2>1. CASE seen' = seen
        BY <1>5, <2>1
    <2>2. CASE seen' = [seen EXCEPT ![n] = @ \cup {it}]
        <3>1. seen' \in [Hosts -> SUBSET Items] /\ seen'[n] = seen[n] \cup {it}
              /\ \A x \in Hosts \ {n} : seen'[x] = seen[x]
            BY <1>4, <1>5, <2>2
        <3> QED
            BY <3>1
    <2> QED
        BY <1>12, <2>1, <2>2
<1>9. NewSeen
    <2>1. ASSUME NEW x \in Hosts, NEW y \in seen'[x] \ gone'[x], y[1] # "bft"
          PROVE  y \in seen[x] \ gone[x]
        <3>1. y # it
            BY <1>4, <2>1
        <3>2. y \in seen[x] \cup {it}
            BY <1>8, <2>1
        <3> QED
            BY <1>7, <2>1, <3>1, <3>2
    <2> QED
        BY <2>1 DEF NewSeen
<1>10. CASE Handled(m, n, Nothing)
    BY <1>0, <1>1, <1>2, <1>5, <1>7, <1>8, <1>9, <1>10, Idle
<1>11. CASE Handled(m, n, Broadcast(n, Frame("bft", it), {m}))
    <2>1. PICK msg \in Frames : msg = Frame("bft", it) /\ msg.type = "bft" /\ msg.item = it
        BY <1>4, ItemFrame
    <2>2. /\ Broadcast(n, msg, {m}) \in Outs
          /\ \A b \in Hosts : \A f \in On(Broadcast(n, msg, {m})[b]) : f = msg /\ {n, b} \in up
        BY BroadcastOut
    <2>6. msg.item \in Items /\ msg.item[1] = "bft" /\ msg.type = "bft"
        BY <2>1, <1>4
    <2>3. \A b \in Hosts : FrameOK(n, b, msg)'
        BY <2>6 DEF FrameOK
    <2>4. \A b \in Hosts : \A f \in On(Broadcast(n, msg, {m})[b]) :
              FrameOK(n, b, f)' /\ {n, b} \in up
        <3>1. ASSUME NEW b \in Hosts, NEW f \in On(Broadcast(n, msg, {m})[b])
              PROVE  FrameOK(n, b, f)' /\ {n, b} \in up
            <4>1. f = msg /\ {n, b} \in up
                BY <2>2
            <4> QED
                BY <4>1, <2>3
        <3> QED
            BY <3>1
    <2>5. Handled(m, n, Broadcast(n, msg, {m}))
        BY <1>11, <2>1
    <2> QED
        BY <1>0, <1>1, <1>2, <1>5, <1>7, <1>8, <1>9, <2>2, <2>4, <2>5, HandlerStep
<1> QED
    BY <1>6, <1>10, <1>11

\* A step that only adds frames, in order and over sessions.
LEMMA QueueStep ==
    ASSUME GossipInv, NEW n \in Hosts, NEW out \in Outs, link' = Queue(n, out),
           UNCHANGED <<work, up, gone>>, Grows, Tasks', DOMAIN sync' = Hosts,
           seen' \in [Hosts -> SUBSET Items],
           \A b \in Hosts : \A f \in On(out[b]) : FrameOK(n, b, f)' /\ {n, b} \in up,
           \A x \in Hosts : \A it \in seen'[x] : it \in seen[x] \/ Has(x, it)'
    PROVE  GossipInv'
<1>1. LinkType
    BY DEF GossipInv, LinkType
<1>2. LinkType' /\ Added(n, out) /\ KeptAll
    BY <1>1, Queued
<1>3. Plain'
    BY <1>2 DEF Plain, GossipInv, Grows
<1>4. Carried'
    BY <1>2, CarriedAdded
<1>5. StillAsked
    BY <1>1, <1>2, StillWhenKept
<1>6. NewSeen
    BY DEF NewSeen
<1>7. SeenIsComing'
    BY <1>3, <1>5, <1>6, ComingStays
<1> QED
    BY <1>3, <1>4, <1>7, GossipParts

\* What is marked is held.
LEMMA MarkHeld ==
    ASSUME seen \in [Hosts -> SUBSET Items], NEW n \in Hosts, NEW it \in Items,
           Has(n, it)', seen' = [seen EXCEPT ![n] = @ \cup {it}]
    PROVE  /\ seen' \in [Hosts -> SUBSET Items]
           /\ \A x \in Hosts : \A y \in seen'[x] : y \in seen[x] \/ Has(x, y)'
<1>1. seen' \in [Hosts -> SUBSET Items] /\ seen'[n] = seen[n] \cup {it}
      /\ \A x \in Hosts \ {n} : seen'[x] = seen[x]
    OBVIOUS
<1>2. ASSUME NEW x \in Hosts, NEW y \in seen'[x]
      PROVE  y \in seen[x] \/ Has(x, y)'
    <2>1. CASE x = n /\ y = it
        BY <2>1
    <2>2. CASE ~(x = n /\ y = it)
        BY <1>1, <1>2, <2>2
    <2> QED
        BY <2>1, <2>2
<1> QED
    BY <1>1, <1>2

\* A validator commits a block and announces it.
LEMMA OnCommitStep ==
    ASSUME GossipInv, NEW n \in Hosts, OnCommit(n)
    PROVE  GossipInv'
<1>0. head[n] \in Nat /\ seen \in [Hosts -> SUBSET Items]
    BY DEF GossipInv
<1>1. PICK h \in Nat : h = head[n] + 1
    BY <1>0, SMTT(60)
<1>2. PICK it : it = Block(h)
    OBVIOUS
<1>3. it \in Items /\ it[1] = "block" /\ it[1] # "bft" /\ it[2] = h
    BY <1>2, ItemOf
<1>4. /\ head' = [head EXCEPT ![n] = h] /\ seen' = [seen EXCEPT ![n] = @ \cup {it}]
      /\ link' = Queue(n, Broadcast(n, Frame("inv", it), {}))
      /\ UNCHANGED <<work, up, pool, sync, gone>>
    BY <1>1, <1>2 DEF OnCommit
<1>5. head[n] <= h /\ h <= h
    BY <1>0, <1>1, SMTT(60)
<1>6. Grows /\ head'[n] = h /\ DOMAIN sync' = Hosts /\ Tasks'
    BY <1>4, <1>5, GrowsHead, TasksStay
<1>7. Has(n, it)'
    BY <1>3, <1>5, <1>6, HasWillBe
<1>8. PICK inv \in Frames : inv = Frame("inv", it) /\ inv.type = "inv" /\ inv.item = it
    BY <1>3, ItemFrame
<1>9. /\ Broadcast(n, inv, {}) \in Outs
      /\ \A b \in Hosts : \A f \in On(Broadcast(n, inv, {})[b]) :
             FrameOK(n, b, f)' /\ {n, b} \in up
    BY <1>3, <1>7, <1>8, AnnounceOut
<1>10. link' = Queue(n, Broadcast(n, inv, {}))
    BY <1>4, <1>8
<1>11. /\ seen' \in [Hosts -> SUBSET Items]
       /\ \A x \in Hosts : \A y \in seen'[x] : y \in seen[x] \/ Has(x, y)'
    BY <1>0, <1>3, <1>4, <1>7, MarkHeld
<1> QED
    BY <1>4, <1>6, <1>9, <1>10, <1>11, QueueStep

\* A transaction enters a pool and is announced.
LEMMA GossipTxStep ==
    ASSUME GossipInv, NEW n \in Hosts, NEW t, GossipTx(n, t)
    PROVE  GossipInv'
<1>0. seen \in [Hosts -> SUBSET Items] /\ work \in Works /\ t \in work.txs
    BY DEF GossipInv, GossipTx
<1>1. PICK it : it = <<"tx", t>>
    OBVIOUS
<1>2. it \in Items
    BY <1>0, <1>1, ItemOf
<1>3. it[1] = "tx" /\ it[1] # "bft" /\ it[2] = t
    BY <1>1, SMTT(60)
<1>4. /\ pool' = [pool EXCEPT ![n] = @ \cup {t}] /\ seen' = [seen EXCEPT ![n] = @ \cup {it}]
      /\ link' = Queue(n, Broadcast(n, Frame("inv", it), {}))
      /\ UNCHANGED <<work, up, head, sync, gone>>
    BY <1>1 DEF GossipTx
<1>5. DOMAIN pool' = Hosts /\ pool'[n] = pool[n] \cup {t}
      /\ \A x \in Hosts \ {n} : pool'[x] = pool[x]
    BY <1>4 DEF GossipInv
<1>6. Grows
    <2>1. \A x \in Hosts : head[x] \in Nat
        BY DEF GossipInv
    <2>2. \A x \in Hosts : head[x] <= head[x]
        BY <2>1, SMTT(60)
    <2> QED
        BY <1>4, <1>5, <2>2 DEF Grows, GossipInv
<1>7. Has(n, it)'
    BY <1>3, <1>5, HasWillBe
<1>8. PICK inv \in Frames : inv = Frame("inv", it) /\ inv.type = "inv" /\ inv.item = it
    <2>1. Frame("inv", it) \in Frames /\ Frame("inv", it).type = "inv"
          /\ Frame("inv", it).item = it
        BY <1>2, ItemFrame
    <2> QED
        BY <2>1
<1>9. /\ Broadcast(n, inv, {}) \in Outs
      /\ \A b \in Hosts : \A f \in On(Broadcast(n, inv, {})[b]) :
             FrameOK(n, b, f)' /\ {n, b} \in up
    BY <1>2, <1>3, <1>7, <1>8, AnnounceOut
<1>10. link' = Queue(n, Broadcast(n, inv, {}))
    BY <1>4, <1>8
<1>11. /\ seen' \in [Hosts -> SUBSET Items]
       /\ \A x \in Hosts : \A y \in seen'[x] : y \in seen[x] \/ Has(x, y)'
    BY <1>0, <1>2, <1>4, <1>7, MarkHeld
<1>13. DOMAIN sync' = Hosts /\ Tasks'
    BY <1>4, TasksStay
<1> QED
    BY <1>4, <1>6, <1>9, <1>10, <1>11, <1>13, QueueStep

\* A validator sends a consensus message.
LEMMA BroadcastVoteStep ==
    ASSUME GossipInv, NEW n \in Hosts, NEW v, BroadcastVote(n, v)
    PROVE  GossipInv'
<1>0. work \in Works /\ v \in work.bft
    BY DEF GossipInv, BroadcastVote
<1>1. PICK it : it = <<"bft", v>>
    OBVIOUS
<1>2. it \in Items
    BY <1>0, <1>1, ItemOf
<1>3. it[1] = "bft"
    BY <1>1, SMTT(60)
<1>4. /\ link' = Queue(n, Broadcast(n, Frame("bft", it), {}))
      /\ UNCHANGED <<work, up, head, pool, seen, sync, gone>>
    BY <1>1 DEF BroadcastVote
<1>5. PICK msg \in Frames : msg = Frame("bft", it) /\ msg.type = "bft" /\ msg.item = it
    BY <1>2, ItemFrame
<1>6. msg.item \in Items /\ msg.item[1] = "bft"
    BY <1>2, <1>3, <1>5
<1>7. /\ Broadcast(n, msg, {}) \in Outs
      /\ \A b \in Hosts : \A f \in On(Broadcast(n, msg, {})[b]) : f = msg /\ {n, b} \in up
    BY BroadcastOut
<1>8. \A b \in Hosts : FrameOK(n, b, msg)'
    BY <1>5, <1>6 DEF FrameOK
<1>9. ASSUME NEW b \in Hosts, NEW f \in On(Broadcast(n, msg, {})[b])
      PROVE  FrameOK(n, b, f)' /\ {n, b} \in up
    <2>1. f = msg /\ {n, b} \in up
        BY <1>7
    <2> QED
        BY <2>1, <1>8
<1>10. link' = Queue(n, Broadcast(n, msg, {}))
    BY <1>4, <1>5
<1>11. Grows /\ DOMAIN sync' = Hosts /\ Tasks'
    BY <1>4, GrowsSame, TasksStay
<1>12. seen' \in [Hosts -> SUBSET Items]
       /\ \A x \in Hosts : \A y \in seen'[x] : y \in seen[x] \/ Has(x, y)'
    BY <1>4 DEF GossipInv
<1> QED
    BY <1>4, <1>7, <1>9, <1>10, <1>11, <1>12, QueueStep

\* A step of the sync calls alone.
LEMMA SyncOnly ==
    ASSUME GossipInv, UNCHANGED <<work, up, link, head, pool, seen, gone>>,
           DOMAIN sync' = Hosts, Tasks'
    PROVE  GossipInv'
<1>1. Carried'
    <2>1. Carried
        BY DEF GossipInv
    <2>2. \A x, it : Has(x, it)' <=> Has(x, it)
        BY DEF Has
    <2>3. \A x, y, fr : FrameOK(x, y, fr)' <=> FrameOK(x, y, fr)
        BY <2>2 DEF FrameOK
    <2> QED
        BY <2>1, <2>2, <2>3 DEF Carried
<1>2. SeenIsComing'
    <2>1. \A x, m : Asked(x, m)' = Asked(x, m)
        BY DEF Asked
    <2>2. \A x : Peers(x)' = Peers(x)
        BY DEF Peers
    <2>3. \A x, it : Has(x, it)' <=> Has(x, it)
        BY DEF Has
    <2>4. SeenIsComing /\ seen' = seen /\ gone' = gone
        BY DEF GossipInv
    <2> QED
        BY <2>1, <2>2, <2>3, <2>4 DEF SeenIsComing
<1>3. Plain'
    BY DEF GossipInv, Plain, LinkType
<1> QED
    BY <1>1, <1>2, <1>3, GossipParts

\* A call ends.
LEMMA TaskLeaves ==
    ASSUME GossipInv, up' = up, NEW n \in Hosts, NEW task,
           sync' = [sync EXCEPT ![n] = @ \ {task}]
    PROVE  DOMAIN sync' = Hosts /\ Tasks'
<1>1. DOMAIN sync' = Hosts /\ sync'[n] = sync[n] \ {task}
      /\ \A x \in Hosts \ {n} : sync'[x] = sync[x]
    BY DEF GossipInv
<1>2. \A x \in Hosts : Peers(x)' = Peers(x)
    BY DEF Peers
<1>3. \A x \in Hosts : \A y \in sync[x] : y.peer \in Peers(x)
    BY DEF GossipInv
<1> QED
    BY <1>1, <1>2, <1>3 DEF Tasks

\* A call asks for the next blocks, or has done its batches.
LEMMA SyncMissingStep ==
    ASSUME GossipInv, NEW n \in Hosts, SyncMissingFromPeer(n)
    PROVE  GossipInv'
<1>1. PICK task \in sync[n] :
        /\ IF task.batch < MaxBatches
           THEN /\ sync' = [sync EXCEPT ![n] = (@ \ {task}) \cup
                      {[peer |-> task.peer, by |-> task.by, before |-> head[n],
                        batch |-> task.batch + 1]}]
                /\ link' = Queue(n, Send(task.peer, Frame("getblocks", nextSyncFrom(n))))
           ELSE /\ sync' = [sync EXCEPT ![n] = @ \ {task}]
                /\ UNCHANGED link
        /\ UNCHANGED <<work, up, head, pool, seen, gone>>
    BY DEF SyncMissingFromPeer, ghost
<1>2. CASE ~(task.batch < MaxBatches)
    <2>1. sync' = [sync EXCEPT ![n] = @ \ {task}] /\ UNCHANGED link
        BY <1>1, <1>2
    <2> QED
        BY <1>1, <2>1, TaskLeaves, SyncOnly
<1>3. CASE task.batch < MaxBatches
    <2>1. PICK next : next = [peer |-> task.peer, by |-> task.by, before |-> head[n],
                              batch |-> task.batch + 1]
        OBVIOUS
    <2>2. next.peer = task.peer
        BY <2>1
    <2>3. sync' = [sync EXCEPT ![n] = (@ \ {task}) \cup {next}]
        BY <1>1, <1>3, <2>1
    <2>4. \A x \in Hosts : \A y \in sync[x] : y.peer \in Peers(x)
        BY DEF GossipInv
    <2>5. PICK m : m = task.peer
        OBVIOUS
    <2>6. m \in Peers(n) /\ m \in Hosts /\ {n, m} \in up
        BY <2>4, <2>5 DEF Peers
    <2>7. DOMAIN sync' = Hosts /\ sync'[n] = (sync[n] \ {task}) \cup {next}
          /\ \A x \in Hosts \ {n} : sync'[x] = sync[x]
        BY <2>3 DEF GossipInv
    <2>8. \A x \in Hosts : Peers(x)' = Peers(x)
        BY <1>1 DEF Peers
    <2>9. Tasks'
        <3>1. ASSUME NEW x \in Hosts, NEW y \in sync'[x]
              PROVE  y.peer \in Peers(x)'
            <4>1. CASE x = n /\ y = next
                BY <2>2, <2>5, <2>6, <2>8, <4>1
            <4>2. CASE ~(x = n /\ y = next)
                <5>1. y \in sync[x]
                    <6>1. CASE x = n
                        <7>1. y \in (sync[n] \ {task}) \cup {next}
                            BY <2>7, <3>1, <6>1
                        <7> QED
                            BY <7>1, <4>2, <6>1
                    <6>2. CASE x # n
                        BY <2>7, <3>1, <6>2
                    <6> QED
                        BY <6>1, <6>2
                <5>2. y.peer \in Peers(x)
                    BY <5>1, <2>4
                <5> QED
                    BY <5>2, <2>8
            <4> QED
                BY <4>1, <4>2
        <3> QED
            BY <3>1 DEF Tasks
    <2>10. PICK h : h = nextSyncFrom(n)
        OBVIOUS
    <2>11. head[n] \in Nat
        BY DEF GossipInv
    <2>12. h \in Nat
        BY <2>10, <2>11, SMTT(60) DEF nextSyncFrom
    <2>13. "getblocks" \in Types /\ h \in Items \cup Nat \cup (Nat \X Nat)
        BY <2>12 DEF Types
    <2>14. /\ Frame("getblocks", h) \in Frames /\ Frame("getblocks", h).type = "getblocks"
           /\ Frame("getblocks", h).item = h
        BY <2>13, FrameIs
    <2>15. PICK ask \in Frames : ask = Frame("getblocks", h) /\ ask.type = "getblocks" /\ ask.item = h
        BY <2>14
    <2>16. /\ Send(m, ask) \in Outs
           /\ \A b \in Hosts : \A f \in On(Send(m, ask)[b]) : f = ask /\ b = m
        BY <2>6, SendOut
    <2>17. FrameOK(n, m, ask)'
        BY <2>12, <2>15 DEF FrameOK
    <2>18. ASSUME NEW b \in Hosts, NEW f \in On(Send(m, ask)[b])
           PROVE  FrameOK(n, b, f)' /\ {n, b} \in up
        <3>1. f = ask /\ b = m
            BY <2>16
        <3> QED
            BY <3>1, <2>17, <2>6
    <2>19. link' = Queue(n, Send(m, ask))
        BY <1>1, <1>3, <2>5, <2>10, <2>15
    <2>20. Grows
        BY <1>1, GrowsSame
    <2>21. seen' \in [Hosts -> SUBSET Items]
           /\ \A x \in Hosts : \A y \in seen'[x] : y \in seen[x] \/ Has(x, y)'
        BY <1>1 DEF GossipInv
    <2> QED
        BY <1>1, <2>7, <2>9, <2>16, <2>18, <2>19, <2>20, <2>21, QueueStep
<1> QED
    BY <1>2, <1>3

\* A call gives up.
LEMMA SyncTimeoutStep ==
    ASSUME GossipInv, NEW n \in Hosts, SyncTimeout(n)
    PROVE  GossipInv'
<1>1. PICK task \in sync[n] :
        /\ sync' = [sync EXCEPT ![n] = @ \ {task}]
        /\ UNCHANGED <<work, up, link, head, pool, seen, gone>>
    BY DEF SyncTimeout
<1> QED
    BY <1>1, TaskLeaves, SyncOnly

\* The loop starts a call.
LEMMA SyncLoopStep ==
    ASSUME GossipInv, NEW n \in Hosts, syncLoop(n)
    PROVE  GossipInv'
<1>1. PICK m \in Peers(n) : sync' = [sync EXCEPT ![n] = @ \cup {Task(m, "loop")}]
    BY DEF syncLoop
<1>2. UNCHANGED <<work, up, link, head, pool, seen, gone>>
    BY DEF syncLoop, ghost
<1> QED
    BY <1>1, <1>2, TaskJoins, SyncOnly

\* A frame is lost: if it asked or answered, the item is gone.
LEMMA DropStep ==
    ASSUME GossipInv, NEW n \in Hosts, NEW m \in Hosts, Drop(n, m)
    PROVE  GossipInv'
<1>0. UNCHANGED <<work, up, head, pool, seen, sync>> /\ LinkType /\ link[n][m] \in Seq(Frames)
    <2>1. UNCHANGED <<work, up, head, pool, seen, sync>>
        BY DEF Drop
    <2>2. LinkType
        BY DEF GossipInv, LinkType
    <2>3. link[n][m] \in Seq(Frames)
        BY <2>2 DEF LinkType
    <2> QED
        BY <2>1, <2>2, <2>3
<1>1. PICK i \in 1..Len(link[n][m]) :
          /\ link' = [link EXCEPT ![n][m] = Without(link[n][m], i)]
          /\ gone' = CASE link[n][m][i].type = "getdata" ->
                            [gone EXCEPT ![n] = @ \cup {link[n][m][i].item}]
                       [] link[n][m][i].type = "payload" ->
                            [gone EXCEPT ![m] = @ \cup {link[n][m][i].item}]
                       [] OTHER -> gone
    BY DEF Drop
<1>2. PICK frame : frame = link[n][m][i]
    OBVIOUS
<1>3. /\ frame.type = "getdata" => gone' = [gone EXCEPT ![n] = @ \cup {frame.item}]
      /\ frame.type = "payload" => gone' = [gone EXCEPT ![m] = @ \cup {frame.item}]
      /\ frame.type # "getdata" /\ frame.type # "payload" => gone' = gone
    BY <1>1, <1>2, SMTT(60)
<1>4. DOMAIN gone = Hosts
    BY DEF GossipInv
<1>5. /\ DOMAIN gone' = Hosts /\ \A x \in Hosts : gone[x] \subseteq gone'[x]
      /\ frame.type = "getdata" => frame.item \in gone'[n]
      /\ frame.type = "payload" => frame.item \in gone'[m]
    <2>1. CASE frame.type = "getdata"
        BY <1>3, <1>4, <2>1
    <2>2. CASE frame.type = "payload"
        BY <1>3, <1>4, <2>2
    <2>3. CASE frame.type # "getdata" /\ frame.type # "payload"
        BY <1>3, <1>4, <2>3
    <2> QED
        BY <2>1, <2>2, <2>3
<1>6. PICK rest : rest = Without(link[n][m], i)
    OBVIOUS
<1>7. rest \in Seq(Frames) /\ On(rest) \subseteq On(link[n][m])
      /\ On(link[n][m]) \subseteq On(rest) \cup {frame}
    BY <1>0, <1>2, <1>6, OnRemove
<1>8. link' = [link EXCEPT ![n][m] = rest]
    BY <1>1, <1>6
<1>9. LinkType'
    BY <1>0, <1>7, <1>8 DEF LinkType
<1>10. /\ link'[n][m] = rest
       /\ \A b \in Hosts \ {m} : link'[n][b] = link[n][b]
       /\ \A a \in Hosts \ {n} : link'[a] = link[a]
    BY <1>0, <1>8 DEF LinkType
<1>11. Kept(n, m, frame)
    BY <1>7, <1>10 DEF Kept
<1>12. \A a, b \in Hosts : On(link'[a][b]) \subseteq On(link[a][b])
    BY <1>7, <1>10
<1>13. Grows /\ DOMAIN sync' = Hosts /\ Tasks' /\ NewSeen
    BY <1>0, <1>5, GrowsSame, TasksStay, NewSeenSame
<1>14. Carried'
    BY <1>0, <1>12, <1>13, CarriedOn DEF GossipInv
<1>15. Plain'
    BY <1>0, <1>5, <1>9, <1>13 DEF GossipInv, Plain
<1>16. StillAsked
    BY <1>0, <1>5, <1>9, <1>11, StillWhenTaken
<1>17. SeenIsComing'
    BY <1>0, <1>13, <1>15, <1>16, ComingStays
<1> QED
    BY <1>13, <1>14, <1>15, <1>17, GossipParts

\* A session begins.
LEMMA LinkUpStep ==
    ASSUME GossipInv, NEW n \in Hosts, NEW m \in Hosts, LinkUp(n, m)
    PROVE  GossipInv'
<1>1. /\ up' = up \cup {{n, m}} /\ {n, m} \in work.links
      /\ UNCHANGED <<work, link, head, pool, seen, sync, gone>>
    BY DEF LinkUp
<1>2. Plain' /\ LinkType /\ LinkType'
    BY <1>1 DEF GossipInv, Plain, LinkType
<1>3. Grows /\ up \subseteq up'
    BY <1>1, GrowsSame
<1>4. KeptAll /\ \A a, b \in Hosts : On(link'[a][b]) \subseteq On(link[a][b])
    BY <1>1 DEF KeptAll
<1>5. NewSeen
    BY <1>1, NewSeenSame
<1>6. StillAsked
    BY <1>2, <1>4, StillWhenKept
<1>7. Carried'
    BY <1>3, <1>4, CarriedOn DEF GossipInv
<1>8. SeenIsComing'
    BY <1>2, <1>3, <1>5, <1>6, ComingStays
<1>9. Tasks'
    <2>1. \A x \in Hosts : Peers(x) \subseteq Peers(x)'
        BY <1>3 DEF Peers
    <2>2. \A x \in Hosts : \A y \in sync[x] : y.peer \in Peers(x)
        BY DEF GossipInv
    <2> QED
        BY <1>1, <2>1, <2>2 DEF Tasks
<1> QED
    BY <1>2, <1>7, <1>8, <1>9, GossipParts

\* A session ends: what was asked for over it is gone.
LEMMA DisconnectStep ==
    ASSUME GossipInv, NEW n \in Hosts, NEW m \in Hosts, Disconnect(n, m)
    PROVE  GossipInv'
<1>0. /\ {n, m} \in up /\ up' = up \ {{n, m}}
      /\ link' = [link EXCEPT ![n][m] = <<>>, ![m][n] = <<>>]
      /\ sync' = [sync EXCEPT ![n] = {t \in @ : t.peer # m}, ![m] = {t \in @ : t.peer # n}]
      /\ gone' = [gone EXCEPT ![n] = @ \cup Asked(n, m), ![m] = @ \cup Asked(m, n)]
      /\ UNCHANGED <<work, head, pool, seen>>
    BY DEF Disconnect
<1>1. n # m
    BY <1>0, UpIsPair
<1>2. LinkType
    BY DEF GossipInv, LinkType
<1>16. <<>> \in Seq(Frames) /\ DOMAIN <<>> = {}
    BY SMTT(60)
<1>3. On(<<>>) = {}
    BY <1>16 DEF On
<1>4. PICK none : none = <<>>
    OBVIOUS
<1>5. link' = [link EXCEPT ![n][m] = none, ![m][n] = none] /\ none \in Seq(Frames) /\ On(none) = {}
    BY <1>0, <1>3, <1>4, <1>16
<1>6. LinkType'
    BY <1>2, <1>5 DEF LinkType
<1>7. /\ link'[n][m] = none /\ link'[m][n] = none
      /\ \A a, b \in Hosts : (a # n \/ b # m) /\ (a # m \/ b # n) => link'[a][b] = link[a][b]
    BY <1>1, <1>2, <1>5 DEF LinkType
<1>8. /\ DOMAIN gone' = Hosts /\ \A x \in Hosts : gone[x] \subseteq gone'[x]
      /\ Asked(n, m) \subseteq gone'[n] /\ Asked(m, n) \subseteq gone'[m]
    <2>1. DOMAIN gone = Hosts
        BY DEF GossipInv
    <2> QED
        BY <1>0, <1>1, <2>1
<1>9. /\ DOMAIN sync' = Hosts /\ \A x \in Hosts : sync'[x] \subseteq sync[x]
      /\ \A t \in sync'[n] : t.peer # m
      /\ \A t \in sync'[m] : t.peer # n
    <2>1. DOMAIN sync = Hosts
        BY DEF GossipInv
    <2> QED
        BY <1>0, <1>1, <2>1
<1>10. ASSUME NEW a \in Hosts, NEW b \in Hosts, {a, b} \in up, a # n \/ b # m, a # m \/ b # n
       PROVE  {a, b} \in up'
    <2>1. {a, b} # {n, m}
        BY <1>1, <1>10, SMTT(60)
    <2> QED
        BY <1>0, <1>10, <2>1
<1>11. Grows
    BY <1>0, GrowsSame
<1>12. Plain'
    BY <1>0, <1>6, <1>8, <1>9 DEF GossipInv, Plain
<1>13. Tasks'
    <2>1. ASSUME NEW x \in Hosts, NEW t \in sync'[x]
          PROVE  t.peer \in Peers(x)'
        <3>1. t \in sync[x]
            BY <1>9, <2>1
        <3>2. t.peer \in Hosts /\ {x, t.peer} \in up
            BY <3>1 DEF GossipInv, Peers
        <3>3. x # n \/ t.peer # m
            BY <1>9, <2>1
        <3>4. x # m \/ t.peer # n
            BY <1>9, <2>1
        <3>5. {x, t.peer} \in up'
            BY <1>10, <3>2, <3>3, <3>4
        <3> QED
            BY <3>2, <3>5 DEF Peers
    <2> QED
        BY <2>1 DEF Tasks
<1>14. Carried'
    <2>1. ASSUME NEW a \in Hosts, NEW b \in Hosts, NEW f \in On(link'[a][b])
          PROVE  FrameOK(a, b, f)' /\ {a, b} \in up'
        <3>1. (a # n \/ b # m) /\ (a # m \/ b # n)
            BY <1>5, <1>7, <2>1
        <3>2. f \in On(link[a][b])
            BY <1>7, <2>1, <3>1
        <3>3. FrameOK(a, b, f) /\ {a, b} \in up
            BY <3>2 DEF GossipInv, Carried
        <3>4. FrameOK(a, b, f)'
            BY <3>3, <1>11, FrameStays DEF GossipInv
        <3> QED
            BY <1>10, <3>1, <3>3, <3>4
    <2> QED
        BY <2>1 DEF Carried
<1>15. SeenIsComing'
    <2>1. ASSUME NEW x \in Hosts, NEW it \in seen'[x] \ gone'[x], it[1] # "bft", ~Has(x, it)'
          PROVE  \E k \in Peers(x)' : it \in Asked(x, k)'
        <3>1. it \in seen[x] \ gone[x] /\ it \in Items
            BY <1>0, <1>8, <2>1 DEF GossipInv
        <3>2. ~Has(x, it)
            BY <2>1, <3>1, <1>11, HasStays DEF GossipInv
        <3>3. PICK k \in Peers(x) : it \in Asked(x, k)
            BY <2>1, <3>1, <3>2 DEF GossipInv, SeenIsComing
        <3>4. k \in Hosts /\ {x, k} \in up
            BY DEF Peers
        <3>5. x # n \/ k # m
            BY <1>8, <2>1, <3>3
        <3>6. x # m \/ k # n
            BY <1>8, <2>1, <3>3
        <3>7. link'[x][k] = link[x][k] /\ link'[k][x] = link[k][x]
            BY <1>7, <3>4, <3>5, <3>6
        <3>8. it \in Asked(x, k)'
            <4>1. \/ Carries(link[x][k], "getdata", it)
                  \/ Carries(link[k][x], "payload", it)
                BY <1>2, <3>3, <3>4, AskedIs DEF LinkType
            <4>2. \/ Carries(link'[x][k], "getdata", it)
                  \/ Carries(link'[k][x], "payload", it)
                BY <4>1, <3>7
            <4> QED
                BY <1>6, <3>4, <4>2, AskedWillBe DEF LinkType
        <3>9. k \in Peers(x)'
            BY <1>10, <3>4, <3>5, <3>6 DEF Peers
        <3> QED
            BY <3>8, <3>9
    <2> QED
        BY <2>1 DEF SeenIsComing
<1> QED
    BY <1>12, <1>13, <1>14, <1>15, GossipParts

\* Nothing is marked when the nodes start.
LEMMA GossipStart ==
    ASSUME GossipInit
    PROVE  GossipInv
<1>1. /\ work \in Works /\ up = work.links
      /\ link = [n \in Hosts |-> [m \in Hosts |-> <<>>]]
      /\ head = [n \in Hosts |-> 0] /\ pool = [n \in Hosts |-> {}]
      /\ seen = [n \in Hosts |-> {}] /\ sync = [n \in Hosts |-> {}]
      /\ gone = [n \in Hosts |-> {}]
    BY DEF GossipInit
<1>2. <<>> \in Seq(Frames) /\ DOMAIN <<>> = {} /\ 0 \in Nat
    BY SMTT(60)
<1>3. On(<<>>) = {}
    BY <1>2 DEF On
<1>4. Plain
    BY <1>1, <1>2 DEF Plain, LinkType
<1>5. \A n, m \in Hosts : link[n][m] = <<>>
    BY <1>1
<1>6. Carried
    BY <1>3, <1>5 DEF Carried
<1>7. \A n \in Hosts : sync[n] = {} /\ seen[n] = {}
    BY <1>1
<1>8. Tasks /\ SeenIsComing
    BY <1>7 DEF Tasks, SeenIsComing
<1> QED
    BY <1>4, <1>6, <1>8, GossipParts

\* Every step keeps the invariant.
LEMMA GossipStep ==
    ASSUME GossipInv, [GossipNext]_gossipVars
    PROVE  GossipInv'
<1>1. ASSUME NEW n \in Hosts,
             \/ OnCommit(n)
             \/ \E t \in work.txs : GossipTx(n, t)
             \/ \E v \in work.bft : BroadcastVote(n, v)
             \/ SyncMissingFromPeer(n) \/ SyncTimeout(n) \/ syncLoop(n)
      PROVE  GossipInv'
    BY <1>1, OnCommitStep, GossipTxStep, BroadcastVoteStep, SyncMissingStep, SyncTimeoutStep,
       SyncLoopStep
<1>2. ASSUME NEW n \in Hosts, NEW m \in Hosts, handleFrame(m, n)
      PROVE  GossipInv'
    BY <1>2, InventoryStep, GetDataStep, TxPayloadStep, BlockPayloadStep, GetBlocksStep,
       BlocksStep, VoteStep DEF handleFrame
<1>3. ASSUME NEW n \in Hosts, NEW m \in Hosts,
             Drop(n, m) \/ Disconnect(n, m) \/ LinkUp(n, m)
      PROVE  GossipInv'
    BY <1>3, DropStep, DisconnectStep, LinkUpStep
<1>4. CASE UNCHANGED gossipVars
    <2>1. UNCHANGED <<work, up, link, head, pool, seen, gone, sync>>
        BY <1>4 DEF gossipVars
    <2> QED
        BY <2>1, TasksStay, SyncOnly
<1> QED
    BY <1>1, <1>2, <1>3, <1>4 DEF GossipNext

\* On any network, whatever is lost: a block or transaction hash a node has
\* marked as seen and does not hold is being asked for, or its request or answer
\* was lost or the item refused.  An announcement is never ignored for a mark
\* that nothing will make good (handlers.go, handleInventory and
\* handleBlockPayload).
THEOREM SeenComes == GossipSpec => []SeenIsComing
<1>1. GossipInv /\ [GossipNext]_gossipVars => GossipInv'
    BY GossipStep
<1>2. GossipInit => GossipInv
    BY GossipStart
<1>3. GossipInv => SeenIsComing
    BY DEF GossipInv
<1> QED
    BY <1>1, <1>2, <1>3, PTL DEF GossipSpec
=============================================================================
