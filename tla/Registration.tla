----------------------------- MODULE Registration -----------------------------
(***************************************************************************)
(* How data nodes get to know the master and each other: the connections   *)
(* of the message queue (ofs/common/message_queue), the registration that  *)
(* a node sends over each new connection to the master, the heartbeat and  *)
(* the ticker that send over whatever connection there is, and the dial    *)
(* loops between data nodes that notifications and gossip start.           *)
(*                                                                         *)
(* The master is node 0 of the queue and is not in Node.  A connection has *)
(* a number; its messages arrive in order, those of two connections do     *)
(* not.                                                                    *)
(***************************************************************************)
EXTENDS Integers, Sequences, FiniteSets

CONSTANTS Node,     \* ids of the data nodes
          MaxConns, \* bound on the connections to the master
          MaxSends  \* bound on heartbeats and periodic reports

ASSUME RegistrationAssumption ==
  Node \subseteq Nat \ {0} /\ MaxConns \in Nat /\ MaxSends \in Nat

VARIABLES stage,  \* where each node's dial loop to the master is
          conn,   \* MessageQueue::_node[MASTER_NODE] of each node, 0 for none
          owner,  \* the node that opened each connection
          line,   \* what has been sent to the master over each connection
          poll,   \* the master's coroutine of each connection
          known,  \* DefaultDataCluster::_nodes
          sends,  \* how many heartbeats and periodic reports there were
          told,   \* notifications and gossip on their way: <<to, about>>
          loops   \* the dial loops a node has started, to other nodes

vars == <<stage, conn, owner, line, poll, known, sends, told, loops>>

Conn == 1..MaxConns

Init == /\ stage = [n \in Node |-> "dial"]
        /\ conn = [n \in Node |-> 0]
        /\ owner = <<>>
        /\ line = [c \in Conn |-> <<>>]
        /\ poll = [c \in Conn |-> "accept"]
        /\ known = {}
        /\ sends = 0
        /\ told = {}
        /\ loops = [n \in Node |-> <<>>]

-----------------------------------------------------------------------------
(***************************************************************************)
(* A data node.                                                            *)
(***************************************************************************)
\* MessageQueue::Send to the master, over the connection that _node holds.  What
\* is sent over one that either side has done with is lost.
Sent(n, m) == IF stage[n] # "dial" /\ poll[conn[n]] # "closed"
              THEN [line EXCEPT ![conn[n]] = Append(@, m)]
              ELSE line

\* MessageQueue::Connect: _node is set as soon as the connection is there.
Open(n) ==
  /\ stage[n] = "dial"
  /\ Len(owner) < MaxConns
  /\ owner' = Append(owner, n)
  /\ conn' = [conn EXCEPT ![n] = Len(owner')]
  /\ stage' = [stage EXCEPT ![n] = "opened"]
  /\ UNCHANGED <<line, poll, known, sends, told, loops>>

\* Mutant: what there is to report is reported before the node registers.
ReportsFirst(s) ==
  CASE s = "opened" -> [send |-> "hello",    then |-> "greeted"]
    [] s = "greeted" -> [send |-> "report",   then |-> "registered"]
    [] s = "registered" -> [send |-> "register", then |-> "polling"]

\* The header that says who it is, then the callback: Register, and a report of
\* all blocks.
Introduction(s) ==
  CASE s = "opened" -> [send |-> "hello",    then |-> "greeted"]
    [] s = "greeted" -> [send |-> "register", then |-> "registered"]
    [] s = "registered" -> [send |-> "report",   then |-> "polling"]

Introduce(n) ==
  /\ stage[n] \in {"opened", "greeted", "registered"}
  /\ line' = Sent(n, Introduction(stage[n]).send)
  /\ stage' = [stage EXCEPT ![n] = Introduction(stage[n]).then]
  /\ UNCHANGED <<conn, owner, poll, known, sends, told, loops>>

\* Coroutines of their own: StartHeartbeat, and the ticker of reports.
SendAnytime(n, m) ==
  /\ sends < MaxSends
  /\ conn[n] # 0
  /\ sends' = sends + 1
  /\ line' = Sent(n, m)
  /\ UNCHANGED <<stage, conn, owner, poll, known, told, loops>>

\* Poll ends: the connection broke, was closed or has been silent.  _node keeps
\* its number; the loop dials again.
Redial(n) ==
  /\ stage[n] = "polling"
  /\ stage' = [stage EXCEPT ![n] = "dial"]
  /\ UNCHANGED <<conn, owner, line, poll, known, sends, told, loops>>

\* Mutant: both ends dial.
DialsOther(a, b) == b # a

\* Only the one with the smaller id dials ...
Dials(a, b) == b > a

\* ... and only once: MessageQueue::_connected.
DialsAnew(a, b) == \A i \in DOMAIN loops[a] : loops[a][i] # b

Connected(a, b) == IF Dials(a, b) /\ DialsAnew(a, b)
                   THEN [loops EXCEPT ![a] = Append(@, b)]
                   ELSE loops

\* The nodes that a has a connection to or from, when they are all up.
Peers(a) == {b \in Node : \/ \E i \in DOMAIN loops[a] : loops[a][i] = b
                          \/ \E i \in DOMAIN loops[b] : loops[b][i] = a}

\* OnNeighborNotify passes on what it is told; OnNeighborGossip does not.  What
\* is on its way may arrive any time, or never.
Notified(a, b) ==
  /\ [to |-> a, about |-> b, gossip |-> FALSE] \in told
  /\ told' = (told \ {[to |-> a, about |-> b, gossip |-> FALSE]})
             \union {[to |-> p, about |-> b, gossip |-> TRUE] : p \in Peers(a)}
  /\ loops' = Connected(a, b)
  /\ UNCHANGED <<stage, conn, owner, line, poll, known, sends>>

Gossiped(a, b) ==
  /\ [to |-> a, about |-> b, gossip |-> TRUE] \in told
  /\ told' = told \ {[to |-> a, about |-> b, gossip |-> TRUE]}
  /\ loops' = Connected(a, b)
  /\ UNCHANGED <<stage, conn, owner, line, poll, known, sends>>

\* The process ends and is started again.
RestartNode(n) ==
  /\ stage' = [stage EXCEPT ![n] = "dial"]
  /\ conn' = [conn EXCEPT ![n] = 0]
  /\ loops' = [loops EXCEPT ![n] = <<>>]
  /\ told' = {t \in told : t.to # n}
  /\ UNCHANGED <<owner, line, poll, known, sends>>

-----------------------------------------------------------------------------
(***************************************************************************)
(* The master.                                                             *)
(***************************************************************************)
\* MessageQueue::Listen: the first header names the node.  Anything else ends
\* the coroutine, and the connection stays open.
Accept(c) ==
  /\ poll[c] = "accept"
  /\ line[c] # <<>>
  /\ poll' = [poll EXCEPT ![c] = IF Head(line[c]) = "hello" THEN "poll" ELSE "closed"]
  /\ line' = [line EXCEPT ![c] = IF Head(@) = "hello" THEN Tail(@) ELSE <<>>]
  /\ UNCHANGED <<stage, conn, owner, known, sends, told, loops>>

Handles(c, m) ==
  /\ poll[c] = "poll"
  /\ line[c] # <<>>
  /\ Head(line[c]) = m

\* DataNodeService::OnRegister: the node and one that is chosen are told of each
\* other.
OnRegister(c) ==
  /\ Handles(c, "register")
  /\ known' = known \union {owner[c]}
  /\ LET n == owner[c]
     IN  IF known \ {n} = {}
         THEN UNCHANGED told
         ELSE \/ \E m \in known \ {n} :
                   told' = told \union {[to |-> n, about |-> m, gossip |-> FALSE],
                                        [to |-> m, about |-> n, gossip |-> FALSE]}
              \/ UNCHANGED told \* no other is usable
  /\ line' = [line EXCEPT ![c] = Tail(@)]
  /\ UNCHANGED <<stage, conn, owner, poll, sends, loops>>

\* OnReport and OnHeartbeat take the node from what has registered.
OnOther(c, m) ==
  /\ Handles(c, m)
  /\ owner[c] \in known
  /\ line' = [line EXCEPT ![c] = Tail(@)]
  /\ UNCHANGED <<stage, conn, owner, poll, known, sends, told, loops>>

\* The master stops, and is started again: by itself when there is no such node.
RestartMaster ==
  /\ line' = [c \in Conn |-> <<>>]
  /\ poll' = [c \in Conn |-> IF c <= Len(owner) THEN "closed" ELSE "accept"]
  /\ known' = {}
  /\ UNCHANGED <<stage, conn, owner, sends, told, loops>>

Next == \/ \E n \in Node : \/ Open(n) \/ Introduce(n) \/ Redial(n)
                           \/ SendAnytime(n, "heartbeat") \/ SendAnytime(n, "blocks")
                           \/ RestartNode(n)
        \/ \E a, b \in Node : Notified(a, b) \/ Gossiped(a, b)
        \/ \E c \in Conn : \/ Accept(c) \/ OnRegister(c)
                           \/ \E m \in {"report", "blocks", "heartbeat"} : OnOther(c, m)
        \/ RestartMaster

Spec == Init /\ [][Next]_vars

-----------------------------------------------------------------------------
(***************************************************************************)
(* Properties.                                                             *)
(***************************************************************************)
\* The report of all its blocks that a node sends over a new connection finds
\* the node registered, also when the master has restarted or the node came back
\* while earlier connections are still read: the replicas it enters into the
\* blocks' lists have a server.
ReportsFindNode ==
  \A c \in Conn : Handles(c, "report") => owner[c] \in known

\* "assert(dataNode)" (DataNodeService.cpp:169): a heartbeat that the master
\* handles is that of a node it knows.
HeartbeatsFindNode ==
  \A c \in Conn : Handles(c, "heartbeat") => owner[c] \in known

\* Two data nodes have at most one dial loop between them, however often the
\* master and gossip tell them of each other and whoever restarts.  With two,
\* each connection accepted would take the place of the other's, and the parts
\* of a block that is copied would be split over both.  (An old connection may
\* still be read while the loop's next one is accepted.)
OneLoopPerPair ==
  \A a, b \in Node : a < b =>
    Cardinality({i \in DOMAIN loops[a] : loops[a][i] = b})
      + Cardinality({i \in DOMAIN loops[b] : loops[b][i] = a}) <= 1
=============================================================================
