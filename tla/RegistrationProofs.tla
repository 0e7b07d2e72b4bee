-------------------------- MODULE RegistrationProofs --------------------------
(***************************************************************************)
(* Proofs about Registration, for any nodes and any number of connections, *)
(* heartbeats, reports and restarts.                                       *)
(***************************************************************************)
EXTENDS Registration, FiniteSetTheorems, SequenceTheorems, TLAPS

Stage == {"dial", "opened", "greeted", "registered", "polling"}
Message == {"hello", "register", "report", "heartbeat", "blocks"}

TypeInv == /\ stage \in [Node -> Stage]
           /\ conn \in [Node -> Nat]
           /\ owner \in Seq(Node)
           /\ line \in [Conn -> Seq(Message)]
           /\ poll \in [Conn -> {"accept", "poll", "closed"}]
           /\ known \subseteq Node

\* What a node sends goes over a connection of its own; over one that nobody has
\* opened nothing has been sent.
ConnInv == /\ Len(owner) <= MaxConns
           /\ \A n \in Node : stage[n] # "dial" =>
                /\ conn[n] \in 1..Len(owner)
                /\ owner[conn[n]] = n
           /\ \A c \in Conn : c > Len(owner) => line[c] = <<>>

\* The registration is among the first k messages of a connection, or has been
\* handled.
RegisteredBy(c, k) ==
  \/ owner[c] \in known
  \/ \E j \in 1..Len(line[c]) : j <= k /\ line[c][j] = "register"

\* No report of all blocks overtakes the registration before it: not in what has
\* been sent, and not when it is about to be.
OrderInv ==
  /\ \A c \in Conn : \A i \in 1..Len(line[c]) :
       line[c][i] = "report" => RegisteredBy(c, i)
  /\ \A n \in Node :
       stage[n] = "registered" /\ poll[conn[n]] # "closed" =>
         RegisteredBy(conn[n], Len(line[conn[n]]))

\* The dial loops of a node go to nodes with larger ids, one to each.
LoopInv ==
  /\ loops \in [Node -> Seq(Node)]
  /\ \A a \in Node : \A i \in 1..Len(loops[a]) :
       /\ loops[a][i] > a
       /\ \A j \in 1..Len(loops[a]) : loops[a][j] = loops[a][i] => j = i

IInv == TypeInv /\ ConnInv /\ OrderInv

-----------------------------------------------------------------------------
(***************************************************************************)
(* Lemmas about what is sent.                                              *)
(***************************************************************************)
\* Sending adds a message at the end of one connection, that of the sender, or
\* none.
LEMMA SentLines ==
  ASSUME TypeInv, ConnInv, NEW n \in Node, NEW m \in Message
  PROVE  /\ Sent(n, m) \in [Conn -> Seq(Message)]
         /\ \A c \in Conn : \/ Sent(n, m)[c] = line[c]
                            \/ /\ c = conn[n] /\ stage[n] # "dial" /\ poll[c] # "closed"
                               /\ Sent(n, m)[c] = Append(line[c], m)
         /\ stage[n] # "dial" /\ poll[conn[n]] # "closed" =>
              /\ conn[n] \in Conn
              /\ Sent(n, m)[conn[n]] = Append(line[conn[n]], m)
<1>1. stage[n] # "dial" => conn[n] \in Conn
  BY RegistrationAssumption, LenProperties DEF TypeInv, ConnInv, Conn
<1>2. \A c \in Conn : line[c] \in Seq(Message) /\ Append(line[c], m) \in Seq(Message)
  BY AppendProperties DEF TypeInv
<1> QED BY <1>1, <1>2 DEF Sent, TypeInv

\* What is registered by some message stays so when messages are added.
LEMMA StaysRegistered ==
  ASSUME TypeInv, NEW c \in Conn, NEW k \in Nat, NEW m \in Message, RegisteredBy(c, k),
         line'[c] = line[c] \/ line'[c] = Append(line[c], m),
         owner'[c] = owner[c], known \subseteq known'
  PROVE  RegisteredBy(c, k)'
<1>1. CASE owner[c] \in known
  BY <1>1 DEF RegisteredBy
<1>2. CASE \E j \in 1..Len(line[c]) : j <= k /\ line[c][j] = "register"
  <2>1. PICK j \in 1..Len(line[c]) : j <= k /\ line[c][j] = "register"
    BY <1>2
  <2>2. line[c] \in Seq(Message)
    BY DEF TypeInv
  <2>3. j \in 1..Len(line'[c]) /\ line'[c][j] = "register"
    BY <2>1, <2>2, LenProperties, AppendProperties
  <2> QED BY <2>1, <2>3 DEF RegisteredBy
<1> QED BY <1>1, <1>2 DEF RegisteredBy

\* No report is sent but by the introduction, when the registration has been.
LEMMA ReportsStayBehind ==
  ASSUME TypeInv, ConnInv, OrderInv, NEW n \in Node, NEW m \in Message,
         line' = Sent(n, m), UNCHANGED <<owner, known>>,
         m = "report" => stage[n] = "registered"
  PROVE  \A c \in Conn : \A i \in 1..Len(line'[c]) :
           line'[c][i] = "report" => RegisteredBy(c, i)'
<1> SUFFICES ASSUME NEW c \in Conn, NEW i \in 1..Len(line'[c]), line'[c][i] = "report"
             PROVE  RegisteredBy(c, i)'
  OBVIOUS
<1>1. line[c] \in Seq(Message) /\ Len(line[c]) \in Nat
  BY LenProperties DEF TypeInv
<1>2. \/ line'[c] = line[c]
      \/ /\ c = conn[n] /\ stage[n] # "dial" /\ poll[c] # "closed"
         /\ line'[c] = Append(line[c], m)
  BY SentLines
<1>3. CASE i \in 1..Len(line[c])
  <2>1. line[c][i] = "report"
    BY <1>1, <1>2, <1>3, AppendProperties
  <2>2. RegisteredBy(c, i)
    BY <1>3, <2>1 DEF OrderInv
  <2> QED BY <1>2, <1>3, <2>2, StaysRegistered
<1>4. CASE i \notin 1..Len(line[c])
  <2>1. /\ c = conn[n] /\ poll[c] # "closed"
        /\ line'[c] = Append(line[c], m) /\ i = Len(line[c]) + 1
    BY <1>1, <1>2, <1>4, AppendProperties
  <2>2. m = "report"
    BY <1>1, <2>1, AppendProperties
  <2>3. RegisteredBy(c, Len(line[c]))
    BY <2>1, <2>2 DEF OrderInv
  <2>4. RegisteredBy(c, i)
    BY <1>1, <2>1, <2>3 DEF RegisteredBy
  <2> QED BY <1>2, <2>4, StaysRegistered
<1> QED BY <1>3, <1>4

\* What is registered by some message stays so when the first one is handled.
LEMMA HandledRegistered ==
  ASSUME TypeInv, NEW c \in Conn, line[c] # <<>>, NEW k \in Nat,
         RegisteredBy(c, k + 1),
         line'[c] = Tail(line[c]), owner'[c] = owner[c], known \subseteq known',
         Head(line[c]) = "register" => owner[c] \in known'
  PROVE  RegisteredBy(c, k)'
<1>1. CASE owner[c] \in known
  BY <1>1 DEF RegisteredBy
<1>2. CASE \E j \in 1..Len(line[c]) : j <= k + 1 /\ line[c][j] = "register"
  <2>1. PICK j \in 1..Len(line[c]) : j <= k + 1 /\ line[c][j] = "register"
    BY <1>2
  <2>2. line[c] \in Seq(Message) /\ Len(line[c]) \in Nat
    BY LenProperties DEF TypeInv
  <2>3. CASE j = 1
    BY <2>1, <2>2, <2>3 DEF RegisteredBy
  <2>4. CASE j # 1
    <3>1. j - 1 \in 1..Len(line'[c]) /\ line'[c][j - 1] = "register"
      BY <2>1, <2>2, <2>4, HeadTailProperties
    <3>2. j - 1 <= k
      BY <2>1, <2>2
    <3> QED BY <3>1, <3>2 DEF RegisteredBy
  <2> QED BY <2>3, <2>4
<1> QED BY <1>1, <1>2 DEF RegisteredBy

-----------------------------------------------------------------------------
(***************************************************************************)
(* The invariant of registrations, action by action.                       *)
(***************************************************************************)
LEMMA IInvInit == Init => IInv
<1> SUFFICES ASSUME Init PROVE IInv
  OBVIOUS
<1>1. TypeInv
  BY EmptySeq DEF Init, TypeInv, Stage
<1>2. ConnInv
  BY RegistrationAssumption, EmptySeq DEF Init, ConnInv
<1>3. OrderInv
  BY EmptySeq DEF Init, OrderInv
<1> QED BY <1>1, <1>2, <1>3 DEF IInv

\* A new connection is the node's own, and nothing has been sent over it.
LEMMA OpenKeepsOrder ==
  ASSUME IInv, NEW n \in Node, Open(n) PROVE IInv'
<1> USE DEF IInv
<1>1. owner \in Seq(Node) /\ Len(owner) \in Nat
  BY LenProperties DEF TypeInv
<1>2. /\ owner' \in Seq(Node) /\ Len(owner') = Len(owner) + 1
      /\ owner'[Len(owner) + 1] = n
      /\ \A c \in 1..Len(owner) : owner'[c] = owner[c]
  BY <1>1, AppendProperties DEF Open
<1>3. TypeInv'
  BY <1>1, <1>2 DEF TypeInv, Open, Stage
<1>4. ConnInv'
  <2>1. Len(owner') <= MaxConns
    BY <1>1, <1>2, RegistrationAssumption DEF Open
  <2>2. ASSUME NEW m \in Node, stage'[m] # "dial"
        PROVE  conn'[m] \in 1..Len(owner') /\ owner'[conn'[m]] = m
    BY <1>1, <1>2, <2>2 DEF TypeInv, ConnInv, Open
  <2>3. \A c \in Conn : c > Len(owner') => line'[c] = <<>>
    BY <1>1, <1>2 DEF ConnInv, Open, Conn
  <2> QED BY <2>1, <2>2, <2>3 DEF ConnInv
<1>5. \A c \in Conn, k \in Nat : RegisteredBy(c, k) /\ line[c] # <<>> => RegisteredBy(c, k)'
  BY <1>1, <1>2 DEF RegisteredBy, ConnInv, Open, Conn
<1>6. \A c \in Conn : \A i \in 1..Len(line[c]) : line[c] # <<>>
  BY EmptySeq
<1>7. \A c \in Conn : \A i \in 1..Len(line'[c]) :
        line'[c][i] = "report" => RegisteredBy(c, i)'
  BY <1>5, <1>6 DEF OrderInv, Open
<1>8. ASSUME NEW m \in Node, stage'[m] = "registered", poll'[conn'[m]] # "closed"
      PROVE  RegisteredBy(conn[m], Len(line[conn[m]]))'
  <2>1. m # n /\ stage[m] = "registered" /\ conn'[m] = conn[m] /\ poll[conn[m]] # "closed"
    BY <1>8 DEF Open, TypeInv
  <2>2. conn[m] \in 1..Len(owner) /\ conn[m] \in Conn
    BY <1>1, <2>1, RegistrationAssumption DEF ConnInv, Conn
  <2>3. RegisteredBy(conn[m], Len(line[conn[m]]))
    BY <2>1 DEF OrderInv
  <2> QED BY <1>2, <2>1, <2>2, <2>3 DEF RegisteredBy, Open
<1> QED BY <1>3, <1>4, <1>7, <1>8 DEF OrderInv

\* The introduction sends the registration before the report.
LEMMA IntroduceKeepsOrder ==
  ASSUME IInv, NEW n \in Node, Introduce(n) PROVE IInv'
<1> USE DEF IInv
<1> DEFINE m == Introduction(stage[n]).send
<1>1. /\ m \in Message
      /\ m = "report" => stage[n] = "registered"
      /\ stage[n] = "greeted" => m = "register"
      /\ stage'[n] \in Stage \ {"dial"}
      /\ stage'[n] = "registered" => stage[n] = "greeted"
  BY DEF Introduce, Introduction, Message, Stage, TypeInv
<1>2. line' = Sent(n, m) /\ UNCHANGED <<conn, owner, poll, known>> /\ stage[n] # "dial"
  BY DEF Introduce
<1>3. TypeInv'
  BY <1>1, <1>2, SentLines DEF TypeInv, Introduce
<1>4. ConnInv'
  BY <1>1, <1>2, SentLines DEF TypeInv, ConnInv, Introduce
<1>5. \A c \in Conn : \A i \in 1..Len(line'[c]) :
        line'[c][i] = "report" => RegisteredBy(c, i)'
  BY <1>1, <1>2, ReportsStayBehind
<1>6. ASSUME NEW x \in Node, stage'[x] = "registered", poll'[conn'[x]] # "closed"
      PROVE  RegisteredBy(conn[x], Len(line[conn[x]]))'
  <2>1. conn[x] \in Conn /\ poll[conn[x]] # "closed"
    BY <1>1, <1>2, <1>6, RegistrationAssumption, LenProperties
       DEF TypeInv, ConnInv, Conn, Introduce
  <2>2. line[conn[x]] \in Seq(Message) /\ Len(line[conn[x]]) \in Nat
    BY <2>1, LenProperties DEF TypeInv
  <2>3. CASE x = n
    <3>1. line'[conn[n]] = Append(line[conn[n]], "register")
      BY <1>1, <1>2, <1>6, <2>1, <2>3, SentLines
    <3>2. /\ Len(line'[conn[n]]) \in 1..Len(line'[conn[n]])
          /\ line'[conn[n]][Len(line'[conn[n]])] = "register"
      BY <2>2, <2>3, <3>1, AppendProperties DEF Message
    <3> QED BY <1>2, <2>3, <3>2 DEF RegisteredBy
  <2>4. CASE x # n
    <3>1. stage[x] = "registered"
      BY <1>6, <2>4 DEF Introduce, TypeInv
    <3>2. RegisteredBy(conn[x], Len(line[conn[x]]))
      BY <2>1, <3>1 DEF OrderInv
    <3>3. conn[x] # conn[n]
      BY <1>2, <2>4, <3>1 DEF ConnInv
    <3>4. line'[conn[x]] = line[conn[x]]
      BY <1>1, <1>2, <2>1, <3>3, SentLines
    <3> QED BY <1>2, <3>2, <3>4 DEF RegisteredBy
  <2> QED BY <2>3, <2>4
<1> QED BY <1>2, <1>3, <1>4, <1>5, <1>6 DEF OrderInv

\* A heartbeat or periodic report, whenever it is sent, moves nothing.
LEMMA SendKeepsOrder ==
  ASSUME IInv, NEW n \in Node, NEW m \in {"heartbeat", "blocks"}, SendAnytime(n, m)
  PROVE  IInv'
<1> USE DEF IInv
<1>1. /\ m \in Message /\ m # "report" /\ line' = Sent(n, m)
      /\ UNCHANGED <<stage, conn, owner, poll, known>>
  BY DEF SendAnytime, Message
<1>2. TypeInv' /\ ConnInv'
  BY <1>1, SentLines DEF TypeInv, ConnInv
<1>3. \A c \in Conn : \A i \in 1..Len(line'[c]) :
        line'[c][i] = "report" => RegisteredBy(c, i)'
  BY <1>1, ReportsStayBehind
<1>4. ASSUME NEW x \in Node, stage[x] = "registered", poll[conn[x]] # "closed",
             NEW c \in Conn, c = conn[x], NEW k \in Nat, k = Len(line'[c])
      PROVE  RegisteredBy(c, k)'
  <2>1. RegisteredBy(c, Len(line[c]))
    BY <1>4 DEF OrderInv
  <2>2. /\ line[c] \in Seq(Message) /\ Len(line[c]) \in Nat
        /\ line'[c] = line[c] \/ line'[c] = Append(line[c], m)
    BY <1>1, SentLines, LenProperties DEF TypeInv
  <2>3. RegisteredBy(c, k)
    BY <1>4, <2>1, <2>2, AppendProperties DEF RegisteredBy
  <2> QED BY <1>1, <2>2, <2>3, StaysRegistered
<1>5. ASSUME NEW x \in Node, stage[x] = "registered"
      PROVE  conn[x] \in Conn /\ Len(line'[conn[x]]) \in Nat
  BY <1>1, <1>2, <1>5, RegistrationAssumption, LenProperties DEF TypeInv, ConnInv, Conn
<1> QED BY <1>1, <1>2, <1>3, <1>4, <1>5 DEF OrderInv

\* The master takes a message: if it is the registration, the node is known.
LEMMA TakingKeepsOrder ==
  ASSUME IInv, NEW c \in Conn, line[c] # <<>>, line' = [line EXCEPT ![c] = Tail(@)],
         UNCHANGED <<stage, conn, owner>>,
         poll' \in [Conn -> {"accept", "poll", "closed"}],
         \A d \in Conn : poll[d] = "closed" => poll'[d] = "closed",
         known' \in SUBSET Node, known \subseteq known',
         Head(line[c]) = "register" => owner[c] \in known'
  PROVE  IInv'
<1> USE DEF IInv
<1>1. /\ line[c] \in Seq(Message) /\ Len(line[c]) \in Nat
      /\ line'[c] = Tail(line[c]) /\ line'[c] \in Seq(Message)
      /\ Len(line'[c]) = Len(line[c]) - 1 /\ Len(line'[c]) \in Nat
      /\ \A i \in 1..Len(line'[c]) : line'[c][i] = line[c][i + 1]
      /\ \A d \in Conn \ {c} : line'[d] = line[d]
  BY LenProperties, HeadTailProperties, EmptySeq DEF TypeInv
<1>2. TypeInv'
  BY <1>1 DEF TypeInv
<1>3. ConnInv'
  BY <1>1, EmptySeq DEF ConnInv
<1>4. ASSUME NEW d \in Conn, NEW k \in Nat, NEW h \in Nat,
             h = IF d = c THEN k + 1 ELSE k, RegisteredBy(d, h)
      PROVE  RegisteredBy(d, k)'
  <2>1. CASE d = c
    BY <1>1, <1>4, <2>1, HandledRegistered
  <2>2. CASE d # c
    BY <1>1, <1>4, <2>2 DEF RegisteredBy
  <2> QED BY <2>1, <2>2
<1>5. ASSUME NEW d \in Conn, NEW i \in 1..Len(line'[d]), line'[d][i] = "report"
      PROVE  RegisteredBy(d, i)'
  <2>1. CASE d = c
    <3>1. line[c][i + 1] = "report" /\ i + 1 \in 1..Len(line[c])
      BY <1>1, <1>5, <2>1
    <3>2. RegisteredBy(c, i + 1)
      BY <3>1 DEF OrderInv
    <3> QED BY <1>4, <2>1, <3>2
  <2>2. CASE d # c
    BY <1>1, <1>4, <1>5, <2>2 DEF OrderInv
  <2> QED BY <2>1, <2>2
<1>6. ASSUME NEW x \in Node, stage[x] = "registered", NEW d \in Conn, d = conn[x],
             poll'[d] # "closed", NEW k \in Nat, k = Len(line'[d])
      PROVE  RegisteredBy(d, k)'
  <2>1. RegisteredBy(d, Len(line[d])) /\ Len(line[d]) \in Nat
    BY <1>6, LenProperties DEF OrderInv, TypeInv
  <2>2. Len(line[d]) = IF d = c THEN k + 1 ELSE k
    BY <1>1, <1>6
  <2> QED BY <1>4, <1>6, <2>1, <2>2
<1>7. ASSUME NEW x \in Node, stage[x] = "registered"
      PROVE  conn[x] \in Conn /\ Len(line'[conn[x]]) \in Nat
  BY <1>2, <1>7, RegistrationAssumption, LenProperties DEF TypeInv, ConnInv, Conn
<1> QED BY <1>2, <1>3, <1>5, <1>6, <1>7 DEF OrderInv

LEMMA IInvNext == IInv /\ [Next]_vars => IInv'
<1> SUFFICES ASSUME IInv, [Next]_vars PROVE IInv'
  OBVIOUS
<1>1. ASSUME NEW n \in Node, Redial(n) PROVE IInv'
  BY <1>1 DEF Redial, IInv, TypeInv, ConnInv, OrderInv, RegisteredBy, Stage
<1>2. ASSUME NEW n \in Node, RestartNode(n) PROVE IInv'
  <2>1. /\ stage' = [stage EXCEPT ![n] = "dial"] /\ conn' = [conn EXCEPT ![n] = 0]
        /\ UNCHANGED <<owner, line, poll, known>>
    BY <1>2 DEF RestartNode
  <2>2. TypeInv' /\ ConnInv'
    BY <2>1 DEF IInv, TypeInv, ConnInv, Stage
  <2>3. OrderInv'
    BY <2>1 DEF IInv, TypeInv, OrderInv, RegisteredBy
  <2> QED BY <2>2, <2>3 DEF IInv
<1>3. ASSUME NEW a \in Node, NEW b \in Node, Notified(a, b) \/ Gossiped(a, b) PROVE IInv'
  <2>1. UNCHANGED <<stage, conn, owner, line, poll, known>>
    BY <1>3 DEF Notified, Gossiped
  <2> QED BY <2>1 DEF IInv, TypeInv, ConnInv, OrderInv, RegisteredBy
<1>4. ASSUME NEW c \in Conn, Accept(c) PROVE IInv'
  <2>1. CASE Head(line[c]) = "hello"
    <3>1. line' = [line EXCEPT ![c] = Tail(@)] /\ poll' = [poll EXCEPT ![c] = "poll"]
      BY <1>4, <2>1 DEF Accept
    <3> QED BY <1>4, <2>1, <3>1, TakingKeepsOrder DEF Accept, IInv, TypeInv
  <2>2. CASE Head(line[c]) # "hello"
    <3>1. line' = [line EXCEPT ![c] = <<>>] /\ poll' = [poll EXCEPT ![c] = "closed"]
      BY <1>4, <2>2 DEF Accept
    <3>2. \A d \in Conn : line'[d] = IF d = c THEN <<>> ELSE line[d]
      BY <3>1 DEF IInv, TypeInv
    <3>3. TypeInv' /\ ConnInv'
      BY <1>4, <3>1, EmptySeq DEF Accept, IInv, TypeInv, ConnInv
    <3>4. \A d \in Conn, k \in Nat : d # c /\ RegisteredBy(d, k) => RegisteredBy(d, k)'
      BY <1>4, <3>2 DEF Accept, RegisteredBy
    <3>5. \A d \in Conn : \A i \in 1..Len(line'[d]) :
            line'[d][i] = "report" => RegisteredBy(d, i)'
      BY <3>2, <3>4, EmptySeq DEF IInv, OrderInv
    <3>6. ASSUME NEW x \in Node, stage'[x] = "registered", poll'[conn'[x]] # "closed"
          PROVE  RegisteredBy(conn[x], Len(line[conn[x]]))'
      <4>1. conn[x] \in Conn /\ conn[x] # c /\ stage[x] = "registered"
        BY <1>4, <3>1, <3>6, RegistrationAssumption, LenProperties
           DEF Accept, IInv, TypeInv, ConnInv, Conn
      <4>2. RegisteredBy(conn[x], Len(line[conn[x]]))
        BY <1>4, <3>1, <3>6, <4>1 DEF Accept, IInv, OrderInv, TypeInv
      <4> QED BY <1>4, <3>2, <4>1, <4>2 DEF Accept, RegisteredBy
    <3> QED BY <3>3, <3>5, <3>6 DEF IInv, OrderInv
  <2> QED BY <2>1, <2>2
<1>5. ASSUME NEW c \in Conn, OnRegister(c) PROVE IInv'
  <2>1. owner[c] \in Node
    BY <1>5, RegistrationAssumption, LenProperties, ElementOfSeq
       DEF OnRegister, Handles, IInv, TypeInv, ConnInv, Conn
  <2> QED BY <1>5, <2>1, TakingKeepsOrder DEF OnRegister, Handles, IInv, TypeInv
<1>6. ASSUME NEW c \in Conn, NEW m \in {"report", "blocks", "heartbeat"}, OnOther(c, m)
      PROVE  IInv'
  BY <1>6, TakingKeepsOrder DEF OnOther, Handles, IInv, TypeInv
<1>7. ASSUME RestartMaster PROVE IInv'
  <2>1. TypeInv' /\ ConnInv'
    BY <1>7, EmptySeq DEF RestartMaster, IInv, TypeInv, ConnInv
  <2>2. OrderInv'
    BY <1>7, EmptySeq, RegistrationAssumption, LenProperties
       DEF RestartMaster, IInv, TypeInv, ConnInv, OrderInv, Conn
  <2> QED BY <2>1, <2>2 DEF IInv
<1>8. CASE UNCHANGED vars
  BY <1>8 DEF vars, IInv, TypeInv, ConnInv, OrderInv, RegisteredBy
<1> QED
  BY <1>1, <1>2, <1>3, <1>4, <1>5, <1>6, <1>7, <1>8, OpenKeepsOrder, IntroduceKeepsOrder,
     SendKeepsOrder
  DEF Next

\* A report of all blocks that the master handles comes from a node that it has
\* registered: Connect's callback sends the registration first, over the same
\* connection, and a master that restarts reads no connection of its
\* predecessor.
THEOREM ReportsAlwaysFindNode == Spec => []ReportsFindNode
<1>1. IInv => ReportsFindNode
  <2> SUFFICES ASSUME IInv, NEW c \in Conn, Handles(c, "report") PROVE owner[c] \in known
    BY DEF ReportsFindNode
  <2>1. /\ line[c] \in Seq(Message) /\ line[c] # <<>> /\ 1 \in 1..Len(line[c])
        /\ line[c][1] = "report"
    BY LenProperties, EmptySeq DEF Handles, IInv, TypeInv
  <2>2. RegisteredBy(c, 1)
    BY <2>1 DEF IInv, OrderInv
  <2> QED BY <2>1, <2>2 DEF RegisteredBy
<1> QED BY <1>1, IInvInit, IInvNext, PTL DEF Spec

-----------------------------------------------------------------------------
(***************************************************************************)
(* Dial loops.                                                             *)
(***************************************************************************)
\* A node that hears of another one starts at most one loop to it.
LEMMA ConnectingKeepsLoops ==
  ASSUME LoopInv, NEW a \in Node, NEW b \in Node, loops' = Connected(a, b)
  PROVE  LoopInv'
<1>1. CASE Dials(a, b) /\ DialsAnew(a, b)
  <2>1. /\ loops' = [loops EXCEPT ![a] = Append(loops[a], b)]
        /\ loops[a] \in Seq(Node) /\ Len(loops[a]) \in Nat
        /\ DOMAIN loops[a] = 1..Len(loops[a])
    BY <1>1, LenProperties DEF Connected, LoopInv
  <2>2. /\ loops'[a] \in Seq(Node) /\ Len(loops'[a]) = Len(loops[a]) + 1
        /\ \A i \in 1..Len(loops[a]) : loops'[a][i] = loops[a][i]
        /\ loops'[a][Len(loops[a]) + 1] = b
        /\ \A x \in Node \ {a} : loops'[x] = loops[x]
    BY <2>1, AppendProperties DEF LoopInv
  <2>3. loops' \in [Node -> Seq(Node)]
    BY <2>1, <2>2 DEF LoopInv
  <2>4. ASSUME NEW i \in 1..Len(loops'[a])
        PROVE  /\ loops'[a][i] > a
               /\ \A j \in 1..Len(loops'[a]) : loops'[a][j] = loops'[a][i] => j = i
    <3>1. b > a /\ \A j \in 1..Len(loops[a]) : loops[a][j] # b
      BY <1>1, <2>1 DEF Dials, DialsAnew
    <3>2. CASE i \in 1..Len(loops[a])
      <4>1. /\ loops'[a][i] = loops[a][i] /\ loops[a][i] > a /\ loops[a][i] # b
            /\ \A j \in 1..Len(loops[a]) : loops[a][j] = loops[a][i] => j = i
        BY <2>2, <3>1, <3>2 DEF LoopInv
      <4>2. ASSUME NEW j \in 1..Len(loops'[a]), loops'[a][j] = loops'[a][i]
            PROVE  j = i
        <5>1. j \in 1..Len(loops[a])
          BY <2>1, <2>2, <4>1, <4>2
        <5> QED BY <2>2, <4>1, <4>2, <5>1
      <4> QED BY <4>1, <4>2
    <3>3. CASE i = Len(loops[a]) + 1
      BY <2>1, <2>2, <3>1, <3>3
    <3> QED BY <2>1, <2>2, <3>2, <3>3
  <2>5. \A x \in Node : \A i \in 1..Len(loops'[x]) :
          /\ loops'[x][i] > x
          /\ \A j \in 1..Len(loops'[x]) : loops'[x][j] = loops'[x][i] => j = i
    <3>1. \A x \in Node \ {a} : \A i \in 1..Len(loops[x]) :
            /\ loops[x][i] > x
            /\ \A j \in 1..Len(loops[x]) : loops[x][j] = loops[x][i] => j = i
      BY DEF LoopInv
    <3>2. \A x \in Node \ {a} : \A i \in 1..Len(loops'[x]) :
            /\ loops'[x][i] > x
            /\ \A j \in 1..Len(loops'[x]) : loops'[x][j] = loops'[x][i] => j = i
      BY <2>2, <3>1
    <3> QED BY <2>4, <3>2
  <2> QED BY <2>3, <2>5 DEF LoopInv
<1>2. CASE ~(Dials(a, b) /\ DialsAnew(a, b))
  BY <1>2 DEF Connected, LoopInv
<1> QED BY <1>1, <1>2

\* Two data nodes never have more than one dial loop between them, for any
\* number of nodes, notifications, gossip and restarts: only the smaller id
\* dials, and a node remembers whom it has dialled.
THEOREM OneLoopPerPairAlways == Spec => []OneLoopPerPair
<1>1. Init => LoopInv
  BY EmptySeq DEF Init, LoopInv
<1>2. LoopInv /\ [Next]_vars => LoopInv'
  <2> SUFFICES ASSUME LoopInv, [Next]_vars PROVE LoopInv'
    OBVIOUS
  <2>1. ASSUME NEW a \in Node, NEW b \in Node, Notified(a, b) \/ Gossiped(a, b)
        PROVE  LoopInv'
    BY <2>1, ConnectingKeepsLoops DEF Notified, Gossiped
  <2>2. ASSUME NEW n \in Node, RestartNode(n) PROVE LoopInv'
    BY <2>2, EmptySeq DEF RestartNode, LoopInv
  <2>3. CASE UNCHANGED loops
    BY <2>3 DEF LoopInv
  <2> QED
    BY <2>1, <2>2, <2>3
    DEF Next, vars, Open, Introduce, Redial, SendAnytime, Accept, OnRegister, OnOther,
        RestartMaster
<1>3. LoopInv => OneLoopPerPair
  <2> SUFFICES ASSUME LoopInv, NEW a \in Node, NEW b \in Node, a < b
               PROVE  Cardinality({i \in DOMAIN loops[a] : loops[a][i] = b})
                        + Cardinality({i \in DOMAIN loops[b] : loops[b][i] = a}) <= 1
    BY DEF OneLoopPerPair
  <2> DEFINE there == {i \in DOMAIN loops[a] : loops[a][i] = b}
             back == {i \in DOMAIN loops[b] : loops[b][i] = a}
  <2>1. DOMAIN loops[a] = 1..Len(loops[a]) /\ DOMAIN loops[b] = 1..Len(loops[b])
    BY LenProperties DEF LoopInv
  <2>2. back = {}
    BY <2>1, RegistrationAssumption DEF LoopInv
  <2>3. there = {} \/ \E i : there = {i}
    <3>1. \A i \in there, j \in there : i = j
      BY <2>1 DEF LoopInv
    <3> QED BY <3>1
  <2>4. Cardinality(there) \in {0, 1} /\ Cardinality(back) = 0
    BY <2>2, <2>3, FS_EmptySet, FS_Singleton
  <2> QED BY <2>4
<1> QED BY <1>1, <1>2, <1>3, PTL DEF Spec
=============================================================================
