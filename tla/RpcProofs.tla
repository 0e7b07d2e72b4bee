------------------------------- MODULE RpcProofs -------------------------------
(***************************************************************************)
(* Proofs about Rpc, for any coroutines and any number of connections and  *)
(* failures.                                                               *)
(***************************************************************************)
EXTENDS Rpc, SequenceTheorems, TLAPS

Requests == [who : Caller, no : {0, 1}]

Calls(top) == [pc : {"idle", "lock", "sent", "read", "connect"},
               fd : 0..top, no : {0, 1}]

TypeInv ==
  /\ looping \in BOOLEAN /\ fd \in 0..made
  /\ writer \in Caller \cup {None} /\ reader \in Caller \cup {None}
  /\ call \in [Caller -> Calls(made)]
  /\ made \in 0..MaxConn /\ up \in SUBSET (1..made)
  /\ requests \in [Conn -> Seq(Requests)]
  /\ answers \in [Conn -> Seq(Requests)]

\* Each mutex is held by the coroutine that is between its lock and its unlock.
MutexInv ==
  \A c \in Caller : /\ call[c].pc = "sent" <=> writer = c
                    /\ call[c].pc = "read" <=> reader = c

\* The calls that wait for an answer of connection f: the one that reads, then
\* the one that has sent its request and waits to read.
Reads(f) == reader # None /\ call[reader].fd = f
Writes(f) == writer # None /\ call[writer].fd = f
Waiting(f) ==
  IF Reads(f) THEN IF Writes(f) THEN <<Request(reader), Request(writer)>>
                                ELSE <<Request(reader)>>
              ELSE IF Writes(f) THEN <<Request(writer)>> ELSE <<>>

\* What comes back on a connection are the answers to those that wait, in their
\* order; as long as it works, the answers that have come and the requests that
\* have not been answered are all that wait.
Begins(a, w) == /\ Len(a) <= Len(w)
                /\ \A i \in 1..Len(a) : a[i] = w[i]
Makes(a, r, w) == /\ Len(a) + Len(r) = Len(w)
                  /\ \A i \in 1..Len(a) : a[i] = w[i]
                  /\ \A i \in 1..Len(r) : r[i] = w[Len(a) + i]

AnswersFit(f) == Begins(answers[f], Waiting(f))
NothingLost(f) == Makes(answers[f], requests[f], Waiting(f))

QueueInv == /\ \A f \in Conn : AnswersFit(f)
            /\ \A f \in up : NothingLost(f)

\* Nothing has been sent over a connection that has not been made.
FreshInv == \A f \in Conn : f > made => requests[f] = <<>> /\ answers[f] = <<>>

IInv == TypeInv /\ MutexInv /\ QueueInv /\ FreshInv

-----------------------------------------------------------------------------
(***************************************************************************)
(* Lemmas about sequences that begin or make another one.                  *)
(***************************************************************************)
LEMMA AddLast ==
  ASSUME NEW S, NEW a \in Seq(S), NEW r \in Seq(S), NEW w \in Seq(S), NEW x \in S
  PROVE  /\ Begins(a, w) => Begins(a, Append(w, x))
         /\ Makes(a, r, w) => Makes(a, Append(r, x), Append(w, x))
<1>1. /\ Len(a) \in Nat /\ Len(r) \in Nat /\ Len(w) \in Nat
      /\ Len(Append(r, x)) = Len(r) + 1 /\ Append(r, x)[Len(r) + 1] = x
      /\ \A i \in 1..Len(r) : Append(r, x)[i] = r[i]
      /\ Len(Append(w, x)) = Len(w) + 1 /\ Append(w, x)[Len(w) + 1] = x
      /\ \A i \in 1..Len(w) : Append(w, x)[i] = w[i]
  BY LenProperties, AppendProperties
<1>2. Begins(a, w) => Begins(a, Append(w, x))
  BY <1>1 DEF Begins
<1>3. ASSUME Makes(a, r, w), NEW i \in 1..Len(Append(r, x))
      PROVE  Append(r, x)[i] = Append(w, x)[Len(a) + i]
  <2>1. CASE i = Len(r) + 1
    <3>1. Len(a) + i = Len(w) + 1
      BY <1>1, <1>3, <2>1 DEF Makes
    <3>2. Append(r, x)[i] = x /\ Append(w, x)[Len(a) + i] = x
      BY <1>1, <2>1, <3>1
    <3> QED BY <3>2
  <2>2. CASE i # Len(r) + 1
    <3>1. i \in 1..Len(r) /\ Len(a) + i \in 1..Len(w)
      BY <1>1, <1>3, <2>2 DEF Makes
    <3> QED BY <1>1, <1>3, <3>1 DEF Makes
  <2> QED BY <2>1, <2>2
<1>4. Makes(a, r, w) => Makes(a, Append(r, x), Append(w, x))
  <2> SUFFICES ASSUME Makes(a, r, w) PROVE Makes(a, Append(r, x), Append(w, x))
    OBVIOUS
  <2>1. Len(a) + Len(Append(r, x)) = Len(Append(w, x))
    BY <1>1, SMTT(30) DEF Makes
  <2>2. ASSUME NEW i \in 1..Len(a) PROVE a[i] = Append(w, x)[i]
    <3>1. i \in 1..Len(w) /\ a[i] = w[i]
      BY <1>1 DEF Makes
    <3> QED BY <1>1, <3>1
  <2> QED BY <1>3, <2>1, <2>2 DEF Makes
<1> QED BY <1>2, <1>4

LEMMA DropFirst ==
  ASSUME NEW S, NEW a \in Seq(S), NEW r \in Seq(S), NEW w \in Seq(S), a # <<>>
  PROVE  /\ Begins(a, w) => Begins(Tail(a), Tail(w))
         /\ Makes(a, r, w) => Makes(Tail(a), r, Tail(w))
<1> SUFFICES ASSUME Len(a) <= Len(w), w # <<>>
             PROVE  /\ Begins(a, w) => Begins(Tail(a), Tail(w))
                    /\ Makes(a, r, w) => Makes(Tail(a), r, Tail(w))
  BY LenProperties, EmptySeq DEF Begins, Makes
<1>1. /\ Len(a) \in Nat /\ Len(r) \in Nat /\ Len(w) \in Nat
      /\ Len(Tail(a)) = Len(a) - 1
      /\ \A i \in 1..Len(Tail(a)) : Tail(a)[i] = a[i + 1]
      /\ Len(Tail(w)) = Len(w) - 1
      /\ \A i \in 1..Len(Tail(w)) : Tail(w)[i] = w[i + 1]
  BY LenProperties, HeadTailProperties
<1>2. ASSUME \A i \in 1..Len(a) : a[i] = w[i], NEW i \in 1..Len(Tail(a))
      PROVE  Tail(a)[i] = Tail(w)[i]
  <2>1. i + 1 \in 1..Len(a) /\ i \in 1..Len(Tail(w))
    BY <1>1
  <2> QED BY <1>1, <1>2, <2>1
<1>3. ASSUME Makes(a, r, w), NEW i \in 1..Len(r)
      PROVE  r[i] = Tail(w)[Len(Tail(a)) + i]
  <2>1. /\ Len(Tail(a)) + i \in 1..Len(Tail(w)) /\ (Len(Tail(a)) + i) + 1 = Len(a) + i
        /\ r[i] = w[Len(a) + i]
    BY <1>1, <1>3, EmptySeq DEF Makes
  <2> QED BY <1>1, <2>1
<1>4. /\ Len(a) <= Len(w) => Len(Tail(a)) <= Len(Tail(w))
      /\ Len(a) + Len(r) = Len(w) => Len(Tail(a)) + Len(r) = Len(Tail(w))
  <2> DEFINE la == Len(a)  lr == Len(r)  lw == Len(w)  ta == Len(Tail(a))  tw == Len(Tail(w))
  <2>1. /\ la \in Nat /\ lr \in Nat /\ lw \in Nat
        /\ ta = la - 1 /\ tw = lw - 1
    BY <1>1
  <2> HIDE DEF la, lr, lw, ta, tw
  <2>2. (la <= lw => ta <= tw) /\ (la + lr = lw => ta + lr = tw)
    BY <2>1
  <2> QED BY <2>2 DEF la, lr, lw, ta, tw
<1>5. Begins(a, w) => Begins(Tail(a), Tail(w))
  BY <1>2, <1>4 DEF Begins
<1>6. Makes(a, r, w) => Makes(Tail(a), r, Tail(w))
  <2> SUFFICES ASSUME Makes(a, r, w) PROVE Makes(Tail(a), r, Tail(w))
    OBVIOUS
  <2>1. \A i \in 1..Len(a) : a[i] = w[i]
    BY DEF Makes
  <2>2. \A i \in 1..Len(Tail(a)) : Tail(a)[i] = Tail(w)[i]
    BY <1>2, <2>1
  <2> QED BY <1>3, <1>4, <2>2 DEF Makes
<1> QED BY <1>5, <1>6

LEMMA MoveFirst ==
  ASSUME NEW S, NEW a \in Seq(S), NEW r \in Seq(S), NEW w \in Seq(S), r # <<>>,
         Makes(a, r, w)
  PROVE  /\ Begins(Append(a, Head(r)), w)
         /\ Makes(Append(a, Head(r)), Tail(r), w)
<1> DEFINE b == Append(a, Head(r))
<1>1. /\ Len(a) \in Nat /\ Len(r) \in Nat /\ Len(r) # 0 /\ Len(w) \in Nat
      /\ Head(r) = r[1] /\ Head(r) \in S
      /\ Len(Tail(r)) = Len(r) - 1
      /\ \A i \in 1..Len(Tail(r)) : Tail(r)[i] = r[i + 1]
      /\ Len(b) = Len(a) + 1 /\ b[Len(a) + 1] = r[1]
      /\ \A i \in 1..Len(a) : b[i] = a[i]
  <2>1. Head(r) = r[1] /\ Head(r) \in S /\ Len(r) # 0
    BY HeadTailProperties, EmptySeq
  <2> QED BY <2>1, LenProperties, HeadTailProperties, AppendProperties
<1> HIDE DEF b
<1>2. \A i \in 1..Len(b) : b[i] = w[i]
  <2>1. r[1] = w[Len(a) + 1]
    BY <1>1 DEF Makes
  <2>2. \A i \in 1..Len(b) : i = Len(a) + 1 \/ i \in 1..Len(a)
    BY <1>1
  <2> QED BY <1>1, <2>1, <2>2 DEF Makes
<1>3. ASSUME NEW i \in 1..Len(Tail(r)) PROVE Tail(r)[i] = w[Len(b) + i]
  <2>1. i + 1 \in 1..Len(r) /\ Len(b) + i = Len(a) + (i + 1)
    BY <1>1
  <2>2. r[i + 1] = w[Len(a) + (i + 1)]
    BY <2>1 DEF Makes
  <2> QED BY <1>1, <2>1, <2>2
<1>4. Len(b) + Len(Tail(r)) = Len(w) /\ Len(b) <= Len(w)
  BY <1>1 DEF Makes
<1> QED BY <1>2, <1>3, <1>4 DEF Begins, Makes, b

-----------------------------------------------------------------------------
(***************************************************************************)
(* Lemmas about those that wait.                                           *)
(***************************************************************************)
\* Those that hold a mutex are two coroutines, and their requests are requests.
LEMMA Holders ==
  ASSUME TypeInv, MutexInv
  PROVE  /\ reader # None => reader \in Caller /\ call[reader].pc = "read"
                             /\ Request(reader) \in Requests
         /\ writer # None => writer \in Caller /\ call[writer].pc = "sent"
                             /\ Request(writer) \in Requests
         /\ reader = writer => reader = None
         /\ \A f \in Conn : Waiting(f) \in Seq(Requests) /\ Len(Waiting(f)) \in Nat
<1>1. /\ reader # None => reader \in Caller /\ call[reader].pc = "read"
                          /\ Request(reader) \in Requests
      /\ writer # None => writer \in Caller /\ call[writer].pc = "sent"
                          /\ Request(writer) \in Requests
      /\ reader = writer => reader = None
  BY DEF TypeInv, Calls, MutexInv, Request, Requests
<1>2. \A f \in Conn : Waiting(f) \in Seq(Requests)
  BY <1>1 DEF Waiting, Reads, Writes
<1> QED BY <1>1, <1>2, LenProperties

\* The same wait if the mutexes are held as before by calls that have not changed.
LEMMA SameWait ==
  ASSUME UNCHANGED <<reader, writer>>,
         reader # None => call'[reader] = call[reader],
         writer # None => call'[writer] = call[writer]
  PROVE  \A f \in Conn : Waiting(f)' = Waiting(f)
BY DEF Waiting, Reads, Writes, Request

\* Nothing changes for a connection on which the same wait and no message moves.
LEMMA SameQueue ==
  ASSUME NEW f \in Conn, Waiting(f)' = Waiting(f),
         requests'[f] = requests[f], answers'[f] = answers[f]
  PROVE  /\ AnswersFit(f) => AnswersFit(f)'
         /\ NothingLost(f) => NothingLost(f)'
BY DEF AnswersFit, NothingLost

LEMMA AppendToOne ==
  ASSUME NEW S, NEW x \in S, NEW y \in S
  PROVE  Append(<<x>>, y) = <<x, y>>
<1>1. <<x>> \in Seq(S) /\ Len(<<x>>) = 1 /\ <<x>>[1] = x
  OBVIOUS
<1>2. /\ Append(<<x>>, y) \in Seq(S) /\ Len(Append(<<x>>, y)) = 2
      /\ Append(<<x>>, y)[1] = x /\ Append(<<x>>, y)[2] = y
  BY <1>1, AppendProperties
<1>3. /\ <<x, y>> \in Seq(S) /\ Len(<<x, y>>) = 2
      /\ <<x, y>>[1] = x /\ <<x, y>>[2] = y
  OBVIOUS
<1>4. \A i \in 1..2 : Append(<<x>>, y)[i] = <<x, y>>[i]
  BY <1>2, <1>3
<1> QED BY <1>2, <1>3, <1>4, SeqEqual

\* A call that takes the write mutex is the last of those that wait.
LEMMA SenderIsLast ==
  ASSUME TypeInv, MutexInv, NEW c \in Caller, Send(c), NEW f \in Conn
  PROVE  Waiting(f)' = IF f = call[c].fd THEN Append(Waiting(f), Request(c))
                       ELSE Waiting(f)
<1>1. /\ writer = None /\ writer' = c /\ reader' = reader
      /\ call' = [call EXCEPT ![c].pc = "sent"] /\ c # None /\ reader # c
      /\ call'[c].fd = call[c].fd /\ call'[c].no = call[c].no
      /\ reader # None => reader \in Caller /\ call'[reader] = call[reader]
  BY RpcAssumption, Holders DEF Send, TypeInv, MutexInv
<1>2. CASE Reads(f)
  <2>1. Waiting(f) = <<Request(reader)>>
    BY <1>1, <1>2 DEF Waiting, Writes
  <2>2. Waiting(f)' = IF f = call[c].fd THEN <<Request(reader), Request(c)>>
                      ELSE <<Request(reader)>>
    BY <1>1, <1>2 DEF Waiting, Reads, Writes, Request
  <2>3. Request(reader) \in Requests /\ Request(c) \in Requests
    BY <1>2, Holders DEF Reads, TypeInv, Calls, Request, Requests
  <2> QED BY <2>1, <2>2, <2>3, AppendToOne
<1>3. CASE ~Reads(f)
  <2>1. Waiting(f) = <<>>
    BY <1>1, <1>3 DEF Waiting, Writes
  <2>2. Waiting(f)' = IF f = call[c].fd THEN <<Request(c)>> ELSE <<>>
    BY <1>1, <1>3 DEF Waiting, Reads, Writes, Request
  <2> QED BY <2>1, <2>2
<1> QED BY <1>2, <1>3

\* From sending to reading nobody comes in between.
LEMMA ReaderIsNext ==
  ASSUME TypeInv, MutexInv, NEW c \in Caller, LockRead(c), NEW f \in Conn
  PROVE  Waiting(f)' = Waiting(f)
<1>1. /\ writer = c /\ reader = None /\ reader' = c /\ writer' = None /\ c # None
      /\ call'[c].fd = call[c].fd /\ call'[c].no = call[c].no
  BY RpcAssumption DEF LockRead, ReaderNext, TypeInv, MutexInv
<1>2. /\ Reads(f) = FALSE /\ Writes(f)' = FALSE /\ Reads(f)' = Writes(f)
      /\ Request(c)' = Request(c)
  BY <1>1 DEF Reads, Writes, Request
<1> QED BY <1>1, <1>2 DEF Waiting

\* A call that returns was the first of those that wait.
LEMMA ReaderIsFirst ==
  ASSUME TypeInv, MutexInv, NEW c \in Caller, call[c].pc = "read", Return(c),
         reader' = None, writer' = writer, NEW f \in Conn
  PROVE  /\ f # call[c].fd => Waiting(f)' = Waiting(f)
         /\ f = call[c].fd => /\ Waiting(f) # <<>> /\ Waiting(f)[1] = Request(c)
                              /\ Waiting(f)' = Tail(Waiting(f))
<1>1. /\ reader = c /\ c # None /\ writer # c
      /\ writer # None => writer \in Caller /\ call'[writer] = call[writer]
  BY RpcAssumption, Holders DEF Return, TypeInv, MutexInv
<1>2. Waiting(f) = IF f = call[c].fd
                   THEN IF Writes(f) THEN <<Request(c), Request(writer)>> ELSE <<Request(c)>>
                   ELSE IF Writes(f) THEN <<Request(writer)>> ELSE <<>>
  BY <1>1 DEF Waiting, Reads
<1>3. Waiting(f)' = IF Writes(f) THEN <<Request(writer)>> ELSE <<>>
  BY <1>1 DEF Waiting, Reads, Writes, Request
<1> QED BY <1>2, <1>3

-----------------------------------------------------------------------------
(***************************************************************************)
(* The steps that change those that wait or what is under way.             *)
(***************************************************************************)
\* What there is in the queues are requests; no connection works that has not
\* been made.
LEMMA Queues ==
  ASSUME TypeInv, MutexInv
  PROVE  /\ up \subseteq Conn
         /\ \A f \in Conn : /\ answers[f] \in Seq(Requests)
                            /\ requests[f] \in Seq(Requests)
                            /\ Waiting(f) \in Seq(Requests)
         /\ \A c \in Caller : Request(c) \in Requests
<1>1. up \subseteq Conn
  <2>1. made \in Nat /\ MaxConn \in Nat /\ made <= MaxConn
    BY RpcAssumption DEF TypeInv
  <2> QED BY <2>1 DEF TypeInv, Conn
<1>2. \A f \in Conn : answers[f] \in Seq(Requests) /\ requests[f] \in Seq(Requests)
  BY DEF TypeInv
<1>3. \A c \in Caller : Request(c) \in Requests
  BY DEF TypeInv, Calls, Request, Requests
<1> QED BY <1>1, <1>2, <1>3, Holders

LEMMA SendKeepsQueues ==
  ASSUME IInv, NEW c \in Caller, Send(c) PROVE QueueInv'
<1> USE DEF IInv
<1>1. requests' = Sent(c) /\ UNCHANGED <<answers, up>> /\ up \subseteq Conn
  BY Queues DEF Send, network
<1>2. ASSUME NEW f \in Conn
      PROVE  AnswersFit(f)' /\ (f \in up => NothingLost(f)')
  <2>1. AnswersFit(f) /\ (f \in up => NothingLost(f))
    BY DEF QueueInv
  <2>2. CASE f = call[c].fd
    <3>1. Waiting(f)' = Append(Waiting(f), Request(c))
      BY <2>2, SenderIsLast
    <3>2. f \in up => requests'[f] = Append(requests[f], Request(c))
      BY <1>1, <2>2 DEF Sent, TypeInv
    <3> QED BY <1>1, <2>1, <3>1, <3>2, Queues, AddLast DEF AnswersFit, NothingLost
  <2>3. CASE f # call[c].fd
    <3>1. requests'[f] = requests[f] /\ answers'[f] = answers[f] /\ Waiting(f)' = Waiting(f)
      BY <1>1, <2>3, SenderIsLast DEF Sent, TypeInv
    <3> QED BY <2>1, <3>1, SameQueue
  <2> QED BY <2>2, <2>3
<1> QED BY <1>1, <1>2 DEF QueueInv

LEMMA ReceiveKeepsQueues ==
  ASSUME IInv, NEW c \in Caller, Receive(c) PROVE QueueInv'
<1> USE DEF IInv
<1> DEFINE g == call[c].fd
<1>1. /\ call[c].pc = "read" /\ Return(c) /\ reader' = None /\ writer' = writer
      /\ g \in Conn /\ answers[g] # <<>> /\ answers' = [answers EXCEPT ![g] = Tail(@)]
      /\ UNCHANGED <<requests, up>> /\ up \subseteq Conn
  BY Queues DEF Receive, network
<1>2. ASSUME NEW f \in Conn
      PROVE  AnswersFit(f)' /\ (f \in up => NothingLost(f)')
  <2>1. AnswersFit(f) /\ (f \in up => NothingLost(f))
    BY DEF QueueInv
  <2>2. CASE f = g
    <3>1. answers[f] # <<>> /\ answers'[f] = Tail(answers[f]) /\ Waiting(f)' = Tail(Waiting(f))
      BY <1>1, <2>2, ReaderIsFirst DEF TypeInv
    <3> QED BY <1>1, <2>1, <3>1, Queues, DropFirst DEF AnswersFit, NothingLost
  <2>3. CASE f # g
    <3>1. requests'[f] = requests[f] /\ answers'[f] = answers[f] /\ Waiting(f)' = Waiting(f)
      BY <1>1, <2>3, ReaderIsFirst DEF TypeInv
    <3> QED BY <2>1, <3>1, SameQueue
  <2> QED BY <2>2, <2>3
<1> QED BY <1>1, <1>2 DEF QueueInv

\* A call only fails on a connection that does not work, and leaves nothing there.
LEMMA FailKeepsQueues ==
  ASSUME IInv, NEW c \in Caller, Fail(c) PROVE QueueInv'
<1> USE DEF IInv
<1> DEFINE g == call[c].fd
<1>1. /\ call[c].pc = "read" /\ Return(c) /\ reader' = None /\ writer' = writer
      /\ g \notin up /\ up' \in SUBSET up /\ requests' = requests /\ up \subseteq Conn
      /\ answers' = [f \in Conn |-> IF f = g THEN <<>> ELSE answers[f]]
  BY Queues DEF Fail, Unlocked
<1>2. ASSUME NEW f \in Conn
      PROVE  AnswersFit(f)' /\ (f \in up' => NothingLost(f)')
  <2>1. AnswersFit(f) /\ (f \in up' => NothingLost(f))
    BY <1>1 DEF QueueInv
  <2>2. CASE f = g
    <3>1. answers'[f] = <<>> /\ f \notin up'
      BY <1>1, <2>2
    <3>2. Waiting(f)' = Tail(Waiting(f)) /\ Waiting(f) \in Seq(Requests) /\ Waiting(f) # <<>>
      BY <1>1, <2>2, ReaderIsFirst, Queues
    <3>3. Len(Waiting(f)') \in Nat
      BY <3>2, HeadTailProperties, LenProperties
    <3> QED BY <3>1, <3>3, EmptySeq DEF AnswersFit, Begins
  <2>3. CASE f # g
    <3>1. requests'[f] = requests[f] /\ answers'[f] = answers[f] /\ Waiting(f)' = Waiting(f)
      BY <1>1, <2>3, ReaderIsFirst
    <3> QED BY <2>1, <3>1, SameQueue
  <2> QED BY <2>2, <2>3
<1> QED BY <1>1, <1>2 DEF QueueInv

\* The server moves the first request to the end of the answers.
LEMMA AnswerKeepsQueues ==
  ASSUME IInv, NEW g \in Conn, DealConn(g) PROVE QueueInv'
<1> USE DEF IInv
<1>1. /\ requests[g] # <<>> /\ requests' = [requests EXCEPT ![g] = Tail(@)]
      /\ answers' = IF g \in up THEN [answers EXCEPT ![g] = Append(@, Head(requests[g]))]
                    ELSE answers
      /\ UNCHANGED <<up, call, reader, writer>> /\ up \subseteq Conn
  BY Queues DEF DealConn
<1>2. \A f \in Conn : Waiting(f)' = Waiting(f)
  BY <1>1, SameWait
<1>3. ASSUME NEW f \in Conn
      PROVE  AnswersFit(f)' /\ (f \in up => NothingLost(f)')
  <2>1. AnswersFit(f) /\ (f \in up => NothingLost(f))
    BY DEF QueueInv
  <2>2. CASE f # g
    BY <1>1, <1>2, <2>1, <2>2, SameQueue DEF TypeInv
  <2>3. CASE f = g /\ f \notin up
    BY <1>1, <1>2, <2>1, <2>3 DEF AnswersFit
  <2>4. CASE f = g /\ f \in up
    <3>1. /\ requests'[f] = Tail(requests[f])
          /\ answers'[f] = Append(answers[f], Head(requests[f]))
      BY <1>1, <2>4 DEF TypeInv
    <3> QED BY <1>1, <1>2, <2>1, <2>4, <3>1, Queues, MoveFirst DEF AnswersFit, NothingLost
  <2> QED BY <2>2, <2>3, <2>4
<1> QED BY <1>1, <1>3 DEF QueueInv

\* Neither a call that does not hold a mutex nor a connection that is made or
\* breaks changes what is under way.
LEMMA ElsewhereKeepsQueues ==
  ASSUME IInv, UNCHANGED <<reader, writer, requests, answers>>,
         reader # None => call'[reader] = call[reader],
         writer # None => call'[writer] = call[writer],
         up' \subseteq up \cup {made + 1}, up' \subseteq Conn
  PROVE  QueueInv'
<1> USE DEF IInv
<1>1. \A f \in Conn : Waiting(f)' = Waiting(f)
  BY SameWait
<1>2. ASSUME NEW f \in Conn PROVE AnswersFit(f)'
  BY <1>1, SameQueue DEF QueueInv
<1>3. ASSUME NEW f \in up' PROVE NothingLost(f)'
  <2>1. f \in Conn /\ requests'[f] = requests[f] /\ answers'[f] = answers[f]
    OBVIOUS
  <2>2. CASE f \in up
    BY <1>1, <2>1, <2>2, SameQueue DEF QueueInv
  <2>3. CASE f = made + 1
    <3>1. /\ made \in Nat
          /\ reader # None => call[reader].fd \in 0..made
          /\ writer # None => call[writer].fd \in 0..made
      BY RpcAssumption, Holders DEF TypeInv, Calls
    <3>2. Waiting(f) = <<>>
      BY <2>3, <3>1 DEF Waiting, Reads, Writes
    <3>3. requests[f] = <<>> /\ answers[f] = <<>>
      BY <2>1, <2>3, <3>1 DEF FreshInv
    <3>4. Makes(<<>>, <<>>, <<>>)
      BY DEF Makes
    <3> QED BY <1>1, <2>1, <3>2, <3>3, <3>4 DEF NothingLost
  <2> QED BY <2>2, <2>3
<1> QED BY <1>2, <1>3 DEF QueueInv

-----------------------------------------------------------------------------
(***************************************************************************)
(* The inductive invariant, action by action.                              *)
(***************************************************************************)
LEMMA IInvInit == Init => IInv
<1> SUFFICES ASSUME Init PROVE IInv
  OBVIOUS
<1>1. TypeInv
  BY RpcAssumption DEF Init, TypeInv, Calls
<1>2. MutexInv
  BY RpcAssumption DEF Init, MutexInv
<1>3. Makes(<<>>, <<>>, <<>>) /\ Begins(<<>>, <<>>)
  BY DEF Makes, Begins
<1>4. /\ \A f : Waiting(f) = <<>>
      /\ \A f \in Conn : requests[f] = <<>> /\ answers[f] = <<>>
      /\ up \subseteq Conn
  BY RpcAssumption DEF Init, Waiting, Reads, Writes, Conn
<1>5. QueueInv /\ FreshInv
  BY <1>3, <1>4 DEF QueueInv, FreshInv, AnswersFit, NothingLost
<1> QED BY <1>1, <1>2, <1>5 DEF IInv

LEMMA CallStep == ASSUME IInv, NEW c \in Caller, Call(c) PROVE IInv'
<1> USE DEF IInv
<1>1. call' \in [Caller -> Calls(made)]
  <2>1. fd' \in 0..made /\ call[c].no \in {0, 1}
    BY DEF TypeInv, Calls, Call
  <2>2. [pc |-> "lock", fd |-> fd', no |-> 1 - call[c].no] \in Calls(made)
    BY <2>1 DEF Calls
  <2> QED BY <2>2 DEF TypeInv, Call, Begin, Calls
<1>2. TypeInv'
  BY <1>1 DEF TypeInv, Call, network, Calls
<1>3. c # reader /\ c # writer /\ MutexInv'
  BY DEF TypeInv, MutexInv, Call, Begin
<1>4. QueueInv'
  BY <1>3, Holders, Queues, ElsewhereKeepsQueues DEF TypeInv, Call, Begin, network
<1>5. FreshInv'
  BY DEF FreshInv, Call, network
<1> QED BY <1>2, <1>3, <1>4, <1>5

LEMMA SendStep == ASSUME IInv, NEW c \in Caller, Send(c) PROVE IInv'
<1> USE DEF IInv
<1>1. requests' \in [Conn -> Seq(Requests)]
  BY Queues, AppendProperties DEF TypeInv, Send, Sent
<1>2. TypeInv'
  BY <1>1 DEF TypeInv, Calls, Send, channel, network
<1>3. MutexInv'
  BY RpcAssumption DEF TypeInv, MutexInv, Send
<1>4. FreshInv'
  BY RpcAssumption DEF FreshInv, TypeInv, Send, Sent, network
<1> QED BY <1>2, <1>3, <1>4, SendKeepsQueues

LEMMA LockReadStep == ASSUME IInv, NEW c \in Caller, LockRead(c) PROVE IInv'
<1> USE DEF IInv
<1>1. TypeInv'
  BY DEF TypeInv, Calls, LockRead, ReaderNext, channel, network
<1>2. MutexInv'
  BY RpcAssumption DEF TypeInv, MutexInv, LockRead, ReaderNext
<1>3. QueueInv'
  BY ReaderIsNext, SameQueue, Queues DEF QueueInv, LockRead, network
<1>4. FreshInv'
  BY DEF FreshInv, LockRead, network
<1> QED BY <1>1, <1>2, <1>3, <1>4

LEMMA Returns ==
  ASSUME TypeInv, NEW c \in Caller, Return(c) PROVE call' \in [Caller -> Calls(made)]
<1>1. /\ call \in [Caller -> Calls(made)] /\ 0 \in 0..made
  BY RpcAssumption DEF TypeInv, Calls
<1>2. [[call[c] EXCEPT !.pc = "idle"] EXCEPT !.fd = 0] \in Calls(made)
  BY <1>1 DEF Calls
<1>3. call' = [call EXCEPT ![c] = [[call[c] EXCEPT !.pc = "idle"] EXCEPT !.fd = 0]]
  BY <1>1 DEF Return, Calls
<1> QED BY <1>1, <1>2, <1>3

LEMMA ReceiveStep == ASSUME IInv, NEW c \in Caller, Receive(c) PROVE IInv'
<1> USE DEF IInv
<1>1. answers' \in [Conn -> Seq(Requests)]
  BY Queues, HeadTailProperties DEF TypeInv, Receive
<1>2. TypeInv'
  <2>1. call' \in [Caller -> Calls(made)]
    BY Returns DEF Receive
  <2> QED BY <1>1, <2>1 DEF TypeInv, Receive, Calls, channel, network
<1>3. MutexInv'
  BY RpcAssumption, Holders DEF TypeInv, MutexInv, Receive, Return
<1>4. FreshInv'
  BY DEF FreshInv, TypeInv, Receive, network
<1> QED BY <1>2, <1>3, <1>4, ReceiveKeepsQueues

LEMMA FailStep == ASSUME IInv, NEW c \in Caller, Fail(c) PROVE IInv'
<1> USE DEF IInv
<1>1. answers' \in [Conn -> Seq(Requests)]
  BY Queues DEF TypeInv, Fail
<1>2. TypeInv'
  <2>1. call' \in [Caller -> Calls(made)]
    BY Returns DEF Fail
  <2>2. /\ fd' \in {fd, 0} /\ up' \in {up, up \ {fd}}
        /\ UNCHANGED <<looping, made, requests, writer>>
    BY DEF Fail
  <2>3. fd' \in 0..made /\ up' \in SUBSET (1..made)
    BY <2>2 DEF TypeInv
  <2> QED BY <1>1, <2>1, <2>2, <2>3 DEF TypeInv, Fail, Calls, Unlocked
<1>3. MutexInv'
  BY RpcAssumption, Holders DEF TypeInv, MutexInv, Fail, Return, Unlocked
<1>4. FreshInv'
  BY DEF FreshInv, Fail
<1> QED BY <1>2, <1>3, <1>4, FailKeepsQueues

LEMMA CloseStep == ASSUME IInv, Close PROVE IInv'
<1> USE DEF IInv
<1>1. TypeInv'
  BY RpcAssumption DEF TypeInv, Calls, Close, channel
<1>2. Loop # reader /\ Loop # writer /\ MutexInv'
  BY RpcAssumption DEF TypeInv, MutexInv, Close
<1>3. QueueInv'
  BY <1>2, Holders, Queues, ElsewhereKeepsQueues DEF TypeInv, Close
<1>4. FreshInv'
  BY DEF FreshInv, Close
<1> QED BY <1>1, <1>2, <1>3, <1>4

LEMMA ConnectStep == ASSUME IInv, Connect PROVE IInv'
<1> USE DEF IInv
<1>1. /\ made \in Nat /\ made' \in 0..MaxConn /\ made <= made' /\ fd' \in 0..made'
      /\ up' \in SUBSET (1..made') /\ up' \subseteq up \cup {made + 1}
  <2>1. made \in Nat /\ MaxConn \in Nat /\ made <= MaxConn /\ up \in SUBSET (1..made)
    BY RpcAssumption DEF TypeInv
  <2>2. CASE made < MaxConn /\ made' = made + 1 /\ fd' = made' /\ up' = up \cup {fd'}
    BY <2>1, <2>2
  <2>3. CASE fd' = 0 /\ UNCHANGED <<made, up>>
    BY <2>1, <2>3
  <2> QED BY <2>2, <2>3 DEF Connect
<1>2. TypeInv'
  BY <1>1, RpcAssumption DEF TypeInv, Calls, Connect, Begin
<1>3. Loop # reader /\ Loop # writer /\ MutexInv'
  BY RpcAssumption DEF TypeInv, MutexInv, Connect, Begin
<1>4. up' \subseteq Conn
  BY <1>1, RpcAssumption DEF Conn
<1>5. QueueInv'
  BY <1>1, <1>3, <1>4, Holders, ElsewhereKeepsQueues DEF TypeInv, Connect, Begin
<1>6. FreshInv'
  BY <1>1 DEF FreshInv, Connect, Conn
<1> QED BY <1>2, <1>3, <1>5, <1>6

LEMMA DealConnStep == ASSUME IInv, NEW g \in Conn, DealConn(g) PROVE IInv'
<1> USE DEF IInv
<1>1. requests' \in [Conn -> Seq(Requests)] /\ answers' \in [Conn -> Seq(Requests)]
  BY Queues, HeadTailProperties, AppendProperties, EmptySeq DEF TypeInv, DealConn
<1>2. TypeInv'
  BY <1>1 DEF TypeInv, DealConn, channel
<1>3. MutexInv'
  BY DEF MutexInv, DealConn
<1>4. FreshInv'
  BY DEF FreshInv, TypeInv, DealConn
<1> QED BY <1>2, <1>3, <1>4, AnswerKeepsQueues

LEMMA BreakStep == ASSUME IInv, NEW g \in Conn, Break(g) PROVE IInv'
<1> USE DEF IInv
<1>1. TypeInv'
  BY DEF TypeInv, Break, channel
<1>2. MutexInv'
  BY DEF MutexInv, Break
<1>3. QueueInv'
  BY Queues, ElsewhereKeepsQueues DEF Break
<1>4. FreshInv'
  BY DEF FreshInv, Break
<1> QED BY <1>1, <1>2, <1>3, <1>4

LEMMA IInvNext == IInv /\ [Next]_vars => IInv'
<1> SUFFICES ASSUME IInv, [Next]_vars PROVE IInv'
  OBVIOUS
<1>1. ASSUME NEW c \in Caller, Call(c) PROVE IInv'
  BY <1>1, CallStep
<1>2. ASSUME NEW c \in Caller, Send(c) PROVE IInv'
  BY <1>2, SendStep
<1>3. ASSUME NEW c \in Caller, LockRead(c) PROVE IInv'
  BY <1>3, LockReadStep
<1>4. ASSUME NEW c \in Caller, Receive(c) PROVE IInv'
  BY <1>4, ReceiveStep
<1>5. ASSUME NEW c \in Caller, Fail(c) PROVE IInv'
  BY <1>5, FailStep
<1>6. CASE Close
  BY <1>6, CloseStep
<1>7. CASE Connect
  BY <1>7, ConnectStep
<1>8. ASSUME NEW f \in Conn, DealConn(f) PROVE IInv'
  BY <1>8, DealConnStep
<1>9. ASSUME NEW f \in Conn, Break(f) PROVE IInv'
  BY <1>9, BreakStep
<1>10. CASE UNCHANGED vars
  BY <1>10 DEF vars, channel, network, IInv, TypeInv, MutexInv, QueueInv, FreshInv,
     AnswersFit, NothingLost, Waiting, Reads, Writes, Request
<1> QED BY <1>1, <1>2, <1>3, <1>4, <1>5, <1>6, <1>7, <1>8, <1>9, <1>10 DEF Next

-----------------------------------------------------------------------------
(***************************************************************************)
(* Theorem.                                                                *)
(***************************************************************************)
\* CallMethod only ever reads the answer to its own request, for any number of
\* coroutines on one channel, over any number of connections that break at any
\* time: the first answer that has come is that to the first call that waits,
\* which is the one that holds _readMutex.
THEOREM AnswersMatchAlways == Spec => []AnswersMatch
<1>1. ASSUME IInv, NEW c \in Caller, call[c].pc = "read", call[c].fd \in Conn,
             answers[call[c].fd] # <<>>
      PROVE  Head(answers[call[c].fd]) = Request(c)
  <2> DEFINE f == call[c].fd
  <2>1. reader = c /\ c # None
    BY <1>1, RpcAssumption DEF IInv, MutexInv
  <2>2. Waiting(f)[1] = Request(c)
    BY <2>1 DEF Waiting, Reads
  <2>3. answers[f] \in Seq(Requests) /\ Begins(answers[f], Waiting(f))
    BY <1>1, Queues DEF IInv, QueueInv, AnswersFit
  <2>4. Len(answers[f]) \in Nat \ {0} /\ Head(answers[f]) = answers[f][1]
    BY <1>1, <2>3, LenProperties, HeadTailProperties, EmptySeq
  <2>5. 1 \in 1..Len(answers[f])
    BY <2>4
  <2> QED BY <2>2, <2>3, <2>4, <2>5 DEF Begins
<1>2. IInv => AnswersMatch
  BY <1>1 DEF AnswersMatch
<1> QED BY <1>2, IInvInit, IInvNext, PTL DEF Spec
=============================================================================
