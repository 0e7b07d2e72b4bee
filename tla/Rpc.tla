--------------------------------- MODULE Rpc ---------------------------------
(***************************************************************************)
(* A channel for remote calls that several coroutines share, and the       *)
(* server at its other end: OfsRpcChannel and YarnRpcChannel, whose        *)
(* CallMethod keeps no table of calls but relies on the order in which     *)
(* answers come back, and DealConn of the servers.                         *)
(*                                                                         *)
(* A channel is used in one of two ways.  The client of ofs Connects once  *)
(* and the channel is closed by the first call that fails.  A node of yarn *)
(* Starts a loop that connects again when it finds the connection broken   *)
(* and calls RegisterNM, while other coroutines go on calling.             *)
(*                                                                         *)
(* A descriptor is the number of its connection and 0 is none; the system  *)
(* may give a number out again, the model does not.  A connection loses    *)
(* what is under way only when it breaks, and both ends can tell then.     *)
(***************************************************************************)
EXTENDS Naturals, Sequences

CONSTANTS Caller, Loop,    \* the coroutines that call, and the loop's own
          None,            \* holder of a mutex nobody holds
          MaxConn,         \* bound: the connections that are ever made
          MaxFailures      \* bound: the times hn_connect fails

ASSUME RpcAssumption == /\ Loop \in Caller /\ None \notin Caller
                        /\ MaxConn \in Nat \ {0} /\ MaxFailures \in Nat

VARIABLES looping, fd,           \* _looping and _fd of the channel
          writer, reader,        \* who holds _writeMutex and _readMutex
          call,                  \* each coroutine's [pc, fd, no]
          up, closed,            \* connections that work, that we have closed
          made, failures,        \* counters for the bounds
          requests, answers,     \* under way on each connection
          registered             \* connections that RegisterNM has arrived on

channel == <<looping, fd>>
network == <<up, closed, made, failures, registered>>
vars == <<channel, network, writer, reader, call, requests, answers>>

Conn == 1..MaxConn
Request(c) == [who |-> c, no |-> call[c].no]

\* Connect has succeeded (the client gives up if not), or Start is called.
Init == /\ looping \in BOOLEAN
        /\ fd = IF looping THEN 0 ELSE 1
        /\ up = IF looping THEN {} ELSE {1}
        /\ made = IF looping THEN 0 ELSE 1
        /\ writer = None /\ reader = None
        /\ call = [c \in Caller |-> [pc |-> "idle", fd |-> 0, no |-> 0]]
        /\ closed = {} /\ failures = 0 /\ registered = {}
        /\ requests = [f \in Conn |-> <<>>]
        /\ answers = [f \in Conn |-> <<>>]

-----------------------------------------------------------------------------
(***************************************************************************)
(* CallMethod.  The descriptor is read before the mutex is waited for.     *)
(***************************************************************************)
\* Calls are numbered 0 and 1 in turn, to tell a late answer from a new one.
Begin(c) == call' = [call EXCEPT ![c] = [pc |-> "lock", fd |-> fd',
                                         no |-> 1 - call[c].no]]

Call(c) ==
  /\ call[c].pc = "idle" /\ ~(looping /\ c = Loop)
  /\ fd' = fd
  /\ Begin(c)
  /\ UNCHANGED <<looping, network, writer, reader, requests, answers>>

Return(c) == call' = [call EXCEPT ![c].pc = "idle", ![c].fd = 0]

Sent(c) == IF call[c].fd \in up
           THEN [requests EXCEPT ![call[c].fd] = Append(@, Request(c))]
           ELSE requests

\* hn_send's result is not looked at: the reading fails.
Send(c) ==
  /\ call[c].pc = "lock" /\ writer = None
  /\ writer' = c
  /\ requests' = Sent(c)
  /\ call' = [call EXCEPT ![c].pc = "sent"]
  /\ UNCHANGED <<channel, network, reader, answers>>

\* Mutant: _writeMutex is unlocked before _readMutex is locked.
ReaderIsFreeToAll(c) == /\ writer' = IF writer = c THEN None ELSE writer
                        /\ IF writer = c THEN /\ reader' = reader
                                              /\ call' = call
                           ELSE /\ reader = None /\ reader' = c
                                /\ call' = [call EXCEPT ![c].pc = "read"]

\* The read mutex is locked while the write mutex is held, then that is freed.
ReaderNext(c) == /\ reader = None /\ reader' = c
                 /\ writer' = None
                 /\ call' = [call EXCEPT ![c].pc = "read"]

LockRead(c) ==
  /\ call[c].pc = "sent"
  /\ ReaderNext(c)
  /\ UNCHANGED <<channel, network, requests, answers>>

\* An answer without a body, and one whose failed flag is set, are taken too.
Receive(c) ==
  /\ call[c].pc = "read" /\ call[c].fd \in Conn \ closed
  /\ answers[call[c].fd] # <<>>
  /\ answers' = [answers EXCEPT ![call[c].fd] = Tail(@)]
  /\ reader' = None
  /\ Return(c)
  /\ UNCHANGED <<channel, network, writer, requests>>

\* Mutant: the exception leaves _readMutex locked.
StillLocked == reader

Unlocked == None

\* The read throws, and nothing more comes on that connection.  A channel that
\* no loop looks after is closed.
Fail(c) ==
  /\ call[c].pc = "read" /\ call[c].fd \notin up
  /\ reader' = Unlocked
  /\ Return(c)
  /\ answers' = [f \in Conn |-> IF f = call[c].fd THEN <<>> ELSE answers[f]]
  /\ IF looping THEN UNCHANGED <<fd, up, closed>>
     ELSE /\ fd' = 0 /\ closed' = closed \cup ({fd} \ {0}) /\ up' = up \ {fd}
  /\ UNCHANGED <<looping, made, failures, registered, writer, requests>>

-----------------------------------------------------------------------------
(***************************************************************************)
(* The loop of Start.                                                      *)
(***************************************************************************)
\* Mutant: the loop only sees that it never had a connection.
NeverConnected == fd = 0

Lost == fd \notin up

Close ==
  /\ looping /\ call[Loop].pc = "idle" /\ Lost
  /\ closed' = closed \cup ({fd} \ {0})
  /\ up' = up \ {fd}
  /\ call' = [call EXCEPT ![Loop].pc = "connect"]
  /\ UNCHANGED <<channel, made, failures, registered, writer, reader, requests,
                 answers>>

\* RegisterNM is called even when the connection could not be made.
Connect ==
  /\ call[Loop].pc = "connect"
  /\ \/ /\ made < MaxConn
        /\ made' = made + 1 /\ fd' = made' /\ up' = up \cup {fd'}
        /\ UNCHANGED failures
     \/ /\ failures < MaxFailures
        /\ failures' = failures + 1 /\ fd' = 0
        /\ UNCHANGED <<made, up>>
  /\ Begin(Loop)
  /\ UNCHANGED <<looping, closed, registered, writer, reader, requests, answers>>

-----------------------------------------------------------------------------
(***************************************************************************)
(* The server: DealConn answers the requests of a connection one after     *)
(* another.  When the service throws, or does not know the request, it     *)
(* sends {0, true}, which the caller takes for an answer.                  *)
(***************************************************************************)
DealConn(f) ==
  /\ requests[f] # <<>>
  /\ requests' = [requests EXCEPT ![f] = Tail(@)]
  /\ answers' = IF f \in up
                THEN [answers EXCEPT ![f] = Append(@, Head(requests[f]))]
                ELSE answers
  /\ registered' = IF Head(requests[f]).who = Loop
                   THEN registered \cup {f} ELSE registered
  /\ UNCHANGED <<channel, up, closed, made, failures, writer, reader, call>>

\* The last connection of a loop does not break (the bound).
Break(f) ==
  /\ f \in up /\ (looping => f < MaxConn)
  /\ up' = up \ {f}
  /\ UNCHANGED <<channel, closed, made, failures, registered, writer, reader,
                 call, requests, answers>>

Next == \/ \E c \in Caller : Call(c) \/ Send(c) \/ LockRead(c) \/ Receive(c)
                             \/ Fail(c)
        \/ Close \/ Connect
        \/ \E f \in Conn : DealConn(f) \/ Break(f)

\* hn_mutex lets every coroutine in that waits long enough, coroutines go on
\* when they can, and the server answers while the connection works.
Fairness == /\ \A c \in Caller : /\ SF_vars(Send(c))
                                 /\ WF_vars(LockRead(c))
                                 /\ WF_vars(Receive(c) \/ Fail(c))
            /\ WF_vars(Close) /\ WF_vars(Connect)
            /\ \A f \in Conn : WF_vars(f \in up /\ DealConn(f))

Spec == Init /\ [][Next]_vars /\ Fairness

-----------------------------------------------------------------------------
(***************************************************************************)
(* Properties.                                                             *)
(***************************************************************************)
\* The answer that a coroutine is about to read in CallMethod is the answer to
\* its own request, and not to another coroutine's or to an earlier one:
\* answers carry no number, so the two mutexes alone keep the order.
AnswersMatch ==
  \A c \in Caller :
    (call[c].pc = "read" /\ call[c].fd \in Conn /\ answers[call[c].fd] # <<>>)
      => Head(answers[call[c].fd]) = Request(c)

\* Every CallMethod returns, with the answer or a failure, whatever breaks
\* while it waits for a mutex or an answer.
CallsEnd == \A c \in Caller : call[c].pc = "lock" ~> call[c].pc = "idle"

\* Once connections stay up, the loop of Start ends with a working connection
\* that RegisterNM has arrived on, wherever it was when the last one broke.
RegistersAgain ==
  looping => <>[](fd \in up /\ fd \in registered /\ call[Loop].pc = "idle")
=============================================================================
