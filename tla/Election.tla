------------------------------- MODULE Election -------------------------------
(***************************************************************************)
(* The leader election of a server (paxos/election/election.cpp): one      *)
(* server, me, among others that may send it any vote at any time.  Votes  *)
(* are repeated every 200 ms, are lost with their connection, and are sent *)
(* on by servers under the name of the server they had them from, so that  *)
(* nothing is assumed of who sends what.                                   *)
(*                                                                         *)
(* PaxosImpl calls LookForLeader once: its _state is LOOKING only at first *)
(* (PaxosImpl.cpp:63-69), so that the server looks again only after the    *)
(* process was restarted, in epoch 1, whatever the others remember of it.  *)
(***************************************************************************)
EXTENDS Integers, FiniteSets

CONSTANTS Server,   \* ids of the servers
          me,       \* the id of this one
          MaxZxid,  \* bound on zxids
          MaxEpoch  \* bound on election epochs

ASSUME ElectionAssumption ==
  /\ Server \subseteq Nat /\ me \in Server
  /\ IsFiniteSet(Server)
  /\ MaxZxid \in Nat /\ MaxEpoch \in Nat

VARIABLES pc,         \* where LookForLeader is, "done" when it has returned
          state,      \* Election::_state
          logicCount, \* Election::_logicCount
          zxId,       \* its argument, the newest transaction of this server
          proposal,   \* what this server votes for
          votes,      \* what others vote for in this epoch, by the idx they carry
          otherVote,  \* what servers that have a leader say, by idx
          leader      \* Election::_leader, which Echo tells others from then on

vars == <<pc, state, logicCount, zxId, proposal, votes, otherVote, leader>>

Ballot == [epoch : 0..MaxEpoch, voteId : Server, voteZxId : 0..MaxZxid]
Vote == [idx : Server, state : {"LOOKING", "FOLLOWING", "LEADING"},
         epoch : 0..MaxEpoch, voteId : Server, voteZxId : 0..MaxZxid]

\* What is kept of the votes of servers that have a leader.
Claim == [state : {"FOLLOWING", "LEADING"}, voteId : Server]

\* Vote::operator<.
Less(a, b) == \/ a.epoch < b.epoch
              \/ a.epoch = b.epoch /\ a.voteZxId < b.voteZxId
              \/ a.epoch = b.epoch /\ a.voteZxId = b.voteZxId /\ a.voteId < b.voteId

BallotOf(v) == [epoch |-> v.epoch, voteId |-> v.voteId, voteZxId |-> v.voteZxId]

\* IsVoteOk, of a map from idx to voteId.
IsVoteOk(cast, id) ==
  2 * Cardinality({i \in DOMAIN cast : cast[i] = id}) > Cardinality(Server)

\* Mutant: a server believes others that it leads.
BelievesIt(claims, id, isEpochEqual) ==
  id = me \/ (id \in DOMAIN claims /\ claims[id].state = "LEADING")

CheckLeader(claims, id, isEpochEqual) ==
  IF id = me THEN isEpochEqual
             ELSE id \in DOMAIN claims /\ claims[id].state = "LEADING"

\* m[i] = x, of a map.
None == [i \in {} |-> me]
Put(m, i, x) == [j \in DOMAIN m \union {i} |-> IF j = i THEN x ELSE m[j]]

\* What a server votes for at first.
Own(epoch, z) == [epoch |-> epoch, voteId |-> me, voteZxId |-> z]

Init == /\ pc = "outside"
        /\ state = "LOOKING"
        /\ logicCount = 0
        /\ zxId = 0
        /\ proposal = Own(0, 0)
        /\ votes = None
        /\ otherVote = None
        /\ leader = Own(0, 0)

-----------------------------------------------------------------------------
(***************************************************************************)
(* LookForLeader.                                                          *)
(***************************************************************************)
\* PaxosImpl::Elect, with the newest transaction that was loaded.
LookForLeader(z) ==
  /\ pc = "outside"
  /\ logicCount < MaxEpoch
  /\ logicCount' = logicCount + 1
  /\ zxId' = z
  /\ state' = "LOOKING"
  /\ proposal' = Own(logicCount', z)
  /\ votes' = Put(None, me, me)
  /\ pc' = "looking"
  /\ UNCHANGED <<otherVote, leader>>

\* Mutant: a vote of a later epoch is taken over as it is.
JoinEpoch(v) ==
  IF v.epoch > logicCount \/ Less(proposal, v) THEN BallotOf(v) ELSE proposal

\* Mutant: the proposal stays in its epoch.
StaysInEpoch(v) ==
  IF Less([proposal EXCEPT !.epoch = v.epoch], v)
  THEN [BallotOf(v) EXCEPT !.epoch = proposal.epoch] ELSE proposal

\* The vote is better than what this server votes for, its own epoch aside.
Better(v) ==
  LET mine == [proposal EXCEPT !.epoch = v.epoch]
  IN  IF Less(mine, v) THEN BallotOf(v) ELSE mine

\* A vote of a server that looks for a leader.  A later epoch is joined, and
\* what was voted before, this server's own vote too, is forgotten.
Looking(v) ==
  /\ pc = "looking"
  /\ v.state = "LOOKING"
  /\ v.epoch >= logicCount
  /\ logicCount' = v.epoch
  /\ proposal' = Better(v)
  /\ LET known == Put(IF v.epoch > logicCount THEN None ELSE votes, v.idx, v.voteId)
     IN  votes' = IF proposal' = [proposal EXCEPT !.epoch = v.epoch]
                  THEN known ELSE Put(known, me, v.voteId)
  /\ pc' = IF IsVoteOk(votes', v.voteId) THEN "confirming" ELSE "looking"
  /\ UNCHANGED <<state, zxId, otherVote, leader>>

\* In the 300 ms that follow, a better vote is popped: the code puts an
\* uninitialised Vote into the queue in its place, which can be any.  Votes that
\* are not better are dropped.
Interrupted(v) ==
  /\ pc = "confirming"
  /\ Less(proposal, v)
  /\ pc' = "looking"
  /\ UNCHANGED <<state, logicCount, zxId, proposal, votes, otherVote, leader>>

\* The server has a leader, tells others about it from now on (Echo) and returns;
\* what is local to LookForLeader is gone.
Settle(ballot) ==
  /\ proposal' = Own(0, 0)
  /\ votes' = None
  /\ otherVote' = None
  /\ state' = IF ballot.voteId = me THEN "LEADING" ELSE "FOLLOWING"
  /\ leader' = ballot
  /\ pc' = "done"

\* No better vote came: the server decides for its own proposal.
Decide ==
  /\ pc = "confirming"
  /\ Settle(proposal)
  /\ UNCHANGED <<logicCount, zxId>>

\* A vote of a server that has a leader.
Settled(v) ==
  LET known == IF v.epoch = logicCount THEN Put(votes, v.idx, v.voteId) ELSE votes
      heard == Put(otherVote, v.idx, [state |-> v.state, voteId |-> v.voteId])
      claimed == [i \in DOMAIN heard |-> heard[i].voteId]
      sameEpoch == /\ v.epoch = logicCount
                   /\ IsVoteOk(known, v.voteId)
                   /\ CheckLeader(otherVote, v.voteId, TRUE)
      otherEpoch == /\ IsVoteOk(claimed, v.voteId)
                    /\ CheckLeader(heard, v.voteId, FALSE)
  IN  /\ pc = "looking"
      /\ v.state # "LOOKING"
      /\ IF sameEpoch \/ otherEpoch
         THEN Settle(BallotOf(v))
         ELSE /\ votes' = known
              /\ otherVote' = heard
              /\ UNCHANGED <<pc, state, proposal, leader>>
      /\ UNCHANGED <<logicCount, zxId>>

\* The process ends, at any moment, and is started again: it keeps nothing of
\* the election.
Restart ==
  /\ pc' = "outside"
  /\ state' = "LOOKING"
  /\ logicCount' = 0 /\ zxId' = 0
  /\ proposal' = Own(0, 0) /\ leader' = Own(0, 0)
  /\ votes' = None /\ otherVote' = None

Next == \/ \E z \in 0..MaxZxid : LookForLeader(z)
        \/ \E v \in Vote : Looking(v) \/ Interrupted(v) \/ Settled(v)
        \/ Decide
        \/ Restart

Spec == Init /\ [][Next]_vars

-----------------------------------------------------------------------------
(***************************************************************************)
(* Properties.                                                             *)
(***************************************************************************)
\* Types; and a server that looks for a leader votes in the epoch that it is in.
TypeOK ==
  /\ pc \in {"outside", "looking", "confirming", "done"}
  /\ state \in {"LOOKING", "FOLLOWING", "LEADING"}
  /\ logicCount \in 0..MaxEpoch /\ zxId \in 0..MaxZxid
  /\ proposal \in Ballot /\ leader \in Ballot
  /\ pc \in {"looking", "confirming"} => proposal.epoch = logicCount
  /\ DOMAIN votes \subseteq Server /\ DOMAIN otherVote \subseteq Server
  /\ \A i \in DOMAIN votes : votes[i] \in Server
  /\ \A i \in DOMAIN otherVote : otherVote[i] \in Claim

\* A server decides, by votes of servers that look for a leader, for none whose
\* log is older than its own, whatever epochs it was carried through meanwhile.
NeverBehindOwnLog == [][ Decide => leader'.voteZxId >= zxId ]_vars

\* A server leads only in the epoch it is in: that others still hold it for the
\* leader of another epoch, from before it was restarted, does not make it lead.
LeadsInOwnEpoch == state = "LEADING" => leader.epoch = logicCount
=============================================================================
