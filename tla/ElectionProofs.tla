---------------------------- MODULE ElectionProofs ----------------------------
(***************************************************************************)
(* Proofs about Election, for any servers, epochs and zxids and whatever   *)
(* votes arrive.                                                           *)
(***************************************************************************)
EXTENDS Election, TLAPS

Searching == {"looking", "confirming"}

\* What is voted for is as new as this server's log.
LogInv == pc \in Searching => proposal.voteZxId >= zxId

\* A server that has not returned has no leader.
PhaseInv == pc # "done" => state = "LOOKING"

IInv == TypeOK /\ PhaseInv /\ LogInv /\ LeadsInOwnEpoch

-----------------------------------------------------------------------------
(***************************************************************************)
(* Lemmas about the operators.                                             *)
(***************************************************************************)
\* A vote is a ballot with more to it.
LEMMA BallotsOfVotes ==
  ASSUME NEW v \in Vote
  PROVE  BallotOf(v) \in Ballot /\ BallotOf(v).epoch = v.epoch /\ BallotOf(v).voteId = v.voteId
BY DEF BallotOf, Vote, Ballot

\* What a server proposes after a vote is in the vote's epoch, and not older.
LEMMA BetterIsBetter ==
  ASSUME NEW v \in Vote, proposal \in Ballot
  PROVE  /\ Better(v) \in Ballot
         /\ Better(v).epoch = v.epoch
         /\ Better(v).voteZxId >= proposal.voteZxId
<1> DEFINE mine == [proposal EXCEPT !.epoch = v.epoch]
<1>1. mine \in Ballot /\ mine.epoch = v.epoch /\ mine.voteZxId = proposal.voteZxId
  BY DEF Vote, Ballot
<1>2. v.voteZxId \in Int /\ v.epoch \in Int /\ proposal.voteZxId \in Int
  BY ElectionAssumption DEF Vote, Ballot
<1>3. CASE Less(mine, v)
  <2>1. v.voteZxId >= proposal.voteZxId
    BY <1>1, <1>2, <1>3 DEF Less
  <2> QED BY <1>3, <2>1, BallotsOfVotes DEF Better, BallotOf
<1>4. CASE ~Less(mine, v)
  BY <1>1, <1>2, <1>4 DEF Better
<1> QED BY <1>3, <1>4

\* A map that is put into stays a map from A to B.
LEMMA Putting ==
  ASSUME NEW A, NEW B, NEW m, NEW i \in A, NEW x \in B,
         DOMAIN m \subseteq A, \A j \in DOMAIN m : m[j] \in B
  PROVE  DOMAIN Put(m, i, x) \subseteq A /\ \A j \in DOMAIN Put(m, i, x) : Put(m, i, x)[j] \in B
BY DEF Put

LEMMA Nothing == DOMAIN None = {}
BY DEF None

\* No claim of others about another epoch makes a server lead.
LEMMA LeadsByOwnEpoch ==
  ASSUME NEW claims PROVE ~CheckLeader(claims, me, FALSE)
BY DEF CheckLeader

-----------------------------------------------------------------------------
(***************************************************************************)
(* The inductive invariant.                                                *)
(***************************************************************************)
LEMMA IInvInit == Init => IInv
<1> SUFFICES ASSUME Init PROVE IInv
  OBVIOUS
<1>1. Own(0, 0) \in Ballot
  BY ElectionAssumption DEF Own, Ballot
<1>2. TypeOK
  <2>1. DOMAIN votes = {} /\ DOMAIN otherVote = {}
    BY Nothing DEF Init
  <2>2. /\ DOMAIN votes \subseteq Server /\ \A i \in DOMAIN votes : votes[i] \in Server
        /\ DOMAIN otherVote \subseteq Server /\ \A i \in DOMAIN otherVote : otherVote[i] \in Claim
    BY <2>1
  <2>3. logicCount \in 0..MaxEpoch /\ zxId \in 0..MaxZxid
    BY ElectionAssumption DEF Init
  <2> QED BY <1>1, <2>2, <2>3 DEF Init, TypeOK
<1>3. PhaseInv /\ LogInv /\ LeadsInOwnEpoch
  BY DEF Init, PhaseInv, LogInv, LeadsInOwnEpoch, Searching
<1> QED BY <1>2, <1>3 DEF IInv

\* What returning with a ballot establishes.
LEMMA Settling ==
  ASSUME IInv, NEW ballot \in Ballot, Settle(ballot),
         UNCHANGED <<logicCount, zxId>>,
         ballot.voteId = me => ballot.epoch = logicCount
  PROVE  IInv'
<1>1. TypeOK'
  <2>1. proposal' \in Ballot
    BY ElectionAssumption DEF Settle, Own, Ballot
  <2>2. DOMAIN votes' = {} /\ DOMAIN otherVote' = {}
    BY Nothing DEF Settle
  <2>3. /\ DOMAIN votes' \subseteq Server /\ \A i \in DOMAIN votes' : votes'[i] \in Server
        /\ DOMAIN otherVote' \subseteq Server /\ \A i \in DOMAIN otherVote' : otherVote'[i] \in Claim
    BY <2>2
  <2>4. pc' = "done" /\ state' \in {"FOLLOWING", "LEADING"} /\ leader' \in Ballot
    BY DEF Settle
  <2>5. logicCount' \in 0..MaxEpoch /\ zxId' \in 0..MaxZxid
    BY DEF IInv, TypeOK
  <2> QED BY <2>1, <2>3, <2>4, <2>5 DEF TypeOK
<1>2. PhaseInv' /\ LogInv' /\ LeadsInOwnEpoch'
  BY DEF PhaseInv, LogInv, LeadsInOwnEpoch, Searching, Settle
<1> QED BY <1>1, <1>2 DEF IInv

LEMMA IInvNext == IInv /\ [Next]_vars => IInv'
<1> SUFFICES ASSUME IInv, [Next]_vars PROVE IInv'
  OBVIOUS
<1> USE DEF IInv
<1>1. ASSUME NEW z \in 0..MaxZxid, LookForLeader(z) PROVE IInv'
  <2>1. logicCount' \in 0..MaxEpoch /\ zxId' \in 0..MaxZxid
    BY <1>1, ElectionAssumption DEF LookForLeader, TypeOK
  <2>2. /\ proposal' = Own(logicCount', z)
        /\ proposal' \in Ballot /\ proposal'.epoch = logicCount'
    BY <1>1, <2>1, ElectionAssumption DEF LookForLeader, Own, Ballot
  <2>3. DOMAIN votes' \subseteq Server /\ \A i \in DOMAIN votes' : votes'[i] \in Server
    BY <1>1, Nothing, Putting, ElectionAssumption DEF LookForLeader
  <2>4. pc' = "looking" /\ state' = "LOOKING" /\ UNCHANGED <<otherVote, leader>>
    BY <1>1 DEF LookForLeader
  <2>5. TypeOK'
    BY <2>1, <2>2, <2>3, <2>4 DEF TypeOK
  <2>6. proposal'.voteZxId >= zxId'
    BY <1>1, <2>1, <2>2 DEF LookForLeader, Own
  <2>7. PhaseInv' /\ LogInv' /\ LeadsInOwnEpoch'
    BY <2>4, <2>6 DEF PhaseInv, LogInv, LeadsInOwnEpoch
  <2> QED BY <2>5, <2>7
<1>2. CASE Restart
  <2>1. Own(0, 0) \in Ballot /\ 0 \in 0..MaxEpoch /\ 0 \in 0..MaxZxid
    BY ElectionAssumption DEF Own, Ballot
  <2>2. DOMAIN votes' = {} /\ DOMAIN otherVote' = {}
    BY <1>2, Nothing DEF Restart
  <2>3. /\ DOMAIN votes' \subseteq Server /\ \A i \in DOMAIN votes' : votes'[i] \in Server
        /\ DOMAIN otherVote' \subseteq Server /\ \A i \in DOMAIN otherVote' : otherVote'[i] \in Claim
    BY <2>2
  <2>4. TypeOK'
    BY <1>2, <2>1, <2>3 DEF Restart, TypeOK
  <2>5. PhaseInv' /\ LogInv' /\ LeadsInOwnEpoch'
    BY <1>2 DEF Restart, PhaseInv, LogInv, LeadsInOwnEpoch, Searching
  <2> QED BY <2>4, <2>5
<1>3. ASSUME NEW v \in Vote, Looking(v) PROVE IInv'
  <2>1. /\ Better(v) \in Ballot /\ Better(v).epoch = v.epoch
        /\ Better(v).voteZxId >= proposal.voteZxId
    BY BetterIsBetter DEF TypeOK
  <2>2. v.idx \in Server /\ v.voteId \in Server /\ v.epoch \in 0..MaxEpoch
    BY DEF Vote
  <2>3. pc' \in Searching /\ pc = "looking"
    BY <1>3 DEF Looking, Searching
  <2>4. DOMAIN votes' \subseteq Server /\ \A i \in DOMAIN votes' : votes'[i] \in Server
    <3> DEFINE base == IF v.epoch > logicCount THEN None ELSE votes
               known == Put(base, v.idx, v.voteId)
    <3>1. DOMAIN base \subseteq Server /\ \A i \in DOMAIN base : base[i] \in Server
      BY Nothing DEF TypeOK
    <3>2. votes' = IF proposal' = [proposal EXCEPT !.epoch = v.epoch]
                   THEN known ELSE Put(known, me, v.voteId)
      BY <1>3 DEF Looking
    <3> HIDE DEF base
    <3>3. DOMAIN known \subseteq Server /\ \A i \in DOMAIN known : known[i] \in Server
      BY <2>2, <3>1, Putting
    <3> HIDE DEF known
    <3>4. /\ DOMAIN Put(known, me, v.voteId) \subseteq Server
          /\ \A i \in DOMAIN Put(known, me, v.voteId) : Put(known, me, v.voteId)[i] \in Server
      BY <2>2, <3>3, Putting, ElectionAssumption
    <3> QED BY <3>2, <3>3, <3>4
  <2>5. TypeOK'
    BY <1>3, <2>1, <2>2, <2>3, <2>4 DEF Looking, TypeOK, Searching
  <2>6. LogInv'
    <3>1. proposal.voteZxId >= zxId
      BY <2>3 DEF LogInv, Searching
    <3>2. proposal.voteZxId \in Int /\ Better(v).voteZxId \in Int /\ zxId \in Int
      BY <2>1, ElectionAssumption DEF TypeOK, Ballot
    <3> QED BY <1>3, <2>1, <3>1, <3>2 DEF Looking, LogInv
  <2>7. PhaseInv' /\ LeadsInOwnEpoch'
    <3>1. pc = "looking" => state # "LEADING"
      BY DEF PhaseInv
    <3> QED BY <1>3, <3>1 DEF Looking, PhaseInv, LeadsInOwnEpoch
  <2> QED BY <2>5, <2>6, <2>7
<1>4. ASSUME NEW v \in Vote, Interrupted(v) PROVE IInv'
  BY <1>4 DEF Interrupted, TypeOK, PhaseInv, LogInv, LeadsInOwnEpoch, Searching
<1>5. CASE Decide
  <2>1. pc \in Searching /\ proposal \in Ballot /\ proposal.epoch = logicCount
    BY <1>5 DEF Decide, TypeOK, Searching
  <2> QED BY <1>5, <2>1, Settling DEF Decide
<1>6. ASSUME NEW v \in Vote, Settled(v) PROVE IInv'
  <2> DEFINE known == IF v.epoch = logicCount THEN Put(votes, v.idx, v.voteId) ELSE votes
             heard == Put(otherVote, v.idx, [state |-> v.state, voteId |-> v.voteId])
             claimed == [i \in DOMAIN heard |-> heard[i].voteId]
             sameEpoch == /\ v.epoch = logicCount
                          /\ IsVoteOk(known, v.voteId)
                          /\ CheckLeader(otherVote, v.voteId, TRUE)
             otherEpoch == /\ IsVoteOk(claimed, v.voteId)
                           /\ CheckLeader(heard, v.voteId, FALSE)
  <2>1. CASE sameEpoch \/ otherEpoch
    <3>1. Settle(BallotOf(v)) /\ UNCHANGED <<logicCount, zxId>> /\ pc = "looking"
      BY <1>6, <2>1 DEF Settled
    <3>2. v.voteId = me => v.epoch = logicCount
      BY <2>1, LeadsByOwnEpoch
    <3> QED BY <3>1, <3>2, BallotsOfVotes, Settling DEF Searching
  <2>2. CASE ~(sameEpoch \/ otherEpoch)
    <3>1. /\ votes' = known /\ otherVote' = heard /\ pc = "looking" /\ v.state # "LOOKING"
          /\ UNCHANGED <<pc, state, proposal, leader, logicCount, zxId>>
      BY <1>6, <2>2 DEF Settled
    <3>2. /\ v.idx \in Server /\ v.voteId \in Server
          /\ v.state \in {"FOLLOWING", "LEADING"}
      BY <3>1 DEF Vote
    <3>3. DOMAIN known \subseteq Server /\ \A i \in DOMAIN known : known[i] \in Server
      BY <3>2, Putting DEF TypeOK
    <3>4. /\ DOMAIN heard \subseteq Server
          /\ \A i \in DOMAIN heard : heard[i] \in Claim
      <4> DEFINE claim == [state |-> v.state, voteId |-> v.voteId]
      <4>1. claim \in Claim
        BY <3>2 DEF Claim
      <4> HIDE DEF claim
      <4>2. heard = Put(otherVote, v.idx, claim)
        BY DEF claim
      <4>3. /\ DOMAIN otherVote \subseteq Server
            /\ \A i \in DOMAIN otherVote : otherVote[i] \in Claim
        BY DEF TypeOK
      <4> HIDE DEF heard
      <4> QED BY <3>2, <4>1, <4>2, <4>3, Putting
    <3> HIDE DEF known, heard
    <3> QED BY <3>1, <3>3, <3>4 DEF TypeOK, PhaseInv, LogInv, LeadsInOwnEpoch
  <2> QED BY <2>1, <2>2
<1>7. CASE UNCHANGED vars
  BY <1>7 DEF vars, TypeOK, PhaseInv, LogInv, LeadsInOwnEpoch
<1> QED BY <1>1, <1>2, <1>3, <1>4, <1>5, <1>6, <1>7 DEF Next

LEMMA IInvHolds == Spec => []IInv
BY IInvInit, IInvNext, PTL DEF Spec

-----------------------------------------------------------------------------
(***************************************************************************)
(* Theorems.                                                               *)
(***************************************************************************)
\* The election's state keeps its types, and a server that looks for a leader
\* votes in the epoch it is in.
THEOREM ElectionTyped == Spec => []TypeOK
<1>1. IInv => TypeOK
  BY DEF IInv
<1> QED BY <1>1, IInvHolds, PTL

\* A server leads only in the epoch it is in (CheckLeader's IsEpochEqual).
THEOREM LeaderIsOfOwnEpoch == Spec => []LeadsInOwnEpoch
<1>1. IInv => LeadsInOwnEpoch
  BY DEF IInv
<1> QED BY <1>1, IInvHolds, PTL

\* A server decides for no log that is older than its own.
THEOREM DecidesForNewerLogs == Spec => NeverBehindOwnLog
<1>1. IInv /\ [Next]_vars => [Decide => leader'.voteZxId >= zxId]_vars
  BY DEF IInv, LogInv, Searching, Decide, Settle
<1> QED BY <1>1, IInvHolds, PTL DEF Spec, NeverBehindOwnLog
=============================================================================
