------------------------- MODULE MasterBlockProofs --------------------------
(***************************************************************************)
(* Safety of the master's record of a block, for any number of servers,    *)
(* any block count and any lease lengths.                                  *)
(***************************************************************************)
EXTENDS MasterBlock, WellFoundedInduction, TLAPS

\* A lease announces a version above the one it starts from (Block::NextVersion
\* of the master).
LEMMA NextVersionIsNext ==
  ASSUME NEW v \in Version
  PROVE  NextVersion(v) \in Version /\ v < NextVersion(v)
  <1>1. v \div TermWidth \in Nat
    BY TermWidthAssumption DEF Version
  <1>. QED BY <1>1, TermWidthAssumption, SMT DEF NextVersion, Term, Version

\* Terms are numbered in the order of the versions they are opened from.
LEMMA NextVersionMonotone ==
  ASSUME NEW v \in Version, NEW w \in Version, v <= w
  PROVE  NextVersion(v) <= NextVersion(w)
  <1>1. v \div TermWidth \in Nat /\ w \div TermWidth \in Nat
    BY TermWidthAssumption DEF Version
  <1>2. v \div TermWidth <= w \div TermWidth
    BY <1>1, TermWidthAssumption DEF Version
  <1>. QED BY <1>1, <1>2, TermWidthAssumption, SMT
           DEF NextVersion, Term, Version

\* What the steps of the block rest on: its lease is bounded by the clock, and
\* versions by each other.
SafeInv ==
  /\ TypeOK
  /\ ExpectWithinOneTerm
  /\ NoHealthyReplicaAhead
  /\ LeaseCoversReplicas

-----------------------------------------------------------------------------
\* Replacing one entry keeps the vector of replicas what it is.
LEMMA SetReplica ==
  ASSUME NEW rs \in Seq(Replica), NEW k, NEW r,
         k \in DOMAIN rs => r \in Replica
  PROVE  /\ [rs EXCEPT ![k] = r] \in Seq(Replica)
         /\ DOMAIN [rs EXCEPT ![k] = r] = DOMAIN rs
         /\ \A i \in DOMAIN rs :
              [rs EXCEPT ![k] = r][i] = IF i = k THEN r ELSE rs[i]
  <1>. DEFINE new == [rs EXCEPT ![k] = r]
  <1>1. Len(rs) \in Nat /\ DOMAIN rs = 1..Len(rs)
        /\ \A i \in 1..Len(rs) : rs[i] \in Replica
    OBVIOUS
  <1>2. DOMAIN new = DOMAIN rs
    OBVIOUS
  <1>3. \A i \in DOMAIN rs : new[i] = IF i = k THEN r ELSE rs[i]
    OBVIOUS
  <1>4. new \in [1..Len(rs) -> Replica]
    <2>1. \A i \in 1..Len(rs) : new[i] \in Replica
      BY <1>1, <1>3
    <2>2. new = [i \in 1..Len(rs) |-> new[i]]
      BY <1>1
    <2>. HIDE DEF new
    <2>. QED BY <2>1, <2>2
  <1>5. new \in Seq(Replica)
    <2>. HIDE DEF new
    <2>. QED BY <1>1, <1>4
  <1>. QED BY <1>2, <1>3, <1>5

\* Assigning the lease of one entry changes nothing else of any.
LEMMA SetLeaseReplicas ==
  ASSUME NEW rs \in Seq(Replica), NEW k, NEW t \in Nat
  PROVE  LET new == [rs EXCEPT ![k].lease = t]
         IN  /\ new \in Seq(Replica)
             /\ DOMAIN new = DOMAIN rs
             /\ \A i \in DOMAIN rs : /\ new[i].version = rs[i].version
                                     /\ new[i].fault = rs[i].fault
                                     /\ new[i].lease \in {rs[i].lease, t}
  <1>1. \A i \in DOMAIN rs : rs[i] \in Replica
    OBVIOUS
  <1>2. k \in DOMAIN rs => [rs[k] EXCEPT !.lease = t] \in Replica
    BY <1>1 DEF Replica
  <1>. QED BY <1>1, <1>2, SetReplica DEF Replica

\* Servers chosen by Distribute are added as fresh replicas.
LEMMA FreshReplicas ==
  ASSUME NEW excluded, NEW count \in Int, usable \in SUBSET Server,
         NEW d \in Placements(excluded, count)
  PROVE  LET new == [i \in DOMAIN d |-> FreshReplica(d[i])]
         IN  /\ new \in Seq(Replica)
             /\ DOMAIN new = DOMAIN d
             /\ \A i \in DOMAIN d : /\ new[i].version = 0
                                    /\ new[i].lease = 0
                                    /\ new[i].fault = FALSE
  <1>1. PICK k \in 0..count : d \in [1..k -> usable \ excluded]
    BY DEF Placements
  <1>2. \A i \in 1..k : FreshReplica(d[i]) \in Replica
    BY <1>1 DEF FreshReplica, Replica, Version
  <1>3. [i \in DOMAIN d |-> FreshReplica(d[i])] \in [1..k -> Replica]
    BY <1>1, <1>2
  <1>4. [i \in DOMAIN d |-> FreshReplica(d[i])] \in Seq(Replica)
    BY <1>3
  <1>. QED BY <1>4 DEF FreshReplica

\* The main replica is the first of a set of entries, which is one of them.
LEMMA FirstIsMember ==
  ASSUME NEW S \in SUBSET Nat, S # {}
  PROVE  First(S) \in S
  <1>1. IsWellFoundedOn(OpToRel(<, Nat), Nat)
    BY NatLessThanWellFounded
  <1>2. \E i \in S : \A j \in S : ~(<<j, i>> \in OpToRel(<, Nat))
    BY <1>1, WFMin
  <1>3. \A i, j \in Nat : ~(<<j, i>> \in OpToRel(<, Nat)) => i <= j
    BY DEF OpToRel
  <1>4. \E i \in S : \A j \in S : i <= j
    BY <1>2, <1>3
  <1>. QED BY <1>4 DEF First

-----------------------------------------------------------------------------
(***************************************************************************)
(* One lemma per operation of the block.                                   *)
(***************************************************************************)

\* A block that Write has just placed is like the one before, with some
\* entries that hold nothing.
LEMMA PlacedReplicas ==
  ASSUME TypeOK, NEW d \in Placements({}, BlockCount)
  PROVE  /\ Placed(d) \in Seq(Replica)
         /\ \A i \in DOMAIN Placed(d) :
              \/ /\ Placed(d)[i].version = 0
                 /\ Placed(d)[i].lease = 0
                 /\ Placed(d)[i].fault = FALSE
              \/ i \in DOMAIN replicas /\ Placed(d)[i] = replicas[i]
  <1>1. BlockCount \in Int /\ usable \in SUBSET Server
        /\ replicas \in Seq(Replica)
    BY LeaseAssumption DEF TypeOK
  <1>2. CASE replicas = <<>>
    BY <1>1, <1>2, FreshReplicas DEF Placed
  <1>3. CASE replicas # <<>>
    BY <1>1, <1>3 DEF Placed
  <1>. QED BY <1>2, <1>3

LEMMA GrantLeaseSafe ==
  ASSUME SafeInv, NEW d \in Placements({}, BlockCount), GrantLease(d),
         UNCHANGED masterEnv
  PROVE  SafeInv'
  <1>. DEFINE k == MainReplica(Placed(d))
              t == now + WriteLease
              rs == [Placed(d) EXCEPT ![k].lease = t]
  <1>1. /\ now \in Nat /\ version \in Version /\ expectVersion \in Version
        /\ lease \in Nat /\ t \in Nat
    BY LeaseAssumption DEF SafeInv, TypeOK
  <1>2. /\ Placed(d) \in Seq(Replica)
        /\ \A i \in DOMAIN Placed(d) :
             \/ /\ Placed(d)[i].version = 0
                /\ Placed(d)[i].lease = 0
                /\ Placed(d)[i].fault = FALSE
             \/ i \in DOMAIN replicas /\ Placed(d)[i] = replicas[i]
    BY PlacedReplicas DEF SafeInv
  <1>3. /\ rs \in Seq(Replica)
        /\ DOMAIN rs = DOMAIN Placed(d)
        /\ \A i \in DOMAIN rs : /\ rs[i].version = Placed(d)[i].version
                                /\ rs[i].fault = Placed(d)[i].fault
                                /\ rs[i].lease \in {Placed(d)[i].lease, t}
    BY <1>1, <1>2, SetLeaseReplicas
  <1>4. /\ replicas' = rs /\ lease' = t
        /\ expectVersion' = NextVersion(version)
        /\ UNCHANGED <<version, size, recoverLease, now, usable>>
    BY DEF GrantLease, masterEnv
  <1>5. TypeOK'
    BY <1>1, <1>3, <1>4, NextVersionIsNext DEF SafeInv, TypeOK
  <1>6. ExpectWithinOneTerm'
    BY <1>1, <1>4, NextVersionIsNext
       DEF ExpectWithinOneTerm, Version, NextVersion, Term
  <1>. HIDE DEF rs, t, k
  <1>7. NoHealthyReplicaAhead'
    BY <1>1, <1>2, <1>3, <1>4
       DEF SafeInv, NoHealthyReplicaAhead, Version
  <1>8. LeaseCoversReplicas'
    <2>1. lease <= t /\ 0 <= t
      BY <1>1 DEF SafeInv, LeaseCoversReplicas, t
    <2>2. \A i \in DOMAIN rs : rs[i].lease <= t
      <3>1. \A i \in DOMAIN replicas : replicas[i].lease \in Nat
                                      /\ replicas[i].lease <= lease
        <4>1. replicas \in Seq(Replica)
          BY DEF SafeInv, TypeOK
        <4>2. \A i \in DOMAIN replicas : replicas[i] \in Replica
          BY <4>1
        <4>. QED BY <4>2 DEF SafeInv, LeaseCoversReplicas, Replica
      <3>2. \A i \in DOMAIN Placed(d) : Placed(d)[i].lease <= t
        BY <1>1, <1>2, <2>1, <3>1
      <3>. QED BY <1>1, <1>3, <3>2
    <2>. QED BY <1>1, <1>4, <2>2 DEF LeaseCoversReplicas, t
  <1>. QED BY <1>5, <1>6, <1>7, <1>8 DEF SafeInv

\* Handing out the same lease again, or refusing one, only places replicas.
LEMMA NoGrantSafe ==
  ASSUME SafeInv, NEW d \in Placements({}, BlockCount),
         RepeatLease(d) \/ NotReady(d), UNCHANGED masterEnv
  PROVE  SafeInv'
  <1>1. /\ replicas' = Placed(d)
        /\ UNCHANGED <<version, expectVersion, lease, size, recoverLease>>
        /\ UNCHANGED <<now, usable>>
    BY DEF RepeatLease, NotReady, masterEnv
  <1>2. /\ Placed(d) \in Seq(Replica)
        /\ \A i \in DOMAIN Placed(d) :
             \/ /\ Placed(d)[i].version = 0
                /\ Placed(d)[i].lease = 0
                /\ Placed(d)[i].fault = FALSE
             \/ i \in DOMAIN replicas /\ Placed(d)[i] = replicas[i]
    BY PlacedReplicas DEF SafeInv
  <1>3. version \in Nat /\ lease \in Nat
    BY DEF SafeInv, TypeOK, Version
  <1>4. TypeOK'
    BY <1>1, <1>2 DEF SafeInv, TypeOK
  <1>5. ExpectWithinOneTerm'
    BY <1>1 DEF SafeInv, ExpectWithinOneTerm, NextVersion, Term
  <1>6. NoHealthyReplicaAhead'
    BY <1>1, <1>2, <1>3 DEF SafeInv, NoHealthyReplicaAhead
  <1>7. LeaseCoversReplicas'
    BY <1>1, <1>2, <1>3 DEF SafeInv, LeaseCoversReplicas
  <1>. QED BY <1>4, <1>5, <1>6, <1>7 DEF SafeInv

\* What a data node tells keeps the two versions of the block in order.
LEMMA AbsorbSafe ==
  ASSUME TypeOK, ExpectWithinOneTerm,
         NEW v \in Version, NEW sz \in Nat, NEW fault \in BOOLEAN,
         Absorb(v, sz, fault)
  PROVE  /\ version' \in Version /\ expectVersion' \in Version
         /\ size' \in Nat
         /\ version <= version' /\ expectVersion <= expectVersion'
         /\ ~fault => v <= version'
         /\ ExpectWithinOneTerm'
  <1>1. /\ version \in Nat /\ expectVersion \in Nat /\ size \in Nat
        /\ v \in Nat
    BY DEF TypeOK, Version
  <1>2. CASE fault
    BY <1>1, <1>2
       DEF Absorb, ExpectWithinOneTerm, NextVersion, Term, Version
  <1>3. CASE ~fault
    <2>1. /\ version' = Larger(version, v)
          /\ expectVersion' = Larger(expectVersion, v)
          /\ size' = Larger(size, sz)
      BY <1>3 DEF Absorb
    <2>2. /\ version' \in Nat /\ expectVersion' \in Nat /\ size' \in Nat
          /\ version <= version' /\ expectVersion <= expectVersion'
          /\ v <= version' /\ version' <= expectVersion'
          /\ expectVersion' \in {expectVersion, v}
      BY <1>1, <2>1 DEF Larger, ExpectWithinOneTerm
    <2>3. /\ NextVersion(version) <= NextVersion(version')
          /\ version' < NextVersion(version')
          /\ NextVersion(version) \in Nat /\ NextVersion(version') \in Nat
      BY <1>1, <2>2, NextVersionIsNext, NextVersionMonotone DEF Version
    <2>4. expectVersion' <= NextVersion(version')
      BY <1>1, <2>2, <2>3 DEF ExpectWithinOneTerm
    <2>5. NextVersion(version') = NextVersion(version)'
      BY DEF NextVersion, Term
    <2>. QED BY <2>2, <2>4, <2>5 DEF ExpectWithinOneTerm, Version
  <1>. QED BY <1>2, <1>3

LEMMA ReportSafe ==
  ASSUME SafeInv, NEW s \in Server, NEW v \in Version, NEW sz \in Nat,
         NEW fault \in BOOLEAN, ReportReplica(s, v, sz, fault),
         UNCHANGED masterEnv
  PROVE  SafeInv'
  <1>1. /\ version \in Nat /\ v \in Nat /\ lease \in Nat
        /\ replicas \in Seq(Replica)
        /\ \A i \in DOMAIN replicas : replicas[i] \in Replica
    BY DEF SafeInv, TypeOK, Version
  <1>2. /\ Absorb(v, sz, fault)
        /\ UNCHANGED <<lease, recoverLease, now, usable>>
    BY DEF ReportReplica, UpdateReplica, InsertReplica, masterEnv
  <1>3. /\ version' \in Version /\ expectVersion' \in Version
        /\ size' \in Nat
        /\ version <= version'
        /\ ~fault => v <= version'
        /\ ExpectWithinOneTerm'
    BY <1>2, AbsorbSafe DEF SafeInv
  <1>4. /\ replicas' \in Seq(Replica)
        /\ \A i \in DOMAIN replicas' :
             \/ i \in DOMAIN replicas /\ replicas'[i] = replicas[i]
             \/ /\ replicas'[i].version = v
                /\ replicas'[i].fault = fault
                /\ \/ replicas'[i].lease = 0
                   \/ i \in DOMAIN replicas
                      /\ replicas'[i].lease = replicas[i].lease
    <2>1. CASE UpdateReplica(s, v, sz, fault)
      <3>. DEFINE k == First(EntriesOf(s))
                  r == [replicas[k] EXCEPT !.version = v, !.fault = fault]
      <3>1. k \in DOMAIN replicas => /\ r \in Replica
                                     /\ r.lease = replicas[k].lease
                                     /\ r.version = v
                                     /\ r.fault = fault
        BY <1>1 DEF Replica
      <3>2. replicas' = [replicas EXCEPT ![k] = r]
        BY <2>1 DEF UpdateReplica
      <3>. HIDE DEF k, r
      <3>3. /\ replicas' \in Seq(Replica)
            /\ DOMAIN replicas' = DOMAIN replicas
            /\ \A i \in DOMAIN replicas :
                 replicas'[i] = IF i = k THEN r ELSE replicas[i]
        BY <1>1, <3>1, <3>2, SetReplica
      <3>. QED BY <3>1, <3>3
    <2>2. CASE InsertReplica(s, v, sz, fault)
      <3>. DEFINE r == [FreshReplica(s) EXCEPT !.version = v, !.fault = fault]
      <3>1. /\ r \in Replica /\ r.version = v /\ r.fault = fault
            /\ r.lease = 0
        BY DEF FreshReplica, Replica
      <3>2. replicas' = Append(replicas, r)
        BY <2>2 DEF InsertReplica
      <3>. HIDE DEF r
      <3>. QED BY <1>1, <3>1, <3>2
    <2>. QED BY <2>1, <2>2 DEF ReportReplica
  <1>5. TypeOK'
    BY <1>2, <1>3, <1>4 DEF SafeInv, TypeOK
  <1>6. NoHealthyReplicaAhead'
    <2>1. \A i \in DOMAIN replicas :
            ~replicas[i].fault =>
              replicas[i].version \in Nat /\ replicas[i].version <= version
      BY <1>1 DEF SafeInv, NoHealthyReplicaAhead, Replica, Version
    <2>. QED BY <1>1, <1>3, <1>4, <2>1 DEF NoHealthyReplicaAhead, Version
  <1>7. LeaseCoversReplicas'
    BY <1>1, <1>2, <1>4 DEF SafeInv, LeaseCoversReplicas
  <1>. QED BY <1>3, <1>5, <1>6, <1>7 DEF SafeInv

LEMMA ClearSafe ==
  ASSUME SafeInv, NEW s \in Server, ClearReplica(s), UNCHANGED masterEnv
  PROVE  SafeInv'
  <1>1. PICK from \in [DOMAIN replicas -> DOMAIN replicas] :
          replicas' = [i \in DOMAIN replicas |-> replicas[from[i]]]
    BY DEF ClearReplica
  <1>2. UNCHANGED <<version, expectVersion, lease, size, recoverLease,
                    now, usable>>
    BY DEF ClearReplica, masterEnv
  <1>3. replicas \in Seq(Replica)
    BY DEF SafeInv, TypeOK
  <1>4. \A i \in DOMAIN replicas' :
          \E j \in DOMAIN replicas : replicas'[i] = replicas[j]
    BY <1>1
  <1>5. replicas' \in Seq(Replica)
    <2>1. \A i \in 1..Len(replicas) : replicas[from[i]] \in Replica
      BY <1>1, <1>3
    <2>2. replicas' \in [1..Len(replicas) -> Replica]
      BY <1>1, <1>3, <2>1
    <2>. QED BY <1>3, <2>2
  <1>6. TypeOK'
    BY <1>2, <1>5 DEF SafeInv, TypeOK
  <1>7. ExpectWithinOneTerm'
    BY <1>2 DEF SafeInv, ExpectWithinOneTerm, NextVersion, Term
  <1>8. NoHealthyReplicaAhead' /\ LeaseCoversReplicas'
    BY <1>2, <1>4 DEF SafeInv, NoHealthyReplicaAhead, LeaseCoversReplicas
  <1>. QED BY <1>6, <1>7, <1>8 DEF SafeInv

\* A repair only adds replicas that hold nothing yet.
LEMMA RepairSafe ==
  ASSUME SafeInv, NEW d, OrderRepair(d), UNCHANGED masterEnv
  PROVE  SafeInv'
  <1>. DEFINE added == [i \in DOMAIN d |-> FreshReplica(d[i])]
  <1>1. /\ now \in Nat /\ version \in Nat /\ lease \in Nat
        /\ replicas \in Seq(Replica)
    BY DEF SafeInv, TypeOK, Version
  <1>2. /\ added \in Seq(Replica)
        /\ \A i \in DOMAIN added : /\ added[i].version = 0
                                   /\ added[i].lease = 0
    <2>1. d \in Placements(HealthyServers \cup OtherServers, RepairRoom)
      BY DEF OrderRepair
    <2>2. PICK k \in 0..RepairRoom :
            d \in [1..k -> usable \ (HealthyServers \cup OtherServers)]
      BY <2>1 DEF Placements
    <2>3. \A i \in 1..k : FreshReplica(d[i]) \in Replica
      BY <2>2 DEF SafeInv, TypeOK, FreshReplica, Replica, Version
    <2>4. added \in [1..k -> Replica]
      BY <2>2, <2>3
    <2>5. k \in Nat
      BY <2>2
    <2>. QED BY <2>4, <2>5 DEF FreshReplica
  <1>3. /\ replicas' = replicas \o added
        /\ recoverLease' = now + RecoverLease
        /\ UNCHANGED <<version, expectVersion, lease, size, now, usable>>
    BY DEF OrderRepair, masterEnv
  <1>. HIDE DEF added
  <1>4. /\ replicas' \in Seq(Replica)
        /\ \A i \in DOMAIN replicas' :
             \/ i \in DOMAIN replicas /\ replicas'[i] = replicas[i]
             \/ replicas'[i].version = 0 /\ replicas'[i].lease = 0
    BY <1>1, <1>2, <1>3
  <1>5. TypeOK'
    BY <1>1, <1>3, <1>4, LeaseAssumption DEF SafeInv, TypeOK
  <1>6. ExpectWithinOneTerm'
    BY <1>3 DEF SafeInv, ExpectWithinOneTerm, NextVersion, Term
  <1>7. NoHealthyReplicaAhead' /\ LeaseCoversReplicas'
    BY <1>1, <1>3, <1>4 DEF SafeInv, NoHealthyReplicaAhead, LeaseCoversReplicas
  <1>. QED BY <1>5, <1>6, <1>7 DEF SafeInv

-----------------------------------------------------------------------------
\* A step of the block leaves SafeInv true, whichever operation takes it.
LEMMA NextSafe ==
  ASSUME SafeInv, [Next]_mvars
  PROVE  SafeInv'
  <1>1. CASE UNCHANGED mvars
    BY <1>1
       DEF mvars, masterVars, masterEnv, SafeInv, TypeOK, ExpectWithinOneTerm,
           NoHealthyReplicaAhead, LeaseCoversReplicas, NextVersion, Term
  <1>2. CASE Tick
    <2>1. /\ now' = now + 1
          /\ UNCHANGED <<version, expectVersion, lease, size, recoverLease,
                          replicas, usable>>
      BY <1>2 DEF Tick, masterVars
    <2>2. now \in Nat /\ lease \in Nat
      BY DEF SafeInv, TypeOK
    <2>3. TypeOK' /\ ExpectWithinOneTerm' /\ NoHealthyReplicaAhead'
      BY <2>1, <2>2 DEF SafeInv, TypeOK, ExpectWithinOneTerm,
                        NoHealthyReplicaAhead, NextVersion, Term
    <2>4. LeaseCoversReplicas'
      BY <2>1, <2>2, LeaseAssumption DEF SafeInv, LeaseCoversReplicas
    <2>. QED BY <2>3, <2>4 DEF SafeInv
  <1>3. CASE SetUsable
    BY <1>3
       DEF SetUsable, masterVars, SafeInv, TypeOK, ExpectWithinOneTerm,
           NoHealthyReplicaAhead, LeaseCoversReplicas, NextVersion, Term
  <1>4. CASE Write
    BY <1>4, GrantLeaseSafe, NoGrantSafe DEF Write
  <1>5. CASE Report
    BY <1>5, ReportSafe, ReportedAssumption DEF Report
  <1>6. CASE Clear
    BY <1>6, ClearSafe DEF Clear
  <1>7. CASE CheckReplica
    <2>1. CASE \E d \in Placements({}, BlockCount) : OrderRepair(d)
      BY <1>7, <2>1, RepairSafe DEF CheckReplica
    <2>2. CASE OrderCleanOnly
      BY <1>1, <1>7, <2>2 DEF CheckReplica, OrderCleanOnly, mvars
    <2>. QED BY <1>7, <2>1, <2>2 DEF CheckReplica
  <1>. QED BY <1>1, <1>2, <1>3, <1>4, <1>5, <1>6, <1>7 DEF Next

LEMMA InitSafe == Init => SafeInv
  <1>. SUFFICES ASSUME Init PROVE SafeInv
    OBVIOUS
  <1>1. /\ now = 0 /\ usable = Server /\ version = 0 /\ expectVersion = 0
        /\ lease = 0 /\ size = 0 /\ recoverLease = 0 /\ replicas = <<>>
    BY DEF Init, MasterInit
  <1>2. TypeOK
    BY <1>1 DEF TypeOK, Version
  <1>3. ExpectWithinOneTerm
    BY <1>1, NextVersionIsNext DEF ExpectWithinOneTerm, Version
  <1>4. NoHealthyReplicaAhead /\ LeaseCoversReplicas
    BY <1>1, LeaseAssumption DEF NoHealthyReplicaAhead, LeaseCoversReplicas
  <1>. QED BY <1>2, <1>3, <1>4 DEF SafeInv

\* The conjunction of the invariants is inductive: none of them is on its own.
THEOREM MasterBlockSafe == Spec => []SafeInv
  BY InitSafe, NextSafe, PTL DEF Spec

\* Every field of a Block keeps its type, the vector of replicas included.
THEOREM MasterBlockTyped == Spec => []TypeOK
  <1>1. SafeInv => TypeOK
    BY DEF SafeInv
  <1>. QED BY <1>1, MasterBlockSafe, PTL

\* _version <= _expectVersion <= the first version of the term after _version.
THEOREM ExpectStaysWithinOneTerm == Spec => []ExpectWithinOneTerm
  <1>1. SafeInv => ExpectWithinOneTerm
    BY DEF SafeInv
  <1>. QED BY <1>1, MasterBlockSafe, PTL

\* FindMainReplica and Block::Read may look for entries equal to _version.
THEOREM NewestReplicaIsVersion == Spec => []NoHealthyReplicaAhead
  <1>1. SafeInv => NoHealthyReplicaAhead
    BY DEF SafeInv
  <1>. QED BY <1>1, MasterBlockSafe, PTL

\* _lease, which clients are given, covers the lease of every entry.
THEOREM LeaseIsCovered == Spec => []LeaseCoversReplicas
  <1>1. SafeInv => LeaseCoversReplicas
    BY DEF SafeInv
  <1>. QED BY <1>1, MasterBlockSafe, PTL

-----------------------------------------------------------------------------
(***************************************************************************)
(* What a step may never do.                                               *)
(***************************************************************************)
LEMMA VersionsGrow ==
  ASSUME SafeInv, [Next]_mvars
  PROVE  version' >= version /\ expectVersion' >= expectVersion
  <1>1. /\ version \in Nat /\ expectVersion \in Nat
        /\ expectVersion <= NextVersion(version)
    BY DEF SafeInv, TypeOK, Version, ExpectWithinOneTerm
  <1>2. CASE UNCHANGED versionVars
    BY <1>1, <1>2 DEF versionVars
  <1>3. CASE Write
    <2>1. UNCHANGED version
          /\ expectVersion' \in {expectVersion, NextVersion(version)}
      BY <1>3 DEF Write, GrantLease, RepeatLease, NotReady
    <2>. QED BY <1>1, <2>1, NextVersionIsNext DEF Version
  <1>4. CASE Report
    <2>1. PICK s \in Server, v \in Reported, sz \in Sizes, fault \in BOOLEAN :
            ReportReplica(s, v, sz, fault)
      BY <1>4 DEF Report
    <2>2. Absorb(v, sz, fault)
      BY <2>1 DEF ReportReplica, UpdateReplica, InsertReplica
    <2>. QED BY <1>1, <2>2, AbsorbSafe, ReportedAssumption
             DEF SafeInv, Version
  <1>. QED BY <1>2, <1>3, <1>4
           DEF Next, Tick, SetUsable, Clear, ClearReplica, CheckReplica,
               OrderRepair, OrderCleanOnly, mvars, masterVars, versionVars

\* The numbers the master gives out as versions never run backwards.
THEOREM VersionsAreMonotone == Spec => VersionsNeverGoBack
  <1>1. SafeInv /\ [Next]_mvars =>
          [version' >= version /\ expectVersion' >= expectVersion]_mvars
    BY VersionsGrow
  <1>. QED BY <1>1, MasterBlockSafe, PTL DEF Spec, VersionsNeverGoBack

\* When Block::Write starts a lease, its term is above every healthy entry.
THEOREM NewTermsAreNewest == Spec => NewTermIsNewest
  <1>. DEFINE Newest == (\E d \in Placements({}, BlockCount) : GrantLease(d)) =>
                          \A i \in DOMAIN replicas :
                            ~replicas[i].fault =>
                              replicas[i].version < expectVersion'
  <1>1. ASSUME SafeInv PROVE Newest
    <2>. SUFFICES ASSUME NEW d, GrantLease(d)
                  PROVE  \A i \in DOMAIN replicas :
                           ~replicas[i].fault => replicas[i].version < expectVersion'
      OBVIOUS
    <2>1. expectVersion' = NextVersion(version)
      BY DEF GrantLease
    <2>2. /\ version \in Nat /\ NextVersion(version) \in Nat
          /\ version < NextVersion(version)
      BY <1>1, NextVersionIsNext DEF SafeInv, TypeOK, Version
    <2>3. \A i \in DOMAIN replicas :
            ~replicas[i].fault => /\ replicas[i].version \in Nat
                                  /\ replicas[i].version <= version
      <3>1. replicas \in Seq(Replica)
        BY <1>1 DEF SafeInv, TypeOK
      <3>2. \A i \in DOMAIN replicas : replicas[i] \in Replica
        BY <3>1
      <3>. QED BY <1>1, <3>2 DEF SafeInv, NoHealthyReplicaAhead, Replica, Version
    <2>. QED BY <2>1, <2>2, <2>3
  <1>2. SafeInv /\ [Next]_mvars => [Newest]_mvars
    BY <1>1
  <1>. QED BY <1>2, MasterBlockSafe, PTL DEF Spec, NewTermIsNewest

\* With a live lease on an entry that is at _version, FindMainReplica returns that
\* replica or nobody, so CheckReplica finds the lease or gives up.  Of the lease of
\* an entry that is behind _version, which may be alive, nothing is said.
THEOREM RepairsWaitForNewestLeases == Spec => RepairOnlyWhenQuiet
  <1>. DEFINE Quiet == replicas' # replicas /\ recoverLease' # recoverLease =>
                         Leased(replicas) = {} /\ recoverLease <= now
  <1>1. ASSUME SafeInv, [Next]_mvars PROVE Quiet
    <2>1. CASE UNCHANGED recoverLease
      BY <2>1
    <2>2. ASSUME NEW d, OrderRepair(d) PROVE Quiet
      <3>1. recoverLease <= now /\ HasMain(replicas)
            /\ replicas[MainReplica(replicas)].lease
                 + RecoverAndWriteInterval <= now
        BY <2>2 DEF OrderRepair, QuietEnough
      <3>2. ASSUME Leased(replicas) # {} PROVE FALSE
        <4>. DEFINE i == First(Leased(replicas))
        <4>1. replicas \in Seq(Replica)
          BY <1>1 DEF SafeInv, TypeOK
        <4>2. Leased(replicas) \in SUBSET Nat
          BY <4>1 DEF Leased, Current
        <4>3. i \in Leased(replicas)
          BY <3>2, <4>2, FirstIsMember
        <4>4. Eligible(replicas) \subseteq {i}
          BY <3>2 DEF Eligible, Candidates
        <4>5. MainReplica(replicas) = i
          <5>. HIDE DEF i
          <5>1. Eligible(replicas) = {i}
            BY <3>1, <4>4 DEF HasMain
          <5>2. i \in Nat
            BY <4>2, <4>3
          <5>. QED BY <5>1, <5>2, FirstIsMember DEF MainReplica
        <4>6. replicas[i].lease > now
          BY <4>3 DEF Leased
        <4>7. i \in DOMAIN replicas
          BY <4>3 DEF Leased, Current
        <4>8. replicas[i].lease \in Nat
          <5>. HIDE DEF i
          <5>1. replicas[i] \in Replica
            BY <4>1, <4>7
          <5>. QED BY <5>1 DEF Replica
        <4>. QED BY <1>1, <3>1, <4>5, <4>6, <4>8, LeaseAssumption
                 DEF SafeInv, TypeOK
      <3>. QED BY <3>1, <3>2
    <2>. QED BY <1>1, <2>1, <2>2
             DEF Next, Tick, SetUsable, Report, ReportReplica, UpdateReplica,
                 InsertReplica, Clear, ClearReplica, CheckReplica,
                 OrderCleanOnly, Write, GrantLease, RepeatLease, NotReady,
                 mvars, masterVars
  <1>2. SafeInv /\ [Next]_mvars => [Quiet]_mvars
    BY <1>1
  <1>. QED BY <1>2, MasterBlockSafe, PTL DEF Spec, RepairOnlyWhenQuiet
=============================================================================
