---------------------------- MODULE MasterBlock -----------------------------
(***************************************************************************)
(* The master's record of one block (ofs/master/block/Block.cpp): which    *)
(* data nodes hold a copy at which version, who may write it until when,   *)
(* and when the copies were last ordered to be repaired.  Every operation  *)
(* runs under the block's exclusive mutex, so each is one action.          *)
(*                                                                         *)
(* Whom a CheckReplica tells to clean its copy is given by CleanOrders: the *)
(* module that composes the master and the data nodes sends the messages.  *)
(***************************************************************************)
EXTENDS BlockVersion, FiniteSets, Sequences, Functions

CONSTANTS Server,                   \* data node ids known to the cluster
          Rack,                     \* Rack[s]: where server s is
          BlockCount,               \* copies wanted
          WriteLease, RecoverLease, \* lengths of the two kinds of lease
          RecoverAndWriteInterval   \* quiet time required before a repair

ASSUME LeaseAssumption ==
  /\ BlockCount \in Nat \ {0}
  /\ WriteLease \in Nat \ {0}
  /\ RecoverLease \in Nat
  /\ RecoverAndWriteInterval \in Nat

VARIABLES now,            \* the wall clock that leases are compared with
          usable,         \* servers that DataNode::IsUseAble accepts now
          version,        \* _version: newest version a healthy copy reported
          expectVersion,  \* _expectVersion: announced to the lease holder
          lease,          \* _lease: end of the last write lease granted
          size,           \* _size: largest size a healthy copy reported
          recoverLease,   \* _recoverLease: end of the last repair ordered
          replicas        \* _chunkServer, in vector order

versionVars == <<version, expectVersion>>
masterVars == <<version, expectVersion, lease, size, recoverLease, replicas>>
masterEnv == <<now, usable>>

Replica == [server: Server, lease: Nat, version: Version, fault: BOOLEAN]

\* Mutant: a replica that holds nothing is marked by a negative version.
UnsetReplica(s) ==
  [server |-> s, lease |-> 0, version |-> -1, fault |-> FALSE]

FreshReplica(s) == [server |-> s, lease |-> 0, version |-> 0, fault |-> FALSE]

TypeOK ==
  /\ now \in Nat
  /\ usable \in SUBSET Server
  /\ version \in Version
  /\ expectVersion \in Version
  /\ lease \in Nat
  /\ size \in Nat
  /\ recoverLease \in Nat
  /\ replicas \in Seq(Replica)

MasterInit ==
  /\ version = 0
  /\ expectVersion = 0
  /\ lease = 0
  /\ size = 0
  /\ recoverLease = 0
  /\ replicas = <<>>

-----------------------------------------------------------------------------
(***************************************************************************)
(* Choosing the main replica among the entries rs of the vector.           *)
(***************************************************************************)
First(S) == CHOOSE i \in S : \A j \in S : i <= j

Current(rs) == {i \in DOMAIN rs : rs[i].version = version}
Leased(rs) == {i \in Current(rs) : rs[i].lease > now}
Candidates(rs) ==
  IF Leased(rs) # {} THEN {First(Leased(rs))} ELSE Current(rs)
Eligible(rs) == {i \in Candidates(rs) : rs[i].server \in usable}

\* Block::FindMainReplica: the first up-to-date entry with a live lease, and
\* nobody at all when that server is unusable; without a live lease, the
\* first up-to-date usable one.
HasMain(rs) == Eligible(rs) # {}
MainReplica(rs) == First(Eligible(rs))

\* DataNodeService::Distribute: some usable servers, all different, none of
\* them in the given set and no more than asked.
Placements(excluded, count) ==
  UNION {{d \in [1..k -> usable \ excluded] : IsInjective(d)} :
           k \in 0..count}

-----------------------------------------------------------------------------
(***************************************************************************)
(* Block::Write.  A block without replicas is first placed on servers d.   *)
(***************************************************************************)
Placed(d) ==
  IF replicas = <<>> THEN [i \in DOMAIN d |-> FreshReplica(d[i])] ELSE replicas

FirstPlacement(d) ==
  IF replicas = <<>>
  THEN /\ d \in Placements({}, BlockCount)
       /\ usable # {} => d # <<>>
  ELSE d = <<>>

NeedsNewLease(rs) == rs[MainReplica(rs)].lease <= now

\* Mutant: the lease is noted on the replica but not on the block.
GrantReplicaLeaseOnly(d) ==
  /\ FirstPlacement(d)
  /\ HasMain(Placed(d))
  /\ NeedsNewLease(Placed(d))
  /\ replicas' = [Placed(d) EXCEPT
                    ![MainReplica(Placed(d))].lease = now + WriteLease]
  /\ expectVersion' = NextVersion(version)
  /\ UNCHANGED <<version, lease, size, recoverLease>>

\* The main replica's lease has run out: grant one, in a new term.
GrantLease(d) ==
  /\ FirstPlacement(d)
  /\ HasMain(Placed(d))
  /\ NeedsNewLease(Placed(d))
  /\ replicas' = [Placed(d) EXCEPT
                    ![MainReplica(Placed(d))].lease = now + WriteLease]
  /\ lease' = now + WriteLease
  /\ expectVersion' = NextVersion(version)
  /\ UNCHANGED <<version, size, recoverLease>>

\* The main replica's lease still runs: hand out the same one.
RepeatLease(d) ==
  /\ FirstPlacement(d)
  /\ HasMain(Placed(d))
  /\ ~NeedsNewLease(Placed(d))
  /\ replicas' = Placed(d)
  /\ UNCHANGED <<version, expectVersion, lease, size, recoverLease>>

\* EC_BLOCK_NOT_READY: no main replica (the placement, if any, stays).
NotReady(d) ==
  /\ FirstPlacement(d)
  /\ ~HasMain(Placed(d))
  /\ replicas' = Placed(d)
  /\ UNCHANGED <<version, expectVersion, lease, size, recoverLease>>

\* The other servers of the answer, to whom the lease holder forwards.  (A
\* server with two entries is named twice; the copy of a notification that it
\* gets for the second is refused, its version no longer being the old one.)
Secondaries(rs, main) == {rs[i].server : i \in DOMAIN rs} \ {main}

-----------------------------------------------------------------------------
(***************************************************************************)
(* Block::UpdateReplica and Block::ReportReplica: a data node tells what   *)
(* it holds.  A report from an unknown server adds an entry, an update     *)
(* from one is dropped.                                                    *)
(***************************************************************************)
EntriesOf(s) == {i \in DOMAIN replicas : replicas[i].server = s}

\* Mutant: the version of the last report is taken, whatever is known already.
AbsorbLastReport(v, sz, fault) ==
  IF fault
  THEN UNCHANGED <<version, expectVersion, size>>
  ELSE /\ version' = v
       /\ expectVersion' = Larger(expectVersion, v)
       /\ size' = Larger(size, sz)

\* Mutant: a report past the announced version leaves it behind.
AbsorbVersionOnly(v, sz, fault) ==
  IF fault
  THEN UNCHANGED <<version, expectVersion, size>>
  ELSE /\ version' = Larger(version, v)
       /\ size' = Larger(size, sz)
       /\ UNCHANGED expectVersion

\* Only a healthy copy moves the block's version and size.
Absorb(v, sz, fault) ==
  IF fault
  THEN UNCHANGED <<version, expectVersion, size>>
  ELSE /\ version' = Larger(version, v)
       /\ expectVersion' = Larger(expectVersion, v)
       /\ size' = Larger(size, sz)

UpdateReplica(s, v, sz, fault) ==
  /\ EntriesOf(s) # {}
  /\ replicas' = [replicas EXCEPT ![First(EntriesOf(s))] =
                               [@ EXCEPT !.version = v, !.fault = fault]]
  /\ Absorb(v, sz, fault)
  /\ UNCHANGED <<lease, recoverLease>>

\* Mutant: a replica met for the first time is noted, its version not compared.
InsertWithoutAbsorb(s, v, sz, fault) ==
  /\ EntriesOf(s) = {}
  /\ replicas' = Append(replicas, [FreshReplica(s) EXCEPT !.version = v,
                                                          !.fault = fault])
  /\ UNCHANGED <<version, expectVersion, size, lease, recoverLease>>

InsertReplica(s, v, sz, fault) ==
  /\ EntriesOf(s) = {}
  /\ replicas' = Append(replicas, [FreshReplica(s) EXCEPT !.version = v,
                                                          !.fault = fault])
  /\ Absorb(v, sz, fault)
  /\ UNCHANGED <<lease, recoverLease>>

ReportReplica(s, v, sz, fault) ==
  UpdateReplica(s, v, sz, fault) \/ InsertReplica(s, v, sz, fault)

(***************************************************************************)
(* Block::ClearReplica calls std::remove_if and does not erase the tail it *)
(* leaves: the entries kept move to the front, in order, and the last ones *)
(* stay as they were.  from[i] is where entry i of the result comes from.  *)
(***************************************************************************)
MovesKeptForward(from, kept) ==
  \A i \in DOMAIN from :
    IF i <= Cardinality(kept)
    THEN /\ from[i] \in kept
         /\ Cardinality({j \in kept : j < from[i]}) = i - 1
    ELSE from[i] = i

ClearReplica(s) ==
  /\ \E from \in [DOMAIN replicas -> DOMAIN replicas] :
       /\ MovesKeptForward(from, DOMAIN replicas \ EntriesOf(s))
       /\ replicas' = [i \in DOMAIN replicas |-> replicas[from[i]]]
  /\ UNCHANGED <<version, expectVersion, lease, size, recoverLease>>

-----------------------------------------------------------------------------
(***************************************************************************)
(* Block::CheckReplica, run on every block by the repair ticker.           *)
(***************************************************************************)
Healthy == {i \in Current(replicas) :
              ~replicas[i].fault /\ replicas[i].server \in usable}
HealthyServers == {replicas[i].server : i \in Healthy}
OtherServers ==
  {replicas[i].server : i \in DOMAIN replicas \ Healthy}

\* Mutant: an earlier repair is not waited for.
NoWriterOnly ==
  /\ HasMain(replicas)
  /\ replicas[MainReplica(replicas)].lease + RecoverAndWriteInterval <= now

QuietEnough ==
  /\ recoverLease <= now
  /\ HasMain(replicas)
  /\ replicas[MainReplica(replicas)].lease + RecoverAndWriteInterval <= now

\* DefaultDataCluster::Distribute places what is missing, and may place more
\* when four or more copies are wanted.
RepairRoom ==
  IF BlockCount <= 3 THEN BlockCount - Cardinality(Healthy) ELSE BlockCount

\* Too few healthy copies: the main replica is told to copy to servers d.
OrderRepair(d) ==
  /\ QuietEnough
  /\ Cardinality(Healthy) < BlockCount
  /\ d \in Placements(HealthyServers \cup OtherServers, RepairRoom)
  /\ d # <<>>
  /\ recoverLease' = now + RecoverLease
  /\ replicas' = replicas \o [i \in DOMAIN d |-> FreshReplica(d[i])]
  /\ UNCHANGED <<version, expectVersion, lease, size>>

\* Enough copies, too many, or Distribute found nobody to copy to: no field of
\* the block changes, CleanOrders are sent all the same.
OrderCleanOnly ==
  /\ QuietEnough
  /\ UNCHANGED masterVars

InRack(r) == {i \in Healthy : Rack[replicas[i].server] = r}

\* DefaultDataCluster::SelectUnnecessary, of the healthy entries.  The count
\* it keeps of a rack is one short, so a rack is crowded with three entries.
Crowded == {r \in {Rack[replicas[i].server] : i \in Healthy} :
              Cardinality(InRack(r)) >= 3}

Surplus == Cardinality(Healthy) - BlockCount

\* The entries it returns.  With no crowded rack, as many as are wanted; else
\* all but the ones it strikes from the crowded rack r and from the others.
Selected(kept) ==
  IF Crowded = {}
  THEN Cardinality(kept) = BlockCount
  ELSE \E r \in Crowded :
         LET inside == Cardinality(InRack(r)) - 3
             others == Healthy \ InRack(r)
         IN  /\ Cardinality(InRack(r) \ kept) = inside
             /\ Cardinality(others \ kept) =
                  IF Surplus <= inside THEN 0
                  ELSE IF Surplus - inside <= Cardinality(others)
                       THEN Surplus - inside ELSE Cardinality(others)

\* The servers sent a CleanBlock: all that are not healthy and, when there are
\* too many healthy entries, those that SelectUnnecessary returned.
CleanOrders(kept) == OtherServers \cup {replicas[i].server : i \in kept}

Unnecessary(kept) == IF Surplus > 0 THEN Selected(kept) ELSE kept = {}

-----------------------------------------------------------------------------
(***************************************************************************)
(* The block on its own: any data node may report anything at any time, a  *)
(* node may become unusable or usable, and time passes.  MaxNow bounds the *)
(* clock, Reported and Sizes what is reported, MaxReplicas the vector, which *)
(* the entries that ClearReplica leaves behind let grow without limit.      *)
(***************************************************************************)
CONSTANTS MaxNow, Reported, Sizes, MaxReplicas

ASSUME ReportedAssumption == Reported \subseteq Version /\ Sizes \subseteq Nat

Init == MasterInit /\ now = 0 /\ usable = Server

Tick == /\ now < MaxNow
        /\ now' = now + 1
        /\ UNCHANGED <<masterVars, usable>>

\* A node misses heartbeats for CS_BROCK_TIMEOUT, or sends one again.
SetUsable == /\ usable' \in SUBSET Server
             /\ UNCHANGED <<masterVars, now>>

Write ==
  /\ \E d \in Placements({}, BlockCount) :
       GrantLease(d) \/ RepeatLease(d) \/ NotReady(d)
  /\ UNCHANGED masterEnv

Report ==
  /\ \E s \in Server, v \in Reported, sz \in Sizes, fault \in BOOLEAN :
       ReportReplica(s, v, sz, fault)
  /\ Len(replicas') <= MaxReplicas
  /\ UNCHANGED masterEnv

Clear == /\ \E s \in Server : ClearReplica(s)
         /\ UNCHANGED masterEnv

CheckReplica ==
  /\ \/ \E d \in Placements({}, BlockCount) : OrderRepair(d)
     \/ OrderCleanOnly
  /\ Len(replicas') <= MaxReplicas
  /\ UNCHANGED masterEnv

Next == Tick \/ SetUsable \/ Write \/ Report \/ Clear \/ CheckReplica

mvars == <<masterVars, masterEnv>>

Spec == Init /\ [][Next]_mvars

-----------------------------------------------------------------------------
(***************************************************************************)
(* Properties.                                                             *)
(***************************************************************************)

\* The version announced to the lease holder is never below the newest version
\* known and never more than one term ahead of it, whatever the order in which
\* reports and lease requests reach Block::Write and Block::UpdateReplica.
ExpectWithinOneTerm ==
  /\ version <= expectVersion
  /\ expectVersion <= NextVersion(version)

\* No healthy entry of _chunkServer is ahead of _version.  FindMainReplica and
\* Block::Read pick the entries equal to _version as the newest ones, which is
\* only right if none is above it, also after faults, repairs and the shifting
\* of entries by Block::ClearReplica.
NoHealthyReplicaAhead ==
  \A i \in DOMAIN replicas :
    ~replicas[i].fault => replicas[i].version <= version

\* The end of lease sent to clients (_lease) is never before the end recorded
\* for any entry: the master's own idea of who may still write, kept per entry
\* and used by FindMainReplica, is covered by what it told the clients.
LeaseCoversReplicas ==
  /\ \A i \in DOMAIN replicas : replicas[i].lease <= lease
  /\ lease <= now + WriteLease

\* Neither _version nor _expectVersion ever goes back, so a term granted to
\* one lease holder is not followed by a lower one: Block::Write assigns
\* _expectVersion without comparing it with what it was.
VersionsNeverGoBack ==
  [][version' >= version /\ expectVersion' >= expectVersion]_mvars

\* A new lease opens a term above every healthy entry, so that the version the
\* holder will write is newer than every copy the master knows: also the second
\* of one second, granted to another replica, that leaves _lease as it was.
NewTermIsNewest ==
  [][(\E d \in Placements({}, BlockCount) : GrantLease(d)) =>
       \A i \in DOMAIN replicas :
         ~replicas[i].fault => replicas[i].version < expectVersion']_mvars

\* Block::CheckReplica orders a repair only while no up-to-date replica may
\* write under a live lease, and never while an earlier repair may still run.
\* (A replica that another has overtaken may still have a live lease: its entry
\* is not up to date, and the code does not look at it.)
RepairOnlyWhenQuiet ==
  [][replicas' # replicas /\ recoverLease' # recoverLease =>
       Leased(replicas) = {} /\ recoverLease <= now]_mvars
=============================================================================
