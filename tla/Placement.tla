------------------------------ MODULE Placement ------------------------------
(***************************************************************************)
(* Where the copies of a block go: DefaultDataCluster::Distribute, which   *)
(* Block::Write calls for a new block and Block::CheckReplica for a block  *)
(* that has lost copies.  The module follows one block, as its servers     *)
(* come, fail and return, to see where its copies end up; MasterBlock has  *)
(* the rest of the block and takes any placement that this module makes.   *)
(*                                                                         *)
(* Each Choose function starts at a random position of a vector and takes  *)
(* the first server that fits, so any server that fits may be its result;  *)
(* here it is the set of those servers.                                    *)
(***************************************************************************)
EXTENDS Naturals, Sequences, FiniteSets, Functions

CONSTANTS Server,
          Layouts,       \* possible clusters: [rack |-> of a server, dc |-> of a rack]
          BlockCounts,   \* numbers of copies that may be wanted
          Nothing        \* no rack, or no data center, to stay out of

ASSUME PlacementAssumption ==
  /\ IsFiniteSet(Server)
  /\ BlockCounts \subseteq Nat \ {0}
  /\ \A l \in Layouts : /\ Server \subseteq DOMAIN l.rack
                        /\ \A s \in Server : l.rack[s] \in DOMAIN l.dc

VARIABLES layout, blockCount,
          registered,    \* _nodes
          usable,        \* those of them that IsUseAble accepts
          replicas       \* _chunkServer of the block: [server, healthy]

placementVars == <<layout, blockCount, registered, usable, replicas>>

PlacementInit ==
  /\ layout \in Layouts /\ blockCount \in BlockCounts
  /\ registered = {} /\ usable = {} /\ replicas = <<>>

-----------------------------------------------------------------------------
(***************************************************************************)
(* The cluster, as the servers that have registered make it up.            *)
(***************************************************************************)
RackOf(s) == layout.rack[s]
CenterOf(s) == layout.dc[RackOf(s)]

Racks(dc) == {RackOf(s) : s \in {x \in registered : CenterOf(x) = dc}}
Centers == {CenterOf(s) : s \in registered}

\* Mutant: the one that is excluded is never visited.
VisitedNever(all, exclude) == all \ {exclude}

\* The walk steps over the one that is excluded, and comes back to it when
\* there is no other.
Visited(all, exclude) == IF all = {exclude} THEN all ELSE all \ {exclude}

\* Mutant: a server is taken although it is among those that are being added.
FreeButOld(old, except, add) == usable \ (Range(old) \cup except)

\* Rack::ChooseChunkServer: what no list has and is usable.
Free(old, except, add) == usable \ (Range(old) \cup except \cup Range(add))

InRack(rack, free) == {s \in free : RackOf(s) = rack}

\* DataCenter::ChooseChunkServer
InCenter(dc, exclude, free) ==
  {s \in free : CenterOf(s) = dc /\ RackOf(s) \in Visited(Racks(dc), exclude)}

\* ChooseRandomChunkServer
Anywhere(exclude, free) ==
  {s \in free : CenterOf(s) \in Visited(Centers, exclude)}

\* Mutant: the rack to stay out of is forgotten.
RemoteFromAny(base, free) ==
  IF InCenter(CenterOf(base), Nothing, free) # {}
  THEN InCenter(CenterOf(base), Nothing, free) ELSE Anywhere(CenterOf(base), free)

\* ChooseRemoteRackChunkServer
Remote(base, free) ==
  IF InCenter(CenterOf(base), RackOf(base), free) # {}
  THEN InCenter(CenterOf(base), RackOf(base), free)
  ELSE Anywhere(CenterOf(base), free)

-----------------------------------------------------------------------------
(***************************************************************************)
(* Distribute: the possible results, each a sequence of servers.           *)
(***************************************************************************)
\* One of the given servers is added, or none if there is none.
Grow(add, servers) ==
  IF servers = {} THEN {add} ELSE {Append(add, s) : s \in servers}

\* ChooseLocalRackChunkServer finds the third copy among those the block has.
HasThird(old, second) ==
  \E i \in 2..Len(old) : RackOf(old[i]) # RackOf(second)

\* The copies beyond the third may be anywhere.
More(old, except, add) ==
  LET free == Free(old, except, add)
      room == {n \in 0..blockCount : n <= blockCount - 3 /\ n <= Cardinality(free)}
      n == CHOOSE x \in room : \A y \in room : y <= x
  IN  IF blockCount <= 3 THEN {add}
      ELSE {add \o f : f \in {g \in [1..n -> free] : IsInjective(g)}}

Thirds(old, except, add) ==
  LET second == add[Len(add)]
  IN  IF \/ blockCount = 2
         \/ Len(old) >= 2 /\ HasThird(old, second)
         \/ Len(old) >= 2 /\ Len(old) + Len(add) >= blockCount
      THEN {add}
      ELSE Grow(add, InRack(RackOf(second), Free(old, except, add)))

Seconds(base, old, except, add) ==
  LET free == Remote(base, Free(old, except, add))
  IN  IF free = {} THEN {add}
      ELSE UNION {Thirds(old, except, Append(add, s)) : s \in free}

\* The first server is the block's own first one, and not added, if it has any.
Distribute(old, except) ==
  LET firsts == IF old # <<>> THEN {<<>>}
                ELSE Grow(<<>>, Anywhere(Nothing, Free(<<>>, except, <<>>)))
      Base(add) == IF old # <<>> THEN Head(old) ELSE Head(add)
  IN  IF Len(old) >= blockCount THEN {<<>>}
      ELSE UNION {IF (old = <<>> /\ add = <<>>) \/ blockCount = 1 THEN {add}
                  ELSE UNION {More(old, except, a) :
                                a \in Seconds(Base(add), old, except, add)} :
                    add \in firsts}

-----------------------------------------------------------------------------
(***************************************************************************)
(* The block and its servers.                                              *)
(***************************************************************************)
Register(s) ==
  /\ registered' = registered \cup {s}
  /\ usable' = usable \cup {s}
  /\ UNCHANGED <<layout, blockCount, replicas>>

\* Its last heartbeat is an hour old, or tells of a fault.
Unusable(s) ==
  /\ usable' = usable \ {s}
  /\ UNCHANGED <<layout, blockCount, registered, replicas>>

Entries(ret, healthy) ==
  [i \in DOMAIN ret |-> [server |-> ret[i], healthy |-> healthy]]

\* Block::Write
Write ==
  /\ replicas = <<>>
  /\ \E ret \in Distribute(<<>>, {}) : replicas' = Entries(ret, TRUE)
  /\ UNCHANGED <<layout, blockCount, registered, usable>>

IsGood(r) == r.healthy /\ r.server \in usable

\* The servers of the good ones among the first n entries, in their order.
Good[n \in 0..Len(replicas)] ==
  IF n = 0 THEN <<>>
  ELSE IF IsGood(replicas[n]) THEN Append(Good[n - 1], replicas[n].server)
  ELSE Good[n - 1]

Has == Good[Len(replicas)]
Except == {r.server : r \in {x \in Range(replicas) : ~IsGood(x)}}

\* Block::CheckReplica, which goes on with a usable main replica, be it faulty
\* and no copy good.  The new entries are of version 0: they count as copies at
\* once if the block itself is, else when they have reported.
CheckReplica ==
  /\ \E r \in Range(replicas) : r.server \in usable
  /\ Len(Has) < blockCount
  /\ \E ret \in Distribute(Has, Except), healthy \in BOOLEAN :
       replicas' = replicas \o Entries(ret, healthy)
  /\ UNCHANGED <<layout, blockCount, registered, usable>>

\* Block::ReportReplica: a server's copy counts or does not, being old or bad; a
\* server without an entry gets one.
ReportReplica(s, healthy) ==
  /\ replicas' = IF \E r \in Range(replicas) : r.server = s
                 THEN [i \in DOMAIN replicas |->
                         IF replicas[i].server = s
                         THEN [replicas[i] EXCEPT !.healthy = healthy]
                         ELSE replicas[i]]
                 ELSE replicas \o Entries(<<s>>, healthy)
  /\ UNCHANGED <<layout, blockCount, registered, usable>>

PlacementNext ==
  \/ \E s \in Server : Register(s) \/ Unusable(s)
  \/ Write \/ CheckReplica
  \/ \E s \in registered, healthy \in BOOLEAN : ReportReplica(s, healthy)

PlacementSpec == PlacementInit /\ [][PlacementNext]_placementVars

-----------------------------------------------------------------------------
(***************************************************************************)
(* Properties, of every result that the next Distribute may have.          *)
(***************************************************************************)
Results == Distribute(Has, Except)

\* What MasterBlock's Placements and RepairRoom say of Distribute: all results
\* are usable servers, each once, without an entry in the block, and no more
\* than are missing, or than blockCount if that is four or more.
PlacesFreshServers ==
  \A ret \in Results :
    /\ IsInjective(ret)
    /\ Range(ret) \subseteq usable \ {r.server : r \in Range(replicas)}
    /\ ret = <<>> \/ Len(ret) <= blockCount
    /\ (ret # <<>> /\ blockCount <= 3) => Len(Has) + Len(ret) <= blockCount

\* Servers that Distribute can find for a block whose first copy is at base:
\* any in a cluster of one data center; with several, those of base's own rack
\* only if its center has no other.
WithinReach(base) ==
  {s \in Free(Has, Except, <<>>) :
     Cardinality(Centers) = 1 \/ Racks(CenterOf(base)) = {RackOf(base)}
       \/ RackOf(s) # RackOf(base)}

\* CheckReplica's repair finds a server whenever one is within reach: the walks
\* over centers and racks, which step over the excluded one, miss nothing else.
RepairFindsServer ==
  (Has # <<>> /\ Len(Has) < blockCount /\ WithinReach(Has[1]) # {})
     => <<>> \notin Results

\* Two copies or more never end up in one rack, be the block new or repaired,
\* while another rack of the first copy's data center has a free server.
SpansTwoRacks ==
  (Len(Has) < blockCount /\ blockCount > 1) =>
    \A ret \in Results :
      LET all == Has \o ret
          free == Free(all, Except, <<>>)
      IN  Len(all) > 0 =>
            \/ \E i \in DOMAIN all : RackOf(all[i]) # RackOf(all[1])
            \/ \A s \in free : CenterOf(s) # CenterOf(all[1])
                               \/ RackOf(s) = RackOf(all[1])
=============================================================================
