----------------------------- MODULE FileProofs -----------------------------
(***************************************************************************)
(* Files, from their ids to their content.  File ids increase and block    *)
(* ids decode, for any number of threads, any widths of the fields and any *)
(* wall clock; the servers for the copies of a block are fresh, found and  *)
(* spread over racks, for any finite cluster; and what is put into a file  *)
(* is stored in order and found by those that get it, for any clients and  *)
(* files, any size of a block and any number of blocks.                    *)
(***************************************************************************)
EXTENDS IdGenerator, Placement, FileTransfer, FiniteSetTheorems,
        SequenceTheorems, WellFoundedInduction, TLAPS

\* Division undoes what the shift did.
LEMMA DivMod ==
  ASSUME NEW a \in Nat, NEW s \in Nat \ {0}, NEW r \in 0..(s - 1)
  PROVE  /\ (a * s + r) \div s = a
         /\ (a * s + r) % s = r
         /\ a * s + r \in Nat
<1>1. a * s \in Nat
  BY SMT
<1> DEFINE x == a * s + r
<1>2. x \in Nat
  BY <1>1
<1>3. /\ x = s * (x \div s) + (x % s)
      /\ x \div s \in Int /\ x % s \in 0..(s - 1)
  BY <1>2, SMT
<1>4. s * (a - (x \div s)) = (x % s) - r
  BY <1>1, <1>3, SMT
<1>5. a = x \div s
  BY <1>3, <1>4, SMT
<1> QED
  BY <1>1, <1>3, <1>5, SMT

\* The three fields of an id can be taken apart again.
LEMMA Fields ==
  ASSUME NEW t \in Nat, NEW i \in 0..(IndexSpan - 1), NEW q \in 0..(SeqSpan - 1)
  PROVE  LET b == (t * IndexSpan + i) * SeqSpan + q
         IN  /\ b \in Nat
             /\ TickFromId(b) = t
             /\ IndexFromBlock(b) = i
             /\ SeqFromId(b) = q
<1> DEFINE b == (t * IndexSpan + i) * SeqSpan + q
<1>0. IndexSpan \in Nat \ {0} /\ SeqSpan \in Nat \ {0}
  BY IdAssumption
<1>1. /\ (t * IndexSpan + i) \div IndexSpan = t
      /\ (t * IndexSpan + i) % IndexSpan = i
      /\ t * IndexSpan + i \in Nat
  BY <1>0, DivMod
<1>2. /\ b \div SeqSpan = t * IndexSpan + i
      /\ b % SeqSpan = q
      /\ b \in Nat
  <2> DEFINE a == t * IndexSpan + i
  <2>1. a \in Nat
    BY <1>1
  <2> HIDE DEF a
  <2>2. (a * SeqSpan + q) \div SeqSpan = a /\ (a * SeqSpan + q) % SeqSpan = q
        /\ a * SeqSpan + q \in Nat
    BY <1>0, <2>1, DivMod
  <2> QED
    BY <2>2 DEF a
<1> QED
  BY <1>1, <1>2 DEF TickFromId, IndexFromBlock, SeqFromId

\* The ids that GenerateId builds.
IsFileId(id) ==
  \E t \in Nat, q \in 0..(MaxSeq - 1) : id = BuildFileId(t, q)

\* A block id of such a file, its fields spelled out.
LEMMA BlockFields ==
  ASSUME NEW t \in Nat, NEW q \in 0..(SeqSpan - 1), NEW i \in 0..(IndexSpan - 1)
  PROVE  /\ BuildFileId(t, q) = (t * IndexSpan + 0) * SeqSpan + q
         /\ BlockId(BuildFileId(t, q), i) = (t * IndexSpan + i) * SeqSpan + q
<1>0. IndexSpan \in Nat \ {0} /\ SeqSpan \in Nat \ {0}
  BY IdAssumption
<1>1. q % SeqSpan = q /\ i % IndexSpan = i
  BY <1>0, SMT
<1>2. t * IndexSpan \in Nat
  BY <1>0, SMT
<1>3. \A a \in Nat : (a + i) * SeqSpan = a * SeqSpan + i * SeqSpan
  BY <1>0, SMT
<1>4. i * SeqSpan \in Nat /\ (t * IndexSpan) * SeqSpan \in Nat
  BY <1>0, <1>2, SMT
<1> QED
  BY <1>1, <1>2, <1>3, <1>4 DEF BuildFileId, BlockId

\* A file id has its second and its number for fields, and no index.
LEMMA FileFields ==
  ASSUME NEW t \in Nat, NEW q \in 0..(MaxSeq - 1)
  PROVE  /\ BuildFileId(t, q) \in Nat
         /\ TickFromId(BuildFileId(t, q)) = t
         /\ SeqFromId(BuildFileId(t, q)) = q
         /\ IsFileId(BuildFileId(t, q))
<1>1. q \in 0..(SeqSpan - 1) /\ 0 \in 0..(IndexSpan - 1)
  BY IdAssumption
<1> QED
  BY <1>1, BlockFields, Fields DEF IsFileId

\* A block id decodes into the file and the index it was made of.
LEMMA BlockDecodes ==
  ASSUME NEW id, IsFileId(id), NEW i \in 0..(IndexSpan - 1)
  PROVE  /\ FileIdFromBlock(BlockId(id, i)) = id
         /\ IndexFromBlock(BlockId(id, i)) = i
<1>1. PICK t \in Nat, q \in 0..(MaxSeq - 1) : id = BuildFileId(t, q)
  BY DEF IsFileId
<1>2. q \in 0..(SeqSpan - 1)
  BY IdAssumption
<1>3. BlockId(id, i) = (t * IndexSpan + i) * SeqSpan + q
  BY <1>1, <1>2, BlockFields
<1>4. /\ TickFromId(BlockId(id, i)) = t
      /\ IndexFromBlock(BlockId(id, i)) = i
      /\ SeqFromId(BlockId(id, i)) = q
  BY <1>2, <1>3, Fields
<1> QED
  BY <1>1, <1>4 DEF FileIdFromBlock

\* A later second makes a larger id, and so does a larger number.
LEMMA LaterIsLarger ==
  ASSUME NEW t \in Nat, NEW u \in Nat,
         NEW q \in 0..(MaxSeq - 1), NEW r \in 0..(MaxSeq - 1),
         t < u \/ (t = u /\ q < r)
  PROVE  BuildFileId(t, q) < BuildFileId(u, r)
<1>0. IndexSpan \in Nat \ {0} /\ SeqSpan \in Nat \ {0} /\ MaxSeq \in Nat
      /\ MaxSeq < SeqSpan
  BY IdAssumption
<1>1. q % SeqSpan = q /\ r % SeqSpan = r
  BY <1>0, SMT
<1> DEFINE W == IndexSpan * SeqSpan
<1>2. W \in Nat /\ W >= SeqSpan
  BY <1>0, SMT
<1>3. (t * IndexSpan) * SeqSpan = t * W /\ (u * IndexSpan) * SeqSpan = u * W
  BY <1>0, SMT
<1>4. CASE t = u
  BY <1>0, <1>1, <1>2, <1>3, <1>4, SMT DEF BuildFileId
<1>5. CASE t < u
  <2>1. t * W + W <= u * W
    <3> HIDE DEF W
    <3>1. u = t + 1 + (u - t - 1) /\ u - t - 1 \in Nat
      BY <1>5
    <3>2. (u - t - 1) * W \in Nat
      BY <1>2, <3>1, SMT
    <3>3. u * W = t * W + W + (u - t - 1) * W
      BY <1>2, <3>1, SMT
    <3>4. t * W \in Nat
      BY <1>2, SMT
    <3> QED
      BY <1>2, <3>2, <3>3, <3>4
  <2>2. t * W \in Nat /\ u * W \in Nat
    BY <1>2, SMT
  <2> HIDE DEF W
  <2> QED
    BY <1>0, <1>1, <1>2, <1>3, <2>1, <2>2 DEF BuildFileId
<1> QED
  BY <1>4, <1>5

-----------------------------------------------------------------------------
(***************************************************************************)
(* The inductive invariant.  Ids of this run are at most s_id, ids of      *)
(* earlier runs are of seconds before the start.                           *)
(***************************************************************************)
FileIds == {id \in Nat : IsFileId(id)}

CallsTyped ==
  call \in [Caller -> [pc : {"idle", "loaded", "built"}, id : FileIds,
                       newId : Nat]]

BuiltIsAbove ==
  \A c \in Caller : call[c].pc = "built" =>
    /\ call[c].newId \in FileIds
    /\ call[c].id < call[c].newId
    /\ TickFromId(call[c].newId) >= started

IssuedIsBelow ==
  \A i \in DOMAIN issued :
    issued[i] <= s_id \/ TickFromId(issued[i]) < started

IdInv ==
  /\ clock \in Nat /\ started \in Nat /\ started <= clock
  /\ s_id \in FileIds
  /\ issued \in Seq(FileIds)
  /\ CallsTyped
  /\ BuiltIsAbove
  /\ IssuedIsBelow
  /\ IdsIncrease

LEMMA ZeroIsFileId == 0 \in FileIds
<1>1. 0 \in 0..(MaxSeq - 1) /\ 0 \in 0..(SeqSpan - 1)
  BY IdAssumption
<1>2. BuildFileId(0, 0) = 0
  BY <1>1, IdAssumption, SMT DEF BuildFileId
<1> QED
  BY <1>1, <1>2 DEF FileIds, IsFileId

\* The second of an id is a number.
LEMMA TickIsNat ==
  ASSUME NEW x \in FileIds
  PROVE  TickFromId(x) \in Nat
<1>1. PICK t \in Nat, q \in 0..(MaxSeq - 1) : x = BuildFileId(t, q)
  BY DEF FileIds, IsFileId
<1> QED
  BY <1>1, FileFields

\* Ids of different seconds are ordered like their seconds.
LEMMA TickOrder ==
  ASSUME NEW x \in FileIds, NEW y \in FileIds, TickFromId(x) < TickFromId(y)
  PROVE  x < y
<1>1. PICK t \in Nat, q \in 0..(MaxSeq - 1) : x = BuildFileId(t, q)
  BY DEF FileIds, IsFileId
<1>2. PICK u \in Nat, r \in 0..(MaxSeq - 1) : y = BuildFileId(u, r)
  BY DEF FileIds, IsFileId
<1>3. TickFromId(x) = t /\ TickFromId(y) = u
  BY <1>1, <1>2, FileFields
<1> QED
  BY <1>1, <1>2, <1>3, LaterIsLarger

\* What Build makes of a loaded id is a larger one, of a second that is not
\* before the start of the process.
LEMMA SuccessorIsLarger ==
  ASSUME NEW id \in FileIds, clock \in Nat, started \in Nat, started <= clock,
         ~Exhausted(id)
  PROVE  /\ Successor(id) \in FileIds
         /\ id < Successor(id)
         /\ TickFromId(Successor(id)) >= started
<1>1. PICK t \in Nat, q \in 0..(MaxSeq - 1) : id = BuildFileId(t, q)
  BY DEF FileIds, IsFileId
<1>2. TickFromId(id) = t /\ SeqFromId(id) = q
  BY <1>1, FileFields
<1>3. CASE t < clock
  <2>1. Successor(id) = BuildFileId(clock, 0)
    BY <1>2, <1>3 DEF Successor
  <2>2. 0 \in 0..(MaxSeq - 1)
    BY IdAssumption
  <2> QED
    BY <1>1, <1>3, <2>1, <2>2, FileFields, LaterIsLarger DEF FileIds
<1>4. CASE ~(t < clock)
  <2>1. Successor(id) = BuildFileId(t, q + 1)
    BY <1>2, <1>4 DEF Successor
  <2>2. q + 1 \in 0..(MaxSeq - 1)
    BY <1>2, <1>4, IdAssumption DEF Exhausted
  <2>3. id < BuildFileId(t, q + 1)
    BY <1>1, <2>2, LaterIsLarger
  <2> QED
    BY <1>4, <2>1, <2>2, <2>3, FileFields DEF FileIds
<1> QED
  BY <1>3, <1>4

LEMMA IdInvInit == Init => IdInv
<1> SUFFICES ASSUME Init PROVE IdInv
  OBVIOUS
<1>1. Idle \in [pc : {"idle", "loaded", "built"}, id : FileIds, newId : Nat]
  BY ZeroIsFileId DEF Idle
<1>2. /\ CallsTyped /\ BuiltIsAbove
  BY <1>1 DEF Init, CallsTyped, BuiltIsAbove, Idle
<1>3. /\ issued \in Seq(FileIds) /\ IssuedIsBelow /\ IdsIncrease
  BY DEF Init, IssuedIsBelow, IdsIncrease
<1> QED
  BY <1>2, <1>3, ZeroIsFileId, IdAssumption DEF Init, IdInv

LEMMA IdInvNext == IdInv /\ [Next]_vars => IdInv'
<1> SUFFICES ASSUME IdInv, [Next]_vars PROVE IdInv'
  OBVIOUS
<1> USE DEF IdInv
<1>1. CASE UNCHANGED vars
  BY <1>1 DEF vars, CallsTyped, BuiltIsAbove, IssuedIsBelow, IdsIncrease
<1>2. CASE SetClock
  <2>1. clock' \in Nat /\ started <= clock'
    BY <1>2, IdAssumption DEF SetClock
  <2> QED
    BY <1>2, <2>1
       DEF SetClock, CallsTyped, BuiltIsAbove, IssuedIsBelow, IdsIncrease
<1>3. CASE Restart
  <2>1. clock' \in Nat /\ started' = clock'
    BY <1>3, IdAssumption DEF Restart
  <2>2. Idle \in [pc : {"idle", "loaded", "built"}, id : FileIds, newId : Nat]
    BY ZeroIsFileId DEF Idle
  <2>3. CallsTyped' /\ BuiltIsAbove'
    BY <1>3, <2>2 DEF Restart, CallsTyped, BuiltIsAbove, Idle
  <2>4. IssuedIsBelow' /\ IdsIncrease'
    BY <1>3 DEF Restart, IssuedIsBelow, IdsIncrease
  <2> QED
    BY <1>3, <2>1, <2>3, <2>4, ZeroIsFileId DEF Restart
<1>4. ASSUME NEW c \in Caller, Load(c)
      PROVE  IdInv'
  <2>1. CallsTyped'
    BY <1>4 DEF Load, CallsTyped
  <2>2. BuiltIsAbove'
    BY <1>4 DEF Load, BuiltIsAbove, CallsTyped
  <2> QED
    BY <1>4, <2>1, <2>2 DEF Load, IssuedIsBelow, IdsIncrease
<1>5. ASSUME NEW c \in Caller, Wait(c) \/ Retry(c)
      PROVE  IdInv'
  <2>1. CallsTyped'
    BY <1>5, ZeroIsFileId, SMTT(30) DEF Wait, Retry, CallsTyped, Idle
  <2>2. BuiltIsAbove'
    BY <1>5 DEF Wait, Retry, BuiltIsAbove, CallsTyped, Idle
  <2> QED
    BY <1>5, <2>1, <2>2 DEF Wait, Retry, IssuedIsBelow, IdsIncrease
<1>6. ASSUME NEW c \in Caller, Build(c)
      PROVE  IdInv'
  <2>1. call[c].id \in FileIds
    BY DEF CallsTyped
  <2>2. /\ Successor(call[c].id) \in FileIds
        /\ call[c].id < Successor(call[c].id)
        /\ TickFromId(Successor(call[c].id)) >= started
    BY <1>6, <2>1, SuccessorIsLarger DEF Build
  <2>3. CallsTyped'
    BY <1>6, <2>2 DEF Build, CallsTyped, FileIds
  <2>4. BuiltIsAbove'
    BY <1>6, <2>2 DEF Build, BuiltIsAbove, CallsTyped
  <2> QED
    BY <1>6, <2>3, <2>4 DEF Build, IssuedIsBelow, IdsIncrease
<1>7. ASSUME NEW c \in Caller, Swap(c)
      PROVE  IdInv'
  <2> DEFINE new == call[c].newId
  <2>1. new \in FileIds /\ s_id < new /\ TickFromId(new) >= started
    BY <1>7 DEF Swap, BuiltIsAbove, CallsTyped
  <2>2. s_id' = new /\ issued' = Append(issued, new) /\ started' = started
    BY <1>7 DEF Swap
  <2>3. \A i \in DOMAIN issued : issued[i] \in FileIds /\ issued[i] < new
    <3> SUFFICES ASSUME NEW i \in DOMAIN issued
                 PROVE  issued[i] \in FileIds /\ issued[i] < new
      OBVIOUS
    <3>1. issued[i] \in FileIds
      OBVIOUS
    <3>2. CASE issued[i] <= s_id
      BY <2>1, <3>1, <3>2 DEF FileIds
    <3>3. CASE TickFromId(issued[i]) < started
      <4>1. TickFromId(issued[i]) \in Nat /\ TickFromId(new) \in Nat
        BY <2>1, <3>1, TickIsNat
      <4>2. TickFromId(issued[i]) < TickFromId(new)
        BY <2>1, <3>3, <4>1
      <4> QED
        BY <2>1, <3>1, <4>2, TickOrder
    <3> QED
      BY <3>1, <3>2, <3>3 DEF IssuedIsBelow
  <2>4. issued' \in Seq(FileIds)
    BY <2>1, <2>2
  <2>5. \A i \in DOMAIN issued' :
          issued'[i] = IF i = Len(issued) + 1 THEN new ELSE issued[i]
    BY <2>1, <2>2
  <2>6. IssuedIsBelow'
    BY <2>1, <2>2, <2>3, <2>5 DEF IssuedIsBelow, FileIds
  <2>7. IdsIncrease'
    BY <2>1, <2>2, <2>3, <2>5 DEF IdsIncrease, FileIds
  <2>8. CallsTyped' /\ BuiltIsAbove'
    BY <1>7, ZeroIsFileId DEF Swap, CallsTyped, BuiltIsAbove, Idle
  <2> QED
    BY <1>7, <2>1, <2>2, <2>4, <2>6, <2>7, <2>8 DEF Swap
<1> QED
  BY <1>1, <1>2, <1>3, <1>4, <1>5, <1>6, <1>7 DEF Next

-----------------------------------------------------------------------------
THEOREM IdInvHolds == Spec => []IdInv
  BY IdInvInit, IdInvNext, PTL DEF Spec

\* IdGenerator::GenerateId never returns an id twice or a smaller one after a
\* larger one.
THEOREM IdsAlwaysIncrease == Spec => []IdsIncrease
<1>1. IdInv => IdsIncrease
  BY DEF IdInv
<1> QED
  BY <1>1, IdInvHolds, PTL

\* FILE_ID_FROM_BLOCK and INDEX_FROM_BLOCK undo BLOCK_ID on every file id that
\* GenerateId returns.
THEOREM BlockIdsAlwaysDecode == Spec => []BlockIdsDecode
<1>1. IdInv => BlockIdsDecode
  <2> SUFFICES ASSUME IdInv, NEW k \in DOMAIN issued,
                      NEW index \in 0..(IndexSpan - 1)
               PROVE  /\ FileIdFromBlock(BlockId(issued[k], index)) = issued[k]
                      /\ IndexFromBlock(BlockId(issued[k], index)) = index
    BY DEF BlockIdsDecode
  <2>1. IsFileId(issued[k])
    BY DEF IdInv, FileIds
  <2> QED
    BY <2>1, BlockDecodes
<1> QED
  BY <1>1, IdInvHolds, PTL

-----------------------------------------------------------------------------
(***************************************************************************)
(* The placement of copies.                                                *)
(***************************************************************************)
\* The least counterexample is what stands in for induction below.
LEMMA LeastNumber ==
  ASSUME NEW T \in SUBSET Nat, T # {}
  PROVE  \E n \in T : \A m \in T : n <= m
  <1>1. IsWellFoundedOn(OpToRel(<, Nat), Nat)
    BY NatLessThanWellFounded
  <1>2. \E i \in T : \A j \in T : ~(<<j, i>> \in OpToRel(<, Nat))
    BY <1>1, WFMin
  <1>3. \A i, j \in Nat : ~(<<j, i>> \in OpToRel(<, Nat)) => i <= j
    BY DEF OpToRel
  <1>. QED BY <1>2, <1>3

\* An entry of the block.
Copy == [server : Server, healthy : BOOLEAN]

\* What every step of Placement keeps.
PlacementInv ==
  /\ layout \in Layouts /\ blockCount \in BlockCounts
  /\ registered \subseteq Server /\ usable \subseteq registered
  /\ replicas \in Seq(Copy)

\* What may be added to a block with copies on old: usable servers, none of old
\* or except, none twice.
Chosen(old, except, add) ==
  /\ add \in Seq(Server)
  /\ \A i \in 1..Len(add) : /\ add[i] \in usable /\ add[i] \notin except
                            /\ \A k \in 1..Len(old) : old[k] # add[i]
  /\ \A i, j \in 1..Len(add) : add[i] = add[j] => i = j

\* t begins with s.
Continues(s, t) == /\ Len(s) <= Len(t)
                   /\ \A i \in 1..Len(s) : t[i] = s[i]

\* Rack::ChooseChunkServer, with the lists as sequences.
LEMMA FreeServers ==
  ASSUME PlacementInv, NEW old \in Seq(Server), NEW except,
         NEW add \in Seq(Server), NEW s
  PROVE  s \in Free(old, except, add) <=>
           /\ s \in usable /\ s \notin except
           /\ \A k \in 1..Len(old) : old[k] # s
           /\ \A k \in 1..Len(add) : add[k] # s
  <1>1. Range(old) = {old[k] : k \in 1..Len(old)}
    BY DEF Range
  <1>2. Range(add) = {add[k] : k \in 1..Len(add)}
    BY DEF Range
  <1>. QED BY <1>1, <1>2 DEF Free

\* The same when nothing is being added yet,
LEMMA FreeOfOld ==
  ASSUME PlacementInv, NEW old \in Seq(Server), NEW except, NEW s
  PROVE  s \in Free(old, except, <<>>) <=>
           s \in usable /\ s \notin except /\ \A k \in 1..Len(old) : old[k] # s
  <1>1. <<>> \in Seq(Server) /\ \A k \in 1..Len(<<>>) : FALSE
    OBVIOUS
  <1>. QED BY <1>1, FreeServers, Zenon

\* and after the first server of a new block.
LEMMA FreeAfterOne ==
  ASSUME PlacementInv, NEW except, NEW b \in Server, NEW s
  PROVE  s \in Free(<<>>, except, <<b>>) <=>
           s \in usable /\ s \notin except /\ s # b
  <1>1. Range(<<>>) = {} /\ Range(<<b>>) = {b}
    BY DEF Range
  <1>. QED BY <1>1 DEF Free

\* One more free server keeps what is added fresh.
LEMMA AddOne ==
  ASSUME PlacementInv, NEW old \in Seq(Server), NEW except, NEW add,
         Chosen(old, except, add), NEW s \in Free(old, except, add)
  PROVE  /\ Chosen(old, except, Append(add, s))
         /\ Continues(add, Append(add, s))
         /\ Len(Append(add, s)) = Len(add) + 1
         /\ Append(add, s)[Len(add) + 1] = s
  <1>1. add \in Seq(Server) /\ s \in Server
    BY FreeServers DEF Chosen, PlacementInv
  <1>2. /\ Append(add, s) \in Seq(Server)
        /\ Len(Append(add, s)) = Len(add) + 1
        /\ Append(add, s)[Len(add) + 1] = s
        /\ \A i \in 1..Len(add) : Append(add, s)[i] = add[i]
    BY <1>1
  <1>3. /\ s \in usable /\ s \notin except
        /\ \A k \in 1..Len(old) : old[k] # s
        /\ \A k \in 1..Len(add) : add[k] # s
    BY <1>1, FreeServers
  <1>4. Len(add) \in Nat
    BY <1>1
  <1>5. \A i \in 1..(Len(add) + 1) : i \in 1..Len(add) \/ i = Len(add) + 1
    BY <1>4
  <1>6. \A i, j \in 1..(Len(add) + 1) :
          Append(add, s)[i] = Append(add, s)[j] => i = j
    BY <1>2, <1>3, <1>5 DEF Chosen
  <1>. QED BY <1>2, <1>3, <1>4, <1>5, <1>6 DEF Chosen, Continues

\* Each step of Distribute only appends.
LEMMA ContinuesTwice ==
  ASSUME NEW a \in Seq(Server), NEW b \in Seq(Server), NEW c \in Seq(Server),
         Continues(a, b), Continues(b, c)
  PROVE  Continues(a, c)
  BY DEF Continues

\* ... if there is one.
LEMMA GrownByOne ==
  ASSUME PlacementInv, NEW old \in Seq(Server), NEW except, NEW add,
         Chosen(old, except, add), NEW S \in SUBSET Free(old, except, add),
         NEW r \in Grow(add, S)
  PROVE  /\ Chosen(old, except, r) /\ Continues(add, r)
         /\ Len(r) \in Len(add)..(Len(add) + 1)
  <1>1. add \in Seq(Server) /\ Len(add) \in Nat
    BY DEF Chosen
  <1>2. CASE r = add
    BY <1>1, <1>2 DEF Continues
  <1>3. CASE \E s \in S : r = Append(add, s)
    BY <1>1, <1>3, AddOne
  <1>. QED BY <1>2, <1>3 DEF Grow

\* ChooseRemoteRackChunkServer returns a free server.
LEMMA RemoteIsFree ==
  ASSUME NEW base, NEW free
  PROVE  Remote(base, free) \subseteq free
  BY DEF Remote, InCenter, Anywhere

\* ChooseLocalRackChunkServer adds at most one, and none when two were wanted.
LEMMA ThirdCopy ==
  ASSUME PlacementInv, NEW old \in Seq(Server), NEW except, NEW add,
         Chosen(old, except, add), NEW a \in Thirds(old, except, add)
  PROVE  /\ Chosen(old, except, a) /\ Continues(add, a)
         /\ Len(a) \in Len(add)..(Len(add) + 1)
         /\ (blockCount = 2 \/ (Len(old) >= 2 /\ Len(old) + Len(add) >= blockCount))
              => a = add
  <1>1. add \in Seq(Server) /\ Len(add) \in Nat
    BY DEF Chosen
  <1>2. CASE a = add
    BY <1>1, <1>2 DEF Continues
  <1>3. CASE a # add
    <2>. DEFINE S == InRack(RackOf(add[Len(add)]), Free(old, except, add))
    <2>1. a \in Grow(add, S)
      BY <1>3 DEF Thirds
    <2>2. S \in SUBSET Free(old, except, add)
      BY DEF InRack
    <2>3. ~(blockCount = 2 \/ (Len(old) >= 2 /\ Len(old) + Len(add) >= blockCount))
      BY <1>3 DEF Thirds
    <2>. HIDE DEF S
    <2>. QED BY <2>1, <2>2, <2>3, GrownByOne
  <1>. QED BY <1>2, <1>3

\* ChooseRemoteRackChunkServer adds one, if it finds one, before the third.
LEMMA SecondCopy ==
  ASSUME PlacementInv, NEW base, NEW old \in Seq(Server), NEW except, NEW add,
         Chosen(old, except, add), NEW a \in Seconds(base, old, except, add)
  PROVE  LET free == Remote(base, Free(old, except, add))
         IN  \/ free = {} /\ a = add
             \/ \E s \in free : /\ Chosen(old, except, Append(add, s))
                                /\ Len(Append(add, s)) = Len(add) + 1
                                /\ Append(add, s)[Len(add) + 1] = s
                                /\ Continues(add, Append(add, s))
                                /\ a \in Thirds(old, except, Append(add, s))
  <1>. DEFINE free == Remote(base, Free(old, except, add))
  <1>1. free \subseteq Free(old, except, add)
    BY RemoteIsFree
  <1>2. \/ free = {} /\ a = add
        \/ \E s \in free : a \in Thirds(old, except, Append(add, s))
    BY DEF Seconds
  <1>. HIDE DEF free
  <1>3. \A s \in free : /\ Chosen(old, except, Append(add, s))
                        /\ Continues(add, Append(add, s))
                        /\ Len(Append(add, s)) = Len(add) + 1
                        /\ Append(add, s)[Len(add) + 1] = s
    BY <1>1, AddOne
  <1>4. \/ free = {} /\ a = add
        \/ \E s \in free : /\ Chosen(old, except, Append(add, s))
                           /\ Len(Append(add, s)) = Len(add) + 1
                           /\ Append(add, s)[Len(add) + 1] = s
                           /\ Continues(add, Append(add, s))
                           /\ a \in Thirds(old, except, Append(add, s))
    BY <1>2, <1>3
  <1>. QED BY <1>4 DEF free

\* The copies beyond the third: blockCount - 3 at most, however many there are.
LEMMA MoreCopies ==
  ASSUME PlacementInv, NEW old \in Seq(Server), NEW except, NEW add,
         Chosen(old, except, add), NEW m \in More(old, except, add)
  PROVE  /\ Chosen(old, except, m) /\ Continues(add, m)
         /\ blockCount <= 3 => m = add
         /\ blockCount > 3 => Len(m) <= Len(add) + blockCount - 3
  <1>0. blockCount \in Nat \ {0}
    BY PlacementAssumption DEF PlacementInv
  <1>1. /\ add \in Seq(Server) /\ Len(add) \in Nat
        /\ blockCount \in Nat \ {0}
    BY <1>0 DEF Chosen
  <1>2. CASE blockCount <= 3
    <2>1. m = add
      BY <1>2 DEF More
    <2>. QED BY <1>1, <1>2, <2>1 DEF Continues
  <1>3. CASE blockCount > 3
    <2>. DEFINE free == Free(old, except, add)
                room == {n \in 0..blockCount : n <= blockCount - 3
                                               /\ n <= Cardinality(free)}
                k == CHOOSE x \in room : \A y \in room : y <= x
    <2>1. Cardinality(free) \in Nat
      <3>1. free \subseteq Server
        BY DEF PlacementInv, Free
      <3>2. IsFiniteSet(Server)
        BY PlacementAssumption
      <3>. HIDE DEF free
      <3>3. IsFiniteSet(free)
        BY <3>1, <3>2, FS_Subset
      <3>4. Cardinality(free) \in Nat
        BY <3>3, FS_CardinalityType
      <3>. QED BY <3>4
    <2>2. k \in room
      <3>. DEFINE c == Cardinality(free)
                  top == IF blockCount - 3 <= c THEN blockCount - 3 ELSE c
      <3>1. c \in Nat
        BY <2>1
      <3>. HIDE DEF c
      <3>2. top \in {n \in 0..blockCount : n <= blockCount - 3 /\ n <= c}
            /\ \A y \in {n \in 0..blockCount : n <= blockCount - 3 /\ n <= c} : y <= top
        BY <1>1, <1>3, <3>1
      <3>3. top \in room /\ \A y \in room : y <= top
        BY <3>2 DEF c
      <3>. HIDE DEF top, room
      <3>. QED BY <3>3
    <2>3. k \in Nat /\ k <= blockCount - 3
      BY <2>2, <1>1
    <2>. ~(blockCount <= 3)
      BY <1>1, <1>3
    <2>4. \E f \in [1..k -> free] : IsInjective(f) /\ m = add \o f
      <3>1. m \in {add \o f : f \in {g \in [1..k -> free] : IsInjective(g)}}
        BY Zenon DEF More
      <3>. HIDE DEF k, free
      <3>. QED BY <3>1
    <2>5. \A s \in free : /\ s \in Server /\ s \in usable /\ s \notin except
                          /\ \A i \in 1..Len(old) : old[i] # s
                          /\ \A i \in 1..Len(add) : add[i] # s
      BY <1>1, FreeServers DEF PlacementInv
    <2>. HIDE DEF k, free
    <2>6. PICK f \in [1..k -> free] : IsInjective(f) /\ m = add \o f
      BY <2>4
    <2>7. f \in Seq(Server) /\ Len(f) = k
      BY <2>3, <2>5, <2>6
    <2>8. /\ m \in Seq(Server) /\ Len(m) = Len(add) + k
          /\ \A i \in 1..Len(add) : m[i] = add[i]
          /\ \A i \in 1..k : m[Len(add) + i] = f[i]
      <3>1. \A i \in 1..(Len(add) + Len(f)) :
              (add \o f)[i] = IF i <= Len(add) THEN add[i] ELSE f[i - Len(add)]
        BY <1>1, <2>7
      <3>2. add \o f \in Seq(Server) /\ Len(add \o f) = Len(add) + k
        BY <1>1, <2>7
      <3>3. \A i \in 1..Len(add) : (add \o f)[i] = add[i]
        BY <3>1, <1>1, <2>7, <2>3
      <3>4. ASSUME NEW i \in 1..k PROVE (add \o f)[Len(add) + i] = f[i]
        <4>1. /\ Len(add) + i \in 1..(Len(add) + Len(f)) /\ ~(Len(add) + i <= Len(add))
              /\ (Len(add) + i) - Len(add) = i
          BY <1>1, <2>3, <2>7
        <4>. QED BY <3>1, <4>1
      <3>. QED BY <2>6, <3>2, <3>3, <3>4
    <2>9. \A i \in 1..Len(m) : i \in 1..Len(add) \/ (i - Len(add) \in 1..k
                                 /\ i = Len(add) + (i - Len(add)))
      BY <1>1, <2>3, <2>8
    <2>10. \A i \in 1..Len(m) :
             \/ i \in 1..Len(add) /\ m[i] = add[i]
             \/ i - Len(add) \in 1..k /\ m[i] = f[i - Len(add)] /\ m[i] \in free
      BY <2>8, <2>9, <2>6
    <2>11. \A i, j \in 1..k : f[i] = f[j] => i = j
      BY <2>6 DEF IsInjective
    <2>12. \A i, j \in 1..Len(m) : m[i] = m[j] => i = j
      <3>. SUFFICES ASSUME NEW i \in 1..Len(m), NEW j \in 1..Len(m), m[i] = m[j]
                    PROVE  i = j
        OBVIOUS
      <3>1. CASE i \in 1..Len(add) /\ j \in 1..Len(add)
        BY <3>1, <2>8 DEF Chosen
      <3>2. CASE m[i] \in free /\ j \in 1..Len(add) /\ m[j] = add[j]
        BY <3>2, <2>5
      <3>3. CASE m[j] \in free /\ i \in 1..Len(add) /\ m[i] = add[i]
        BY <3>3, <2>5
      <3>4. CASE /\ i - Len(add) \in 1..k /\ m[i] = f[i - Len(add)]
                 /\ j - Len(add) \in 1..k /\ m[j] = f[j - Len(add)]
        <4>1. i - Len(add) = j - Len(add)
          BY <3>4, <2>11
        <4>. QED BY <4>1, <1>1, <2>8, <2>3
      <3>. QED BY <2>10, <3>1, <3>2, <3>3, <3>4
    <2>13. Chosen(old, except, m)
      <3>1. \A i \in 1..Len(m) : /\ m[i] \in usable /\ m[i] \notin except
                                 /\ \A n \in 1..Len(old) : old[n] # m[i]
        BY <2>10, <2>5 DEF Chosen
      <3>. QED BY <2>8, <2>12, <3>1 DEF Chosen
    <2>14. Continues(add, m)
      BY <1>1, <2>3, <2>8 DEF Continues
    <2>. QED BY <1>1, <1>3, <2>3, <2>8, <2>13, <2>14
  <1>. QED BY <1>1, <1>2, <1>3

\* What Distribute does when it has anything to place.
LEMMA DistributeSteps ==
  ASSUME PlacementInv, NEW old \in Seq(Server), NEW except,
         NEW r \in Distribute(old, except), Len(old) < blockCount, r # <<>>
  PROVE  \/ /\ old # <<>> /\ blockCount > 1
            /\ \E a \in Seconds(Head(old), old, except, <<>>) :
                 r \in More(old, except, a)
         \/ /\ old = <<>>
            /\ \E b \in Free(<<>>, except, <<>>) :
                 IF blockCount = 1 THEN r = <<b>>
                 ELSE \E a \in Seconds(b, <<>>, except, <<b>>) :
                        r \in More(<<>>, except, a)
  <1>1. blockCount \in Nat \ {0} /\ Len(old) \in Nat
    BY PlacementAssumption DEF PlacementInv
  <1>2. CASE old # <<>>
    <2>1. blockCount # 1 /\ blockCount > 1
      BY <1>1, <1>2
    <2>2. r \in UNION {More(old, except, a) :
                         a \in Seconds(Head(old), old, except, <<>>)}
      BY <1>1, <1>2, <2>1 DEF Distribute
    <2>. QED BY <1>2, <2>1, <2>2
  <1>3. CASE old = <<>>
    <2>. DEFINE S == Anywhere(Nothing, Free(<<>>, except, <<>>))
    <2>1. S \subseteq Free(<<>>, except, <<>>)
      BY DEF Anywhere
    <2>2. PICK add \in Grow(<<>>, S) :
            r \in IF add = <<>> \/ blockCount = 1 THEN {add}
                  ELSE UNION {More(old, except, a) :
                                a \in Seconds(Head(add), old, except, add)}
      BY <1>1, <1>3 DEF Distribute
    <2>3. add = <<>> \/ \E b \in S : add = <<b>>
      <3>1. \A b : Append(<<>>, b) = <<b>>
        OBVIOUS
      <3>. QED BY <3>1 DEF Grow
    <2>4. add # <<>>
      BY <2>2
    <2>5. PICK b \in S : add = <<b>>
      BY <2>3, <2>4
    <2>6. Head(add) = b
      BY <2>5
    <2>. HIDE DEF S
    <2>. QED BY <1>3, <2>1, <2>2, <2>4, <2>5, <2>6
  <1>. QED BY <1>2, <1>3

\* The second and the third copy together.
LEMMA SecondAndThird ==
  ASSUME PlacementInv, NEW base, NEW old \in Seq(Server), NEW except, NEW add,
         Chosen(old, except, add), NEW a \in Seconds(base, old, except, add)
  PROVE  /\ Chosen(old, except, a) /\ Continues(add, a)
         /\ Len(a) \in Len(add)..(Len(add) + 2)
         /\ (\/ blockCount = 2
             \/ Len(old) >= 2 /\ Len(old) + (Len(add) + 1) >= blockCount)
              => Len(a) <= Len(add) + 1
  <1>1. add \in Seq(Server) /\ Len(add) \in Nat
    BY DEF Chosen
  <1>2. CASE a = add
    BY <1>1, <1>2 DEF Continues
  <1>3. CASE a # add
    <2>1. PICK s : /\ Chosen(old, except, Append(add, s))
                   /\ Len(Append(add, s)) = Len(add) + 1
                   /\ Continues(add, Append(add, s))
                   /\ a \in Thirds(old, except, Append(add, s))
      <3>. HIDE DEF Remote, Free
      <3>. QED BY <1>3, SecondCopy
    <2>. DEFINE b == Append(add, s)
    <2>2. /\ Chosen(old, except, b) /\ Continues(add, b) /\ Len(b) = Len(add) + 1
          /\ a \in Thirds(old, except, b)
      BY <2>1
    <2>. HIDE DEF b
    <2>3. /\ Chosen(old, except, a) /\ Continues(b, a)
          /\ Len(a) \in Len(b)..(Len(b) + 1)
          /\ (blockCount = 2 \/ (Len(old) >= 2 /\ Len(old) + Len(b) >= blockCount))
               => a = b
      BY <2>2, ThirdCopy
    <2>4. a \in Seq(Server) /\ b \in Seq(Server)
      BY <2>2, <2>3 DEF Chosen
    <2>5. Continues(add, a)
      BY <1>1, <2>2, <2>3, <2>4, ContinuesTwice
    <2>. QED BY <1>1, <2>2, <2>3, <2>5
  <1>. QED BY <1>2, <1>3

\* Their number, from that of what was there before.
LEMMA SecondLength ==
  ASSUME PlacementInv, NEW base, NEW old \in Seq(Server), NEW except, NEW add,
         NEW k \in Nat, Len(add) = k, Chosen(old, except, add),
         NEW a \in Seconds(base, old, except, add)
  PROVE  /\ Chosen(old, except, a) /\ Len(a) \in Nat /\ k <= Len(a) /\ Len(a) <= k + 2
         /\ (blockCount = 2 \/ (Len(old) >= 2 /\ Len(old) + (k + 1) >= blockCount))
              => Len(a) <= k + 1
  <1>0. Chosen(old, except, a)
    BY SecondAndThird
  <1>1. Chosen(old, except, a) /\ Len(a) \in Nat
    BY <1>0 DEF Chosen
  <1>2. Len(a) \in Len(add)..(Len(add) + 2)
    BY SecondAndThird
  <1>3. (\/ blockCount = 2
         \/ Len(old) >= 2 /\ Len(old) + (Len(add) + 1) >= blockCount)
          => Len(a) <= Len(add) + 1
    BY SecondAndThird
  <1>. QED BY <1>1, <1>2, <1>3

\* Nothing is fresh.
LEMMA NothingChosen ==
  ASSUME NEW old, NEW except
  PROVE  Chosen(old, except, <<>>)
  BY DEF Chosen

\* Distribute as a whole: fresh servers, not more than are missing.
LEMMA DistributeFresh ==
  ASSUME PlacementInv, NEW old \in Seq(Server), NEW except,
         NEW r \in Distribute(old, except)
  PROVE  /\ Chosen(old, except, r)
         /\ r = <<>> \/ Len(r) <= blockCount
         /\ (r # <<>> /\ blockCount <= 3) => Len(old) + Len(r) <= blockCount
  <1>1. blockCount \in Nat \ {0} /\ Len(old) \in Nat
    BY PlacementAssumption DEF PlacementInv
  <1>2. CASE r = <<>>
    BY <1>2, NothingChosen
  <1>3. CASE Len(old) >= blockCount
    <2>1. r = <<>>
      BY <1>3 DEF Distribute
    <2>. QED BY <2>1, NothingChosen
  <1>4. CASE Len(old) < blockCount /\ r # <<>>
    <2>1. CASE /\ old # <<>> /\ blockCount > 1
               /\ \E a \in Seconds(Head(old), old, except, <<>>) :
                    r \in More(old, except, a)
      <3>1. PICK a \in Seconds(Head(old), old, except, <<>>) :
                  r \in More(old, except, a)
        BY <2>1
      <3>2. /\ Chosen(old, except, a) /\ Len(a) \in Nat /\ Len(a) <= 2
            /\ (\/ blockCount = 2
                \/ Len(old) >= 2 /\ Len(old) + 1 >= blockCount) => Len(a) <= 1
        <4>1. Len(<<>>) = 0 /\ 0 \in Nat /\ Chosen(old, except, <<>>)
          BY NothingChosen
        <4>2. /\ Chosen(old, except, a) /\ Len(a) \in Nat /\ Len(a) <= 0 + 2
              /\ (\/ blockCount = 2
                  \/ Len(old) >= 2 /\ Len(old) + (0 + 1) >= blockCount)
                   => Len(a) <= 0 + 1
          BY <3>1, <4>1, SecondLength
        <4>. QED BY <1>1, <4>2
      <3>3. /\ Chosen(old, except, r)
            /\ blockCount <= 3 => r = a
            /\ blockCount > 3 => Len(r) <= Len(a) + blockCount - 3
        BY <3>1, <3>2, MoreCopies
      <3>4. Len(old) >= 1
        BY <2>1
      <3>5. Len(r) \in Nat
        BY <3>3 DEF Chosen
      <3>6. Len(a) \in Nat /\ Len(a) <= 2
        BY <3>2 DEF Chosen
      <3>7. Len(r) <= blockCount
        BY <1>1, <2>1, <3>2, <3>3, <3>5, <3>6
      <3>8. blockCount <= 3 => Len(old) + Len(r) <= blockCount
        BY <1>1, <1>4, <2>1, <3>2, <3>3, <3>4, <3>5, <3>6
      <3>. QED BY <3>3, <3>7, <3>8
    <2>2. CASE /\ old = <<>>
               /\ \E b \in Free(<<>>, except, <<>>) :
                    IF blockCount = 1 THEN r = <<b>>
                    ELSE \E a \in Seconds(b, <<>>, except, <<b>>) :
                           r \in More(<<>>, except, a)
      <3>1. PICK b \in Free(<<>>, except, <<>>) :
                   IF blockCount = 1 THEN r = <<b>>
                   ELSE \E a \in Seconds(b, <<>>, except, <<b>>) :
                          r \in More(<<>>, except, a)
        BY <2>2
      <3>2. /\ Chosen(<<>>, except, <<b>>) /\ Len(<<b>>) = 1 /\ <<>> \in Seq(Server)
        <4>1. Append(<<>>, b) = <<b>> /\ <<>> \in Seq(Server)
          OBVIOUS
        <4>2. Chosen(<<>>, except, Append(<<>>, b))
          BY <3>1, <4>1, AddOne, NothingChosen
        <4>. QED BY <4>1, <4>2
      <3>3. CASE blockCount = 1
        <4>1. r = <<b>> /\ Len(r) = 1 /\ Len(old) = 0
          BY <2>2, <3>1, <3>2, <3>3
        <4>2. Chosen(old, except, r)
          BY <2>2, <3>2, <4>1
        <4>. QED BY <3>3, <4>1, <4>2
      <3>4. CASE blockCount # 1
        <4>1. PICK a \in Seconds(b, <<>>, except, <<b>>) :
                     r \in More(<<>>, except, a)
          BY <3>1, <3>4
        <4>2. /\ Chosen(<<>>, except, a) /\ Len(a) \in Nat /\ Len(a) <= 3
              /\ blockCount = 2 => Len(a) <= 2
          <5>1. /\ Chosen(<<>>, except, a)
                /\ Len(a) \in Nat /\ 1 <= Len(a) /\ Len(a) <= 1 + 2
                /\ blockCount = 2 => Len(a) <= 1 + 1
            BY <3>2, <4>1, SecondLength
          <5>. QED BY <5>1
        <4>3. /\ Chosen(<<>>, except, r)
              /\ blockCount <= 3 => r = a
              /\ blockCount > 3 => Len(r) <= Len(a) + blockCount - 3
          BY <3>2, <4>1, <4>2, MoreCopies
        <4>4. Len(r) \in Nat
          BY <4>3 DEF Chosen
        <4>5. Chosen(old, except, r) /\ Len(old) = 0
          BY <2>2, <4>3
        <4>6. Len(a) \in Nat /\ Len(a) <= 3 /\ (blockCount = 2 => Len(a) <= 2)
          BY <4>2 DEF Chosen
        <4>7. Len(r) <= blockCount
          BY <1>1, <3>4, <4>3, <4>4, <4>6
        <4>. QED BY <1>1, <4>4, <4>5, <4>7
      <3>. QED BY <3>3, <3>4
    <2>. QED BY <1>4, <2>1, <2>2, DistributeSteps
  <1>. QED BY <1>1, <1>2, <1>3, <1>4

-----------------------------------------------------------------------------

\* The block's entries, one by one.
LEMMA EntriesTyped ==
  ASSUME PlacementInv
  PROVE  /\ Len(replicas) \in Nat
         /\ \A i \in 1..Len(replicas) : /\ replicas[i] \in Copy
                                        /\ replicas[i].server \in Server
  <1>1. replicas \in Seq(Copy)
    BY DEF PlacementInv
  <1>2. \A e \in Copy : e.server \in Server
    BY DEF Copy
  <1>3. Len(replicas) \in Nat /\ \A i \in 1..Len(replicas) : replicas[i] \in Copy
    BY <1>1
  <1>. QED BY <1>2, <1>3

\* f satisfies the equation of Good up to m.
Steps(f, m) ==
  /\ f \in [0..m -> Seq(Server)]
  /\ f[0] = <<>>
  /\ \A n \in 1..m : f[n] = IF IsGood(replicas[n])
                            THEN Append(f[n - 1], replicas[n].server)
                            ELSE f[n - 1]

\* There is such a function for every m: the least m without one would have it.
LEMMA StepsExist ==
  ASSUME PlacementInv, NEW m \in 0..Len(replicas)
  PROVE  \E f : Steps(f, m)
  <1>0. Len(replicas) \in Nat /\ <<>> \in Seq(Server)
    BY DEF PlacementInv
  <1>. DEFINE T == {n \in 0..Len(replicas) : ~ \E f : Steps(f, n)}
  <1>1. SUFFICES ASSUME m \in T PROVE FALSE
    OBVIOUS
  <1>2. PICK n \in T : \A k \in T : n <= k
    <2>1. T \in SUBSET Nat /\ T # {}
      BY <1>0, <1>1
    <2>. HIDE DEF T
    <2>. QED BY <2>1, LeastNumber
  <1>3. CASE n = 0
    <2>1. Steps([i \in 0..0 |-> <<>>], 0)
      BY <1>0 DEF Steps
    <2>. QED BY <1>3, <2>1
  <1>4. CASE n # 0
    <2>1. n \in 1..Len(replicas) /\ n - 1 \in 0..Len(replicas) /\ n \in Nat
      BY <1>0, <1>4
    <2>2. PICK f : Steps(f, n - 1)
      BY <1>2, <2>1
    <2>. DEFINE last == IF IsGood(replicas[n])
                        THEN Append(f[n - 1], replicas[n].server) ELSE f[n - 1]
                g == [i \in 0..n |-> IF i = n THEN last ELSE f[i]]
    <2>3. replicas[n].server \in Server
      BY <2>1, EntriesTyped
    <2>4. f[n - 1] \in Seq(Server)
      BY <2>1, <2>2 DEF Steps
    <2>5. last \in Seq(Server)
      BY <2>3, <2>4
    <2>6. \A i \in 0..n : i = n \/ i \in 0..(n - 1)
      BY <2>1
    <2>7. g \in [0..n -> Seq(Server)] /\ g[0] = <<>>
      <3>. HIDE DEF last
      <3>1. \A i \in 0..n : i # n => f[i] \in Seq(Server)
        BY <2>2, <2>6 DEF Steps
      <3>. QED BY <2>1, <2>2, <2>5, <3>1 DEF Steps
    <2>8. ASSUME NEW i \in 1..n
          PROVE  g[i] = IF IsGood(replicas[i])
                        THEN Append(g[i - 1], replicas[i].server) ELSE g[i - 1]
      <3>1. i - 1 \in 0..(n - 1) /\ i - 1 \in 0..n /\ i - 1 # n /\ i \in 0..n
        BY <2>1
      <3>2. g[i - 1] = f[i - 1]
        BY <3>1
      <3>3. CASE i = n
        BY <3>1, <3>2, <3>3
      <3>4. CASE i # n
        <4>1. i \in 1..(n - 1)
          BY <2>1, <3>4
        <4>2. g[i] = f[i]
          BY <3>1, <3>4
        <4>. HIDE DEF g
        <4>. QED BY <2>2, <3>2, <4>1, <4>2 DEF Steps
      <3>. QED BY <3>3, <3>4
    <2>9. Steps(g, n)
      <3>. HIDE DEF g
      <3>. QED BY <2>7, <2>8 DEF Steps
    <2>. QED BY <2>9
  <1>. QED BY <1>3, <1>4

\* Good is the function that its equation describes.
LEMMA GoodSteps ==
  ASSUME PlacementInv
  PROVE  /\ Good[0] = <<>>
         /\ \A n \in 1..Len(replicas) :
              Good[n] = IF IsGood(replicas[n])
                          THEN Append(Good[n - 1], replicas[n].server)
                          ELSE Good[n - 1]
  <1>0. Len(replicas) \in Nat
    BY DEF PlacementInv
  <1>1. PICK f : Steps(f, Len(replicas))
    BY <1>0, StepsExist
  <1>. DEFINE G(h) == [n \in 0..Len(replicas) |->
                        IF n = 0 THEN <<>>
                        ELSE IF IsGood(replicas[n])
                             THEN Append(h[n - 1], replicas[n].server)
                        ELSE h[n - 1]]
  <1>2. f = G(f)
    <2>1. f \in [0..Len(replicas) -> Seq(Server)]
      BY <1>1 DEF Steps
    <2>2. ASSUME NEW n \in 0..Len(replicas) PROVE f[n] = G(f)[n]
      <3>1. n = 0 \/ n \in 1..Len(replicas)
        BY <1>0
      <3>. QED BY <1>1, <3>1 DEF Steps
    <2>. QED BY <2>1, <2>2
  <1>3. Good = G(Good)
    <2>1. \E h : h = G(h)
      BY <1>2
    <2>2. Good = CHOOSE h : h = G(h)
      BY DEF Good
    <2>. HIDE DEF G
    <2>. QED BY <2>1, <2>2
  <1>. HIDE DEF Good
  <1>4. Good[0] = <<>>
    <2>1. 0 \in 0..Len(replicas)
      BY <1>0
    <2>2. G(Good)[0] = <<>>
      BY <2>1
    <2>. QED BY <1>3, <2>2
  <1>5. ASSUME NEW n \in 1..Len(replicas)
        PROVE  Good[n] = IF IsGood(replicas[n])
                           THEN Append(Good[n - 1], replicas[n].server)
                           ELSE Good[n - 1]
    <2>1. n \in 0..Len(replicas) /\ n # 0
      BY <1>0
    <2>2. G(Good)[n] = IF IsGood(replicas[n])
                         THEN Append(Good[n - 1], replicas[n].server)
                         ELSE Good[n - 1]
      BY <2>1
    <2>. QED BY <1>3, <2>2
  <1>. QED BY <1>4, <1>5

\* Whom Good names: the servers of the good entries, by the least m of which
\* that is false.
LEMMA GoodServers ==
  ASSUME PlacementInv, NEW m \in 0..Len(replicas)
  PROVE  /\ Good[m] \in Seq(Server)
         /\ \A s : (\E k \in 1..Len(Good[m]) : Good[m][k] = s)
                     <=> \E i \in 1..m : /\ IsGood(replicas[i])
                                         /\ replicas[i].server = s
  <1>. DEFINE Named(n) == /\ Good[n] \in Seq(Server)
                          /\ \A s : (\E k \in 1..Len(Good[n]) : Good[n][k] = s)
                               <=> \E i \in 1..n : /\ IsGood(replicas[i])
                                                   /\ replicas[i].server = s
              T == {n \in 0..Len(replicas) : ~Named(n)}
  <1>0. Len(replicas) \in Nat
    BY EntriesTyped
  <1>1. SUFFICES ASSUME m \in T PROVE FALSE
    OBVIOUS
  <1>2. PICK n \in T : \A k \in T : n <= k
    <2>1. T \in SUBSET Nat /\ T # {}
      <3>. HIDE DEF Named
      <3>. QED BY <1>0, <1>1
    <2>. HIDE DEF T
    <2>. QED BY <2>1, LeastNumber
  <1>3. CASE n = 0
    <2>1. Good[0] = <<>> /\ Len(<<>>) = 0 /\ <<>> \in Seq(Server)
      BY GoodSteps
    <2>2. \A k : k \notin 1..0
      OBVIOUS
    <2>3. Named(0)
      BY <2>1, <2>2
    <2>. HIDE DEF Named
    <2>. QED BY <1>3, <2>3
  <1>4. CASE n # 0
    <2>0. n \in 0..Len(replicas) /\ ~Named(n)
      <3>. HIDE DEF Named
      <3>. QED BY <1>2
    <2>1. n \in 1..Len(replicas) /\ n - 1 \in 0..Len(replicas) /\ n \in Nat
      BY <1>0, <1>4, <2>0
    <2>2. Named(n - 1)
      <3>1. ~(n <= n - 1)
        BY <2>1
      <3>2. n - 1 \notin T
        <4>. HIDE DEF T
        <4>. QED BY <1>2, <3>1
      <3>. HIDE DEF Named
      <3>. QED BY <2>1, <3>2
    <2>3. \A i \in 1..n : i \in 1..(n - 1) \/ i = n
      BY <2>1
    <2>4. 1..(n - 1) \subseteq 1..n /\ n \in 1..n
      BY <2>1
    <2>5. CASE IsGood(replicas[n])
      <3>. DEFINE g == Good[n - 1]
                  s == replicas[n].server
      <3>1. Good[n] = Append(g, s) /\ s \in Server
        BY <2>1, <2>5, GoodSteps, EntriesTyped
      <3>2. g \in Seq(Server)
        BY <2>2
      <3>3. /\ Append(g, s) \in Seq(Server) /\ Len(Append(g, s)) = Len(g) + 1
            /\ Append(g, s)[Len(g) + 1] = s
            /\ \A i \in 1..Len(g) : Append(g, s)[i] = g[i]
        <4>. HIDE DEF g, s
        <4>. QED BY <3>1, <3>2
      <3>4. /\ \A i \in 1..(Len(g) + 1) : i \in 1..Len(g) \/ i = Len(g) + 1
            /\ 1..Len(g) \subseteq 1..(Len(g) + 1) /\ Len(g) + 1 \in 1..(Len(g) + 1)
        <4>. HIDE DEF g
        <4>. QED BY <3>2
      <3>5. \A t : (\E k \in 1..Len(Good[n]) : Good[n][k] = t)
                     <=> (\E k \in 1..Len(g) : g[k] = t) \/ t = s
        <4>. HIDE DEF g, s
        <4>. QED BY <3>1, <3>3, <3>4
      <3>6. \A t : (\E i \in 1..n : IsGood(replicas[i]) /\ replicas[i].server = t)
                     <=> (\E i \in 1..(n - 1) : IsGood(replicas[i])
                                                /\ replicas[i].server = t) \/ t = s
        BY <2>3, <2>4, <2>5
      <3>7. Named(n)
        BY <2>2, <3>1, <3>3, <3>5, <3>6
      <3>. HIDE DEF Named
      <3>. QED BY <2>0, <3>7
    <2>6. CASE ~IsGood(replicas[n])
      <3>1. Good[n] = Good[n - 1]
        BY <2>1, <2>6, GoodSteps
      <3>2. Named(n)
        BY <2>2, <2>3, <2>4, <2>6, <3>1
      <3>. HIDE DEF Named
      <3>. QED BY <2>0, <3>2
    <2>. QED BY <2>5, <2>6
  <1>. QED BY <1>3, <1>4

\* The block's servers are those of its good copies and those CheckReplica
\* excepts.
LEMMA HasAndExcept ==
  ASSUME PlacementInv
  PROVE  /\ Has \in Seq(Server) /\ Len(Has) \in Nat
         /\ \A s : s \in {r.server : r \in Range(replicas)}
                     <=> (\E k \in 1..Len(Has) : Has[k] = s) \/ s \in Except
         /\ \A k \in 1..Len(Has) : Has[k] \in usable
  <1>1. Len(replicas) \in Nat /\ Len(replicas) \in 0..Len(replicas)
    BY EntriesTyped
  <1>2. /\ Has \in Seq(Server)
        /\ \A s : (\E k \in 1..Len(Has) : Has[k] = s)
                    <=> \E i \in 1..Len(replicas) : /\ IsGood(replicas[i])
                                                   /\ replicas[i].server = s
    BY <1>1, GoodServers DEF Has
  <1>3. Range(replicas) = {replicas[i] : i \in 1..Len(replicas)}
    BY DEF Range, PlacementInv
  <1>4. \A s : s \in Except <=> \E i \in 1..Len(replicas) :
                                     ~IsGood(replicas[i]) /\ replicas[i].server = s
    BY <1>3 DEF Except
  <1>5. \A s : s \in {r.server : r \in Range(replicas)}
                 <=> \E i \in 1..Len(replicas) : replicas[i].server = s
    BY <1>3
  <1>6. \A s : s \in {r.server : r \in Range(replicas)}
                 <=> (\E k \in 1..Len(Has) : Has[k] = s) \/ s \in Except
    BY <1>2, <1>4, <1>5
  <1>7. \A i \in 1..Len(replicas) : IsGood(replicas[i]) => replicas[i].server \in usable
    BY DEF IsGood
  <1>8. \A k \in 1..Len(Has) : Has[k] \in usable
    BY <1>2, <1>7
  <1>9. Len(Has) \in Nat
    BY <1>2
  <1>. QED BY <1>2, <1>6, <1>8, <1>9

\* What the invariant says of the next Distribute.
LEMMA FreshPlaces ==
  ASSUME PlacementInv
  PROVE  PlacesFreshServers
  <1>1. Has \in Seq(Server)
    BY HasAndExcept
  <1>. SUFFICES ASSUME NEW ret \in Results
                PROVE  /\ IsInjective(ret)
                       /\ Range(ret) \subseteq
                            usable \ {r.server : r \in Range(replicas)}
                       /\ ret = <<>> \/ Len(ret) <= blockCount
                       /\ (ret # <<>> /\ blockCount <= 3)
                            => Len(Has) + Len(ret) <= blockCount
    BY DEF PlacesFreshServers
  <1>2. ret \in Distribute(Has, Except)
    BY DEF Results
  <1>3. /\ Chosen(Has, Except, ret)
        /\ ret = <<>> \/ Len(ret) <= blockCount
        /\ (ret # <<>> /\ blockCount <= 3) => Len(Has) + Len(ret) <= blockCount
    <2>. HIDE DEF Has, Except
    <2>. QED BY <1>1, <1>2, DistributeFresh
  <1>4. IsInjective(ret)
    BY <1>3 DEF Chosen, IsInjective
  <1>5. Range(ret) = {ret[i] : i \in 1..Len(ret)}
    BY <1>3 DEF Chosen, Range
  <1>6. \A i \in 1..Len(ret) :
          /\ ret[i] \in usable /\ ret[i] \notin Except
          /\ ~ \E k \in 1..Len(Has) : Has[k] = ret[i]
    BY <1>3 DEF Chosen
  <1>7. \A i \in 1..Len(ret) :
          ret[i] \in usable \ {r.server : r \in Range(replicas)}
    BY <1>6, HasAndExcept
  <1>. QED BY <1>3, <1>4, <1>5, <1>7

\* A sequence of servers as a function.
LEMMA SequenceDomain ==
  ASSUME NEW ret \in Seq(Server)
  PROVE  /\ Len(ret) \in Nat /\ DOMAIN ret = 1..Len(ret)
         /\ \A i \in 1..Len(ret) : ret[i] \in Server
  OBVIOUS

\* Entries for servers are entries.
LEMMA MadeEntries ==
  ASSUME NEW r \in Seq(Server), NEW h, h \in BOOLEAN
  PROVE  Entries(r, h) \in Seq(Copy)
  <1>1. /\ Len(r) \in Nat /\ DOMAIN r = 1..Len(r)
        /\ \A i \in 1..Len(r) : r[i] \in Server
    BY SequenceDomain, Zenon
  <1>2. \A s \in Server : [server |-> s, healthy |-> h] \in Copy
    BY DEF Copy
  <1>3. Entries(r, h) = [i \in 1..Len(r) |-> [server |-> r[i], healthy |-> h]]
    BY <1>1 DEF Entries
  <1>4. \A i \in 1..Len(r) : [server |-> r[i], healthy |-> h] \in Copy
    BY <1>1, <1>2
  <1>5. Entries(r, h) \in [1..Len(r) -> Copy]
    BY <1>3, <1>4
  <1>6. \A n \in Nat : [1..n -> Copy] \subseteq Seq(Copy)
    OBVIOUS
  <1>7. Entries(r, h) \in Seq(Copy)
    BY <1>1, <1>5, <1>6, Zenon
  <1>. QED BY <1>7

\* A block without entries in a cluster without servers.
LEMMA PlacementInvInit ==
  PlacementInit => PlacementInv
  BY DEF PlacementInit, PlacementInv

\* One step per action of Placement.
LEMMA PlacementInvNext ==
  PlacementInv /\ [PlacementNext]_placementVars => PlacementInv'
  <1>. SUFFICES ASSUME PlacementInv, [PlacementNext]_placementVars PROVE PlacementInv'
    OBVIOUS
  <1>0. /\ layout \in Layouts /\ blockCount \in BlockCounts
        /\ registered \subseteq Server /\ usable \subseteq registered
        /\ replicas \in Seq(Copy)
    BY DEF PlacementInv
  <1>1. CASE UNCHANGED placementVars
    BY <1>0, <1>1 DEF placementVars, PlacementInv
  <1>2. ASSUME NEW s \in Server, Register(s) PROVE PlacementInv'
    BY <1>0, <1>2 DEF Register, PlacementInv
  <1>3. ASSUME NEW s \in Server, Unusable(s) PROVE PlacementInv'
    BY <1>0, <1>3 DEF Unusable, PlacementInv
  <1>4. CASE Write
    <2>1. PICK ret \in Distribute(<<>>, {}) : replicas' = Entries(ret, TRUE)
      BY <1>4 DEF Write
    <2>2. ret \in Seq(Server)
      <3>1. <<>> \in Seq(Server)
        OBVIOUS
      <3>. QED BY <2>1, <3>1, DistributeFresh DEF Chosen
    <2>3. replicas' \in Seq(Copy)
      BY <2>1, <2>2, MadeEntries, Zenon
    <2>. QED BY <1>0, <1>4, <2>3 DEF Write, PlacementInv
  <1>5. CASE CheckReplica
    <2>1. PICK ret \in Distribute(Has, Except), healthy \in BOOLEAN :
                 replicas' = replicas \o Entries(ret, healthy)
      BY <1>5 DEF CheckReplica
    <2>2. ret \in Seq(Server)
      BY <2>1, HasAndExcept, DistributeFresh DEF Chosen
    <2>3. Entries(ret, healthy) \in Seq(Copy)
      BY <2>2, MadeEntries, Zenon
    <2>4. replicas' \in Seq(Copy)
      <3>. QED BY <1>0, <2>1, <2>3
    <2>. QED BY <1>0, <1>5, <2>4 DEF CheckReplica, PlacementInv
  <1>6. ASSUME NEW s \in registered, NEW healthy \in BOOLEAN,
               ReportReplica(s, healthy)
        PROVE  PlacementInv'
    <2>1. replicas' \in Seq(Copy)
      <3>1. CASE \E r \in Range(replicas) : r.server = s
        <4>. DEFINE e == [i \in DOMAIN replicas |->
                           IF replicas[i].server = s
                           THEN [replicas[i] EXCEPT !.healthy = healthy]
                           ELSE replicas[i]]
        <4>1. replicas' = e
          BY <1>6, <3>1 DEF ReportReplica
        <4>2. DOMAIN replicas = 1..Len(replicas) /\ Len(replicas) \in Nat
          BY <1>0
        <4>3. \A i \in 1..Len(replicas) : replicas[i] \in Copy
          BY EntriesTyped
        <4>4. \A x \in Copy : [x EXCEPT !.healthy = healthy] \in Copy
          BY DEF Copy
        <4>5. e \in [1..Len(replicas) -> Copy]
          BY <4>2, <4>3, <4>4
        <4>. QED BY <4>1, <4>2, <4>5
      <3>2. CASE ~ \E r \in Range(replicas) : r.server = s
        <4>1. replicas' = replicas \o Entries(<<s>>, healthy)
          BY <1>6, <3>2 DEF ReportReplica
        <4>2. <<s>> \in Seq(Server)
          BY <1>0
        <4>3. Entries(<<s>>, healthy) \in Seq(Copy)
          BY <4>2, MadeEntries, Zenon
        <4>. QED BY <1>0, <4>1, <4>3
      <3>. QED BY <3>1, <3>2
    <2>. QED BY <1>0, <1>6, <2>1 DEF ReportReplica, PlacementInv
  <1>. QED BY <1>1, <1>2, <1>3, <1>4, <1>5, <1>6 DEF PlacementNext

\* The invariant, for every finite cluster, layout and block count.
THEOREM PlacementSafe ==
  PlacementSpec => []PlacementInv
  BY PlacementInvInit, PlacementInvNext, PTL DEF PlacementSpec

\* Distribute never returns a server that the block has an entry on, one that
\* is not usable, one twice, or more than it was asked for
\* (DefaultDataCluster::Distribute with Block::CheckReplica's lists).
THEOREM PlacedFresh ==
  PlacementSpec => []PlacesFreshServers
  BY PlacementSafe, FreshPlaces, PTL

-----------------------------------------------------------------------------
\* Where the second copy goes when the base's center has another rack with a
\* free server.
LEMMA OtherRack ==
  ASSUME PlacementInv, NEW b \in registered, NEW free \in SUBSET usable,
         NEW s \in free, CenterOf(s) = CenterOf(b), RackOf(s) # RackOf(b)
  PROVE  /\ s \in Remote(b, free)
         /\ \A t \in Remote(b, free) : RackOf(t) # RackOf(b)
  <1>. DEFINE racks == Racks(CenterOf(b))
  <1>1. s \in registered
    BY DEF PlacementInv
  <1>2. RackOf(s) \in racks
    BY <1>1 DEF Racks
  <1>3. Visited(racks, RackOf(b)) = racks \ {RackOf(b)}
    <2>. HIDE DEF racks
    <2>. QED BY <1>2 DEF Visited
  <1>4. s \in InCenter(CenterOf(b), RackOf(b), free)
    BY <1>2, <1>3 DEF InCenter
  <1>5. Remote(b, free) = InCenter(CenterOf(b), RackOf(b), free)
    BY <1>4 DEF Remote
  <1>6. \A t \in InCenter(CenterOf(b), RackOf(b), free) :
          RackOf(t) # RackOf(b)
    BY <1>3 DEF InCenter
  <1>. QED BY <1>4, <1>5, <1>6

\* A server that the walks reach.
LEMMA RemoteIsFound ==
  ASSUME PlacementInv, NEW b \in registered,
         NEW s \in Free(Has, Except, <<>>), s \in WithinReach(b)
  PROVE  Remote(b, Free(Has, Except, <<>>)) # {}
  <1>. DEFINE free == Free(Has, Except, <<>>)
              racks == Racks(CenterOf(b))
  <1>1. free \in SUBSET usable /\ s \in free
    BY DEF Free
  <1>2. s \in registered
    BY <1>1 DEF PlacementInv
  <1>3. CenterOf(s) \in Centers /\ CenterOf(b) \in Centers
    BY <1>2 DEF Centers
  <1>4. \/ Cardinality(Centers) = 1
        \/ racks = {RackOf(b)}
        \/ RackOf(s) # RackOf(b)
    BY DEF WithinReach
  <1>. HIDE DEF free
  <1>5. CASE CenterOf(s) # CenterOf(b)
    <2>1. CenterOf(s) \in Visited(Centers, CenterOf(b))
      <3>. HIDE DEF Centers, CenterOf
      <3>. QED BY <1>3, <1>5 DEF Visited
    <2>2. s \in Anywhere(CenterOf(b), free)
      BY <1>1, <2>1 DEF Anywhere
    <2>. QED BY <2>2 DEF Remote, free
  <1>6. CASE CenterOf(s) = CenterOf(b) /\ RackOf(s) # RackOf(b)
    BY <1>1, <1>6, OtherRack DEF free
  <1>7. CASE CenterOf(s) = CenterOf(b) /\ racks = {RackOf(b)}
    <2>1. RackOf(s) \in racks
      BY <1>2, <1>7 DEF Racks
    <2>2. RackOf(s) \in Visited(racks, RackOf(b))
      <3>. HIDE DEF racks
      <3>. QED BY <1>7, <2>1 DEF Visited
    <2>3. s \in InCenter(CenterOf(b), RackOf(b), free)
      BY <1>1, <1>7, <2>2 DEF InCenter
    <2>. QED BY <2>3 DEF Remote, free
  <1>8. CASE CenterOf(s) = CenterOf(b) /\ Cardinality(Centers) = 1
    <2>1. IsFiniteSet(Centers)
      <3>1. IsFiniteSet(registered)
        <4>1. IsFiniteSet(Server)
          BY PlacementAssumption
        <4>. QED BY <4>1, FS_Subset DEF PlacementInv
      <3>. DEFINE f == [x \in registered |-> CenterOf(x)]
      <3>2. f \in Surjection(registered, Centers)
        <4>1. \A x \in registered : CenterOf(x) \in Centers
          BY DEF Centers
        <4>2. f \in [registered -> Centers]
          BY <4>1
        <4>3. \A c \in Centers : \E x \in registered : f[x] = c
          BY DEF Centers
        <4>. HIDE DEF f
        <4>. QED BY <4>2, <4>3 DEF Surjection
      <3>. HIDE DEF f
      <3>. QED BY <3>1, <3>2, FS_Surjection
    <2>2. Centers = {CenterOf(b)}
      <3>1. Cardinality(Centers) = 1
        BY <1>8
      <3>2. PICK c : Centers = {c}
        <4>. HIDE DEF Centers
        <4>. QED BY <2>1, <3>1, FS_Singleton
      <3>. QED BY <1>3, <3>2
    <2>3. CenterOf(s) \in Visited(Centers, CenterOf(b))
      <3>. HIDE DEF Centers, CenterOf
      <3>. QED BY <1>3, <2>2 DEF Visited
    <2>4. s \in Anywhere(CenterOf(b), free)
      BY <1>1, <2>3 DEF Anywhere
    <2>. QED BY <2>4 DEF Remote, free
  <1>. QED BY <1>4, <1>5, <1>6, <1>7, <1>8

\* The second copy, once a server was found for it, is in every result.
LEMMA SecondIsRemote ==
  ASSUME PlacementInv, NEW base, NEW old \in Seq(Server), NEW except, NEW add,
         NEW k \in Nat, Len(add) = k, Chosen(old, except, add),
         NEW a \in Seconds(base, old, except, add),
         NEW m \in More(old, except, a),
         Remote(base, Free(old, except, add)) # {}
  PROVE  /\ Chosen(old, except, m) /\ Len(m) \in Nat /\ Len(m) >= k + 1
         /\ m[k + 1] \in Remote(base, Free(old, except, add))
         /\ \A i \in 1..k : m[i] = add[i]
  <1>. DEFINE free == Remote(base, Free(old, except, add))
  <1>1. PICK s \in free : /\ Chosen(old, except, Append(add, s))
                          /\ Len(Append(add, s)) = Len(add) + 1
                          /\ Append(add, s)[Len(add) + 1] = s
                          /\ Continues(add, Append(add, s))
                          /\ a \in Thirds(old, except, Append(add, s))
    BY SecondCopy
  <1>. DEFINE b == Append(add, s)
  <1>2. /\ Chosen(old, except, b) /\ Len(b) = k + 1 /\ b[k + 1] = s
        /\ Continues(add, b) /\ a \in Thirds(old, except, b) /\ s \in free
    BY <1>1
  <1>. HIDE DEF b, free
  <1>3. Chosen(old, except, a) /\ Continues(b, a)
    BY <1>2, ThirdCopy
  <1>4. Chosen(old, except, m) /\ Continues(a, m)
    BY <1>3, MoreCopies
  <1>5. /\ add \in Seq(Server) /\ a \in Seq(Server) /\ b \in Seq(Server)
        /\ m \in Seq(Server) /\ Len(m) \in Nat
    BY <1>2, <1>3, <1>4 DEF Chosen
  <1>6. Continues(b, m) /\ Continues(add, m)
    BY <1>2, <1>3, <1>4, <1>5, ContinuesTwice
  <1>7. Len(m) >= k + 1 /\ m[k + 1] = s
    <2>1. k + 1 \in 1..Len(b)
      BY <1>2
    <2>. QED BY <1>2, <1>5, <1>6, <2>1 DEF Continues
  <1>8. \A i \in 1..k : m[i] = add[i]
    BY <1>6 DEF Continues
  <1>. QED BY <1>2, <1>4, <1>5, <1>7, <1>8 DEF free

\* An empty result means that no server is within reach.
LEMMA RepairFinds ==
  ASSUME PlacementInv
  PROVE  RepairFindsServer
  <1>. DEFINE has == Has
              except == Except
              free == Free(has, except, <<>>)
  <1>1. SUFFICES ASSUME has # <<>>, Len(has) < blockCount,
                        WithinReach(has[1]) # {}, <<>> \in Results
                 PROVE  FALSE
    BY DEF RepairFindsServer
  <1>2. /\ has \in Seq(Server) /\ Len(has) \in Nat
        /\ \A k \in 1..Len(has) : has[k] \in usable
    BY HasAndExcept
  <1>3. blockCount \in Nat \ {0}
    BY PlacementAssumption DEF PlacementInv
  <1>4. Len(has) >= 1 /\ Head(has) = has[1] /\ has[1] \in registered
    <2>. HIDE DEF has
    <2>1. Len(has) >= 1 /\ Head(has) = has[1]
      BY <1>1, <1>2
    <2>. QED BY <1>2, <2>1 DEF PlacementInv
  <1>5. Remote(has[1], free) # {}
    <2>1. PICK s \in WithinReach(has[1]) : TRUE
      BY <1>1
    <2>2. s \in free
      BY <2>1 DEF WithinReach
    <2>. QED BY <1>4, <2>1, <2>2, RemoteIsFound
  <1>6. <<>> \in Distribute(has, except)
    BY <1>1 DEF Results
  <1>. HIDE DEF has, except
  <1>7. PICK a \in Seconds(has[1], has, except, <<>>) :
               <<>> \in More(has, except, a)
    BY <1>1, <1>2, <1>3, <1>4, <1>6 DEF Distribute
  <1>8. Len(<<>>) = 0 /\ 0 \in Nat /\ Chosen(has, except, <<>>)
    BY NothingChosen
  <1>9. Len(<<>>) >= 0 + 1
    BY <1>2, <1>5, <1>7, <1>8, SecondIsRemote
  <1>. QED BY <1>8, <1>9

\* The second copy is in another rack if there is a server for it.
LEMMA SpansRacks ==
  ASSUME PlacementInv
  PROVE  SpansTwoRacks
  <1>. DEFINE has == Has
              except == Except
  <1>. SUFFICES ASSUME Len(has) < blockCount, blockCount > 1,
                       NEW ret \in Results,
                       Len(has \o ret) > 0,
                       NEW s \in Free(has \o ret, except, <<>>),
                       CenterOf(s) = CenterOf((has \o ret)[1]),
                       RackOf(s) # RackOf((has \o ret)[1])
                PROVE  \E i \in DOMAIN (has \o ret) :
                         RackOf((has \o ret)[i]) # RackOf((has \o ret)[1])
    BY DEF SpansTwoRacks
  <1>0. blockCount \in Nat \ {0}
    BY PlacementAssumption DEF PlacementInv
  <1>1. /\ has \in Seq(Server) /\ Len(has) \in Nat
        /\ \A k \in 1..Len(has) : has[k] \in usable
    BY HasAndExcept
  <1>2. ret \in Distribute(has, except)
    BY DEF Results
  <1>3. RepairFindsServer
    BY RepairFinds
  <1>. HIDE DEF except, Has
  <1>4. ret \in Seq(Server) /\ Len(ret) \in Nat
    BY <1>1, <1>2, DistributeFresh DEF Chosen
  <1>. DEFINE all == has \o ret
  <1>5. /\ all \in Seq(Server) /\ Len(all) = Len(has) + Len(ret)
        /\ DOMAIN all = 1..(Len(has) + Len(ret))
        /\ \A i \in 1..(Len(has) + Len(ret)) :
             all[i] = IF i <= Len(has) THEN has[i] ELSE ret[i - Len(has)]
    BY <1>1, <1>4
  <1>6. /\ s \in usable /\ s \in registered /\ s \notin except
        /\ \A k \in 1..Len(all) : all[k] # s
    <2>1. s \in usable /\ s \notin except /\ \A k \in 1..Len(all) : all[k] # s
      <3>1. s \in Free(all, except, <<>>)
        OBVIOUS
      <3>. HIDE DEF has, all
      <3>. QED BY <1>5, <3>1, FreeOfOld
    <2>. QED BY <2>1 DEF PlacementInv
  <1>7. /\ \A k \in 1..Len(has) : k \in 1..Len(all) /\ all[k] = has[k]
        /\ \A k \in 1..Len(ret) : Len(has) + k \in 1..Len(all)
                                  /\ all[Len(has) + k] = ret[k]
    <2>1. \A k \in 1..Len(has) : k \in 1..(Len(has) + Len(ret)) /\ k <= Len(has)
      BY <1>1, <1>4
    <2>2. \A k \in 1..Len(ret) : /\ Len(has) + k \in 1..(Len(has) + Len(ret))
                                 /\ ~(Len(has) + k <= Len(has))
                                 /\ (Len(has) + k) - Len(has) = k
      BY <1>1, <1>4
    <2>. HIDE DEF all
    <2>. QED BY <1>5, <2>1, <2>2
  <1>8. 1 \in 1..Len(all)
    BY <1>1, <1>4, <1>5
  <1>9. CASE has # <<>>
    <2>1. Len(has) >= 1 /\ Head(has) = has[1] /\ 1 \in 1..Len(has)
      BY <1>1, <1>9
    <2>2. all[1] = has[1] /\ has[1] \in registered
      BY <1>1, <1>7, <2>1 DEF PlacementInv
    <2>3. s \in Free(has, except, <<>>)
      <3>1. \A k \in 1..Len(has) : has[k] # s
        BY <1>6, <1>7
      <3>. HIDE DEF has
      <3>. QED BY <1>1, <1>6, <3>1, FreeOfOld
    <2>4. CenterOf(s) = CenterOf(has[1]) /\ RackOf(s) # RackOf(has[1])
      BY <2>2
    <2>5. Free(has, except, <<>>) \in SUBSET usable
      BY DEF Free
    <2>6. /\ s \in Remote(has[1], Free(has, except, <<>>))
          /\ \A t \in Remote(has[1], Free(has, except, <<>>)) :
               RackOf(t) # RackOf(has[1])
      BY <2>2, <2>3, <2>4, <2>5, OtherRack
    <2>7. s \in WithinReach(has[1])
      BY <2>3, <2>4 DEF WithinReach, except
    <2>8. ret # <<>>
      BY <1>3, <1>9, <2>7 DEF RepairFindsServer
    <2>9. PICK a \in Seconds(has[1], has, except, <<>>) :
                 ret \in More(has, except, a)
      BY <1>1, <1>2, <1>9, <2>1, <2>8, DistributeSteps
    <2>10. Len(<<>>) = 0 /\ 0 \in Nat /\ Chosen(has, except, <<>>)
      BY NothingChosen
    <2>11. /\ Len(ret) >= 0 + 1
           /\ ret[0 + 1] \in Remote(has[1], Free(has, except, <<>>))
      BY <1>1, <2>6, <2>9, <2>10, SecondIsRemote
    <2>12. Len(ret) >= 1 /\ 1 \in 1..Len(ret) /\ RackOf(ret[1]) # RackOf(has[1])
      BY <1>4, <2>6, <2>11
    <2>13. Len(has) + 1 \in 1..Len(all) /\ all[Len(has) + 1] = ret[1]
      BY <1>7, <2>12
    <2>. QED BY <1>5, <2>2, <2>12, <2>13
  <1>10. CASE has = <<>>
    <2>1. Len(has) = 0 /\ <<>> \in Seq(Server)
      BY <1>10
    <2>2. /\ Len(all) = Len(ret)
          /\ \A k \in 1..Len(ret) : k \in 1..Len(all) /\ all[k] = ret[k]
      BY <1>4, <1>5, <1>7, <2>1
    <2>3. Len(ret) >= 1 /\ 1 \in 1..Len(ret) /\ ret # <<>>
      BY <1>4, <1>8, <2>2
    <2>4. PICK b \in Free(<<>>, except, <<>>) :
                 \E a \in Seconds(b, <<>>, except, <<b>>) :
                   ret \in More(<<>>, except, a)
      <3>1. ret \in Distribute(<<>>, except) /\ Len(<<>>) < blockCount
        BY <1>2, <1>10
      <3>2. \/ <<>> # <<>>
            \/ \E b \in Free(<<>>, except, <<>>) :
                 IF blockCount = 1 THEN ret = <<b>>
                 ELSE \E a \in Seconds(b, <<>>, except, <<b>>) :
                        ret \in More(<<>>, except, a)
        BY <2>1, <2>3, <3>1, DistributeSteps, Zenon
      <3>3. blockCount # 1
        BY <1>0
      <3>. QED BY <3>2, <3>3, Zenon
    <2>5. PICK a \in Seconds(b, <<>>, except, <<b>>) :
                 ret \in More(<<>>, except, a)
      BY <2>4
    <2>6. b \in usable /\ b \in registered
      BY <2>4 DEF Free, PlacementInv
    <2>7. /\ Chosen(<<>>, except, <<b>>) /\ Len(<<b>>) = 1 /\ <<b>>[1] = b
          /\ <<b>> \in Seq(Server)
      <3>1. Append(<<>>, b) = <<b>>
        OBVIOUS
      <3>2. Chosen(<<>>, except, Append(<<>>, b))
        BY <2>1, <2>4, AddOne, NothingChosen
      <3>. QED BY <3>1, <3>2, <2>6 DEF PlacementInv
    <2>8. ret[1] = b
      <3>1. Chosen(<<>>, except, a) /\ Continues(<<b>>, a)
        BY <2>1, <2>5, <2>7, SecondAndThird
      <3>2. Chosen(<<>>, except, ret) /\ Continues(a, ret)
        BY <2>1, <2>5, <3>1, MoreCopies
      <3>3. a \in Seq(Server) /\ ret \in Seq(Server)
        BY <3>1, <3>2 DEF Chosen
      <3>4. Continues(<<b>>, ret)
        BY <2>7, <3>1, <3>2, <3>3, ContinuesTwice
      <3>. QED BY <2>7, <3>4 DEF Continues
    <2>9. all[1] = b
      BY <2>2, <2>3, <2>8
    <2>10. s # b
      BY <1>6, <1>8, <2>9
    <2>11. s \in Free(<<>>, except, <<b>>)
      <3>1. b \in Server
        BY <2>6 DEF PlacementInv
      <3>. QED BY <1>6, <2>10, <3>1, FreeAfterOne
    <2>12. Free(<<>>, except, <<b>>) \in SUBSET usable
      BY DEF Free
    <2>13. CenterOf(s) = CenterOf(b) /\ RackOf(s) # RackOf(b)
      BY <2>9
    <2>14. /\ s \in Remote(b, Free(<<>>, except, <<b>>))
           /\ \A t \in Remote(b, Free(<<>>, except, <<b>>)) :
                RackOf(t) # RackOf(b)
      BY <2>6, <2>11, <2>12, <2>13, OtherRack
    <2>15. /\ Len(ret) >= 1 + 1
           /\ ret[1 + 1] \in Remote(b, Free(<<>>, except, <<b>>))
      BY <2>1, <2>5, <2>7, <2>14, SecondIsRemote
    <2>16. Len(ret) >= 2 /\ 2 \in 1..Len(ret) /\ RackOf(ret[2]) # RackOf(b)
      BY <1>4, <2>14, <2>15
    <2>17. 2 \in 1..Len(all) /\ all[2] = ret[2]
      BY <2>2, <2>16
    <2>. QED BY <1>5, <2>9, <2>16, <2>17
  <1>. QED BY <1>9, <1>10

\* CheckReplica's repair is not empty while a free server is within reach of
\* the walks over centers and racks that step over the excluded one.
THEOREM RepairsFind ==
  PlacementSpec => []RepairFindsServer
  BY PlacementSafe, RepairFinds, PTL

\* A block of two copies or more spans two racks, be it new or repaired, while
\* another rack of the first copy's center has a free server.
THEOREM CopiesSpan ==
  PlacementSpec => []SpansTwoRacks
  BY PlacementSafe, SpansRacks, PTL

-----------------------------------------------------------------------------
(***************************************************************************)
(* What MasterBlock takes from Distribute.  The rest of its record has no  *)
(* part in Placements: the usable servers are the same in both modules.    *)
(***************************************************************************)
CONSTANTS Rack, BlockCount, WriteLease, RecoverLease, RecoverAndWriteInterval,
          TermWidth, MaxNow, Reported, Sizes, MaxReplicas
VARIABLES now, version, expectVersion, lease, size, recoverLease, record

M == INSTANCE MasterBlock WITH replicas <- record

\* Every result of Distribute is one that MasterBlock allows: with old empty it
\* is what Block::Write asks for, with the block's good servers what
\* Block::CheckReplica asks for (RepairRoom).
THEOREM MasterTakesPlacements ==
  ASSUME PlacementInv, NEW old \in Seq(Server), Len(old) <= blockCount, NEW except,
         NEW ret \in Distribute(old, except)
  PROVE  ret \in M!Placements({old[k] : k \in 1..Len(old)} \cup except,
                              IF blockCount <= 3 THEN blockCount - Len(old)
                              ELSE blockCount)
  <1>. DEFINE excluded == {old[k] : k \in 1..Len(old)} \cup except
              room == IF blockCount <= 3 THEN blockCount - Len(old) ELSE blockCount
  <1>1. /\ Chosen(old, except, ret)
        /\ ret = <<>> \/ Len(ret) <= blockCount
        /\ (ret # <<>> /\ blockCount <= 3) => Len(old) + Len(ret) <= blockCount
    BY DistributeFresh
  <1>2. blockCount \in Nat /\ Len(old) \in Nat
    BY PlacementAssumption DEF PlacementInv
  <1>3. /\ ret \in Seq(Server) /\ Len(ret) \in Nat
        /\ \A i \in 1..Len(ret) : ret[i] \in usable \ excluded
        /\ \A i, j \in 1..Len(ret) : ret[i] = ret[j] => i = j
    BY <1>1 DEF Chosen
  <1>4. Len(ret) \in 0..room
    <2>1. ret = <<>> => Len(ret) = 0
      OBVIOUS
    <2>. QED BY <1>1, <1>2, <1>3, <2>1
  <1>. HIDE DEF excluded, room
  <1>5. ret \in [1..Len(ret) -> usable \ excluded] /\ M!IsInjective(ret)
    BY <1>3 DEF M!IsInjective
  <1>6. ret \in M!Placements(excluded, room)
    BY <1>4, <1>5 DEF M!Placements
  <1>. QED BY <1>6 DEF excluded, room

-----------------------------------------------------------------------------
(***************************************************************************)
(* The content of files.                                                   *)
(***************************************************************************)
\* The place in the file of the kth batch of block b.
At(b, k) == (b - 1) * BlockSize + k

\* How many blocks there are.
Blocks == SizeRange \div BlockSize

\* The space of the sizes is a whole number of blocks.
LEMMA BlockNumbers ==
  /\ Blocks \in Nat \ {0} /\ Block = 1..Blocks /\ Blocks * BlockSize = SizeRange
  /\ BlockSize \in Nat \ {0} /\ SizeRange \in Nat \ {0}
<1>1. /\ BlockSize \in Nat \ {0} /\ SizeRange \in Nat \ {0}
      /\ SizeRange % BlockSize = 0
  BY FileTransferAssumption
<1>2. /\ SizeRange = BlockSize * (SizeRange \div BlockSize) + (SizeRange % BlockSize)
      /\ SizeRange \div BlockSize \in Int
  BY <1>1, SMT
<1>3. BlockSize * Blocks = SizeRange /\ Blocks \in Int
  BY <1>1, <1>2 DEF Blocks
<1>4. Blocks > 0 /\ Blocks * BlockSize = SizeRange
  BY <1>1, <1>3, SMT
<1>. QED BY <1>1, <1>3, <1>4 DEF Block, Blocks

\* Blocks lie behind one another.
LEMMA Laid ==
  ASSUME NEW b \in 1..Blocks
  PROVE  /\ At(b, 0) \in Nat /\ At(b, 0) + BlockSize <= SizeRange
         /\ \A k \in Int : At(b, k) = At(b, 0) + k
         /\ At(b + 1, 0) = At(b, 0) + BlockSize
         /\ \A d \in 1..Blocks : b < d => At(b, 0) + BlockSize <= At(d, 0)
         /\ b = 1 => At(b, 0) = 0
<1>0. Blocks \in Nat \ {0} /\ Blocks * BlockSize = SizeRange /\ BlockSize \in Nat \ {0}
  BY BlockNumbers
<1>. DEFINE W(d) == d * BlockSize
<1>1. \A d, e \in Int : W(d) \in Int /\ (d <= e => W(d) <= W(e))
                        /\ W(d + 1) = W(d) + BlockSize
  <2>1. \A d, e \in Int : W(d) \in Int /\ W(d + 1) = W(d) + BlockSize
    BY <1>0, SMT
  <2>2. ASSUME NEW d \in Int, NEW e \in Int, d <= e PROVE W(d) <= W(e)
    <3>1. PICK x \in Nat : e = d + x
      <4>1. e - d \in Nat /\ e = d + (e - d)
        BY <2>2
      <4>. QED BY <4>1
    <3>2. W(d + x) = W(d) + x * BlockSize /\ x * BlockSize \in Nat
      BY <1>0, SMT
    <3>. QED BY <2>1, <3>1, <3>2
  <2>. QED BY <2>1, <2>2
<1>2. W(0) = 0 /\ W(Blocks) = SizeRange
  BY <1>0, SMT
<1>3. \A d, k : At(d, k) = W(d - 1) + k
  BY DEF At
<1>. HIDE DEF W
<1>4. b \in Int /\ b - 1 \in Int /\ b + 1 \in Int /\ 0 <= b - 1 /\ b <= Blocks
      /\ (b + 1) - 1 = b /\ (b - 1) + 1 = b
  BY <1>0
<1>5. W(b - 1) \in Int /\ W(0) <= W(b - 1) /\ W(b) = W(b - 1) + BlockSize
      /\ W(b) <= W(Blocks)
  <2>1. W(b - 1) \in Int
    BY <1>1, <1>4
  <2>2. 0 \in Int /\ Blocks \in Int
    BY <1>0
  <2>3. W(0) <= W(b - 1)
    BY <1>1, <1>4, <2>2
  <2>4. W((b - 1) + 1) = W(b - 1) + BlockSize
    BY <1>1, <1>4
  <2>5. W(b) <= W(Blocks)
    BY <1>1, <1>4, <2>2
  <2>. QED BY <1>4, <2>1, <2>3, <2>4, <2>5
<1>6. ASSUME NEW d \in 1..Blocks, b < d PROVE At(b, 0) + BlockSize <= At(d, 0)
  <2>1. d \in Int /\ d - 1 \in Int /\ b <= d - 1
    BY <1>0, <1>4, <1>6
  <2>2. W(b) <= W(d - 1) /\ W(d - 1) \in Int
    BY <1>1, <1>4, <2>1
  <2>. QED BY <1>0, <1>3, <1>5, <2>2
<1>. QED BY <1>0, <1>2, <1>3, <1>4, <1>5, <1>6

\* Where a place is.
LEMMA Located ==
  ASSUME NEW n \in 0..(SizeRange - 1)
  PROVE  /\ n \div BlockSize + 1 \in Block
         /\ At(n \div BlockSize + 1, 0) <= n
         /\ n < At(n \div BlockSize + 1, 0) + BlockSize
<1>0. Blocks \in Nat \ {0} /\ Blocks * BlockSize = SizeRange /\ BlockSize \in Nat \ {0}
      /\ Block = 1..Blocks /\ SizeRange \in Nat
  BY BlockNumbers
<1>. DEFINE q == n \div BlockSize
<1>1. /\ n = BlockSize * q + (n % BlockSize)
      /\ q \in Int /\ n % BlockSize \in 0..(BlockSize - 1)
  BY <1>0, SMT
<1>. HIDE DEF q
<1>2. q >= 0
  BY <1>0, <1>1, SMT
<1>3. q < Blocks
  <2>1. SUFFICES ASSUME q >= Blocks PROVE FALSE
    BY <1>0, <1>1
  <2>2. q * BlockSize >= Blocks * BlockSize
    BY <1>0, <1>1, <2>1, SMT
  <2>. QED BY <1>0, <1>1, <2>2, SMT
<1>4. At(q + 1, 0) = BlockSize * q
  BY <1>0, <1>1, SMT DEF At
<1>5. q + 1 \in Block
  BY <1>0, <1>1, <1>2, <1>3
<1>6. BlockSize * q \in Int
  BY <1>0, <1>1, SMT
<1>7. At(q + 1, 0) <= n /\ n < At(q + 1, 0) + BlockSize
  BY <1>0, <1>1, <1>4, <1>6
<1>. QED BY <1>5, <1>7 DEF q

\* Each place is one of a block.
LEMMA EachPlace ==
  ASSUME NEW i \in 1..SizeRange
  PROVE  \E b \in 1..Blocks, k \in 1..BlockSize : i = At(b, k)
<1>0. SizeRange \in Nat /\ BlockSize \in Nat /\ Blocks \in Nat
  BY BlockNumbers
<1>b. Block = 1..Blocks
  BY BlockNumbers
<1>1. i - 1 \in 0..(SizeRange - 1)
  BY <1>0
<1>. DEFINE b == (i - 1) \div BlockSize + 1
<1>2. b \in 1..Blocks /\ At(b, 0) <= i - 1 /\ i - 1 < At(b, 0) + BlockSize
  BY <1>0, <1>b, <1>1, Located
<1>. HIDE DEF b
<1>3. At(b, 0) \in Nat /\ \A k \in Int : At(b, k) = At(b, 0) + k
  BY <1>2, Laid
<1>4. i - At(b, 0) \in 1..BlockSize /\ i = At(b, i - At(b, 0))
  BY <1>0, <1>2, <1>3
<1>. QED BY <1>2, <1>4

-----------------------------------------------------------------------------
\* Blocks are filled one after another.
Filled(s) ==
  /\ s \in [Block -> Seq(Batch)]
  /\ \A b \in Block : /\ Len(s[b]) <= BlockSize
                      /\ (b > 1 /\ s[b] # <<>>) => Len(s[b - 1]) = BlockSize

\* f is what the first m blocks hold.
Flat(f, s, m) ==
  /\ f \in Seq(Batch) /\ Len(f) <= At(m, BlockSize)
  /\ \A b \in 1..m, k \in 1..BlockSize :
       /\ At(b, k) <= Len(f) <=> k <= Len(s[b])
       /\ k <= Len(s[b]) => f[At(b, k)] = s[b][k]

LEMMA FlatFirst ==
  ASSUME NEW s, Filled(s)
  PROVE  Flat(s[1], s, 1)
<1>0. Blocks \in Nat \ {0} /\ BlockSize \in Nat \ {0}
  BY BlockNumbers
<1>b. Block = 1..Blocks
  BY BlockNumbers
<1>1. 1 \in Block /\ 1 \in 1..Blocks
  BY <1>0, <1>b
<1>2. At(1, 0) = 0 /\ \A k \in Int : At(1, k) = At(1, 0) + k
  BY <1>1, Laid
<1>3. \A k \in Int : At(1, k) = k
  BY <1>2
<1>4. s[1] \in Seq(Batch) /\ Len(s[1]) <= BlockSize
  BY <1>1 DEF Filled
<1>5. \A b \in 1..1 : b = 1
  OBVIOUS
<1>. QED BY <1>0, <1>3, <1>4, <1>5 DEF Flat

LEMMA FlatNext ==
  ASSUME NEW s, Filled(s), NEW m \in 1..(Blocks - 1), NEW f, Flat(f, s, m)
  PROVE  Flat(f \o s[m + 1], s, m + 1)
<1>0. Blocks \in Nat \ {0} /\ BlockSize \in Nat \ {0}
  BY BlockNumbers
<1>b. Block = 1..Blocks
  BY BlockNumbers
<1>1. m \in 1..Blocks /\ m + 1 \in 1..Blocks /\ m + 1 \in Block /\ m \in Block
      /\ m \in Nat /\ (m + 1) - 1 = m /\ m + 1 > 1
  BY <1>0, <1>b
<1>2. At(m, 0) \in Nat /\ At(m + 1, 0) = At(m, 0) + BlockSize
      /\ At(m, BlockSize) = At(m, 0) + BlockSize
      /\ At(m + 1, BlockSize) = At(m + 1, 0) + BlockSize
  BY <1>0, <1>1, Laid
<1>q. \A k \in Int : At(m + 1, k) = At(m + 1, 0) + k
  BY <1>1, Laid
<1>3. s[m + 1] \in Seq(Batch) /\ Len(s[m + 1]) <= BlockSize
      /\ Len(s[m + 1]) \in Nat
      /\ (s[m + 1] # <<>> => Len(s[m]) = BlockSize)
  <2>1. s[m + 1] \in Seq(Batch) /\ Len(s[m + 1]) <= BlockSize
    BY <1>1 DEF Filled
  <2>2. s[m + 1] # <<>> => Len(s[(m + 1) - 1]) = BlockSize
    BY <1>1 DEF Filled
  <2>. QED BY <1>1, <2>1, <2>2
<1>4. f \in Seq(Batch) /\ Len(f) <= At(m + 1, 0) /\ Len(f) \in Nat
  BY <1>2 DEF Flat
<1>l. Len(f) \in Nat /\ Len(f) <= At(m + 1, 0)
  BY <1>4
<1>5. s[m + 1] # <<>> => Len(f) = At(m + 1, 0)
  <2>1. SUFFICES ASSUME s[m + 1] # <<>> PROVE Len(f) >= At(m, BlockSize)
    BY <1>0, <1>2, <1>l
  <2>2. m \in 1..m /\ BlockSize \in 1..BlockSize /\ BlockSize <= Len(s[m])
    BY <1>0, <1>1, <1>3, <2>1
  <2>3. At(m, BlockSize) <= Len(f)
    BY <2>2 DEF Flat
  <2>. QED BY <1>2, <1>4, <2>3
<1>. DEFINE g == f \o s[m + 1]
<1>6. /\ g \in Seq(Batch) /\ Len(g) = Len(f) + Len(s[m + 1])
      /\ \A i \in 1..Len(f) : g[i] = f[i]
      /\ \A i \in 1..Len(s[m + 1]) : g[Len(f) + i] = s[m + 1][i]
  BY <1>3, <1>4, ConcatProperties
<1>7. s[m + 1] = <<>> => Len(s[m + 1]) = 0
  BY <1>3
<1>8. Len(g) <= At(m + 1, BlockSize)
  BY <1>0, <1>2, <1>3, <1>4, <1>6
<1>9. ASSUME NEW b \in 1..(m + 1), NEW k \in 1..BlockSize
      PROVE  /\ At(b, k) <= Len(g) <=> k <= Len(s[b])
             /\ k <= Len(s[b]) => g[At(b, k)] = s[b][k]
  <2>. HIDE DEF g
  <2>0. k \in Nat /\ k <= BlockSize /\ k >= 1
    BY <1>0
  <2>1. CASE b = m + 1
    <3>1. At(b, k) = At(m + 1, 0) + k
      BY <1>q, <2>0, <2>1
    <3>2. CASE s[m + 1] = <<>>
      BY <1>0, <1>2, <1>3, <1>4, <1>6, <1>7, <2>0, <2>1, <3>1, <3>2
    <3>3. CASE s[m + 1] # <<>>
      <4>1. Len(f) = At(m + 1, 0)
        BY <1>5, <3>3
      <4>2. k <= Len(s[m + 1]) => k \in 1..Len(s[m + 1])
        BY <1>3, <2>0
      <4>3. At(b, k) = Len(f) + k
        BY <3>1, <4>1
      <4>4. At(b, k) <= Len(g) <=> k <= Len(s[b])
        BY <1>3, <1>l, <1>6, <2>0, <2>1, <4>3
      <4>5. k <= Len(s[b]) => g[At(b, k)] = s[b][k]
        BY <1>6, <2>1, <4>2, <4>3
      <4>. QED BY <4>4, <4>5
    <3>. QED BY <3>2, <3>3
  <2>2. CASE b # m + 1
    <3>1. b \in 1..m /\ b \in 1..Blocks /\ b < m + 1
      BY <1>0, <1>1, <2>2
    <3>2. At(b, k) = At(b, 0) + k /\ At(b, 0) \in Nat
          /\ At(b, 0) + BlockSize <= At(m + 1, 0)
      BY <1>1, <2>0, <3>1, Laid
    <3>3. (At(b, k) <= Len(f) <=> k <= Len(s[b]))
          /\ (k <= Len(s[b]) => f[At(b, k)] = s[b][k])
      BY <3>1 DEF Flat
    <3>4. At(b, k) \in Nat /\ At(b, k) >= 1 /\ At(b, k) <= At(m + 1, 0)
      BY <1>0, <1>2, <2>0, <3>2
    <3>5. At(b, k) <= Len(g) <=> At(b, k) <= Len(f)
      <4>1. CASE s[m + 1] = <<>>
        BY <1>4, <1>6, <1>7, <4>1
      <4>2. CASE s[m + 1] # <<>>
        BY <1>0, <1>2, <1>3, <1>4, <1>5, <1>6, <3>4, <4>2
      <4>. QED BY <4>1, <4>2
    <3>6. At(b, k) <= Len(f) => g[At(b, k)] = f[At(b, k)]
      BY <1>4, <1>6, <3>4
    <3>. QED BY <3>3, <3>5, <3>6
  <2>. QED BY <2>1, <2>2
<1>. QED BY <1>6, <1>8, <1>9 DEF Flat

\* There is one such sequence.
LEMMA FlatUnique ==
  ASSUME NEW s, Filled(s), NEW f, Flat(f, s, Blocks), NEW g, Flat(g, s, Blocks)
  PROVE  f = g
<1>0. Blocks \in Nat \ {0} /\ BlockSize \in Nat \ {0}
      /\ SizeRange \in Nat /\ Blocks \in 1..Blocks
  BY BlockNumbers
<1>b. Block = 1..Blocks
  BY BlockNumbers
<1>1. At(Blocks, BlockSize) <= SizeRange
  BY <1>0, Laid
<1>2. f \in Seq(Batch) /\ g \in Seq(Batch) /\ Len(f) \in 0..SizeRange
      /\ Len(g) \in 0..SizeRange
  <2>1. At(Blocks, BlockSize) \in Int
    BY <1>0, Laid
  <2>2. f \in Seq(Batch) /\ Len(f) <= At(Blocks, BlockSize)
    BY DEF Flat
  <2>3. g \in Seq(Batch) /\ Len(g) <= At(Blocks, BlockSize)
    BY DEF Flat
  <2>. QED BY <1>0, <1>1, <2>1, <2>2, <2>3
<1>3. ASSUME NEW i \in 1..SizeRange
      PROVE  (i <= Len(f) <=> i <= Len(g)) /\ (i <= Len(f) => f[i] = g[i])
  <2>1. PICK b \in 1..Blocks, k \in 1..BlockSize : i = At(b, k)
    BY EachPlace
  <2>. QED BY <2>1 DEF Flat
<1>4. Len(f) = Len(g)
  <2>1. Len(f) > 0 => Len(f) \in 1..SizeRange
    BY <1>0, <1>2
  <2>2. Len(g) > 0 => Len(g) \in 1..SizeRange
    BY <1>0, <1>2
  <2>3. Len(f) > 0 => Len(f) <= Len(g)
    BY <1>2, <1>3, <2>1
  <2>4. Len(g) > 0 => Len(g) <= Len(f)
    BY <1>2, <1>3, <2>2
  <2>. QED BY <1>2, <2>3, <2>4
<1>5. \A i \in 1..Len(f) : f[i] = g[i]
  BY <1>0, <1>2, <1>3
<1>. QED BY <1>2, <1>4, <1>5, SeqEqual

\* f satisfies the equation of FlattenSeq up to m.
Joins(f, s, m) ==
  f = [n \in 1..m |-> IF n = 1 THEN s[n] ELSE f[n - 1] \o s[n]]

\* There is such a function for every m: the least m without one would have it.
LEMMA JoinsExist ==
  ASSUME NEW s, NEW m \in Nat
  PROVE  \E f : Joins(f, s, m)
<1>. DEFINE T == {n \in Nat : ~ \E f : Joins(f, s, n)}
<1>1. SUFFICES ASSUME m \in T PROVE FALSE
  OBVIOUS
<1>2. PICK n \in T : \A k \in T : n <= k
  <2>1. T \in SUBSET Nat /\ T # {}
    BY <1>1
  <2>. HIDE DEF T
  <2>. QED BY <2>1, LeastNumber
<1>3. CASE n = 0
  <2>1. Joins([i \in 1..0 |-> <<>>], s, 0)
    BY DEF Joins
  <2>. QED BY <1>3, <2>1
<1>4. CASE n # 0
  <2>1. n \in Nat /\ n - 1 \in Nat /\ n \in 1..n
    BY <1>4
  <2>2. PICK f : Joins(f, s, n - 1)
    BY <1>2, <2>1
  <2>. DEFINE last == IF n = 1 THEN s[n] ELSE f[n - 1] \o s[n]
              g == [i \in 1..n |-> IF i = n THEN last ELSE f[i]]
  <2>3. ASSUME NEW i \in 1..n
        PROVE  g[i] = IF i = 1 THEN s[i] ELSE g[i - 1] \o s[i]
    <3>. HIDE DEF last
    <3>1. i # 1 => i - 1 \in 1..(n - 1) /\ i - 1 \in 1..n /\ i - 1 # n
      BY <2>1
    <3>2. i # 1 => g[i - 1] = f[i - 1]
      BY <3>1
    <3>3. CASE i = n
      BY <3>2, <3>3 DEF last
    <3>4. CASE i # n
      <4>1. i \in 1..(n - 1)
        BY <2>1, <3>4
      <4>2. g[i] = f[i]
        BY <3>4
      <4>. HIDE DEF g
      <4>. QED BY <2>2, <3>2, <4>1, <4>2 DEF Joins
    <3>. QED BY <3>3, <3>4
  <2>4. g = [i \in 1..n |-> g[i]]
    OBVIOUS
  <2>5. Joins(g, s, n)
    <3>. HIDE DEF g
    <3>. QED BY <2>3, <2>4 DEF Joins
  <2>. QED BY <2>5
<1>. QED BY <1>3, <1>4

\* What FlattenSeq puts together.
LEMMA FlattenJoins ==
  ASSUME NEW s, Len(s) \in Nat \ {0}
  PROVE  \E f : Joins(f, s, Len(s)) /\ FlattenSeq(s) = f[Len(s)]
<1>. DEFINE G(h) == [i \in 1..Len(s) |-> IF i = 1 THEN s[i] ELSE h[i - 1] \o s[i]]
            all == CHOOSE h : h = G(h)
<1>1. PICK f : Joins(f, s, Len(s))
  BY JoinsExist
<1>2. f = G(f)
  BY <1>1 DEF Joins
<1>3. all = G(all)
  <2>1. \E h : h = G(h)
    BY <1>2
  <2>. HIDE DEF G
  <2>. QED BY <2>1
<1>4. FlattenSeq(s) = all[Len(s)]
  BY DEF FlattenSeq
<1>5. Joins(all, s, Len(s))
  <2>. HIDE DEF all
  <2>. QED BY <1>3 DEF Joins
<1>. QED BY <1>4, <1>5

\* The blocks are what they hold, one behind the other.
LEMMA FlattenIsFlat ==
  ASSUME NEW s, Filled(s)
  PROVE  Flat(FlattenSeq(s), s, Blocks)
<1>0. Blocks \in Nat \ {0} /\ BlockSize \in Nat \ {0}
  BY BlockNumbers
<1>1. Len(s) = Blocks
  BY BlockNumbers DEF Filled
<1>2. PICK f : Joins(f, s, Blocks) /\ FlattenSeq(s) = f[Blocks]
  BY <1>0, <1>1, FlattenJoins
<1>. DEFINE T == {n \in 1..Blocks : ~Flat(f[n], s, n)}
<1>3. SUFFICES ASSUME T # {} PROVE FALSE
  BY <1>0, <1>2
<1>4. PICK n \in T : \A k \in T : n <= k
  <2>1. T \in SUBSET Nat
    BY <1>0
  <2>. HIDE DEF T
  <2>. QED BY <1>3, <2>1, LeastNumber
<1>5. CASE n = 1
  BY <1>2, <1>4, <1>5, FlatFirst DEF Joins
<1>6. CASE n # 1
  <2>1. n - 1 \in 1..(Blocks - 1) /\ n - 1 \in 1..Blocks /\ (n - 1) + 1 = n
        /\ n \in 1..Blocks /\ ~(n <= n - 1)
    BY <1>0, <1>4, <1>6
  <2>2. Flat(f[n - 1], s, n - 1)
    BY <1>4, <2>1
  <2>3. Flat(f[n - 1] \o s[(n - 1) + 1], s, (n - 1) + 1)
    BY <2>1, <2>2, FlatNext
  <2>4. f[n] = f[n - 1] \o s[n]
    BY <1>2, <1>6, <2>1 DEF Joins
  <2>. QED BY <1>4, <2>1, <2>3, <2>4
<1>. QED BY <1>5, <1>6

LEMMA Stored ==
  ASSUME NEW s, Filled(s)
  PROVE  /\ FlattenSeq(s) \in Seq(Batch)
         /\ Len(FlattenSeq(s)) \in 0..SizeRange
         /\ \A b \in 1..Blocks, k \in 1..BlockSize :
              /\ At(b, k) <= Len(FlattenSeq(s)) <=> k <= Len(s[b])
              /\ k <= Len(s[b]) => FlattenSeq(s)[At(b, k)] = s[b][k]
<1>0. Blocks \in Nat \ {0} /\ BlockSize \in Nat \ {0} /\ SizeRange \in Nat
      /\ Blocks \in 1..Blocks
  BY BlockNumbers
<1>1. Flat(FlattenSeq(s), s, Blocks)
  BY FlattenIsFlat
<1>2. At(Blocks, BlockSize) \in Int /\ At(Blocks, BlockSize) <= SizeRange
  BY <1>0, Laid
<1>3. FlattenSeq(s) \in Seq(Batch)
      /\ Len(FlattenSeq(s)) <= At(Blocks, BlockSize)
  BY <1>1 DEF Flat
<1>4. Len(FlattenSeq(s)) \in Nat
  BY <1>3
<1>5. Len(FlattenSeq(s)) \in 0..SizeRange
  BY <1>0, <1>2, <1>3, <1>4
<1>. QED BY <1>1, <1>3, <1>5 DEF Flat

\* Where there is room behind all that is stored: in a block that is not full,
\* behind full ones.
LEMMA EndOfFile ==
  ASSUME NEW s, Filled(s), NEW b \in 1..Blocks,
         Len(s[b]) < BlockSize, b > 1 => Len(s[b - 1]) = BlockSize
  PROVE  /\ Len(s[b]) \in 0..(BlockSize - 1)
         /\ Len(FlattenSeq(s)) = At(b, 0) + Len(s[b])
<1>0. Blocks \in Nat \ {0} /\ BlockSize \in Nat \ {0} /\ SizeRange \in Nat
  BY BlockNumbers
<1>1. s[b] \in Seq(Batch)
  BY BlockNumbers DEF Filled
<1>. DEFINE l == Len(s[b])
            n == Len(FlattenSeq(s))
<1>2. l \in 0..(BlockSize - 1) /\ n \in Nat
  BY <1>0, <1>1, Stored
<1>3. ASSUME NEW k \in 1..BlockSize
      PROVE  At(b, 0) + k <= n <=> k <= l
  <2>1. At(b, k) = At(b, 0) + k
    BY <1>0, Laid
  <2>. QED BY <2>1, Stored
<1>4. At(b, 0) \in Nat
  BY Laid
<1>5. At(b, 0) <= n
  <2>1. CASE b = 1
    BY <1>2, <2>1, Laid
  <2>2. CASE b # 1
    <3>1. b - 1 \in 1..Blocks /\ b > 1 /\ (b - 1) + 1 = b
          /\ BlockSize \in 1..BlockSize
      BY <1>0, <2>2
    <3>2. At(b - 1, BlockSize) <= n
      BY <1>0, <3>1, Stored
    <3>3. At((b - 1) + 1, 0) = At(b - 1, 0) + BlockSize
      BY <3>1, Laid
    <3>4. At(b - 1, BlockSize) = At(b - 1, 0) + BlockSize
      BY <1>0, <3>1, Laid
    <3>. QED BY <3>1, <3>2, <3>3, <3>4
  <2>. QED BY <2>1, <2>2
<1>. HIDE DEF l, n
<1>6. l > 0 => At(b, 0) + l <= n
  BY <1>0, <1>2, <1>3
<1>7. ~(At(b, 0) + (l + 1) <= n)
  <2>1. l + 1 \in 1..BlockSize /\ ~(l + 1 <= l)
    BY <1>0, <1>2
  <2>. QED BY <1>3, <2>1
<1>8. n = At(b, 0) + l
  BY <1>2, <1>4, <1>5, <1>6, <1>7
<1>. QED BY <1>2, <1>8 DEF l, n

\* A batch that is added to a block is added to the file.
LEMMA Appended ==
  ASSUME NEW s, Filled(s), NEW b \in 1..Blocks, NEW x \in Batch,
         Len(s[b]) < BlockSize, b > 1 => Len(s[b - 1]) = BlockSize
  PROVE  LET t == [s EXCEPT ![b] = Append(@, x)]
         IN  Filled(t) /\ FlattenSeq(t) = Append(FlattenSeq(s), x)
<1>. DEFINE t == [s EXCEPT ![b] = Append(@, x)]
            f == FlattenSeq(s)
            g == Append(f, x)
            l == Len(s[b])
<1>0. Blocks \in Nat \ {0} /\ BlockSize \in Nat \ {0} /\ SizeRange \in Nat
      /\ Blocks \in 1..Blocks
  BY BlockNumbers
<1>b. Block = 1..Blocks
  BY BlockNumbers
<1>1. s \in [Block -> Seq(Batch)] /\ b \in Block /\ s[b] \in Seq(Batch)
  BY <1>b DEF Filled
<1>2. /\ t \in [Block -> Seq(Batch)]
      /\ t[b] = Append(s[b], x) /\ \A d \in Block : d # b => t[d] = s[d]
  BY <1>1
<1>3. l \in 0..(BlockSize - 1) /\ Len(f) = At(b, 0) + l
  BY EndOfFile
<1>4. f \in Seq(Batch) /\ Len(f) \in Nat /\ Len(f) <= SizeRange
  BY <1>0, Stored
<1>5. Len(t[b]) = l + 1 /\ t[b] # <<>> /\ t[b][l + 1] = x
      /\ \A k \in 1..l : t[b][k] = s[b][k]
  BY <1>1, <1>2
<1>. HIDE DEF t
<1>6. Filled(t)
  <2>1. ASSUME NEW d \in Block
        PROVE  /\ Len(t[d]) <= BlockSize
               /\ (d > 1 /\ t[d] # <<>>) => Len(t[d - 1]) = BlockSize
    <3>1. d \in 1..Blocks /\ d \in Nat
      BY <1>0, <1>b
    <3>2. Len(s[d]) <= BlockSize
          /\ ((d > 1 /\ s[d] # <<>>) => Len(s[d - 1]) = BlockSize)
      BY DEF Filled
    <3>3. d > 1 => d - 1 \in Block
      BY <1>0, <1>b, <3>1
    <3>4. d > 1 /\ d - 1 = b => s[d] = <<>>
      BY <1>0, <1>3, <3>2
    <3>5. Len(t[d]) <= BlockSize
      BY <1>0, <1>2, <1>3, <1>5, <3>2
    <3>6. ASSUME d > 1, t[d] # <<>> PROVE Len(t[d - 1]) = BlockSize
      <4>1. CASE d = b
        <5>1. t[d - 1] = s[d - 1]
          BY <1>2, <3>1, <3>3, <3>6, <4>1
        <5>. QED BY <3>6, <4>1, <5>1
      <4>2. CASE d # b
        <5>1. s[d] # <<>>
          BY <1>2, <3>6, <4>2
        <5>2. d - 1 # b
          BY <3>4, <3>6, <5>1
        <5>. QED BY <1>2, <3>2, <3>3, <3>6, <5>1, <5>2
      <4>. QED BY <4>1, <4>2
    <3>. QED BY <3>5, <3>6
  <2>. QED BY <1>2, <2>1 DEF Filled
<1>7. g \in Seq(Batch) /\ Len(g) = Len(f) + 1 /\ g[Len(f) + 1] = x
      /\ \A i \in 1..Len(f) : g[i] = f[i]
  BY <1>4
<1>. HIDE DEF g, f, l
<1>8. At(b, 0) \in Nat
  BY Laid
<1>9. ASSUME NEW d \in 1..Blocks, NEW k \in 1..BlockSize
      PROVE  /\ At(d, k) <= Len(g) <=> k <= Len(t[d])
             /\ k <= Len(t[d]) => g[At(d, k)] = t[d][k]
  <2>1. At(d, k) = At(d, 0) + k /\ At(d, 0) \in Nat /\ k \in Nat /\ d \in Nat
        /\ 1 <= k /\ k <= BlockSize
    <3>1. k \in Nat /\ d \in Nat /\ 1 <= k /\ k <= BlockSize /\ k \in Int
      BY <1>0
    <3>. QED BY <3>1, Laid
  <2>2. /\ At(d, k) <= Len(f) <=> k <= Len(s[d])
        /\ k <= Len(s[d]) => f[At(d, k)] = s[d][k]
    BY Stored DEF f
  <2>3. CASE d = b
    <3>1. At(d, k) <= Len(g) <=> k <= l + 1
      BY <1>3, <1>4, <1>7, <1>8, <2>1, <2>3
    <3>2. CASE k = l + 1
      <4>1. At(d, k) = Len(f) + 1
        BY <1>3, <1>8, <2>1, <2>3, <3>2
      <4>. QED BY <1>5, <1>7, <2>3, <3>1, <3>2, <4>1
    <3>3. CASE k <= l
      <4>1. At(d, k) \in 1..Len(f) /\ k \in 1..l
        BY <1>3, <1>4, <1>8, <2>1, <2>3, <3>3
      <4>2. k <= Len(s[d]) /\ k <= l + 1
        BY <1>3, <2>1, <2>3, <3>3 DEF l
      <4>. QED BY <1>5, <1>7, <2>2, <2>3, <3>1, <4>1, <4>2
    <3>4. CASE k > l + 1
      BY <1>3, <1>5, <2>1, <2>3, <3>1, <3>4
    <3>. QED BY <1>3, <2>1, <3>2, <3>3, <3>4
  <2>4. CASE d < b
    <3>1. At(d, 0) + BlockSize <= At(b, 0)
      BY <2>4, Laid
    <3>2. At(d, k) \in 1..Len(f) /\ At(d, k) <= Len(f) + 1
      BY <1>0, <1>3, <1>4, <1>8, <2>1, <3>1
    <3>3. t[d] = s[d]
      BY <1>2, <1>b, <2>1, <2>4
    <3>. QED BY <1>7, <2>2, <3>2, <3>3
  <2>5. CASE d > b
    <3>1. At(b, 0) + BlockSize <= At(d, 0)
      BY <2>5, Laid
    <3>2. ~(At(d, k) <= Len(f) + 1) /\ ~(At(d, k) <= Len(f))
      BY <1>0, <1>3, <1>4, <1>8, <2>1, <3>1
    <3>3. t[d] = s[d]
      BY <1>2, <1>b, <2>1, <2>5
    <3>. QED BY <1>7, <2>2, <3>2, <3>3
  <2>. QED BY <1>0, <2>1, <2>3, <2>4, <2>5
<1>10. Len(g) <= At(Blocks, BlockSize)
  <2>1. At(Blocks, BlockSize) = At(Blocks, 0) + BlockSize /\ At(Blocks, 0) \in Nat
    <3>1. Blocks \in 1..Blocks /\ BlockSize \in Int
      BY <1>0
    <3>. HIDE DEF Blocks
    <3>. QED BY <3>1, Laid
  <2>2. b = Blocks \/ At(b, 0) + BlockSize <= At(Blocks, 0)
    <3>1. b = Blocks \/ b < Blocks
      BY <1>0
    <3>. QED BY <1>0, <3>1, Laid
  <2>3. Len(g) <= At(b, 0) + BlockSize
    BY <1>0, <1>3, <1>7, <1>8
  <2>. QED BY <1>0, <1>4, <1>7, <1>8, <2>1, <2>2, <2>3
<1>11. Flat(g, t, Blocks)
  BY <1>7, <1>9, <1>10 DEF Flat
<1>12. FlattenSeq(t) = g
  BY <1>6, <1>11, FlattenIsFlat, FlatUnique
<1>. QED BY <1>6, <1>12 DEF t, g, f

\* A batch that is replaced in a block is replaced in the file.
LEMMA Replaced ==
  ASSUME NEW s, Filled(s), NEW b \in 1..Blocks, NEW x \in Batch,
         NEW i \in DOMAIN s[b]
  PROVE  LET t == [s EXCEPT ![b][i] = x]
         IN  /\ Filled(t) /\ At(b, i) \in DOMAIN FlattenSeq(s)
             /\ FlattenSeq(t) = [FlattenSeq(s) EXCEPT ![At(b, i)] = x]
<1>. DEFINE t == [s EXCEPT ![b][i] = x]
            f == FlattenSeq(s)
            g == [f EXCEPT ![At(b, i)] = x]
<1>0. Blocks \in Nat \ {0} /\ BlockSize \in Nat \ {0} /\ SizeRange \in Nat
      /\ Blocks \in 1..Blocks
  BY BlockNumbers
<1>b. Block = 1..Blocks
  BY BlockNumbers
<1>1. s \in [Block -> Seq(Batch)] /\ b \in Block /\ s[b] \in Seq(Batch)
      /\ Len(s[b]) <= BlockSize
  BY <1>b DEF Filled
<1>2. i \in 1..BlockSize /\ i <= Len(s[b])
  BY <1>0, <1>1
<1>3. /\ t \in [Block -> Seq(Batch)]
      /\ \A d \in Block : Len(t[d]) = Len(s[d]) /\ DOMAIN t[d] = DOMAIN s[d]
      /\ \A d \in Block : \A k \in 1..Len(s[d]) :
           t[d][k] = IF d = b /\ k = i THEN x ELSE s[d][k]
  <2>1. t[b] = [s[b] EXCEPT ![i] = x] /\ \A d \in Block : d # b => t[d] = s[d]
    BY <1>1
  <2>2. t = [s EXCEPT ![b] = [s[b] EXCEPT ![i] = x]]
    BY <1>1
  <2>. HIDE DEF t
  <2>3. /\ [s[b] EXCEPT ![i] = x] \in Seq(Batch)
        /\ Len([s[b] EXCEPT ![i] = x]) = Len(s[b])
        /\ \A k \in 1..Len(s[b]) :
             [s[b] EXCEPT ![i] = x][k] = IF k = i THEN x ELSE s[b][k]
    BY <1>1, ExceptSeq
  <2>4. t \in [Block -> Seq(Batch)]
    BY <1>1, <2>2, <2>3
  <2>5. \A d \in Block : Len(t[d]) = Len(s[d])
    BY <2>1, <2>3
  <2>6. \A d \in Block : DOMAIN t[d] = 1..Len(t[d]) /\ DOMAIN s[d] = 1..Len(s[d])
    BY <1>1, <2>4
  <2>7. \A d \in Block : \A k \in 1..Len(s[d]) :
          t[d][k] = IF d = b /\ k = i THEN x ELSE s[d][k]
    BY <2>1, <2>3
  <2>. QED BY <2>4, <2>5, <2>6, <2>7
<1>4. f \in Seq(Batch) /\ Len(f) \in Nat /\ Len(f) <= SizeRange
  BY <1>0, Stored
<1>5. At(b, i) \in 1..Len(f)
  <2>1. At(b, i) <= Len(f)
    BY <1>2, Stored
  <2>2. At(b, i) = At(b, 0) + i /\ At(b, 0) \in Nat /\ i \in Nat /\ i >= 1
    <3>1. i \in Nat /\ i \in Int /\ i >= 1
      BY <1>0, <1>2
    <3>. QED BY <3>1, Laid
  <2>. QED BY <1>4, <2>1, <2>2
<1>6. At(b, i) \in DOMAIN f
  BY <1>4, <1>5
<1>7. g \in Seq(Batch) /\ Len(g) = Len(f)
      /\ \A j \in 1..Len(f) : g[j] = IF j = At(b, i) THEN x ELSE f[j]
  BY <1>4, <1>6, ExceptSeq
<1>. HIDE DEF t, f, g
<1>8. Filled(t)
  <2>1. ASSUME NEW d \in Block
        PROVE  /\ Len(t[d]) <= BlockSize
               /\ (d > 1 /\ t[d] # <<>>) => Len(t[d - 1]) = BlockSize
    <3>1. Len(s[d]) <= BlockSize
          /\ ((d > 1 /\ s[d] # <<>>) => Len(s[d - 1]) = BlockSize)
      BY DEF Filled
    <3>2. d \in Nat /\ (d > 1 => d - 1 \in Block)
      <4>1. d \in 1..Blocks
        BY <1>b
      <4>2. d \in Nat /\ (d > 1 => d - 1 \in 1..Blocks)
        BY <1>0, <4>1
      <4>. QED BY <1>b, <4>2
    <3>3. t[d] # <<>> => s[d] # <<>>
      <4>1. t[d] \in Seq(Batch) /\ s[d] \in Seq(Batch) /\ Len(t[d]) = Len(s[d])
        BY <1>1, <1>3
      <4>. QED BY <4>1
    <3>. QED BY <1>3, <3>1, <3>2, <3>3
  <2>. QED BY <1>3, <2>1 DEF Filled
<1>9. ASSUME NEW d \in 1..Blocks, NEW k \in 1..BlockSize
      PROVE  /\ At(d, k) <= Len(g) <=> k <= Len(t[d])
             /\ k <= Len(t[d]) => g[At(d, k)] = t[d][k]
  <2>1. /\ At(d, k) <= Len(f) <=> k <= Len(s[d])
        /\ k <= Len(s[d]) => f[At(d, k)] = s[d][k]
    BY Stored DEF f
  <2>2. d \in Block /\ Len(t[d]) = Len(s[d]) /\ Len(s[d]) \in Nat
    BY <1>b, <1>1, <1>3
  <2>3. SUFFICES ASSUME k <= Len(s[d]) PROVE g[At(d, k)] = t[d][k]
    BY <1>7, <2>1, <2>2
  <2>4. k \in Nat /\ k \in Int /\ k >= 1 /\ k \in 1..Len(s[d]) /\ d \in Nat
        /\ k <= BlockSize
    BY <1>0, <2>2, <2>3
  <2>5. At(d, k) = At(d, 0) + k /\ At(d, 0) \in Nat
    BY <2>4, Laid
  <2>6. At(b, i) = At(b, 0) + i /\ At(b, 0) \in Nat /\ i \in Nat /\ i >= 1
        /\ i <= BlockSize /\ b \in Nat
    <3>1. i \in Nat /\ i \in Int /\ i >= 1 /\ i <= BlockSize /\ b \in Nat
      BY <1>0, <1>2
    <3>. QED BY <3>1, Laid
  <2>7. At(d, k) = At(b, i) => d = b /\ k = i
    <3>1. d < b => At(d, 0) + BlockSize <= At(b, 0)
      BY Laid
    <3>2. b < d => At(b, 0) + BlockSize <= At(d, 0)
      BY Laid
    <3>3. d = b => At(d, 0) = At(b, 0)
      OBVIOUS
    <3>. QED BY <1>0, <2>4, <2>5, <2>6, <3>1, <3>2, <3>3
  <2>8. At(d, k) \in 1..Len(f)
    BY <1>4, <2>1, <2>3, <2>4, <2>5
  <2>9. t[d][k] = IF d = b /\ k = i THEN x ELSE s[d][k]
    BY <1>3, <2>2, <2>4
  <2>. QED BY <1>7, <2>1, <2>3, <2>7, <2>8, <2>9
<1>10. Len(g) <= At(Blocks, BlockSize)
  <2>1. Flat(f, s, Blocks)
    BY FlattenIsFlat DEF f
  <2>. QED BY <1>7, <2>1 DEF Flat
<1>11. Flat(g, t, Blocks)
  BY <1>7, <1>9, <1>10 DEF Flat
<1>12. FlattenSeq(t) = g
  BY <1>8, <1>11, FlattenIsFlat, FlatUnique
<1>. QED BY <1>6, <1>8, <1>12 DEF t, g, f

-----------------------------------------------------------------------------
Call == [pc : {"out", "ask", "send", "done", "stopped"}, size : Int, pos : Nat,
         failed : BOOLEAN, block : Nat]

\* A call of Start.  The block that is appended to has only full ones before it.
CallOf(c, p, s) ==
  /\ p \in Call
  /\ p.pos <= Local[c].full /\ p.size < SizeRange
  /\ p.pc = "out" => p.size = 0
  /\ p.pc = "send" => /\ p.block \in Block
                      /\ \/ p.pos < p.size
                         \/ p.block > 1 => Len(s[p.block - 1]) = BlockSize

PutInv == /\ put \in [Client -> Call]
          /\ \A c \in Client : CallOf(c, put[c], blocks)

\* What the master has heard of is stored.
SizeInv == /\ fileSize \in 0..(SizeRange - 1) /\ fileSize <= Len(Content)
           /\ \A r \in reports : /\ r \in Block \X (1..BlockSize)
                                 /\ r[2] <= Len(blocks[r[1]])

\* A batch that has been read is there, or its place has been overwritten.
ReadInv ==
  /\ get.got \in Seq(Batch) /\ Len(get.got) <= Len(Content)
  /\ \A i \in 1..Len(get.got) : \/ get.got[i] = Content[i]
                                \/ put[Content[i][1]].size > 0

\* The download is in the block that its next batch is in.
GetInv ==
  /\ get \in [pc : {"out", "read", "end"}, size : 0..(SizeRange - 1),
              block : Nat, got : Seq(Batch)]
  /\ get.size <= Len(Content)
  /\ get.pc = "out" => get.block = 1 /\ get.got = <<>>
  /\ get.pc = "read" => /\ get.block \in Block /\ Signed(get.size) > 0
                        /\ At(get.block, 0) <= Len(get.got)
                        /\ Len(get.got) < At(get.block, 0) + BlockSize
                        /\ Len(get.got) < get.size
  /\ get.pc = "end" /\ Signed(get.size) > 0 => Len(get.got) = get.size

TransferInv == Filled(blocks) /\ PutInv /\ SizeInv /\ ReadInv /\ GetInv

\* Of what is stored, a step takes nothing away, and replaces batches only by
\* those of who overwrites.
Keeps ==
  /\ Filled(blocks')
  /\ \A b \in Block : Len(blocks[b]) <= Len(blocks'[b])
  /\ Len(Content) <= Len(Content')
  /\ \A i \in 1..Len(Content) : \/ Content'[i] = Content[i]
                                \/ put'[Content'[i][1]].size > 0
  /\ \A c \in Client : put[c].size > 0 => put'[c].size > 0

LEMMA KeptLengths ==
  ASSUME Filled(blocks)
  PROVE  /\ Content \in Seq(Batch) /\ Len(Content) \in 0..SizeRange
         /\ \A b \in Block : Len(blocks[b]) \in 0..BlockSize
<1>1. Content \in Seq(Batch) /\ Len(Content) \in 0..SizeRange
  BY Stored DEF Content
<1>2. ASSUME NEW b \in Block PROVE Len(blocks[b]) \in 0..BlockSize
  <2>1. blocks[b] \in Seq(Batch) /\ Len(blocks[b]) <= BlockSize
    BY DEF Filled
  <2>. QED BY <2>1, BlockNumbers
<1>. QED BY <1>1, <1>2

LEMMA ClientOf ==
  ASSUME NEW f \in Seq(Batch), NEW i \in 1..Len(f)
  PROVE  f[i][1] \in Client /\ f[i] \in Batch
<1>1. f[i] \in Batch
  OBVIOUS
<1>2. PICK c \in Client : f[i] \in {c} \X (0..LastBatch(c))
  BY <1>1 DEF Batch
<1>. QED BY <1>1, <1>2

\* What a step keeps.
LEMMA PutKept ==
  ASSUME TransferInv, Keeps, NEW c \in Client, put' \in [Client -> Call],
         \A d \in Client : d # c => put'[d] = put[d],
         CallOf(c, put'[c], blocks')
  PROVE  PutInv'
<1>1. ASSUME NEW d \in Client, d # c PROVE CallOf(d, put[d], blocks')
  <2>1. CallOf(d, put[d], blocks)
    BY DEF TransferInv, PutInv
  <2>. DEFINE p == put[d]
  <2>2. SUFFICES ASSUME p.pc = "send", p.block > 1,
                        Len(blocks[p.block - 1]) = BlockSize
                 PROVE  Len(blocks'[p.block - 1]) = BlockSize
    BY <2>1 DEF CallOf
  <2>3. p.block - 1 \in Block
    <3>1. p.block \in 1..Blocks
      BY <2>1, <2>2, BlockNumbers DEF CallOf
    <3>2. p.block - 1 \in 1..Blocks
      BY <2>2, <3>1, BlockNumbers
    <3>. QED BY <3>2, BlockNumbers
  <2>4. /\ Len(blocks'[p.block - 1]) <= BlockSize
        /\ Len(blocks[p.block - 1]) <= Len(blocks'[p.block - 1])
        /\ Len(blocks'[p.block - 1]) \in Nat
    <3>1. blocks'[p.block - 1] \in Seq(Batch)
      BY <2>3 DEF Keeps, Filled
    <3>. QED BY <2>3, <3>1 DEF Keeps, Filled
  <2>. QED BY <2>2, <2>4, BlockNumbers
<1>. QED BY <1>1 DEF PutInv

LEMMA ReadKept ==
  ASSUME TransferInv, Keeps, UNCHANGED get
  PROVE  ReadInv'
<1>1. /\ Content \in Seq(Batch) /\ Content' \in Seq(Batch)
      /\ Len(Content) \in Nat /\ Len(Content') \in Nat
      /\ Len(Content) <= Len(Content')
  <2>1. Content' \in Seq(Batch)
    BY Stored DEF Keeps, Content
  <2>. QED BY <2>1, KeptLengths DEF TransferInv, Keeps
<1>2. get.got \in Seq(Batch) /\ Len(get.got) <= Len(Content) /\ Len(get.got) \in Nat
  BY DEF TransferInv, ReadInv
<1>3. ASSUME NEW i \in 1..Len(get.got)
      PROVE  get.got[i] = Content'[i] \/ put'[Content'[i][1]].size > 0
  <2>1. i \in 1..Len(Content)
    BY <1>1, <1>2
  <2>2. get.got[i] = Content[i] \/ put[Content[i][1]].size > 0
    BY DEF TransferInv, ReadInv
  <2>3. Content[i][1] \in Client
    BY <1>1, <2>1, ClientOf
  <2>4. Content'[i] = Content[i] \/ put'[Content'[i][1]].size > 0
    BY <2>1 DEF Keeps
  <2>5. put[Content[i][1]].size > 0 => put'[Content[i][1]].size > 0
    BY <2>3 DEF Keeps
  <2>. QED BY <2>2, <2>4, <2>5
<1>. QED BY <1>1, <1>2, <1>3 DEF ReadInv

LEMMA GetKept ==
  ASSUME TransferInv, Keeps, UNCHANGED get
  PROVE  GetInv'
<1>1. Len(Content) \in Nat /\ Len(Content') \in Nat /\ Len(Content) <= Len(Content')
  <2>1. Content' \in Seq(Batch)
    BY Stored DEF Keeps, Content
  <2>. QED BY <2>1, KeptLengths DEF TransferInv, Keeps
<1>2. get.size \in Nat
  BY BlockNumbers DEF TransferInv, GetInv
<1>. QED BY <1>1, <1>2 DEF TransferInv, GetInv

LEMMA SizeKept ==
  ASSUME TransferInv, Keeps, fileSize' \in 0..(SizeRange - 1),
         fileSize' <= Len(Content'),
         \A r \in reports' : r \in reports \/ (/\ r \in Block \X (1..BlockSize)
                                             /\ r[2] <= Len(blocks'[r[1]]))
  PROVE  SizeInv'
<1>1. ASSUME NEW r \in reports'
      PROVE  r \in Block \X (1..BlockSize) /\ r[2] <= Len(blocks'[r[1]])
  <2>1. SUFFICES ASSUME r \in reports
                 PROVE  r \in Block \X (1..BlockSize) /\ r[2] <= Len(blocks'[r[1]])
    OBVIOUS
  <2>2. r \in Block \X (1..BlockSize) /\ r[2] <= Len(blocks[r[1]])
    BY <2>1 DEF TransferInv, SizeInv
  <2>3. r[1] \in Block /\ r[2] \in Nat
    BY <2>2, BlockNumbers
  <2>4. Len(blocks[r[1]]) <= Len(blocks'[r[1]])
    BY <2>3 DEF Keeps
  <2>5. Len(blocks[r[1]]) \in Nat /\ Len(blocks'[r[1]]) \in Nat
    <3>1. blocks'[r[1]] \in Seq(Batch) /\ blocks[r[1]] \in Seq(Batch)
      BY <2>3 DEF TransferInv, Keeps, Filled
    <3>. QED BY <3>1
  <2>. QED BY <2>2, <2>3, <2>4, <2>5
<1>. QED BY <1>1 DEF SizeInv

\* Sizes of what grows.
LEMMA SizeGrows ==
  ASSUME TransferInv, Keeps
  PROVE  /\ Content \in Seq(Batch) /\ Content' \in Seq(Batch)
         /\ Len(Content) \in Nat /\ Len(Content') \in Nat
         /\ fileSize \in 0..(SizeRange - 1) /\ fileSize <= Len(Content')
<1>1. Content' \in Seq(Batch)
  BY Stored DEF Keeps, Content
<1>2. Content \in Seq(Batch) /\ Len(Content) \in Nat
  BY KeptLengths DEF TransferInv
<1>3. Len(Content') \in Nat /\ Len(Content) <= Len(Content')
  BY <1>1 DEF Keeps
<1>4. fileSize \in 0..(SizeRange - 1) /\ fileSize <= Len(Content)
  BY DEF TransferInv, SizeInv
<1>. QED BY <1>1, <1>2, <1>3, <1>4, BlockNumbers

\* A step that leaves the blocks as they are.
LEMMA Unmoved ==
  ASSUME TransferInv, UNCHANGED blocks,
         \A c \in Client : put[c].size > 0 => put'[c].size > 0
  PROVE  Keeps
<1>1. Content' = Content /\ Len(Content) \in Nat
  BY KeptLengths DEF Content, TransferInv
<1>2. \A b \in Block : Len(blocks[b]) \in Int
  BY BlockNumbers, KeptLengths DEF TransferInv
<1>3. Filled(blocks')
  BY DEF TransferInv
<1>. QED BY <1>1, <1>2, <1>3 DEF Keeps

\* A step of a call that changes nothing else.
LEMMA CallStep ==
  ASSUME TransferInv, NEW c \in Client, put' \in [Client -> Call],
         \A d \in Client : d # c => put'[d] = put[d],
         put[c].size > 0 => put'[c].size > 0,
         CallOf(c, put'[c], blocks),
         UNCHANGED <<blocks, fileSize, reports, get>>
  PROVE  TransferInv' /\ Keeps
<1>1. Keeps
  BY Unmoved
<1>2. PutInv'
  BY <1>1, PutKept
<1>3. SizeInv'
  BY <1>1, SizeKept, SizeGrows
<1>. QED BY <1>1, <1>2, <1>3, ReadKept, GetKept DEF TransferInv, Keeps

LEMMA SignedSize ==
  ASSUME NEW n \in 0..(SizeRange - 1)
  PROVE  Signed(n) \in Int /\ Signed(n) < SizeRange /\ (Signed(n) > 0 => n > 0)
         /\ Signed(n) <= n
BY BlockNumbers DEF Signed

LEMMA StartPutSafe ==
  ASSUME TransferInv, NEW c \in Client, StartPut(c)
  PROVE  TransferInv' /\ Keeps
<1>1. put \in [Client -> Call] /\ CallOf(c, put[c], blocks)
      /\ fileSize \in 0..(SizeRange - 1)
  BY DEF TransferInv, PutInv, SizeInv
<1>2. put' = [put EXCEPT ![c] = [put[c] EXCEPT !.pc = "ask", !.size = Signed(fileSize)]]
  BY <1>1 DEF StartPut, Call
<1>3. put[c].pc = "out" /\ put[c].size = 0
  BY <1>1 DEF StartPut, CallOf
<1>4. [put[c] EXCEPT !.pc = "ask", !.size = Signed(fileSize)] \in Call
  BY <1>1, SignedSize DEF Call
<1>5. put' \in [Client -> Call] /\ \A d \in Client : d # c => put'[d] = put[d]
  BY <1>1, <1>2, <1>4
<1>6. put'[c] = [put[c] EXCEPT !.pc = "ask", !.size = Signed(fileSize)]
  BY <1>1, <1>2
<1>7. CallOf(c, put'[c], blocks)
  BY <1>1, <1>4, <1>6, SignedSize DEF CallOf, Call
<1>8. UNCHANGED <<blocks, fileSize, reports, get>>
  BY DEF StartPut
<1>9. ~(put[c].size > 0)
  BY <1>3
<1>. QED BY <1>5, <1>7, <1>8, <1>9, CallStep

LEMMA AskForBlockSafe ==
  ASSUME TransferInv, NEW c \in Client, AskForBlock(c)
  PROVE  TransferInv' /\ Keeps
<1>. DEFINE p == put[c]
            b == IF Overwrites(c) THEN p.pos \div BlockSize + 1
                 ELSE CalcAppendBlock(fileSize)
            q == [p EXCEPT !.pc = "send", !.block = b]
<1>1. put \in [Client -> Call] /\ CallOf(c, p, blocks)
      /\ fileSize \in 0..(SizeRange - 1) /\ fileSize <= Len(Content)
  BY DEF TransferInv, PutInv, SizeInv
<1>2. put' = [put EXCEPT ![c] = q]
  BY <1>1 DEF AskForBlock, Call
<1>3. p \in Call /\ p.pos \in Nat /\ p.size \in Int /\ p.pos <= Local[c].full
      /\ p.size < SizeRange
  BY <1>1 DEF Call, CallOf
<1>4. b \in Block /\ (Overwrites(c) \/ (b > 1 => Len(blocks[b - 1]) = BlockSize))
  <2>1. CASE Overwrites(c)
    <3>1. p.pos \in 0..(SizeRange - 1)
      BY <1>3, <2>1, BlockNumbers DEF Overwrites
    <3>2. b = p.pos \div BlockSize + 1
      BY <2>1
    <3>. HIDE DEF b
    <3>3. b \in Block
      BY <3>1, <3>2, Located
    <3>. QED BY <2>1, <3>3
  <2>2. CASE ~Overwrites(c)
    <3>1. b = fileSize \div BlockSize + 1
      BY <2>2 DEF CalcAppendBlock
    <3>. HIDE DEF b
    <3>2. b \in Block /\ At(b, 0) <= fileSize
      BY <1>1, <3>1, Located
    <3>3. b \in 1..Blocks
      BY <3>2, BlockNumbers
    <3>4. ASSUME b > 1 PROVE Len(blocks[b - 1]) = BlockSize
      <4>1. b - 1 \in 1..Blocks /\ (b - 1) + 1 = b
        BY <3>3, <3>4, BlockNumbers
      <4>2. b - 1 \in Block
        BY <4>1, BlockNumbers
      <4>3. At((b - 1) + 1, 0) = At(b - 1, 0) + BlockSize
        BY <4>1, Laid
      <4>4. At(b - 1, BlockSize) = At(b - 1, 0) + BlockSize
        BY <4>1, Laid, BlockNumbers
      <4>5. At(b - 1, BlockSize) <= fileSize
        BY <3>2, <4>1, <4>3, <4>4
      <4>6. At(b - 1, BlockSize) <= Len(Content)
        <5>1. At(b - 1, BlockSize) \in Int
          BY <4>1, <4>4, Laid, BlockNumbers
        <5>2. Len(Content) \in Int
          BY KeptLengths, BlockNumbers DEF TransferInv
        <5>. QED BY <1>1, <4>5, <5>1, <5>2, BlockNumbers
      <4>7. BlockSize <= Len(blocks[b - 1])
        <5>1. BlockSize \in 1..BlockSize
          BY BlockNumbers
        <5>. QED BY <4>1, <4>6, <5>1, Stored DEF TransferInv, Content
      <4>8. Len(blocks[b - 1]) \in 0..BlockSize
        BY <4>2, KeptLengths DEF TransferInv
      <4>. QED BY <4>7, <4>8, BlockNumbers
    <3>. QED BY <3>2, <3>4
  <2>. QED BY <2>1, <2>2
<1>5. b \in Nat
  BY <1>4, BlockNumbers
<1>. HIDE DEF b
<1>6. q \in Call
  BY <1>3, <1>5 DEF Call
<1>7. put' \in [Client -> Call] /\ \A d \in Client : d # c => put'[d] = put[d]
  BY <1>1, <1>2, <1>6
<1>8. put'[c] = q
  BY <1>1, <1>2
<1>9. q.pos = p.pos /\ q.size = p.size /\ q.pc = "send" /\ q.block = b
  BY <1>3 DEF Call
<1>10. CallOf(c, q, blocks)
  BY <1>3, <1>4, <1>6, <1>9 DEF CallOf, Overwrites
<1>11. UNCHANGED <<blocks, fileSize, reports, get>>
  BY DEF AskForBlock
<1>12. put'[c].size = put[c].size
  BY <1>8, <1>9
<1>. QED BY <1>7, <1>8, <1>10, <1>11, <1>12, CallStep

LEMMA SeekBackSafe ==
  ASSUME TransferInv, NEW c \in Client, put[c].pc = "send"
  PROVE  /\ SeekBack(c) \in [Client -> Call]
         /\ \A d \in Client : d # c => SeekBack(c)[d] = put[d]
         /\ SeekBack(c)[c] = [put[c] EXCEPT !.pc = "ask", !.failed = Short(c)]
         /\ CallOf(c, SeekBack(c)[c], blocks)
         /\ put[c].size > 0 => SeekBack(c)[c].size > 0
<1>. DEFINE p == put[c]
            q == [p EXCEPT !.pc = "ask", !.failed = Short(c)]
<1>1. put \in [Client -> Call] /\ CallOf(c, p, blocks)
  BY DEF TransferInv, PutInv
<1>2. p \in Call /\ p.pos <= Local[c].full /\ p.size < SizeRange
  BY <1>1 DEF CallOf
<1>3. SeekBack(c) = [put EXCEPT ![c] = q]
  BY <1>1 DEF SeekBack, Call
<1>4. Short(c) \in BOOLEAN
  BY <1>2 DEF Short, Call
<1>5. q \in Call /\ q.pos = p.pos /\ q.size = p.size /\ q.pc = "ask"
  BY <1>2, <1>4 DEF Call
<1>. HIDE DEF q
<1>6. CallOf(c, q, blocks)
  BY <1>2, <1>5 DEF CallOf
<1>7. /\ SeekBack(c) \in [Client -> Call]
      /\ \A d \in Client : d # c => SeekBack(c)[d] = put[d]
      /\ SeekBack(c)[c] = q
  BY <1>1, <1>3, <1>5
<1>8. q.size > 0 <=> put[c].size > 0
  BY <1>5
<1>9. q = [put[c] EXCEPT !.pc = "ask", !.failed = Short(c)]
  BY DEF q
<1>. QED BY <1>6, <1>7, <1>8, <1>9

LEMMA EndedSafe ==
  ASSUME TransferInv, NEW c \in Client, put[c].pc \in {"ask", "send"},
         NEW pc \in {"done", "stopped"}
  PROVE  /\ Ended(c, pc) \in [Client -> Call]
         /\ \A d \in Client : d # c => Ended(c, pc)[d] = put[d]
         /\ Ended(c, pc)[c] = [pc |-> pc, size |-> put[c].size, pos |-> 0,
                               failed |-> FALSE, block |-> 0]
         /\ \A s : CallOf(c, Ended(c, pc)[c], s)
         /\ put[c].size > 0 => Ended(c, pc)[c].size > 0
<1>. DEFINE p == put[c]
            q == [pc |-> pc, size |-> p.size, pos |-> 0, failed |-> FALSE, block |-> 0]
<1>1. put \in [Client -> Call] /\ CallOf(c, p, blocks)
  BY DEF TransferInv, PutInv
<1>2. p \in Call /\ p.size < SizeRange
  BY <1>1 DEF CallOf
<1>3. Ended(c, pc) = [put EXCEPT ![c] = q]
  BY <1>1 DEF Ended
<1>4. q \in Call
  BY <1>2 DEF Call
<1>5. Local[c].full \in Nat
  BY FileTransferAssumption
<1>6. \A s : CallOf(c, q, s)
  BY <1>2, <1>4, <1>5 DEF CallOf
<1>7. /\ Ended(c, pc) \in [Client -> Call]
      /\ \A d \in Client : d # c => Ended(c, pc)[d] = put[d]
      /\ Ended(c, pc)[c] = q
  BY <1>1, <1>3, <1>4
<1>8. \A s : CallOf(c, Ended(c, pc)[c], s)
  BY <1>6, <1>7
<1>9. Ended(c, pc)[c].size = p.size
  BY <1>7
<1>. QED BY <1>7, <1>8, <1>9

LEMMA ExpireSafe ==
  ASSUME TransferInv, NEW c \in Client, Expire(c)
  PROVE  TransferInv' /\ Keeps
BY SeekBackSafe, CallStep DEF Expire

LEMMA StopPutSafe ==
  ASSUME TransferInv, NEW c \in Client, StopPut(c)
  PROVE  TransferInv' /\ Keeps
<1>1. put[c].pc \in {"ask", "send"} /\ put' = Ended(c, "stopped")
      /\ UNCHANGED <<blocks, fileSize, reports, get>>
  BY DEF StopPut
<1>2. /\ put' \in [Client -> Call]
      /\ \A d \in Client : d # c => put'[d] = put[d]
      /\ CallOf(c, put'[c], blocks)
      /\ put[c].size > 0 => put'[c].size > 0
  BY <1>1, EndedSafe
<1>. QED BY <1>1, <1>2, CallStep

\* What Sent makes of the call.
LEMMA SentSafe ==
  ASSUME TransferInv, NEW c \in Client, put[c].pc = "send", NEW s,
         put[c].pos < put[c].size \/ (put[c].block > 1 => Len(s[put[c].block - 1]) = BlockSize)
  PROVE  /\ Sent(c) \in [Client -> Call]
         /\ \A d \in Client : d # c => Sent(c)[d] = put[d]
         /\ CallOf(c, Sent(c)[c], s)
         /\ put[c].size > 0 => Sent(c)[c].size > 0
<1>. DEFINE p == put[c]
            pos == IF Short(c) THEN p.pos ELSE p.pos + 1
            over == Overwrites(c) /\ (pos % BlockSize = 0 \/ pos >= p.size)
            q == [p EXCEPT !.pos = pos, !.pc = IF over THEN "ask" ELSE "send"]
<1>1. put \in [Client -> Call] /\ CallOf(c, p, blocks)
  BY DEF TransferInv, PutInv
<1>2. p \in Call /\ p.size < SizeRange /\ p.pos <= Local[c].full /\ p.block \in Block
  BY <1>1 DEF CallOf
<1>3. CASE Eof(c)
  <2>1. Sent(c) = Ended(c, "done")
    BY <1>3 DEF Sent
  <2>. HIDE DEF p, pos, over, q
  <2>2. /\ Ended(c, "done") \in [Client -> Call]
        /\ \A d \in Client : d # c => Ended(c, "done")[d] = put[d]
        /\ CallOf(c, Ended(c, "done")[c], s)
        /\ put[c].size > 0 => Ended(c, "done")[c].size > 0
    BY EndedSafe
  <2>. QED BY <2>1, <2>2
<1>4. CASE ~Eof(c)
  <2>0. Local[c].full \in Nat
    BY FileTransferAssumption
  <2>1. Sent(c) = [put EXCEPT ![c] = q]
    BY <1>1, <1>4 DEF Sent, Call
  <2>2. pos \in Nat /\ pos <= Local[c].full /\ p.pos <= pos /\ p.size \in Int
        /\ p.pos \in Nat
    BY <1>2, <2>0 DEF Short, Call
  <2>. HIDE DEF pos
  <2>3. q \in Call /\ q.pos = pos /\ q.size = p.size /\ q.block = p.block
        /\ q.pc = IF over THEN "ask" ELSE "send"
    BY <1>2, <2>2 DEF Call
  <2>4. q.pc = "send" => \/ pos < p.size
                         \/ p.block > 1 => Len(s[p.block - 1]) = BlockSize
    BY <2>2, <2>3 DEF Overwrites
  <2>. HIDE DEF q
  <2>5. CallOf(c, q, s)
    BY <1>2, <2>2, <2>3, <2>4 DEF CallOf
  <2>6. /\ Sent(c) \in [Client -> Call]
        /\ \A d \in Client : d # c => Sent(c)[d] = put[d]
        /\ Sent(c)[c] = q
    BY <1>1, <2>1, <2>3
  <2>. QED BY <2>3, <2>5, <2>6
<1>. QED BY <1>3, <1>4

\* Buffer is a batch of c.
LEMMA BufferIsBatch ==
  ASSUME TransferInv, NEW c \in Client
  PROVE  Buffer(c) \in Batch /\ Buffer(c)[1] = c
<1>1. put[c] \in Call /\ put[c].pos <= Local[c].full
  BY DEF TransferInv, PutInv, CallOf
<1>2. Local[c].full \in Nat /\ Local[c].part \in BOOLEAN
  BY FileTransferAssumption
<1>. DEFINE n == IF Short(c) THEN LastBatch(c) ELSE put[c].pos + 1
<1>3. n \in 0..LastBatch(c)
  BY <1>1, <1>2 DEF Short, LastBatch, Call
<1>4. Buffer(c) = <<c, n>>
  BY DEF Buffer
<1>. HIDE DEF n
<1>5. <<c, n>> \in {c} \X (0..LastBatch(c))
  BY <1>3
<1>6. <<c, n>> \in Batch
  BY <1>5 DEF Batch
<1>. QED BY <1>4, <1>6

\* What a call knows of the block it appends to.
LEMMA AppendsToEnd ==
  ASSUME TransferInv, NEW c \in Client, put[c].pc = "send", ~Overwrites(c)
  PROVE  /\ put[c].block \in Block /\ put[c].block \in 1..Blocks
         /\ put[c].block > 1 => Len(blocks[put[c].block - 1]) = BlockSize
<1>1. CallOf(c, put[c], blocks) /\ put[c] \in Call
  BY DEF TransferInv, PutInv
<1>. QED BY <1>1, BlockNumbers DEF CallOf, Overwrites, Call

\* The report of a node adds at most what is stored.
LEMMA ReportedIsStored ==
  ASSUME TransferInv, NEW b \in Block, NEW n \in 1..BlockSize, n <= Len(blocks'[b]),
         NEW r \in Report(b, n)
  PROVE  r \in reports \/ (/\ r \in Block \X (1..BlockSize)
                           /\ r[2] <= Len(blocks'[r[1]]))
BY DEF Report

LEMMA SendAppendSafe ==
  ASSUME TransferInv, NEW c \in Client, SendAppend(c)
  PROVE  /\ TransferInv' /\ Keeps
         /\ \/ /\ Fits(put[c].block) /\ put' = Sent(c)
               /\ Content' = Append(Content, Buffer(c))
            \/ /\ ~Fits(put[c].block) /\ put' = SeekBack(c)
               /\ Content' = Content
<1>. DEFINE b == put[c].block
<1>1. put[c].pc = "send" /\ ~Overwrites(c) /\ UNCHANGED <<fileSize, get>>
  BY DEF SendAppend
<1>2. /\ b \in Block /\ b \in 1..Blocks
      /\ b > 1 => Len(blocks[b - 1]) = BlockSize
  BY <1>1, AppendsToEnd
<1>3. CASE ~Fits(b)
  <2>1. put' = SeekBack(c) /\ UNCHANGED <<blocks, reports>>
    BY <1>3 DEF SendAppend
  <2>2. /\ put' \in [Client -> Call]
        /\ \A d \in Client : d # c => put'[d] = put[d]
        /\ CallOf(c, put'[c], blocks)
        /\ put[c].size > 0 => put'[c].size > 0
    BY <1>1, <2>1, SeekBackSafe
  <2>3. TransferInv' /\ Keeps
    BY <1>1, <2>1, <2>2, CallStep
  <2>4. Content' = Content
    BY <2>1 DEF Content
  <2>. QED BY <1>3, <2>1, <2>3, <2>4
<1>4. CASE Fits(b)
  <2>1. /\ put' = Sent(c)
        /\ blocks' = [blocks EXCEPT ![b] = Append(@, Buffer(c))]
        /\ reports' = Report(b, Len(blocks[b]) + 1)
    BY <1>4 DEF SendAppend
  <2>2. Filled(blocks) /\ Len(blocks[b]) < BlockSize /\ Buffer(c) \in Batch
    BY <1>4, BufferIsBatch DEF Fits, TransferInv
  <2>3. Filled(blocks') /\ Content' = Append(Content, Buffer(c))
    BY <1>2, <2>1, <2>2, Appended DEF Content
  <2>4. /\ \A d \in Block : d # b => blocks'[d] = blocks[d]
        /\ blocks'[b] = Append(blocks[b], Buffer(c))
        /\ blocks[b] \in Seq(Batch)
    BY <1>2, <2>1, <2>2 DEF Filled
  <2>5. Len(blocks'[b]) = Len(blocks[b]) + 1 /\ Len(blocks[b]) \in Nat
    BY <2>4
  <2>6. \A d \in Block : Len(blocks[d]) <= Len(blocks'[d])
    <3>1. \A d \in Block : Len(blocks[d]) \in Int
      BY <2>2, KeptLengths, BlockNumbers
    <3>. QED BY <2>4, <2>5, <3>1
  <2>7. Content \in Seq(Batch) /\ Len(Content) \in Nat
    BY <2>2, KeptLengths
  <2>8. b > 1 => Len(blocks'[b - 1]) = BlockSize
    <3>1. b > 1 => b - 1 \in 1..Blocks /\ b - 1 # b
      BY <1>2, BlockNumbers
    <3>2. b > 1 => b - 1 \in Block
      BY <3>1, BlockNumbers
    <3>. QED BY <1>2, <2>4, <3>1, <3>2
  <2>9. /\ put' \in [Client -> Call]
        /\ \A d \in Client : d # c => put'[d] = put[d]
        /\ CallOf(c, put'[c], blocks')
        /\ put[c].size > 0 => put'[c].size > 0
    BY <1>1, <2>1, <2>8, SentSafe
  <2>10. Keeps
    <3>1. Len(Content') = Len(Content) + 1
          /\ \A i \in 1..Len(Content) : Content'[i] = Content[i]
      BY <2>2, <2>3, <2>7
    <3>2. Len(Content) <= Len(Content')
      BY <2>7, <3>1
    <3>. QED BY <2>3, <2>6, <2>9, <3>1, <3>2 DEF Keeps
  <2>11. SizeInv'
    <3>1. Len(blocks[b]) + 1 \in 1..BlockSize
      BY <2>2, <2>5, BlockNumbers
    <3>2. \A r \in reports' : r \in reports \/ (/\ r \in Block \X (1..BlockSize)
                                              /\ r[2] <= Len(blocks'[r[1]]))
      BY <1>2, <2>1, <2>5, <3>1, ReportedIsStored
    <3>. QED BY <1>1, <2>10, <3>2, SizeKept, SizeGrows
  <2>12. PutInv'
    BY <2>9, <2>10, PutKept
  <2>13. TransferInv'
    BY <1>1, <2>3, <2>10, <2>11, <2>12, ReadKept, GetKept DEF TransferInv
  <2>. QED BY <1>4, <2>1, <2>3, <2>10, <2>13
<1>. QED BY <1>3, <1>4

LEMMA SendWriteSafe ==
  ASSUME TransferInv, NEW c \in Client, SendWrite(c)
  PROVE  /\ TransferInv' /\ Keeps
         /\ \/ /\ put' = Sent(c)
               /\ \E i \in DOMAIN Content :
                    Content' = [Content EXCEPT ![i] = Buffer(c)]
            \/ put' = Ended(c, "stopped") /\ Content' = Content
<1>. DEFINE b == put[c].block
            i == put[c].pos + 1
<1>1. put[c].pc = "send" /\ Overwrites(c) /\ UNCHANGED <<fileSize, get>>
  BY DEF SendWrite
<1>2. b \in Block /\ b \in 1..Blocks /\ put[c] \in Call
  BY <1>1, BlockNumbers DEF TransferInv, PutInv, CallOf
<1>3. CASE ~(i \in DOMAIN blocks[b])
  <2>1. put' = Ended(c, "stopped") /\ UNCHANGED <<blocks, reports>>
    BY <1>3 DEF SendWrite
  <2>2. /\ put' \in [Client -> Call]
        /\ \A d \in Client : d # c => put'[d] = put[d]
        /\ CallOf(c, put'[c], blocks)
        /\ put[c].size > 0 => put'[c].size > 0
    BY <1>1, <2>1, EndedSafe
  <2>3. TransferInv' /\ Keeps
    BY <1>1, <2>1, <2>2, CallStep
  <2>4. Content' = Content
    BY <2>1 DEF Content
  <2>. QED BY <2>1, <2>3, <2>4
<1>4. CASE i \in DOMAIN blocks[b]
  <2>1. /\ put' = Sent(c)
        /\ blocks' = [blocks EXCEPT ![b][i] = Buffer(c)]
        /\ reports' = Report(b, Len(blocks[b]))
    BY <1>4 DEF SendWrite
  <2>2. Filled(blocks) /\ Buffer(c) \in Batch /\ Buffer(c)[1] = c
    BY BufferIsBatch DEF TransferInv
  <2>. DEFINE j == At(b, i)
  <2>3. /\ Filled(blocks') /\ j \in DOMAIN Content
        /\ Content' = [Content EXCEPT ![j] = Buffer(c)]
    <3>. HIDE DEF i
    <3>. DEFINE t == [blocks EXCEPT ![b][i] = Buffer(c)]
    <3>1. /\ Filled(t) /\ At(b, i) \in DOMAIN FlattenSeq(blocks)
          /\ FlattenSeq(t) = [FlattenSeq(blocks) EXCEPT ![At(b, i)] = Buffer(c)]
      BY <1>2, <1>4, <2>2, Replaced
    <3>2. blocks' = t
      BY <2>1
    <3>. HIDE DEF t
    <3>. QED BY <3>1, <3>2 DEF Content
  <2>. HIDE DEF j, i
  <2>4. /\ \A d \in Block : Len(blocks'[d]) = Len(blocks[d]) /\ Len(blocks[d]) \in Int
        /\ Len(blocks[b]) \in 1..BlockSize
    <3>1. blocks \in [Block -> Seq(Batch)] /\ Len(blocks[b]) <= BlockSize
      BY <1>2, <2>2 DEF Filled
    <3>2. blocks'[b] = [blocks[b] EXCEPT ![i] = Buffer(c)]
          /\ \A d \in Block : d # b => blocks'[d] = blocks[d]
      BY <1>2, <2>1, <3>1
    <3>3. blocks[b] \in Seq(Batch)
      BY <1>2, <3>1
    <3>4. Len(blocks'[b]) = Len(blocks[b])
      BY <1>4, <2>2, <3>2, <3>3, ExceptSeq
    <3>5. Len(blocks[b]) \in 1..BlockSize
      BY <1>4, <3>1, <3>3, BlockNumbers
    <3>6. \A d \in Block : Len(blocks[d]) \in Int
      BY <3>1
    <3>. QED BY <3>2, <3>4, <3>5, <3>6
  <2>5. put[c].size > 0
    BY <1>1, <1>2 DEF Overwrites, Call
  <2>6. /\ put' \in [Client -> Call]
        /\ \A d \in Client : d # c => put'[d] = put[d]
        /\ CallOf(c, put'[c], blocks')
        /\ put'[c].size > 0
    BY <1>1, <2>1, <2>5, SentSafe DEF Overwrites
  <2>7. Content \in Seq(Batch) /\ Len(Content) \in Nat
    BY <2>2, KeptLengths
  <2>8. Keeps
    <3>1. Len(Content') = Len(Content)
          /\ \A k \in 1..Len(Content) : Content'[k] = IF k = j THEN Buffer(c) ELSE Content[k]
      BY <2>2, <2>3, <2>7, ExceptSeq
    <3>2. Len(Content) <= Len(Content')
      BY <2>7, <3>1
    <3>3. \A k \in 1..Len(Content) : \/ Content'[k] = Content[k]
                                     \/ put'[Content'[k][1]].size > 0
      BY <2>2, <2>6, <3>1
    <3>4. \A d \in Block : Len(blocks[d]) <= Len(blocks'[d])
      BY <2>4
    <3>. QED BY <2>3, <2>6, <3>2, <3>3, <3>4 DEF Keeps
  <2>9. SizeInv'
    <3>1. Len(blocks[b]) <= Len(blocks'[b])
      BY <1>2, <2>4, BlockNumbers
    <3>2. \A r \in reports' : r \in reports \/ (/\ r \in Block \X (1..BlockSize)
                                              /\ r[2] <= Len(blocks'[r[1]]))
      BY <1>2, <2>1, <2>4, <3>1, ReportedIsStored
    <3>. QED BY <1>1, <2>8, <3>2, SizeKept, SizeGrows
  <2>10. PutInv'
    BY <2>6, <2>8, PutKept
  <2>11. TransferInv'
    BY <1>1, <2>3, <2>8, <2>9, <2>10, ReadKept, GetKept DEF TransferInv
  <2>. QED BY <2>1, <2>3, <2>8, <2>11
<1>. QED BY <1>3, <1>4

LEMMA OnReportSafe ==
  ASSUME TransferInv, NEW b \in Block, NEW n \in 1..BlockSize, OnReport(b, n)
  PROVE  /\ TransferInv' /\ Keeps
         /\ fileSize <= fileSize' /\ fileSize' <= Len(Content)
<1>1. /\ <<b, n>> \in reports /\ reports' \subseteq reports
      /\ fileSize' = UpdateSize(fileSize, CalcFileSize(b, n))
      /\ UNCHANGED <<blocks, put, get>>
  BY DEF OnReport
<1>2. Keeps
  BY <1>1, Unmoved
<1>3. n <= Len(blocks[b]) /\ b \in 1..Blocks /\ n \in Int
  <2>1. <<b, n>>[1] = b /\ <<b, n>>[2] = n
    OBVIOUS
  <2>2. <<b, n>>[2] <= Len(blocks[<<b, n>>[1]])
    BY <1>1 DEF TransferInv, SizeInv
  <2>. QED BY <2>1, <2>2, BlockNumbers
<1>4. At(b, n) <= Len(Content)
  BY <1>3, Stored DEF TransferInv, Content
<1>5. At(b, n) = At(b, 0) + n /\ At(b, 0) \in Nat
  BY <1>3, Laid
<1>6. Content' = Content /\ Len(Content) \in Nat
  BY <1>1, KeptLengths DEF Content, TransferInv
<1>7. CalcFileSize(b, n) \in 0..(SizeRange - 1) /\ CalcFileSize(b, n) <= At(b, n)
  <2>1. At(b, n) \in Nat /\ CalcFileSize(b, n) = At(b, n) % SizeRange
    BY <1>3, <1>5 DEF CalcFileSize, At
  <2>2. \A x \in Nat : x % SizeRange \in 0..(SizeRange - 1) /\ x % SizeRange <= x
    <3>1. SizeRange \in Nat \ {0}
      BY BlockNumbers
    <3>2. ASSUME NEW x \in Nat
          PROVE  x % SizeRange \in 0..(SizeRange - 1) /\ x % SizeRange <= x
      <4>1. /\ x = SizeRange * (x \div SizeRange) + (x % SizeRange)
            /\ x \div SizeRange \in Int /\ x % SizeRange \in 0..(SizeRange - 1)
        BY <3>1, SMT
      <4>2. x \div SizeRange >= 0
        BY <3>1, <4>1, SMT
      <4>3. SizeRange * (x \div SizeRange) >= 0
        BY <3>1, <4>1, <4>2, SMT
      <4>. QED BY <3>1, <4>1, <4>3, SMT
    <3>. QED BY <3>2
  <2>. QED BY <2>1, <2>2
<1>8. fileSize \in 0..(SizeRange - 1) /\ fileSize <= Len(Content)
  BY DEF TransferInv, SizeInv
<1>9. fileSize' \in 0..(SizeRange - 1) /\ fileSize' <= Len(Content)
      /\ fileSize <= fileSize'
  BY <1>1, <1>4, <1>5, <1>6, <1>7, <1>8, BlockNumbers DEF UpdateSize
<1>10. SizeInv'
  BY <1>1, <1>2, <1>6, <1>9, SizeKept
<1>11. PutInv'
  BY <1>1 DEF TransferInv, PutInv
<1>12. TransferInv'
  BY <1>1, <1>2, <1>10, <1>11, ReadKept, GetKept DEF TransferInv, Keeps
<1>. QED BY <1>2, <1>9, <1>12

LEMMA ReportsSafe ==
  ASSUME TransferInv, UNCHANGED <<blocks, fileSize, put, get>>,
         \A r \in reports' : r \in reports \/ (/\ r \in Block \X (1..BlockSize)
                                             /\ r[2] <= Len(blocks'[r[1]]))
  PROVE  TransferInv' /\ Keeps
<1>1. Keeps
  BY Unmoved
<1>2. SizeInv'
  BY <1>1, SizeKept, SizeGrows
<1>3. PutInv'
  BY DEF TransferInv, PutInv
<1>. QED BY <1>1, <1>2, <1>3, ReadKept, GetKept DEF TransferInv, Keeps

LEMMA PeriodicReportSafe ==
  ASSUME TransferInv, NEW b \in Block, PeriodicReport(b)
  PROVE  TransferInv' /\ Keeps
<1>1. /\ blocks[b] # <<>> /\ reports' = Report(b, Len(blocks[b]))
      /\ UNCHANGED <<blocks, fileSize, put, get>>
  BY DEF PeriodicReport
<1>2. blocks[b] \in Seq(Batch) /\ Len(blocks[b]) <= BlockSize
  BY DEF TransferInv, Filled
<1>3. Len(blocks[b]) \in 1..BlockSize /\ Len(blocks[b]) <= Len(blocks'[b])
  BY <1>1, <1>2, BlockNumbers
<1>. QED BY <1>1, <1>3, ReportedIsStored, ReportsSafe

\* The last block of n batches.
LEMMA LastBlock ==
  ASSUME NEW n \in 1..(SizeRange - 1)
  PROVE  /\ CalcBlockCount(n) \in 1..Blocks
         /\ At(CalcBlockCount(n), 0) < n /\ n <= At(CalcBlockCount(n), 0) + BlockSize
<1>. DEFINE q == n \div BlockSize
            r == n % BlockSize
<1>0. BlockSize \in Nat \ {0} /\ Blocks \in Nat \ {0} /\ SizeRange \in Nat
  BY BlockNumbers
<1>1. n \in 0..(SizeRange - 1) /\ n >= 1
  BY <1>0
<1>2. q + 1 \in 1..Blocks /\ At(q + 1, 0) <= n /\ n < At(q + 1, 0) + BlockSize
  BY <1>1, Located, BlockNumbers
<1>3. n = BlockSize * q + r /\ q \in Int /\ r \in 0..(BlockSize - 1)
  BY <1>0, SMT
<1>4. CalcBlockCount(n) = q + (IF r = 0 THEN 0 ELSE 1)
  BY DEF CalcBlockCount
<1>. HIDE DEF q, r
<1>5. At(q + 1, 0) = BlockSize * q
  BY <1>0, <1>3, SMT DEF At
<1>6. BlockSize * q \in Int
  BY <1>0, <1>3, SMT
<1>7. CASE r # 0
  <2>1. CalcBlockCount(n) = q + 1
    BY <1>4, <1>7
  <2>2. At(q + 1, 0) < n
    BY <1>0, <1>3, <1>5, <1>6, <1>7
  <2>. QED BY <1>0, <1>2, <1>5, <1>6, <2>1, <2>2
<1>8. CASE r = 0
  <2>1. CalcBlockCount(n) = q
    BY <1>3, <1>4, <1>8
  <2>2. n = BlockSize * q
    BY <1>3, <1>6, <1>8
  <2>3. q # 0
    BY <1>0, <1>1, <2>2, SMT
  <2>4. q \in 1..Blocks
    BY <1>0, <1>2, <1>3, <2>3
  <2>5. At(q + 1, 0) = At(q, 0) + BlockSize /\ At(q, 0) \in Nat
    BY <2>4, Laid
  <2>6. At(q, 0) < n /\ n <= At(q, 0) + BlockSize
    BY <1>0, <1>1, <1>5, <1>6, <2>2, <2>5
  <2>. QED BY <2>1, <2>4, <2>6
<1>. QED BY <1>7, <1>8

LEMMA StartGetSafe ==
  ASSUME TransferInv, StartGet
  PROVE  TransferInv' /\ Keeps
<1>1. /\ get.pc = "out" /\ UNCHANGED <<blocks, fileSize, reports, put>>
      /\ get' = [get EXCEPT !.pc = IF Signed(fileSize) > 0 THEN "read" ELSE "end",
                            !.size = fileSize]
  BY DEF StartGet
<1>2. Keeps
  BY <1>1, Unmoved
<1>3. PutInv' /\ SizeInv'
  <2>1. Content' = Content
    BY <1>1 DEF Content
  <2>. QED BY <1>1, <2>1 DEF TransferInv, PutInv, SizeInv
<1>4. /\ get \in [pc : {"out", "read", "end"}, size : 0..(SizeRange - 1),
                  block : Nat, got : Seq(Batch)]
      /\ get.block = 1 /\ get.got = <<>>
      /\ fileSize \in 0..(SizeRange - 1) /\ fileSize <= Len(Content)
  BY <1>1 DEF TransferInv, GetInv, SizeInv
<1>5. /\ get' \in [pc : {"out", "read", "end"}, size : 0..(SizeRange - 1),
                   block : Nat, got : Seq(Batch)]
      /\ get'.pc = IF Signed(fileSize) > 0 THEN "read" ELSE "end"
      /\ get'.size = fileSize /\ get'.block = 1 /\ get'.got = <<>>
  BY <1>1, <1>4
<1>6. Content' = Content /\ Content \in Seq(Batch) /\ Len(Content) \in Nat
  BY <1>1, KeptLengths DEF Content, TransferInv
<1>7. ReadInv'
  BY <1>4, <1>5, <1>6 DEF ReadInv
<1>8. 1 \in Block /\ At(1, 0) = 0 /\ BlockSize > 0
  BY BlockNumbers, Laid
<1>9. GetInv'
  <2>1. Signed(fileSize) > 0 => fileSize > 0
    BY <1>4, SignedSize
  <2>2. Len(<<>>) = 0
    OBVIOUS
  <2>. QED BY <1>4, <1>5, <1>6, <1>8, <2>1, <2>2, BlockNumbers DEF GetInv
<1>. QED BY <1>1, <1>2, <1>3, <1>7, <1>9 DEF TransferInv

LEMMA ReadBatchSafe ==
  ASSUME TransferInv, ReadBatch
  PROVE  TransferInv' /\ Keeps
<1>. DEFINE i == get.block
            n == get.size
            l == Len(get.got)
            offset == l - (i - 1) * BlockSize
            next == IF offset + 1 < Wanted(i, n) THEN i ELSE i + 1
            a == At(i, 0)
            L == CalcBlockCount(n)
            x == blocks[i][offset + 1]
<1>0. BlockSize \in Nat \ {0} /\ Blocks \in Nat \ {0} /\ SizeRange \in Nat
  BY BlockNumbers
<1>1. get.pc = "read" /\ UNCHANGED <<blocks, fileSize, reports, put>>
  BY DEF ReadBatch
<1>2. Keeps
  BY <1>1, Unmoved
<1>3. PutInv' /\ SizeInv'
  <2>1. Content' = Content
    BY <1>1 DEF Content
  <2>. QED BY <1>1, <2>1 DEF TransferInv, PutInv, SizeInv
<1>4. /\ get \in [pc : {"out", "read", "end"}, size : 0..(SizeRange - 1),
                  block : Nat, got : Seq(Batch)]
      /\ i \in Block /\ a <= l /\ l < a + BlockSize /\ l < n /\ n <= Len(Content)
      /\ Signed(n) > 0
  BY <1>1 DEF TransferInv, GetInv
<1>5. /\ Content' = Content /\ Content \in Seq(Batch) /\ Len(Content) \in Nat
  BY <1>1, KeptLengths DEF Content, TransferInv
<1>6. i \in 1..Blocks /\ l \in Nat /\ n \in 1..(SizeRange - 1) /\ i \in Nat
  BY <1>0, <1>4, BlockNumbers
<1>7. a \in Nat /\ offset = l - a
  <2>1. a \in Nat
    BY <1>6, Laid
  <2>2. (i - 1) * BlockSize \in Int
    BY <1>0, <1>6, SMT
  <2>. QED BY <2>1, <2>2 DEF At
<1>. HIDE DEF a
<1>8. offset + 1 \in 1..BlockSize /\ At(i, offset + 1) = l + 1
  <2>. HIDE DEF offset
  <2>1. offset + 1 \in 1..BlockSize /\ offset + 1 \in Int
    BY <1>0, <1>4, <1>6, <1>7
  <2>2. At(i, offset + 1) = a + (offset + 1)
    BY <1>6, <2>1, Laid DEF a
  <2>. QED BY <1>6, <1>7, <2>1, <2>2
<1>9. /\ offset + 1 \in DOMAIN blocks[i] /\ x = Content[l + 1]
      /\ x \in Batch /\ l + 1 <= Len(Content)
  <2>1. l + 1 <= Len(Content)
    BY <1>4, <1>5, <1>6
  <2>2. offset + 1 <= Len(blocks[i]) /\ x = Content[l + 1]
    <3>. HIDE DEF offset
    <3>. QED BY <1>6, <1>8, <2>1, Stored DEF TransferInv, Content
  <2>3. blocks[i] \in Seq(Batch)
    BY <1>4 DEF TransferInv, Filled
  <2>. HIDE DEF offset
  <2>4. offset + 1 \in DOMAIN blocks[i]
    BY <1>0, <1>8, <2>2, <2>3
  <2>. QED BY <2>1, <2>2, <2>3, <2>4
<1>10. get' = [get EXCEPT !.got = Append(@, x), !.block = next,
                          !.pc = IF next <= L THEN "read" ELSE "end"]
  BY <1>9 DEF ReadBatch
<1>. HIDE DEF offset, x
<1>11. /\ get'.got = Append(get.got, x) /\ get'.block = next /\ get'.size = n
       /\ get'.pc = IF next <= L THEN "read" ELSE "end"
       /\ next \in Nat => get' \in [pc : {"out", "read", "end"},
                                     size : 0..(SizeRange - 1), block : Nat,
                                     got : Seq(Batch)]
  <2>1. get.got \in Seq(Batch)
    BY <1>4
  <2>2. Append(get.got, x) \in Seq(Batch)
    BY <1>9, <2>1
  <2>. HIDE DEF next, L
  <2>. QED BY <1>4, <1>10, <2>2
<1>12. /\ Len(get'.got) = l + 1 /\ get'.got \in Seq(Batch)
       /\ \A k \in 1..l : get'.got[k] = get.got[k]
       /\ get'.got[l + 1] = x
  <2>1. get.got \in Seq(Batch)
    BY <1>4
  <2>. QED BY <1>9, <1>11, <2>1
<1>13. ReadInv'
  <2>1. ASSUME NEW k \in 1..Len(get'.got)
        PROVE  get'.got[k] = Content'[k] \/ put'[Content'[k][1]].size > 0
    <3>1. k \in 1..l \/ k = l + 1
      BY <1>6, <1>12
    <3>2. CASE k = l + 1
      BY <1>5, <1>9, <1>12, <3>2
    <3>3. CASE k \in 1..l
      <4>1. get.got[k] = Content[k] \/ put[Content[k][1]].size > 0
        BY <3>3 DEF TransferInv, ReadInv
      <4>. QED BY <1>1, <1>5, <1>12, <3>3, <4>1
    <3>. QED BY <3>1, <3>2, <3>3
  <2>2. Len(get'.got) <= Len(Content')
    BY <1>5, <1>9, <1>12
  <2>. QED BY <1>12, <2>1, <2>2 DEF ReadInv
<1>14. /\ L \in 1..Blocks /\ At(L, 0) < n /\ n <= At(L, 0) + BlockSize
       /\ At(L, 0) \in Nat
  BY <1>6, LastBlock, Laid
<1>15. Wanted(i, n) = IF i # L THEN BlockSize ELSE n - a
  BY <1>0, <1>6, <1>7 DEF Wanted, a, At
<1>16. i <= L
  <2>1. SUFFICES ASSUME L < i PROVE FALSE
    BY <1>0, <1>6, <1>14
  <2>2. At(L, 0) + BlockSize <= a
    BY <1>6, <1>14, <2>1, Laid DEF a
  <2>. QED BY <1>0, <1>4, <1>6, <1>7, <1>14, <2>2
<1>. HIDE DEF L, i, n, l
<1>17. /\ next \in Nat
       /\ next <= L => /\ next \in 1..Blocks /\ At(next, 0) <= l + 1
                       /\ l + 1 < At(next, 0) + BlockSize /\ l + 1 < n
       /\ ~(next <= L) => l + 1 = n
  <2>1. CASE i = L
    <3>1. Wanted(i, n) = n - a /\ a = At(L, 0)
      BY <1>15, <2>1 DEF a
    <3>2. CASE offset + 1 < Wanted(i, n)
      <4>1. next = i /\ At(next, 0) = a
        BY <3>2 DEF a
      <4>2. l + 1 < n /\ n <= a + BlockSize
        BY <1>0, <1>6, <1>7, <1>14, <3>1, <3>2
      <4>3. next \in 1..Blocks /\ next \in Nat /\ next <= L
        BY <1>6, <1>16, <4>1
      <4>4. At(next, 0) <= l + 1 /\ l + 1 < At(next, 0) + BlockSize
        BY <1>0, <1>4, <1>6, <1>7, <4>1, <4>2
      <4>. HIDE DEF next
      <4>. QED BY <4>2, <4>3, <4>4
    <3>3. CASE ~(offset + 1 < Wanted(i, n))
      <4>1. next = i + 1
        BY <3>3
      <4>2. l + 1 = n
        BY <1>0, <1>4, <1>6, <1>7, <3>1, <3>3
      <4>3. ~(next <= L) /\ next \in Nat
        BY <1>6, <2>1, <4>1
      <4>. QED BY <4>2, <4>3
    <3>. QED BY <3>2, <3>3
  <2>2. CASE i # L
    <3>0. i < L /\ i + 1 <= L
      BY <1>0, <1>6, <1>14, <1>16, <2>2
    <3>1. Wanted(i, n) = BlockSize /\ a + BlockSize <= At(L, 0)
      BY <1>6, <1>14, <1>15, <2>2, <3>0, Laid DEF a
    <3>2. CASE offset + 1 < Wanted(i, n)
      <4>1. next = i /\ At(next, 0) = a
        BY <3>2 DEF a
      <4>2. l + 1 < a + BlockSize
        BY <1>0, <1>6, <1>7, <3>1, <3>2
      <4>3. l + 1 < n
        BY <1>0, <1>6, <1>7, <1>14, <3>1, <4>2
      <4>4. next \in 1..Blocks /\ next \in Nat /\ next <= L
        BY <1>6, <1>16, <4>1
      <4>5. At(next, 0) <= l + 1 /\ l + 1 < At(next, 0) + BlockSize
        BY <1>0, <1>4, <1>6, <1>7, <4>1, <4>2
      <4>. HIDE DEF next
      <4>. QED BY <4>3, <4>4, <4>5
    <3>3. CASE ~(offset + 1 < Wanted(i, n))
      <4>1. next = i + 1
        BY <3>3
      <4>2. l + 1 = a + BlockSize
        BY <1>0, <1>4, <1>6, <1>7, <3>1, <3>3
      <4>3. At(i + 1, 0) = a + BlockSize
        BY <1>6, Laid DEF a
      <4>4. i + 1 \in 1..Blocks /\ i + 1 \in Nat
        BY <1>0, <1>6, <1>14, <3>0
      <4>. HIDE DEF next
      <4>5. At(next, 0) = a + BlockSize /\ next \in 1..Blocks /\ next <= L
            /\ next \in Nat
        BY <3>0, <4>1, <4>3, <4>4
      <4>. QED BY <1>0, <1>6, <1>7, <1>14, <3>1, <4>2, <4>5
    <3>. QED BY <3>2, <3>3
  <2>. QED BY <2>1, <2>2
<1>. HIDE DEF next
<1>18. GetInv'
  <2>1. get'.size <= Len(Content')
    BY <1>4, <1>5, <1>11 DEF n
  <2>2. get'.pc # "out"
    BY <1>11
  <2>3. ASSUME get'.pc = "read"
        PROVE  /\ get'.block \in Block /\ Signed(get'.size) > 0
               /\ At(get'.block, 0) <= Len(get'.got)
               /\ Len(get'.got) < At(get'.block, 0) + BlockSize
               /\ Len(get'.got) < get'.size
    <3>1. next <= L
      BY <1>11, <2>3
    <3>2. next \in Block
      BY <1>17, <3>1, BlockNumbers
    <3>. QED BY <1>4, <1>11, <1>12, <1>17, <3>1, <3>2 DEF n
  <2>4. get'.pc = "end" => Len(get'.got) = get'.size
    BY <1>11, <1>12, <1>17
  <2>. QED BY <1>11, <1>17, <2>1, <2>2, <2>3, <2>4 DEF GetInv
<1>. QED BY <1>1, <1>2, <1>3, <1>13, <1>18 DEF TransferInv

LEMMA TransferInitSafe ==
  TransferInit => TransferInv /\ Content = <<>>
<1>. SUFFICES ASSUME TransferInit PROVE TransferInv /\ Content = <<>>
  OBVIOUS
<1>0. /\ BlockSize \in Nat \ {0} /\ SizeRange \in Nat \ {0}
      /\ \A c \in Client : Local[c].full \in Nat
  BY FileTransferAssumption
<1>1. /\ \A b \in Block : blocks[b] = <<>>
      /\ blocks = [b \in Block |-> <<>>] /\ fileSize = 0 /\ reports = {}
      /\ put = [c \in Client |-> [pc |-> "out", size |-> 0, pos |-> 0,
                                  failed |-> FALSE, block |-> 0]]
      /\ get = [pc |-> "out", size |-> 0, block |-> 1, got |-> <<>>]
  BY DEF TransferInit
<1>2. <<>> \in Seq(Batch) /\ Len(<<>>) = 0
  OBVIOUS
<1>3. Filled(blocks)
  BY <1>0, <1>1, <1>2 DEF Filled
<1>4. Content = <<>> /\ Len(Content) = 0
  <2>1. Content \in Seq(Batch) /\ Len(Content) \in 0..SizeRange
    BY <1>3, KeptLengths
  <2>2. 1 \in 1..Blocks /\ 1 \in Block
    BY BlockNumbers
  <2>3. Len(blocks[1]) < BlockSize /\ Len(blocks[1]) = 0
    BY <1>0, <1>1, <2>2
  <2>4. Len(Content) = At(1, 0) + Len(blocks[1])
    BY <1>3, <2>2, <2>3, EndOfFile DEF Content
  <2>5. At(1, 0) = 0
    BY <2>2, Laid
  <2>6. Len(Content) = 0
    BY <2>3, <2>4, <2>5
  <2>. QED BY <2>1, <2>6
<1>5. PutInv
  BY <1>0, <1>1 DEF PutInv, CallOf, Call
<1>6. SizeInv
  BY <1>0, <1>1, <1>4 DEF SizeInv
<1>7. ReadInv
  BY <1>1, <1>2, <1>4 DEF ReadInv
<1>8. GetInv
  <2>1. Signed(0) = 0
    BY <1>0 DEF Signed
  <2>. QED BY <1>0, <1>1, <1>2, <1>4, <2>1 DEF GetInv
<1>. QED BY <1>3, <1>4, <1>5, <1>6, <1>7, <1>8 DEF TransferInv

LEMMA TransferStep ==
  ASSUME TransferInv, [TransferNext]_transferVars
  PROVE  /\ TransferInv'
         /\ [File!Next]_<<Content, fileSize>>
<1>0. Filled(blocks) /\ Content \in Seq(Batch)
  BY KeptLengths DEF TransferInv
<1>1. ASSUME NEW c \in Client, StartPut(c)
      PROVE  TransferInv' /\ UNCHANGED <<Content, fileSize>>
  BY <1>1, StartPutSafe DEF StartPut, Content
<1>2. ASSUME NEW c \in Client, AskForBlock(c)
      PROVE  TransferInv' /\ UNCHANGED <<Content, fileSize>>
  BY <1>2, AskForBlockSafe DEF AskForBlock, Content
<1>3. ASSUME NEW c \in Client, SendAppend(c)
      PROVE  TransferInv' /\ [File!Next]_<<Content, fileSize>>
  <2>1. TransferInv' /\ (Content' = Append(Content, Buffer(c)) \/ Content' = Content)
    BY <1>3, SendAppendSafe
  <2>2. fileSize' = fileSize
    BY <1>3 DEF SendAppend
  <2>3. Buffer(c) \in Batch
    BY BufferIsBatch
  <2>. QED BY <2>1, <2>2, <2>3 DEF File!Next, File!Add
<1>4. ASSUME NEW c \in Client, SendWrite(c)
      PROVE  TransferInv' /\ [File!Next]_<<Content, fileSize>>
  <2>1. TransferInv' /\ (\/ \E i \in DOMAIN Content :
                             Content' = [Content EXCEPT ![i] = Buffer(c)]
                        \/ Content' = Content)
    BY <1>4, SendWriteSafe
  <2>2. fileSize' = fileSize
    BY <1>4 DEF SendWrite
  <2>3. Buffer(c) \in Batch
    BY BufferIsBatch
  <2>. QED BY <2>1, <2>2, <2>3 DEF File!Next, File!Replace
<1>5. ASSUME NEW c \in Client, Expire(c)
      PROVE  TransferInv' /\ UNCHANGED <<Content, fileSize>>
  BY <1>5, ExpireSafe DEF Expire, Content
<1>6. ASSUME NEW c \in Client, StopPut(c)
      PROVE  TransferInv' /\ UNCHANGED <<Content, fileSize>>
  BY <1>6, StopPutSafe DEF StopPut, Content
<1>7. ASSUME NEW b \in Block, PeriodicReport(b)
      PROVE  TransferInv' /\ UNCHANGED <<Content, fileSize>>
  BY <1>7, PeriodicReportSafe DEF PeriodicReport, Content
<1>8. ASSUME NEW b \in Block, NEW n \in 1..BlockSize, OnReport(b, n)
      PROVE  TransferInv' /\ [File!Next]_<<Content, fileSize>>
  <2>1. TransferInv' /\ fileSize <= fileSize' /\ fileSize' <= Len(Content)
    BY <1>8, OnReportSafe
  <2>2. Content' = Content
    BY <1>8 DEF OnReport, Content
  <2>3. fileSize \in Int /\ fileSize' \in Int /\ Len(Content) \in Int
    BY <1>0, <2>1, BlockNumbers DEF TransferInv, SizeInv
  <2>4. fileSize' = fileSize \/ fileSize' \in fileSize + 1 .. Len(Content)
    BY <2>1, <2>3
  <2>. QED BY <2>1, <2>2, <2>4 DEF File!Next, File!Announce
<1>9. ASSUME NEW r \in reports, Lose(r)
      PROVE  TransferInv' /\ UNCHANGED <<Content, fileSize>>
  BY <1>9, ReportsSafe DEF Lose, Content
<1>10. ASSUME StartGet
       PROVE  TransferInv' /\ UNCHANGED <<Content, fileSize>>
  BY <1>10, StartGetSafe DEF StartGet, Content
<1>11. ASSUME ReadBatch
       PROVE  TransferInv' /\ UNCHANGED <<Content, fileSize>>
  BY <1>11, ReadBatchSafe DEF ReadBatch, Content
<1>12. ASSUME UNCHANGED transferVars
       PROVE  TransferInv' /\ UNCHANGED <<Content, fileSize>>
  <2>1. TransferInv'
    BY <1>12, ReportsSafe DEF transferVars
  <2>. QED BY <1>12, <2>1 DEF transferVars, Content
<1>. QED BY <1>1, <1>2, <1>3, <1>4, <1>5, <1>6, <1>7, <1>8, <1>9, <1>10, <1>11,
            <1>12 DEF TransferNext, Upload

\* The blocks are filled in order, what the master and a download have been told
\* is stored, and a download is where its next batch is, in all states of put, get
\* and reports.
THEOREM TransferSafe == TransferSpec => []TransferInv
<1>1. TransferInit => TransferInv
  BY TransferInitSafe
<1>2. TransferInv /\ [TransferNext]_transferVars => TransferInv'
  BY TransferStep
<1>. QED BY <1>1, <1>2, PTL DEF TransferSpec

\* To those that put and get it, a file is a sequence of batches that grows at its
\* end only, and a size that goes up to what is stored.
THEOREM TransferImplementsFile == TransferSpec => ImplementsFile
<1>1. TransferInit => File!Init
  <2>1. TransferInit => Content = <<>> /\ fileSize = 0
    BY TransferInitSafe DEF TransferInit
  <2>. QED BY <2>1 DEF File!Init
<1>2. TransferInv /\ [TransferNext]_transferVars => [File!Next]_<<Content, fileSize>>
  BY TransferStep
<1>. QED BY <1>1, <1>2, TransferSafe, PTL DEF TransferSpec, ImplementsFile, File!Spec

\* GetBlock finds all batches of the size it was told of, in their places.
THEOREM DownloadsAreStored == TransferSpec => []DownloadIsStored
<1>1. TransferInv => DownloadIsStored
  <2>1. SUFFICES ASSUME TransferInv PROVE DownloadIsStored
    OBVIOUS
  <2>2. get.pc # "out of range"
    BY <2>1 DEF TransferInv, GetInv
  <2>3. DOMAIN get.got = 1..Len(get.got)
    BY <2>1 DEF TransferInv, ReadInv
  <2>. QED BY <2>1, <2>2, <2>3 DEF DownloadIsStored, TransferInv, ReadInv, GetInv
<1>. QED BY <1>1, TransferSafe, PTL

-----------------------------------------------------------------------------
\* The batches of c among the first n of f.
Of(f, c, n) == {i \in 1..n : f[i][1] = c}

\* The number of the nth batch of c.
Nth(c, n) == IF n < LastBatch(c) THEN n ELSE LastBatch(c)

\* All batches up to the one that a call is at are there, each once, unless its
\* stream has failed at the last one.
Orderly(c, p, f) ==
  LET all == Cardinality(Of(f, c, Len(f)))
  IN  /\ p.pc = "out" => p.pos = 0 /\ ~p.failed /\ all = 0
      /\ p.pc \in {"ask", "send"} =>
           IF p.failed THEN p.pos = Local[c].full /\ all >= p.pos ELSE all = p.pos
      /\ p.pc \in {"done", "stopped"} => p.pos = 0
      /\ p.pc = "done" => all > Local[c].full
      /\ \A i \in Of(f, c, Len(f)) : f[i][2] = Nth(c, Cardinality(Of(f, c, i)))

OrderInv ==
  (\A c \in Client : put[c].size <= 0) =>
    \A c \in Client : Orderly(c, put[c], Content)

LEMMA OfIsFinite ==
  ASSUME NEW f, NEW c, NEW n \in Nat
  PROVE  IsFiniteSet(Of(f, c, n)) /\ Cardinality(Of(f, c, n)) \in Nat
<1>1. IsFiniteSet(1..n)
  BY FS_Interval
<1>2. Of(f, c, n) \subseteq 1..n
  BY DEF Of
<1>. QED BY <1>1, <1>2, FS_Subset, FS_CardinalityType

\* g goes on where f is at its end, n.
GoesOn(f, g, n) == \A i \in 1..n : g[i] = f[i]

LEMMA SameBefore ==
  ASSUME NEW f, NEW g, NEW c, NEW n \in Nat, GoesOn(f, g, n), NEW i \in 1..n
  PROVE  Of(g, c, i) = Of(f, c, i) /\ g[i] = f[i]
<1>1. \A j \in 1..i : j \in 1..n
  OBVIOUS
<1>. QED BY <1>1 DEF Of, GoesOn

\* A batch of c is one more of c, and none of others.
LEMMA NoneMore ==
  ASSUME NEW f, NEW g, NEW c, NEW n \in Nat, GoesOn(f, g, n), g[n + 1][1] # c
  PROVE  Of(g, c, n + 1) = Of(f, c, n)
<1>1. 1..(n + 1) = (1..n) \cup {n + 1} /\ ~(n + 1 \in 1..n)
  OBVIOUS
<1>. QED BY <1>1 DEF Of, GoesOn

LEMMA OneMore ==
  ASSUME NEW f, NEW g, NEW c, NEW n \in Nat, GoesOn(f, g, n), g[n + 1][1] = c
  PROVE  /\ Of(g, c, n + 1) = Of(f, c, n) \cup {n + 1}
         /\ Cardinality(Of(g, c, n + 1)) = Cardinality(Of(f, c, n)) + 1
<1>1. 1..(n + 1) = (1..n) \cup {n + 1} /\ ~(n + 1 \in 1..n)
  OBVIOUS
<1>2. Of(g, c, n + 1) = Of(f, c, n) \cup {n + 1}
  BY <1>1 DEF Of, GoesOn
<1>3. ~(n + 1 \in Of(f, c, n))
  BY <1>1 DEF Of
<1>4. Cardinality(Of(f, c, n) \cup {n + 1}) = Cardinality(Of(f, c, n)) + 1
  BY <1>3, OfIsFinite, FS_AddElement
<1>. QED BY <1>2, <1>4

\* What a batch that is added means for the call it is of, and for the others.
LEMMA OrderlyForSender ==
  ASSUME TransferInv, NEW c \in Client, put[c].pc = "send",
         Orderly(c, put[c], Content)
  PROVE  Orderly(c, Sent(c)[c], Append(Content, Buffer(c)))
<1>. DEFINE f == Content
            g == Append(f, Buffer(c))
            n == Len(f)
            p == put[c]
            all == Cardinality(Of(f, c, n))
<1>0. /\ put \in [Client -> Call] /\ p \in Call /\ p.pos <= Local[c].full
      /\ f \in Seq(Batch) /\ p.pos \in Nat /\ p.failed \in BOOLEAN
  BY KeptLengths DEF TransferInv, PutInv, CallOf, Call
<1>1. Local[c].full \in Nat /\ LastBatch(c) \in {Local[c].full, Local[c].full + 1}
  BY FileTransferAssumption DEF LastBatch
<1>2. Buffer(c) \in Batch /\ Buffer(c)[1] = c
  BY BufferIsBatch
<1>3. /\ Len(g) = n + 1 /\ g[n + 1] = Buffer(c) /\ n \in Nat
      /\ \A i \in 1..n : Of(g, c, i) = Of(f, c, i) /\ g[i] = f[i]
      /\ Of(g, c, n + 1) = Of(f, c, n) \cup {n + 1}
      /\ Cardinality(Of(g, c, n + 1)) = all + 1
  <2>1. /\ Len(g) = n + 1 /\ g[n + 1] = Buffer(c) /\ n \in Nat
        /\ GoesOn(f, g, n)
    BY <1>0, <1>2 DEF GoesOn
  <2>. HIDE DEF g, n, f
  <2>2. g[n + 1][1] = c
    BY <1>2, <2>1
  <2>3. ASSUME NEW i \in 1..n PROVE Of(g, c, i) = Of(f, c, i) /\ g[i] = f[i]
    BY <2>1, SameBefore
  <2>4. /\ Of(g, c, n + 1) = Of(f, c, n) \cup {n + 1}
        /\ Cardinality(Of(g, c, n + 1)) = Cardinality(Of(f, c, n)) + 1
    BY <2>1, <2>2, OneMore
  <2>. QED BY <2>1, <2>3, <2>4
<1>4. all \in Nat
  BY <1>3, OfIsFinite
<1>. HIDE DEF f
<1>5. /\ IF p.failed THEN p.pos = Local[c].full /\ all >= p.pos ELSE all = p.pos
      /\ \A i \in Of(f, c, n) : f[i][2] = Nth(c, Cardinality(Of(f, c, i)))
  BY DEF Orderly, f
<1>. HIDE DEF g, n, all
<1>6. Buffer(c)[2] = Nth(c, all + 1)
  <2>1. CASE Short(c)
    <3>1. all >= Local[c].full
      BY <1>0, <1>4, <1>5, <2>1 DEF Short
    <3>2. Buffer(c)[2] = LastBatch(c)
      BY <2>1 DEF Buffer
    <3>. QED BY <1>1, <1>4, <3>1, <3>2 DEF Nth
  <2>2. CASE ~Short(c)
    <3>1. all = p.pos /\ p.pos < Local[c].full
      BY <1>0, <1>1, <1>5, <2>2 DEF Short
    <3>2. Buffer(c)[2] = p.pos + 1
      BY <2>2 DEF Buffer
    <3>. QED BY <1>0, <1>1, <3>1, <3>2 DEF Nth
  <2>. QED BY <2>1, <2>2
<1>7. ASSUME NEW i \in Of(g, c, n + 1)
      PROVE  g[i][2] = Nth(c, Cardinality(Of(g, c, i)))
  <2>1. CASE i = n + 1
    BY <1>3, <1>6, <2>1
  <2>2. CASE i \in Of(f, c, n)
    <3>1. i \in 1..n
      BY <2>2 DEF Of
    <3>. QED BY <1>3, <1>5, <2>2, <3>1
  <2>. QED BY <1>3, <2>1, <2>2
<1>a. /\ Cardinality(Of(g, c, Len(g))) = all + 1
      /\ \A i \in Of(g, c, Len(g)) : g[i][2] = Nth(c, Cardinality(Of(g, c, i)))
  BY <1>3, <1>7
<1>8. CASE Eof(c)
  <2>1. Sent(c)[c] = [pc |-> "done", size |-> p.size, pos |-> 0,
                      failed |-> FALSE, block |-> 0]
    BY <1>8, EndedSafe DEF Sent
  <2>2. all + 1 > Local[c].full
    BY <1>0, <1>4, <1>5, <1>8 DEF Eof
  <2>3. Orderly(c, Sent(c)[c], g)
    BY <1>a, <2>1, <2>2 DEF Orderly
  <2>. QED BY <2>3 DEF f, g
<1>9. CASE ~Eof(c)
  <2>. DEFINE pos == IF Short(c) THEN p.pos ELSE p.pos + 1
              over == Overwrites(c) /\ (pos % BlockSize = 0 \/ pos >= p.size)
              q == [p EXCEPT !.pos = pos, !.pc = IF over THEN "ask" ELSE "send"]
  <2>1. Sent(c)[c] = q
    BY <1>0, <1>9 DEF Sent, Call
  <2>2. q.pos = pos /\ q.failed = p.failed /\ q.pc \in {"ask", "send"}
    BY <1>0 DEF Call
  <2>3. IF p.failed THEN pos = Local[c].full /\ all + 1 >= pos ELSE all + 1 = pos
    BY <1>0, <1>1, <1>4, <1>5, <1>9 DEF Short, Eof
  <2>. HIDE DEF pos, q
  <2>4. Orderly(c, q, g)
    BY <1>a, <2>2, <2>3 DEF Orderly
  <2>. QED BY <2>1, <2>4 DEF f, g
<1>. QED BY <1>8, <1>9

LEMMA OrderlyForOthers ==
  ASSUME TransferInv, NEW c \in Client, NEW d \in Client, d # c,
         Orderly(d, put[d], Content)
  PROVE  Orderly(d, put[d], Append(Content, Buffer(c)))
<1>. DEFINE f == Content
            g == Append(f, Buffer(c))
            n == Len(f)
<1>1. f \in Seq(Batch) /\ Buffer(c) \in Batch /\ Buffer(c)[1] # d
  BY BufferIsBatch, KeptLengths DEF TransferInv
<1>2. /\ Len(g) = n + 1 /\ n \in Nat
      /\ \A i \in 1..n : Of(g, d, i) = Of(f, d, i) /\ g[i] = f[i]
      /\ Of(g, d, n + 1) = Of(f, d, n)
  <2>1. /\ Len(g) = n + 1 /\ g[n + 1] = Buffer(c) /\ n \in Nat
        /\ GoesOn(f, g, n)
    BY <1>1 DEF GoesOn
  <2>. HIDE DEF g, n, f
  <2>2. g[n + 1][1] # d
    BY <1>1, <2>1
  <2>3. ASSUME NEW i \in 1..n PROVE Of(g, d, i) = Of(f, d, i) /\ g[i] = f[i]
    BY <2>1, SameBefore
  <2>. QED BY <2>1, <2>2, <2>3, NoneMore
<1>. HIDE DEF f, n, g
<1>3. \A i \in Of(f, d, n) : i \in 1..n
  BY DEF Of
<1>4. \A i \in Of(f, d, n) : f[i][2] = Nth(d, Cardinality(Of(f, d, i)))
  BY DEF Orderly, f, n
<1>5. \A i \in Of(g, d, n + 1) : g[i][2] = Nth(d, Cardinality(Of(g, d, i)))
  BY <1>2, <1>3, <1>4
<1>6. Of(g, d, Len(g)) = Of(f, d, Len(f))
  BY <1>2 DEF n
<1>. QED BY <1>2, <1>5, <1>6 DEF Orderly, f, g

LEMMA OrderInvNext ==
  ASSUME TransferInv, OrderInv, [TransferNext]_transferVars
  PROVE  OrderInv'
<1>. SUFFICES ASSUME \A c \in Client : put'[c].size <= 0
              PROVE  \A c \in Client : Orderly(c, put'[c], Content')
  BY DEF OrderInv
<1>0. put \in [Client -> Call]
  BY DEF TransferInv, PutInv
<1>1. ASSUME Keeps PROVE \A c \in Client : Orderly(c, put[c], Content)
  <2>1. \A c \in Client : put[c].size \in Int /\ ~(put[c].size > 0)
    <3>1. TransferInv'
      BY TransferStep
    <3>2. \A c \in Client : put[c].size \in Int /\ put'[c].size \in Int
      BY <1>0, <3>1 DEF TransferInv, PutInv, Call
    <3>. QED BY <1>1, <3>2 DEF Keeps
  <2>2. \A c \in Client : put[c].size <= 0
    BY <2>1
  <2>. QED BY <2>2 DEF OrderInv
<1>2. ASSUME NEW c \in Client, StartPut(c)
      PROVE  \A d \in Client : Orderly(d, put'[d], Content')
  <2>1. \A d \in Client : Orderly(d, put[d], Content)
    BY <1>1, <1>2, StartPutSafe
  <2>2. Content' = Content /\ put[c].pc = "out"
    BY <1>2 DEF StartPut, Content
  <2>3. /\ \A d \in Client : d # c => put'[d] = put[d]
        /\ put'[c].pc = "ask" /\ put'[c].pos = put[c].pos
        /\ put'[c].failed = put[c].failed
    BY <1>0, <1>2 DEF StartPut, Call
  <2>4. Orderly(c, put'[c], Content)
    BY <2>1, <2>2, <2>3 DEF Orderly
  <2>. QED BY <2>1, <2>2, <2>3, <2>4
<1>3. ASSUME NEW c \in Client, AskForBlock(c)
      PROVE  \A d \in Client : Orderly(d, put'[d], Content')
  <2>1. \A d \in Client : Orderly(d, put[d], Content)
    BY <1>1, <1>3, AskForBlockSafe
  <2>2. Content' = Content /\ put[c].pc = "ask"
    BY <1>3 DEF AskForBlock, Content
  <2>3. /\ \A d \in Client : d # c => put'[d] = put[d]
        /\ put'[c].pc = "send" /\ put'[c].pos = put[c].pos
        /\ put'[c].failed = put[c].failed
    BY <1>0, <1>3 DEF AskForBlock, Call
  <2>4. Orderly(c, put'[c], Content)
    BY <2>1, <2>2, <2>3 DEF Orderly
  <2>. QED BY <2>1, <2>2, <2>3, <2>4
<1>4. ASSUME NEW c \in Client, put[c].pc = "send", Keeps, put' = SeekBack(c),
             Content' = Content
      PROVE  \A d \in Client : Orderly(d, put'[d], Content')
  <2>1. \A d \in Client : Orderly(d, put[d], Content)
    BY <1>1, <1>4
  <2>2. /\ \A d \in Client : d # c => put'[d] = put[d]
        /\ put'[c] = [put[c] EXCEPT !.pc = "ask", !.failed = Short(c)]
    BY <1>4, SeekBackSafe
  <2>3. /\ put'[c].pc = "ask" /\ put'[c].pos = put[c].pos
        /\ put'[c].failed = Short(c)
    BY <1>0, <2>2 DEF Call
  <2>. DEFINE all == Cardinality(Of(Content, c, Len(Content)))
  <2>4. all \in Nat /\ put[c].pos \in Nat
    BY <1>0, OfIsFinite, KeptLengths, BlockNumbers DEF TransferInv, Call
  <2>5. IF put[c].failed THEN put[c].pos = Local[c].full /\ all >= put[c].pos
        ELSE all = put[c].pos
    BY <1>4, <2>1 DEF Orderly
  <2>6. IF Short(c) THEN put[c].pos = Local[c].full /\ all >= put[c].pos
        ELSE all = put[c].pos
    BY <2>4, <2>5 DEF Short
  <2>7. Orderly(c, put[c], Content)
    BY <2>1
  <2>8. Orderly(c, put'[c], Content)
    BY <2>3, <2>6, <2>7 DEF Orderly
  <2>. QED BY <1>4, <2>1, <2>2, <2>8
<1>5. ASSUME NEW c \in Client, SendAppend(c)
      PROVE  \A d \in Client : Orderly(d, put'[d], Content')
  <2>1. put[c].pc = "send" /\ ~Overwrites(c)
    BY <1>5 DEF SendAppend
  <2>2. /\ Keeps
        /\ \/ put' = Sent(c) /\ Content' = Append(Content, Buffer(c))
           \/ put' = SeekBack(c) /\ Content' = Content
    <3>1. Keeps
      BY <1>5, SendAppendSafe
    <3>2. \/ put' = Sent(c) /\ Content' = Append(Content, Buffer(c))
          \/ put' = SeekBack(c) /\ Content' = Content
      BY <1>5, SendAppendSafe
    <3>. QED BY <3>1, <3>2
  <2>3. \A d \in Client : Orderly(d, put[d], Content)
    BY <1>1, <2>2
  <2>4. ASSUME put' = Sent(c), Content' = Append(Content, Buffer(c)), NEW d \in Client
        PROVE  Orderly(d, put'[d], Content')
    <3>1. CASE d = c
      BY <2>1, <2>3, <2>4, <3>1, OrderlyForSender
    <3>2. CASE d # c
      <4>1. put'[d] = put[d]
        <5>1. /\ put[c].block > 1 => Len(blocks[put[c].block - 1]) = BlockSize
          BY <2>1, AppendsToEnd
        <5>. QED BY <2>1, <2>4, <3>2, <5>1, SentSafe
      <4>. QED BY <2>3, <2>4, <3>2, <4>1, OrderlyForOthers
    <3>. QED BY <3>1, <3>2
  <2>. QED BY <1>4, <2>1, <2>2, <2>4
<1>6. ASSUME NEW c \in Client, SendWrite(c) PROVE FALSE
  <2>1. Keeps /\ put[c].pos < put[c].size
    BY <1>6, SendWriteSafe DEF SendWrite, Overwrites
  <2>2. put[c].pos \in Nat /\ put[c].size \in Int
    BY <1>0 DEF Call
  <2>3. put'[c].size > 0
    BY <2>1, <2>2 DEF Keeps
  <2>4. put'[c].size \in Int
    BY TransferStep DEF TransferInv, PutInv, Call
  <2>. QED BY <2>3, <2>4
<1>7. ASSUME NEW c \in Client, Expire(c)
      PROVE  \A d \in Client : Orderly(d, put'[d], Content')
  BY <1>4, <1>7, ExpireSafe DEF Expire, Content
<1>8. ASSUME NEW c \in Client, StopPut(c)
      PROVE  \A d \in Client : Orderly(d, put'[d], Content')
  <2>1. \A d \in Client : Orderly(d, put[d], Content)
    BY <1>1, <1>8, StopPutSafe
  <2>2. Content' = Content /\ put' = Ended(c, "stopped") /\ put[c].pc \in {"ask", "send"}
    BY <1>8 DEF StopPut, Content
  <2>3. /\ \A d \in Client : d # c => put'[d] = put[d]
        /\ put'[c].pc = "stopped" /\ put'[c].pos = 0
    <3>1. /\ \A d \in Client : d # c => Ended(c, "stopped")[d] = put[d]
          /\ Ended(c, "stopped")[c] = [pc |-> "stopped", size |-> put[c].size, pos |-> 0,
                                      failed |-> FALSE, block |-> 0]
      BY <2>2, EndedSafe
    <3>. QED BY <2>2, <3>1
  <2>4. Orderly(c, put'[c], Content)
    BY <2>1, <2>3 DEF Orderly
  <2>. QED BY <2>1, <2>2, <2>3, <2>4
<1>9. ASSUME UNCHANGED <<blocks, put>>
      PROVE  \A d \in Client : Orderly(d, put'[d], Content')
  <2>1. Keeps
    BY <1>9, Unmoved
  <2>2. Content' = Content
    BY <1>9 DEF Content
  <2>. QED BY <1>1, <1>9, <2>1, <2>2
<1>10. \/ \E c \in Client : \/ StartPut(c) \/ AskForBlock(c) \/ SendAppend(c)
                            \/ SendWrite(c) \/ Expire(c) \/ StopPut(c)
       \/ UNCHANGED <<blocks, put>>
  BY DEF TransferNext, Upload, PeriodicReport, OnReport, Lose, StartGet, ReadBatch,
         transferVars
<1>. QED BY <1>2, <1>3, <1>5, <1>6, <1>7, <1>8, <1>9, <1>10

\* Blocks are filled one after another; where nobody overwrites, each upload's
\* batches are in the file in the order of the local file, none of them lost or
\* stored twice by the retries of FileUploader::Start.
THEOREM BatchesStayInOrder == TransferSpec => []BatchesInOrder
<1>1. TransferInit => TransferInv /\ OrderInv
  <2>. SUFFICES ASSUME TransferInit PROVE OrderInv
    BY TransferInitSafe
  <2>1. Content = <<>> /\ Len(Content) = 0
    BY TransferInitSafe
  <2>2. \A c \in Client : Of(Content, c, Len(Content)) = {}
    BY <2>1 DEF Of
  <2>3. Cardinality({}) = 0
    BY FS_EmptySet
  <2>4. \A c \in Client : put[c].pc = "out" /\ put[c].pos = 0 /\ ~put[c].failed
    BY DEF TransferInit
  <2>. QED BY <2>2, <2>3, <2>4 DEF OrderInv, Orderly
<1>2. TransferInv /\ OrderInv /\ [TransferNext]_transferVars => TransferInv' /\ OrderInv'
  BY TransferStep, OrderInvNext
<1>3. TransferInv /\ OrderInv => BatchesInOrder
  <2>. SUFFICES ASSUME TransferInv, OrderInv PROVE BatchesInOrder
    OBVIOUS
  <2>0. put \in [Client -> Call] /\ Len(Content) \in Nat /\ DOMAIN Content = 1..Len(Content)
    BY KeptLengths, BlockNumbers DEF TransferInv, PutInv
  <2>1. \A b \in Block : /\ Len(blocks[b]) <= BlockSize
                        /\ (b > 1 /\ blocks[b] # <<>>) => Len(blocks[b - 1]) = BlockSize
    BY DEF TransferInv, Filled
  <2>2. ASSUME \A c \in Client : put[c].size <= 0, NEW c \in Client
        PROVE  LET mine == Places(c, Len(Content))
               IN  /\ Cardinality(mine) >= put[c].pos
                   /\ put[c].pc = "done" => Cardinality(mine) > Local[c].full
                   /\ \A i \in mine :
                        LET n == Cardinality(Places(c, i))
                        IN  Content[i][2] = IF n < LastBatch(c) THEN n ELSE LastBatch(c)
    <3>1. Orderly(c, put[c], Content)
      BY <2>2 DEF OrderInv
    <3>2. \A n : Places(c, n) = Of(Content, c, n)
      BY DEF Places, Of
    <3>. DEFINE all == Cardinality(Of(Content, c, Len(Content)))
    <3>3. all \in Nat /\ put[c].pos \in Nat
          /\ put[c].pc \in {"out", "ask", "send", "done", "stopped"}
      BY <2>0, OfIsFinite DEF Call
    <3>4. all >= put[c].pos
      BY <3>1, <3>3 DEF Orderly
    <3>. QED BY <3>1, <3>2, <3>4 DEF Orderly, Nth
  <2>. QED BY <2>1, <2>2 DEF BatchesInOrder
<1>. QED BY <1>1, <1>2, <1>3, PTL DEF TransferSpec
=============================================================================
