------------------------ MODULE BlockReplicationProofs ------------------------
(***************************************************************************)
(* Safety of the copies of a block, for any number of data nodes, clients  *)
(* and coroutines, and for anything the environment may do any number of   *)
(* times: leases, repairs, stops, lost connections, failed disk writes and *)
(* restarts of the master.                                                 *)
(***************************************************************************)
EXTENDS BlockReplication, FiniteSetTheorems,
        SequenceTheorems, WellFoundedInduction, TLAPS

Party == Server \cup {Master}

Write == [kind : {"append", "write"}, offset : Nat, data : Int]
Lease == [until : Nat, version : Nat, newversion : Nat]
Op == [pc : {"granted", "sent", "begun", "applied"}, node : Server,
       peers : SUBSET Server, old : Nat, lease : Lease, write : Write]
Task == [to : Server, version : Nat, lease : Nat]
Disk == [file : {None} \cup Seq(Int), meta : {None} \cup Meta]

\* Batch o of some copy that was sent for version v, among those in cp, is x.
Sourced(cp, v, o, x) ==
  \E c \in cp : /\ c.version = v
                /\ o + 1 <= Len(c.data)
                /\ c.data[o + 1] = x

\* What is sent says no more than what its sender could know: a notification
\* leads to no older version, a batch is one of a copy that was sent out.
Updates == [type : {"update"}, version : Nat, size : Nat, fault : BOOLEAN]
Reports == [type : {"report"}, version : Nat, size : Nat]
Cleans == [type : {"clean", "cleaned"}]
Recovers == {m \in [type : {"recover"}, version : Nat, lease : Nat,
                    copyto : SUBSET Server] : IsFiniteSet(m.copyto)}
Notifies == {m \in [type : {"notify"}, write : Write, old : Nat, new : Nat] :
               m.old <= m.new}
Starts == [type : {"start"}, version : Nat, size : Nat]
Datas(cp) == {m \in [type : {"data"}, version : Nat, offset : Nat, data : Int] :
                Sourced(cp, m.version, m.offset, m.data)}
Completions == [type : {"complete"}, version : Nat]

Mail(cp) == Updates \cup Reports \cup Cleans \cup Recovers \cup Notifies
              \cup Starts \cup Datas(cp) \cup Completions

Queues(cp) == [Party -> [Party -> Seq(Mail(cp))]]

TypeInv ==
  /\ M!TypeOK
  /\ up \in [Server -> BOOLEAN]
  /\ blk \in [Server -> {None} \cup Block]
  /\ disk \in [Server -> Disk]
  /\ tasks \in [Server -> SUBSET Task]
  /\ op \in [Client -> {None} \cup Op]
  /\ chan \in Queues(copied)
  /\ spent \in [budget : Budgets, used : [Kinds -> Nat]]

\* The coroutines at node n between BlockManager::Get and the release.
Writers(n) == {c \in Client : /\ At(c, "begun") \/ At(c, "applied")
                              /\ op[c].node = n}

\* The writers W and the tasks ts of a block b hold its references.
Held(b, ts, W) ==
  /\ IsFiniteSet(ts) /\ IsFiniteSet(W)
  /\ LET users == Cardinality(W) + Cardinality(ts)
     IN  users > 0 => b # None /\ users <= b.refs

\* A block that can be read is as long as it says; one that is being recovered
\* has room for what comes, and gets newer by it.
Sound(b, f) ==
  b # None =>
    IF b.recover = None
    THEN b.size <= Len(Batches(f))
    ELSE b.version < b.recover.version /\ b.recover.size <= Len(Batches(f))

\* The meta file is that of the block, unless the block holds nothing.
Saved(b, meta) ==
  b # None /\ b.recover = None /\ b.version > 0 =>
    meta = [version |-> b.version, size |-> b.size]

\* A batch that counts as received is one that was sent, or torn.
Received(b, f, cp, faults) ==
  b # None /\ b.recover # None =>
    \A o \in b.recover.got :
      /\ o + 1 <= Len(Batches(f))
      /\ \/ Sourced(cp, b.recover.version, o, f[o + 1])
         \/ faults > 0 /\ f[o + 1] = Torn

\* What holds of each data node, between any two steps.
NodeInv(n) ==
  /\ ~up[n] => blk[n] = None
  /\ Held(blk[n], tasks[n], Writers(n))
  /\ \A c \in Writers(n) : op[c].old <= blk[n].version
  /\ Sound(blk[n], disk[n].file)
  /\ spent.used.faults = 0 => Saved(blk[n], disk[n].meta)
  /\ Received(blk[n], disk[n].file, copied, spent.used.faults)

NodesInv == \A n \in Server : NodeInv(n)

IInv == TypeInv /\ NodesInv

-----------------------------------------------------------------------------
(***************************************************************************)
(* What is written to the files of a block.                                *)
(***************************************************************************)
LEMMA FileIsSeq ==
  ASSUME NEW f \in {None} \cup Seq(Int)
  PROVE  /\ Batches(f) \in Seq(Int)
         /\ Len(Batches(f)) \in Nat
         /\ f \in Seq(Int) => Batches(f) = f
         /\ f # None => f \in Seq(Int)
  BY NoneAssumption DEF Batches

\* A batch that is stored makes no file shorter and changes no other batch.
LEMMA StoredFile ==
  ASSUME NEW f \in {None} \cup Seq(Int), NEW w, NEW x \in Int,
         w.kind \in {"append", "write"}, w.offset \in Nat,
         NEW g, g = Stored(f, w, x)
  PROVE  /\ g \in Seq(Int) /\ Batches(g) = g
         /\ Len(Batches(f)) <= Len(g)
         /\ w.kind = "append" => Len(g) = Len(Batches(f)) + 1
         /\ w.kind = "write" => /\ w.offset + 1 <= Len(g)
                                /\ g[w.offset + 1] = x
         /\ \A i \in 1..Len(Batches(f)) :
              w.kind = "write" /\ i # w.offset + 1 => g[i] = f[i]
  <1>. DEFINE h == Batches(f)
  <1>1. h \in Seq(Int) /\ Len(h) \in Nat
    BY FileIsSeq
  <1>2. CASE w.kind = "append"
    <2>1. g = Append(h, x)
      BY <1>2 DEF Stored
    <2>. HIDE DEF h
    <2>2. g \in Seq(Int) /\ Len(g) = Len(h) + 1
      BY <1>1, <2>1
    <2>3. Batches(g) = g
      BY <2>2, FileIsSeq
    <2>. QED BY <1>1, <1>2, <2>2, <2>3 DEF h
  <1>3. CASE w.kind = "write"
    <2>. DEFINE k == Larger(Len(h), w.offset + 1)
    <2>1. g = [i \in 1..k |-> IF i = w.offset + 1 THEN x
                              ELSE IF i <= Len(h) THEN h[i] ELSE 0]
      BY <1>3 DEF Stored, Overwrite
    <2>2. k \in Nat /\ Len(h) <= k /\ w.offset + 1 <= k /\ w.offset + 1 \in 1..k
      BY <1>1 DEF Larger
    <2>3. \A i \in 1..k : i <= Len(h) => h[i] \in Int
      BY <1>1, <2>2
    <2>4. \A i \in 1..Len(h) : h[i] = f[i]
      BY FileIsSeq DEF Batches
    <2>. HIDE DEF h, k
    <2>5. g \in [1..k -> Int]
      BY <2>1, <2>3
    <2>6. g \in Seq(Int) /\ Len(g) = k
      BY <2>2, <2>5
    <2>7. Batches(g) = g
      BY <2>6, FileIsSeq
    <2>8. \A i \in 1..Len(h) : i # w.offset + 1 => g[i] = h[i]
      BY <1>1, <2>1, <2>2
    <2>9. g[w.offset + 1] = x
      BY <2>1, <2>2
    <2>. QED BY <1>3, <2>2, <2>4, <2>6, <2>7, <2>8, <2>9 DEF h
  <1>. QED BY <1>2, <1>3

LEMMA ResizedFile ==
  ASSUME NEW f \in {None} \cup Seq(Int), NEW length \in Nat
  PROVE  /\ Resized(f, length) \in Seq(Int)
         /\ Len(Batches(Resized(f, length))) = length
  <1>. DEFINE g == Resized(f, length)
  <1>1. \A i \in 1..length : i <= Len(Batches(f)) => f[i] \in Int
    BY FileIsSeq DEF Batches
  <1>2. g \in [1..length -> Int]
    BY <1>1 DEF Resized
  <1>. HIDE DEF g
  <1>3. g \in Seq(Int) /\ Len(g) = length
    BY <1>2
  <1>. QED BY <1>3, FileIsSeq DEF g

\* The version that a lease announces (Block::NextVersion of the master).
LEMMA NextVersionIsVersion ==
  ASSUME NEW v \in Version
  PROVE  NextVersion(v) \in Version
  <1>1. v \div TermWidth \in Nat
    BY TermWidthAssumption DEF Version
  <1>. QED BY <1>1, TermWidthAssumption, SMT DEF NextVersion, Term, Version

\* What Block::Write and Block::Append make of a block: it gets no older, and
\* longer by the batch that is appended.
Written(b, nb, w, outcome) ==
  /\ nb \in Block /\ nb.refs = b.refs /\ nb.recover = b.recover
  /\ b.version <= nb.version
  /\ nb.size <= IF w.kind = "append" /\ outcome \in {"written", "no_meta"}
                THEN b.size + 1 ELSE b.size

LEMMA NewerBlock ==
  ASSUME NEW b \in Block, NEW w, NEW v \in Nat, b.version <= v, NEW outcome
  PROVE  Written(b, [b EXCEPT !.version = v,
                              !.size = IF w.kind = "append" THEN @ + 1 ELSE @],
                 w, "written")
  <1>. DEFINE ns == IF w.kind = "append" THEN b.size + 1 ELSE b.size
              nb == [version |-> v, size |-> ns, refs |-> b.refs,
                     recover |-> b.recover]
  <1>1. /\ b.version \in Nat /\ b.size \in Nat /\ b.refs \in Nat
        /\ b.recover \in {None} \cup Recovery
    BY DEF Block
  <1>2. [b EXCEPT !.version = v,
                  !.size = IF w.kind = "append" THEN @ + 1 ELSE @] = nb
    <2>1. [b EXCEPT !.version = v,
                    !.size = IF w.kind = "append" THEN @ + 1 ELSE @] =
            [b EXCEPT !.version = v, !.size = ns]
      OBVIOUS
    <2>. HIDE DEF ns
    <2>2. PICK r : r = [b EXCEPT !.version = v, !.size = ns]
      OBVIOUS
    <2>3. r = nb
      BY <2>2 DEF Block
    <2>. QED BY <2>1, <2>2, <2>3
  <1>3. Written(b, nb, w, "written")
    BY <1>1 DEF Written, Block
  <1>. QED BY <1>2, <1>3

LEMMA ClientBlock ==
  ASSUME NEW b \in Block, NEW w, NEW v \in Nat, NEW outcome
  PROVE  Written(b, BlkAfter(b, w, FALSE, v, outcome), w, outcome)
  <1>1. b.version \in Nat /\ b.size \in Nat
    BY DEF Block
  <1>2. /\ PrimaryVersion(b.version, v) \in Nat
        /\ b.version <= PrimaryVersion(b.version, v)
    BY <1>1 DEF PrimaryVersion
  <1>3. CASE outcome \in {"written", "no_meta"}
    <2>. DEFINE nv == PrimaryVersion(b.version, v)
                nb == [b EXCEPT !.version = nv,
                                !.size = IF w.kind = "append" THEN @ + 1 ELSE @]
    <2>1. BlkAfter(b, w, FALSE, v, outcome) = nb
      BY <1>3 DEF BlkAfter, NextBlk
    <2>2. Written(b, nb, w, "written")
      <3>. HIDE DEF nv
      <3>1. nv \in Nat /\ b.version <= nv
        BY <1>2 DEF nv
      <3>. QED BY <3>1, NewerBlock
    <2>. HIDE DEF nb
    <2>. QED BY <1>3, <2>1, <2>2 DEF Written
  <1>4. CASE ~(outcome \in {"written", "no_meta"})
    BY <1>1, <1>4 DEF BlkAfter, Written
  <1>. QED BY <1>3, <1>4

LEMMA NotifiedBlock ==
  ASSUME NEW b \in Block, NEW w, NEW v \in Nat, b.version <= v, NEW outcome
  PROVE  Written(b, BlkAfter(b, w, TRUE, v, outcome), w, outcome)
  <1>1. b.version \in Nat /\ b.size \in Nat
    BY DEF Block
  <1>2. CASE outcome \in {"written", "no_meta"}
    BY <1>2, NewerBlock DEF BlkAfter, NextBlk, Written
  <1>3. CASE ~(outcome \in {"written", "no_meta"})
    BY <1>1, <1>3 DEF BlkAfter, Written
  <1>. QED BY <1>2, <1>3

\* The files follow the block, however the writes to the disk go.
LEMMA WrittenFiles ==
  ASSUME NEW b \in Block, NEW dk \in Disk, NEW w \in Write,
         b.recover = None, Sound(b, dk.file),
         NEW outcome \in Outcomes, NEW nb, Written(b, nb, w, outcome),
         NEW nd, nd = DiskAfter(dk, nb, w, outcome)
  PROVE  /\ nd \in Disk
         /\ Sound(nb, nd.file)
         /\ outcome = "written" => Saved(nb, nd.meta)
  <1>1. /\ b.version \in Nat /\ b.size \in Nat /\ b.refs \in Nat
        /\ b.size <= Len(Batches(dk.file))
        /\ b # None
    BY NoneAssumption DEF Block, Sound
  <1>2. /\ dk.file \in {None} \cup Seq(Int)
        /\ dk.meta \in {None} \cup Meta
        /\ w.kind \in {"append", "write"} /\ w.offset \in Nat /\ w.data \in Int
    BY DEF Disk, Write
  <1>3. /\ nb \in Block /\ nb.refs = b.refs /\ nb.recover = None
        /\ nb.version \in Nat /\ nb.size \in Nat
        /\ b.version <= nb.version
        /\ nb.size <= IF w.kind = "append" /\ outcome \in {"written", "no_meta"}
                      THEN b.size + 1 ELSE b.size
    BY DEF Written, Block
  <1>4. /\ nd.file \in {None} \cup Seq(Int)
        /\ nb.size <= Len(Batches(nd.file))
    <2>0. Torn \in Int
      BY DEF Torn
    <2>1. CASE outcome = "no_data"
      BY <1>1, <1>2, <1>3, <2>1 DEF DiskAfter
    <2>2. CASE outcome = "torn_data"
      <3>1. nd.file = Stored(dk.file, w, Torn)
        BY <2>2 DEF DiskAfter
      <3>2. /\ nd.file \in Seq(Int) /\ Batches(nd.file) = nd.file
            /\ Len(Batches(dk.file)) <= Len(nd.file)
        BY <1>2, <2>0, <3>1, StoredFile
      <3>3. Len(Batches(dk.file)) \in Nat /\ Len(nd.file) \in Nat
        BY <1>2, <3>2, FileIsSeq
      <3>. QED BY <1>1, <1>3, <2>2, <3>2, <3>3
    <2>3. CASE outcome \in {"written", "no_meta"}
      <3>1. nd.file = Stored(dk.file, w, w.data)
        BY <2>3 DEF DiskAfter
      <3>2. /\ nd.file \in Seq(Int) /\ Batches(nd.file) = nd.file
            /\ Len(Batches(dk.file)) <= Len(nd.file)
            /\ w.kind = "append" => Len(nd.file) = Len(Batches(dk.file)) + 1
        BY <1>2, <3>1, StoredFile
      <3>3. Len(Batches(dk.file)) \in Nat /\ Len(nd.file) \in Nat
        BY <1>2, <3>2, FileIsSeq
      <3>. QED BY <1>1, <1>2, <1>3, <3>2, <3>3
    <2>. QED BY <2>1, <2>2, <2>3 DEF Outcomes
  <1>5. /\ nd.meta \in {None} \cup Meta
        /\ outcome = "written" => nd.meta = [version |-> nb.version,
                                             size |-> nb.size]
    BY <1>2, <1>3 DEF DiskAfter, Meta
  <1>6. nd \in Disk
    BY <1>4, <1>5 DEF Disk, DiskAfter
  <1>7. Sound(nb, nd.file)
    BY <1>3, <1>4 DEF Sound
  <1>. QED BY <1>3, <1>5, <1>6, <1>7 DEF Saved

-----------------------------------------------------------------------------
(***************************************************************************)
(* Messages.                                                               *)
(***************************************************************************)
LEMMA MailOfType ==
  ASSUME NEW cp, NEW m \in Mail(cp)
  PROVE  /\ m.type = "update" => m \in Updates
         /\ m.type = "report" => m \in Reports
         /\ m.type = "recover" => m \in Recovers
         /\ m.type = "notify" => m \in Notifies
         /\ m.type = "start" => m \in Starts
         /\ m.type = "data" => m \in Datas(cp)
         /\ m.type = "complete" => m \in Completions
  BY DEF Mail, Updates, Reports, Cleans, Recovers, Notifies, Starts, Datas,
         Completions

LEMMA ReceivedMail ==
  ASSUME TypeInv, NEW a \in Party, NEW b \in Party, NEW type,
         Receives(b, a, type)
  PROVE  /\ Head(chan[a][b]) \in Mail(copied)
         /\ Head(chan[a][b]).type = type
         /\ Taken(a, b) \in Queues(copied)
         /\ b \in Server => up[b]
  <1>1. /\ chan \in Queues(copied)
        /\ chan[a][b] # <<>> /\ Head(chan[a][b]).type = type
        /\ b \in Server => up[b]
    BY DEF TypeInv, Receives, Reachable
  <1>2. chan[a][b] \in Seq(Mail(copied))
    BY <1>1 DEF Queues
  <1>. DEFINE q == chan[a][b]
  <1>3. q \in Seq(Mail(copied)) /\ q # <<>>
    BY <1>1, <1>2
  <1>. HIDE DEF q
  <1>4. Head(q) \in Mail(copied) /\ Tail(q) \in Seq(Mail(copied))
    BY <1>3, HeadTailProperties
  <1>5. Taken(a, b) \in Queues(copied)
    BY <1>1, <1>4 DEF Taken, Queues, q
  <1>. QED BY <1>1, <1>4, <1>5 DEF q

LEMMA SentMail ==
  ASSUME NEW cp, NEW ch \in Queues(cp), NEW n \in Party, NEW out,
         \A d \in Party : d \in DOMAIN out => out[d] \in Seq(Mail(cp))
  PROVE  Sent(ch, n, out) \in Queues(cp)
  <1>. DEFINE row == [d \in DOMAIN ch[n] |->
                        IF d \in DOMAIN out /\ Reachable(d)
                        THEN ch[n][d] \o out[d] ELSE ch[n][d]]
  <1>1. Sent(ch, n, out) = [ch EXCEPT ![n] = row]
    BY DEF Sent
  <1>2. ch[n] \in [Party -> Seq(Mail(cp))]
    BY DEF Queues
  <1>3. ASSUME NEW d \in Party, d \in DOMAIN out
        PROVE  ch[n][d] \o out[d] \in Seq(Mail(cp))
    <2>1. ch[n][d] \in Seq(Mail(cp)) /\ out[d] \in Seq(Mail(cp))
      BY <1>2, <1>3
    <2>. QED BY <2>1, ConcatProperties
  <1>4. row \in [Party -> Seq(Mail(cp))]
    BY <1>2, <1>3
  <1>. HIDE DEF row
  <1>. QED BY <1>1, <1>4 DEF Queues

\* One message, or none, is a sequence of messages.
LEMMA OneMail ==
  ASSUME NEW S
  PROVE  /\ <<>> \in Seq(S)
         /\ \A x \in S : <<x>> \in Seq(S)
  OBVIOUS

LEMMA SentToOne ==
  ASSUME NEW cp, NEW ch \in Queues(cp), NEW n \in Party, NEW d,
         NEW msgs \in Seq(Mail(cp))
  PROVE  Sent(ch, n, To(d, msgs)) \in Queues(cp)
  <1>1. \A x \in Party : x \in DOMAIN To(d, msgs) =>
                           To(d, msgs)[x] \in Seq(Mail(cp))
    BY DEF To
  <1>. QED BY <1>1, SentMail

LEMMA MoreCopies ==
  ASSUME NEW cp, NEW cq, cp \subseteq cq
  PROVE  Queues(cp) \subseteq Queues(cq)
  <1>1. Mail(cp) \subseteq Mail(cq)
    BY DEF Mail, Datas, Sourced
  <1>2. \A q \in Seq(Mail(cp)) : q \in Seq(Mail(cq))
    BY <1>1, SeqMonotonic
  <1>. QED BY <1>2 DEF Queues

LEMMA ReportMail ==
  ASSUME NEW b \in {None} \cup Block, NEW cp
  PROVE  /\ FullReport(b) \in Seq(Mail(cp))
         /\ b # None => <<Update(b)>> \in Seq(Mail(cp))
  <1>1. b # None => /\ [type |-> "report", version |-> b.version,
                        size |-> b.size] \in Mail(cp)
                    /\ Update(b) \in Mail(cp)
    BY DEF Block, Mail, Reports, Updates, Update
  <1>. QED BY <1>1, OneMail DEF FullReport

-----------------------------------------------------------------------------
(***************************************************************************)
(* Steps, of the node they touch and of the others.                        *)
(***************************************************************************)
\* A block in memory only gets newer, and is recovered when every batch has been
\* received.
Follows(n) ==
  blk[n] # None /\ blk'[n] # None =>
    /\ blk[n].version <= blk'[n].version
    /\ blk[n].recover # None /\ blk'[n].recover = None =>
         /\ blk'[n].version = blk[n].recover.version
         /\ blk[n].recover.got = 0..(blk'[n].size - 1)
         /\ disk'[n].file = disk[n].file

Untouched(n) ==
  /\ up'[n] = up[n] /\ blk'[n] = blk[n] /\ disk'[n] = disk[n]
  /\ tasks'[n] = tasks[n]
  /\ Writers(n)' = Writers(n)
  /\ \A c \in Writers(n) : op'[c].old = op[c].old

\* What no step does.
Onward == /\ copied \subseteq copied'
          /\ spent.used.faults \in Nat /\ spent'.used.faults \in Nat
          /\ spent.used.faults <= spent'.used.faults

LEMMA UntouchedNode ==
  ASSUME TypeInv, NodesInv, NEW n \in Server, Untouched(n), Onward
  PROVE  NodeInv(n)' /\ Follows(n)
  <1>1. NodeInv(n)
    BY DEF NodesInv
  <1>2. Held(blk[n], tasks[n], Writers(n))'
    BY <1>1 DEF NodeInv, Held, Untouched
  <1>3. \A c \in Writers(n)' : op'[c].old <= blk'[n].version
    BY <1>1 DEF NodeInv, Untouched
  <1>4. Sound(blk[n], disk[n].file)'
    BY <1>1 DEF NodeInv, Untouched, Sound
  <1>5. (spent.used.faults = 0 => Saved(blk[n], disk[n].meta))'
    BY <1>1 DEF NodeInv, Untouched, Saved, Onward
  <1>6. Received(blk[n], disk[n].file, copied, spent.used.faults)'
    BY <1>1 DEF NodeInv, Untouched, Received, Onward, Sourced
  <1>7. Follows(n)
    <2>1. blk[n] # None => blk[n].version \in Nat
      BY DEF TypeInv, Block
    <2>. QED BY <2>1 DEF Follows, Untouched
  <1>. QED BY <1>1, <1>2, <1>3, <1>4, <1>5, <1>6, <1>7 DEF NodeInv, Untouched

LEMMA UntouchedNodes ==
  ASSUME TypeInv, NodesInv, \A n \in Server : Untouched(n), Onward
  PROVE  NodesInv' /\ \A n \in Server : Follows(n)
  BY UntouchedNode DEF NodesInv

LEMMA TouchedNode ==
  ASSUME TypeInv, NodesInv, NEW n \in Server, NodeInv(n)', Follows(n),
         \A m \in Server \ {n} : Untouched(m), Onward
  PROVE  NodesInv' /\ \A m \in Server : Follows(m)
  <1>1. \A m \in Server \ {n} : NodeInv(m)' /\ Follows(m)
    BY UntouchedNode
  <1>. QED BY <1>1 DEF NodesInv

\* A call that begins, goes on or ends.
LEMMA OneCall ==
  ASSUME NEW c \in Client, NEW x, op \in [Client -> {None} \cup Op],
         op' = [op EXCEPT ![c] = x]
  PROVE  /\ \A d \in Client \ {c} : op'[d] = op[d]
         /\ op'[c] = x
         /\ \A n : Writers(n)' =
              IF x # None /\ x.pc \in {"begun", "applied"} /\ x.node = n
              THEN Writers(n) \cup {c} ELSE Writers(n) \ {c}
  BY DEF Writers, At

LEMMA SpentWell ==
  ASSUME TypeInv, NEW what \in Kinds, Spend(what)
  PROVE  /\ spent' \in [budget : Budgets, used : [Kinds -> Nat]]
         /\ spent.used.faults \in Nat /\ spent'.used.faults \in Nat
         /\ spent.used.faults <= spent'.used.faults
         /\ what = "faults" => spent'.used.faults > 0
         /\ spent'.used.writes \in Nat
  <1>1. /\ spent' = [spent EXCEPT !.used[what] = @ + 1]
        /\ spent \in [budget : Budgets, used : [Kinds -> Nat]]
        /\ "faults" \in Kinds /\ "writes" \in Kinds
    BY DEF Spend, TypeInv, Kinds
  <1>2. spent.used \in [Kinds -> Nat]
    BY <1>1
  <1>3. spent' = [budget |-> spent.budget,
                  used |-> [spent.used EXCEPT ![what] = spent.used[what] + 1]]
    BY <1>1
  <1>4. spent'.used = [spent.used EXCEPT ![what] = spent.used[what] + 1]
    BY <1>3
  <1>5. spent'.used \in [Kinds -> Nat]
    BY <1>2, <1>4
  <1>. QED BY <1>1, <1>2, <1>3, <1>4, <1>5

LEMMA NothingSpent ==
  ASSUME TypeInv, UNCHANGED spent, copied \subseteq copied'
  PROVE  Onward
  <1>1. spent \in [budget : Budgets, used : [Kinds -> Nat]]
        /\ "faults" \in Kinds
    BY DEF TypeInv, Kinds
  <1>. QED BY <1>1 DEF Onward

-----------------------------------------------------------------------------
(***************************************************************************)
(* The master's record keeps its types.                                    *)
(***************************************************************************)
LEMMA RecordTypes ==
  ASSUME M!TypeOK
  PROVE  /\ now \in Nat /\ usable \in SUBSET Server /\ version \in Nat
         /\ expectVersion \in Nat /\ lease \in Nat /\ size \in Nat
         /\ recoverLease \in Nat /\ replicas \in Seq(M!Replica)
         /\ \A i \in DOMAIN replicas : i \in Nat /\ replicas[i] \in M!Replica
  <1>1. replicas \in Seq(M!Replica)
    BY DEF M!TypeOK
  <1>2. \A i \in DOMAIN replicas : i \in Nat /\ replicas[i] \in M!Replica
    BY <1>1
  <1>. QED BY <1>1, <1>2 DEF M!TypeOK, M!Version

LEMMA FirstIsMember ==
  ASSUME NEW S \in SUBSET Nat, S # {}
  PROVE  M!First(S) \in S
  <1>1. IsWellFoundedOn(OpToRel(<, Nat), Nat)
    BY NatLessThanWellFounded
  <1>2. \E i \in S : \A j \in S : ~(<<j, i>> \in OpToRel(<, Nat))
    BY <1>1, WFMin
  <1>3. \A i, j \in Nat : ~(<<j, i>> \in OpToRel(<, Nat)) => i <= j
    BY DEF OpToRel
  <1>4. \E i \in S : \A j \in S : i <= j
    BY <1>2, <1>3
  <1>. QED BY <1>4 DEF M!First

LEMMA EntrySet ==
  ASSUME NEW S, NEW rs \in Seq(S), NEW k, NEW r, k \in DOMAIN rs => r \in S
  PROVE  [rs EXCEPT ![k] = r] \in Seq(S)
  <1>1. CASE k \in DOMAIN rs
    <2>1. k \in 1..Len(rs) /\ r \in S
      BY <1>1
    <2>. QED BY <2>1, ExceptSeq
  <1>2. CASE k \notin DOMAIN rs
    <2>1. [rs EXCEPT ![k] = r] = rs
      BY <1>2
    <2>. QED BY <2>1
  <1>. QED BY <1>1, <1>2

\* The servers that Distribute chooses.
LEMMA PlacedServers ==
  ASSUME M!TypeOK, NEW excluded, NEW count \in Int,
         NEW d \in M!Placements(excluded, count)
  PROVE  /\ \E k \in Nat : d \in [1..k -> Server]
         /\ [i \in DOMAIN d |-> M!FreshReplica(d[i])] \in Seq(M!Replica)
  <1>1. PICK k \in 0..count : d \in [1..k -> usable \ excluded]
    BY DEF M!Placements
  <1>2. k \in Nat /\ d \in [1..k -> Server]
    BY <1>1, RecordTypes
  <1>3. \A i \in 1..k : M!FreshReplica(d[i]) \in M!Replica
    BY <1>2 DEF M!FreshReplica, M!Replica, M!Version
  <1>4. [i \in DOMAIN d |-> M!FreshReplica(d[i])] \in [1..k -> M!Replica]
    BY <1>2, <1>3
  <1>. QED BY <1>2, <1>4

LEMMA PlacedRecord ==
  ASSUME M!TypeOK, NEW d \in M!Placements({}, BlockCount)
  PROVE  M!Placed(d) \in Seq(M!Replica)
  <1>1. BlockCount \in Int
    BY MasterAssumption
  <1>. QED BY <1>1, PlacedServers, RecordTypes DEF M!Placed

LEMMA MainIsServer ==
  ASSUME M!TypeOK, NEW rs \in Seq(M!Replica), M!HasMain(rs)
  PROVE  rs[M!MainReplica(rs)].server \in Server
  <1>1. M!Eligible(rs) # {}
    BY DEF M!HasMain
  <1>2. M!Current(rs) \in SUBSET Nat
    BY DEF M!Current
  <1>3. M!Leased(rs) \subseteq M!Current(rs)
    BY DEF M!Leased
  <1>4. M!Leased(rs) # {} => M!First(M!Leased(rs)) \in Nat
    BY <1>2, <1>3, FirstIsMember
  <1>5. M!Eligible(rs) \in SUBSET Nat
    BY <1>2, <1>4 DEF M!Eligible, M!Candidates
  <1>6. M!MainReplica(rs) \in M!Eligible(rs)
    BY <1>1, <1>5, FirstIsMember DEF M!MainReplica
  <1>. QED BY <1>6, RecordTypes DEF M!Eligible

LEMMA LeaseRecord ==
  ASSUME M!TypeOK, NEW d \in M!Placements({}, BlockCount),
         M!GrantLease(d) \/ M!RepeatLease(d), UNCHANGED <<now, usable>>
  PROVE  /\ M!TypeOK'
         /\ M!Placed(d) \in Seq(M!Replica)
         /\ M!Placed(d)[M!MainReplica(M!Placed(d))].server \in Server
  <1>1. M!Placed(d) \in Seq(M!Replica)
    BY PlacedRecord
  <1>2. M!HasMain(M!Placed(d))
    BY DEF M!GrantLease, M!RepeatLease
  <1>3. M!Placed(d)[M!MainReplica(M!Placed(d))].server \in Server
    BY <1>1, <1>2, MainIsServer
  <1>4. CASE M!RepeatLease(d)
    <2>1. /\ replicas' = M!Placed(d)
          /\ UNCHANGED <<version, expectVersion, lease, size, recoverLease>>
      BY <1>4 DEF M!RepeatLease
    <2>. QED BY <1>1, <1>3, <2>1 DEF M!TypeOK
  <1>5. CASE M!GrantLease(d)
    <2>. DEFINE rs == M!Placed(d)
                k == M!MainReplica(rs)
                t == now + WriteLease
                r == [rs[k] EXCEPT !.lease = t]
    <2>1. replicas' = [rs EXCEPT ![k] = r]
      BY <1>5 DEF M!GrantLease
    <2>2. /\ lease' = t /\ expectVersion' = M!NextVersion(version)
          /\ UNCHANGED <<version, size, recoverLease>>
      BY <1>5 DEF M!GrantLease
    <2>3. t \in Nat
      BY RecordTypes, MasterAssumption
    <2>4. M!NextVersion(version) = NextVersion(version)
      BY DEF M!NextVersion, NextVersion, M!Term, Term
    <2>5. NextVersion(version) \in Nat
      BY RecordTypes, NextVersionIsVersion DEF Version
    <2>6. k \in DOMAIN rs => r \in M!Replica
      <3>1. k \in DOMAIN rs => rs[k] \in M!Replica
        BY <1>1
      <3>. HIDE DEF k, rs, t
      <3>. QED BY <2>3, <3>1 DEF M!Replica
    <2>. HIDE DEF r, k, rs, t
    <2>7. replicas' \in Seq(M!Replica)
      BY <1>1, <2>1, <2>6, EntrySet DEF rs
    <2>. QED BY <1>1, <1>3, <2>2, <2>3, <2>4, <2>5, <2>7
             DEF M!TypeOK, M!Version
  <1>. QED BY <1>1, <1>3, <1>4, <1>5

LEMMA ReportRecord ==
  ASSUME M!TypeOK, NEW s \in Server, NEW v \in Nat, NEW sz \in Nat,
         NEW fault \in BOOLEAN, M!ReportReplica(s, v, sz, fault),
         UNCHANGED <<now, usable>>
  PROVE  M!TypeOK'
  <1>1. /\ M!Absorb(v, sz, fault)
        /\ UNCHANGED <<lease, recoverLease>>
    BY DEF M!ReportReplica, M!UpdateReplica, M!InsertReplica
  <1>2. version' \in Nat /\ expectVersion' \in Nat /\ size' \in Nat
    BY <1>1, RecordTypes DEF M!Absorb, M!Larger
  <1>3. CASE M!UpdateReplica(s, v, sz, fault)
    <2>. DEFINE k == M!First(M!EntriesOf(s))
                r == [replicas[k] EXCEPT !.version = v, !.fault = fault]
    <2>1. replicas' = [replicas EXCEPT ![k] = r]
      BY <1>3 DEF M!UpdateReplica
    <2>2. k \in DOMAIN replicas => r \in M!Replica
      BY RecordTypes DEF M!Replica, M!Version
    <2>. HIDE DEF r, k
    <2>3. replicas' \in Seq(M!Replica)
      BY <2>1, <2>2, EntrySet, RecordTypes
    <2>. QED BY <1>1, <1>2, <2>3 DEF M!TypeOK, M!Version
  <1>4. CASE M!InsertReplica(s, v, sz, fault)
    <2>. DEFINE r == [M!FreshReplica(s) EXCEPT !.version = v, !.fault = fault]
    <2>1. r \in M!Replica
      BY DEF M!FreshReplica, M!Replica, M!Version
    <2>2. replicas' = Append(replicas, r)
      BY <1>4 DEF M!InsertReplica
    <2>. HIDE DEF r
    <2>3. replicas' \in Seq(M!Replica)
      BY <2>1, <2>2, AppendProperties, RecordTypes
    <2>. QED BY <1>1, <1>2, <2>3 DEF M!TypeOK, M!Version
  <1>. QED BY <1>3, <1>4 DEF M!ReportReplica

LEMMA ClearRecord ==
  ASSUME M!TypeOK, NEW s, M!ClearReplica(s), UNCHANGED <<now, usable>>
  PROVE  M!TypeOK'
  <1>1. PICK from \in [DOMAIN replicas -> DOMAIN replicas] :
          replicas' = [i \in DOMAIN replicas |-> replicas[from[i]]]
    BY DEF M!ClearReplica
  <1>2. UNCHANGED <<version, expectVersion, lease, size, recoverLease>>
    BY DEF M!ClearReplica
  <1>3. \A i \in 1..Len(replicas) : replicas[from[i]] \in M!Replica
    BY <1>1, RecordTypes
  <1>4. replicas' \in [1..Len(replicas) -> M!Replica]
    BY <1>1, <1>3, RecordTypes
  <1>5. replicas' \in Seq(M!Replica)
    BY <1>4, RecordTypes
  <1>. QED BY <1>2, <1>5 DEF M!TypeOK

LEMMA RepairRecord ==
  ASSUME M!TypeOK, NEW d, M!OrderRepair(d), UNCHANGED <<now, usable>>
  PROVE  /\ M!TypeOK'
         /\ \E k \in Nat : d \in [1..k -> Server]
         /\ M!HasMain(replicas)
  <1>1. /\ d \in M!Placements(M!HealthyServers \cup M!OtherServers,
                              M!RepairRoom)
        /\ recoverLease' = now + RecoverLease
        /\ replicas' = replicas \o [i \in DOMAIN d |-> M!FreshReplica(d[i])]
        /\ UNCHANGED <<version, expectVersion, lease, size>>
        /\ M!HasMain(replicas)
    BY DEF M!OrderRepair, M!QuietEnough
  <1>2. PICK k \in Nat : d \in [1..k -> Server]
    <2>1. PICK k \in 0..M!RepairRoom :
            d \in [1..k -> usable \ (M!HealthyServers \cup M!OtherServers)]
      BY <1>1 DEF M!Placements
    <2>2. k \in Nat
      BY <2>1
    <2>. QED BY <2>1, <2>2, RecordTypes
  <1>. DEFINE added == [i \in DOMAIN d |-> M!FreshReplica(d[i])]
  <1>3. \A i \in 1..k : M!FreshReplica(d[i]) \in M!Replica
    BY <1>2 DEF M!FreshReplica, M!Replica, M!Version
  <1>4. added \in [1..k -> M!Replica]
    BY <1>2, <1>3
  <1>5. added \in Seq(M!Replica)
    BY <1>4
  <1>6. replicas' = replicas \o added
    BY <1>1
  <1>. HIDE DEF added
  <1>7. replicas' \in Seq(M!Replica)
    BY <1>5, <1>6, ConcatProperties, RecordTypes
  <1>8. recoverLease' \in Nat
    BY <1>1, RecordTypes, MasterAssumption
  <1>. QED BY <1>1, <1>2, <1>7, <1>8 DEF M!TypeOK

-----------------------------------------------------------------------------
(***************************************************************************)
(* Steps of the master and of the clients that touch no node.              *)
(***************************************************************************)
\* What each step leaves behind.
Keeps == IInv' /\ \A n \in Server : Follows(n)

LEMMA SameNodes ==
  ASSUME IInv, UNCHANGED <<up, blk, disk, tasks>>,
         \A n : Writers(n)' = Writers(n),
         \A c \in Client : At(c, "begun") \/ At(c, "applied") =>
                             op'[c].old = op[c].old,
         Onward
  PROVE  NodesInv' /\ \A n \in Server : Follows(n)
  <1>1. \A n \in Server : Untouched(n)
    BY DEF Untouched, Writers
  <1>. QED BY <1>1, UntouchedNodes DEF IInv

LEMMA SameCalls ==
  ASSUME IInv, UNCHANGED <<up, blk, disk, tasks, op>>, Onward
  PROVE  NodesInv' /\ \A n \in Server : Follows(n)
  BY SameNodes DEF Writers, At

LEMMA AskLeaseKeeps ==
  ASSUME IInv, NEW c \in Client, NEW kind \in {"append", "write"},
         AskLease(c, kind, 0)
  PROVE  Keeps
  <1>0. PICK d \in M!Placements({}, BlockCount) :
          LET placed == M!Placed(d)
              main == placed[M!MainReplica(placed)].server
          IN  /\ M!GrantLease(d) \/ M!RepeatLease(d)
              /\ op' = [op EXCEPT ![c] =
                   [pc |-> "granted", node |-> main,
                    peers |-> M!Secondaries(placed, main), old |-> 0,
                    lease |-> [until |-> 0, version |-> 0, newversion |-> 0],
                    write |-> [kind |-> kind, offset |-> 0,
                               data |-> spent'.used.writes]]]
    BY DEF AskLease
  <1>. DEFINE placed == M!Placed(d)
              main == placed[M!MainReplica(placed)].server
              x == [pc |-> "granted", node |-> main,
                    peers |-> M!Secondaries(placed, main), old |-> 0,
                    lease |-> [until |-> 0, version |-> 0, newversion |-> 0],
                    write |-> [kind |-> kind, offset |-> 0,
                               data |-> spent'.used.writes]]
  <1>1. /\ M!GrantLease(d) \/ M!RepeatLease(d)
        /\ op' = [op EXCEPT ![c] = x]
        /\ op[c] = None /\ Spend("writes")
        /\ UNCHANGED <<now, up, blk, disk, tasks, chan, usable, copied>>
    BY <1>0 DEF AskLease, ghosts
  <1>2. TypeInv /\ M!TypeOK
    BY DEF IInv, TypeInv
  <1>3. M!TypeOK' /\ placed \in Seq(M!Replica) /\ main \in Server
    BY <1>1, <1>2, LeaseRecord
  <1>4. /\ spent' \in [budget : Budgets, used : [Kinds -> Nat]]
        /\ spent'.used.writes \in Nat
        /\ Onward
    BY <1>1, <1>2, SpentWell DEF Kinds, Onward
  <1>5. x \in Op
    <2>1. \A i \in DOMAIN placed : placed[i] \in M!Replica
      BY <1>3
    <2>2. M!Secondaries(placed, main) \in SUBSET Server
      BY <2>1 DEF M!Secondaries, M!Replica
    <2>. HIDE DEF placed, main
    <2>. QED BY <1>3, <1>4, <2>2 DEF Op, Lease, Write
  <1>6. x.pc = "granted"
    OBVIOUS
  <1>. HIDE DEF x
  <1>7. TypeInv'
    BY <1>1, <1>2, <1>3, <1>4, <1>5 DEF TypeInv
  <1>8. /\ \A n : Writers(n)' = Writers(n) \ {c}
        /\ \A e \in Client \ {c} : op'[e] = op[e]
    BY <1>1, <1>2, <1>6, OneCall DEF TypeInv
  <1>9. ~At(c, "begun") /\ ~At(c, "applied")
    BY <1>1 DEF At
  <1>10. /\ \A n : Writers(n)' = Writers(n)
         /\ \A e \in Client : At(e, "begun") \/ At(e, "applied") =>
                                op'[e].old = op[e].old
    BY <1>8, <1>9 DEF Writers
  <1>11. NodesInv' /\ \A n \in Server : Follows(n)
    BY <1>1, <1>4, <1>10, SameNodes
  <1>. QED BY <1>7, <1>11 DEF Keeps, IInv

LEMMA ReadLeaseKeeps ==
  ASSUME IInv, NEW c \in Client, ReadLease(c)
  PROVE  Keeps
  <1>. DEFINE x == [op[c] EXCEPT !.pc = "sent",
                      !.lease = [until |-> lease, version |-> version,
                                 newversion |-> expectVersion]]
  <1>1. /\ op' = [op EXCEPT ![c] = x]
        /\ At(c, "granted")
        /\ UNCHANGED <<now, up, blk, disk, tasks, chan, masterVars, spent, copied>>
    BY DEF ReadLease, ghosts
  <1>2. TypeInv /\ M!TypeOK
    BY DEF IInv, TypeInv
  <1>3. op[c] \in Op /\ op[c].pc = "granted"
    BY <1>1, <1>2 DEF TypeInv, At
  <1>4. x \in Op /\ x.pc = "sent"
    BY <1>2, <1>3, RecordTypes DEF Op, Lease
  <1>. HIDE DEF x
  <1>5. TypeInv'
    BY <1>1, <1>2, <1>4 DEF TypeInv, masterVars, M!TypeOK
  <1>6. /\ \A n : Writers(n)' = Writers(n) \ {c}
        /\ \A e \in Client \ {c} : op'[e] = op[e]
    BY <1>1, <1>2, <1>4, OneCall DEF TypeInv
  <1>7. ~At(c, "begun") /\ ~At(c, "applied")
    BY <1>3 DEF At
  <1>8. /\ \A n : Writers(n)' = Writers(n)
        /\ \A e \in Client : At(e, "begun") \/ At(e, "applied") =>
                               op'[e].old = op[e].old
    BY <1>6, <1>7 DEF Writers
  <1>9. Onward
    BY <1>1, <1>2, NothingSpent
  <1>10. NodesInv' /\ \A n \in Server : Follows(n)
    BY <1>1, <1>8, <1>9, SameNodes
  <1>. QED BY <1>5, <1>10 DEF Keeps, IInv

LEMMA RefuseWriteKeeps ==
  ASSUME IInv, NEW c \in Client, RefuseWrite(c),
         UNCHANGED <<now, masterVars, spent, copied>>
  PROVE  Keeps
  <1>1. /\ op' = [op EXCEPT ![c] = None]
        /\ At(c, "sent")
        /\ UNCHANGED <<up, blk, disk, tasks, chan>>
    BY DEF RefuseWrite
  <1>2. TypeInv
    BY DEF IInv
  <1>3. TypeInv'
    BY <1>1, <1>2 DEF TypeInv, masterVars, M!TypeOK
  <1>4. /\ \A n : Writers(n)' = Writers(n) \ {c}
        /\ \A e \in Client \ {c} : op'[e] = op[e]
    BY <1>1, <1>2, OneCall DEF TypeInv
  <1>5. ~At(c, "begun") /\ ~At(c, "applied")
    BY <1>1 DEF At
  <1>6. /\ \A n : Writers(n)' = Writers(n)
        /\ \A e \in Client : At(e, "begun") \/ At(e, "applied") =>
                               op'[e].old = op[e].old
    BY <1>4, <1>5 DEF Writers
  <1>7. Onward
    BY <1>2, NothingSpent
  <1>8. NodesInv' /\ \A n \in Server : Follows(n)
    BY <1>1, <1>6, <1>7, SameNodes
  <1>. QED BY <1>3, <1>8 DEF Keeps, IInv

\* The handlers of the master.
LEMMA MasterHears ==
  ASSUME IInv, NEW n \in Server, OnUpdate(n) \/ OnReport(n) \/ OnClean(n)
  PROVE  Keeps
  <1>. DEFINE m == Head(chan[n][Master])
  <1>1. /\ chan' = Taken(n, Master)
        /\ UNCHANGED <<now, up, blk, disk, tasks, op, usable, spent, copied>>
    BY DEF OnUpdate, OnReport, OnClean, ghosts, masterVars
  <1>2. TypeInv /\ M!TypeOK
    BY DEF IInv, TypeInv
  <1>3. n \in Party /\ Master \in Party
    BY DEF Party
  <1>4. /\ m \in Mail(copied) /\ Taken(n, Master) \in Queues(copied)
        /\ OnUpdate(n) => m.type = "update"
        /\ OnReport(n) => m.type = "report"
    <2>1. /\ OnUpdate(n) => Receives(Master, n, "update")
          /\ OnReport(n) => Receives(Master, n, "report")
          /\ OnClean(n) => Receives(Master, n, "cleaned")
      BY DEF OnUpdate, OnReport, OnClean, Hears
    <2>2. \A type : Receives(Master, n, type) =>
                      /\ m \in Mail(copied) /\ m.type = type
                      /\ Taken(n, Master) \in Queues(copied)
      BY <1>2, <1>3, ReceivedMail
    <2>. HIDE DEF m
    <2>. QED BY <2>1, <2>2
  <1>5. OnUpdate(n) => /\ m.version \in Nat /\ m.size \in Nat
                       /\ m.fault \in BOOLEAN
    BY <1>4, MailOfType DEF Updates
  <1>6. OnReport(n) => m.version \in Nat /\ m.size \in Nat
    BY <1>4, MailOfType DEF Reports
  <1>. HIDE DEF m
  <1>7. M!TypeOK'
    <2>1. CASE OnUpdate(n)
      <3>1. CASE UNCHANGED masterVars
        BY <1>1, <1>2, <3>1 DEF masterVars, M!TypeOK
      <3>2. CASE M!UpdateReplica(n, m.version, m.size, m.fault)
        BY <1>1, <1>2, <1>5, <2>1, <3>2, ReportRecord DEF M!ReportReplica
      <3>. QED BY <2>1, <3>1, <3>2 DEF OnUpdate, m
    <2>2. CASE OnReport(n)
      BY <1>1, <1>2, <1>6, <2>2, ReportRecord DEF OnReport, m
    <2>3. CASE OnClean(n)
      BY <1>1, <1>2, <2>3, ClearRecord DEF OnClean
    <2>. QED BY <2>1, <2>2, <2>3
  <1>8. TypeInv'
    BY <1>1, <1>2, <1>4, <1>7 DEF TypeInv
  <1>9. Onward
    BY <1>1, <1>2, NothingSpent
  <1>10. NodesInv' /\ \A k \in Server : Follows(k)
    BY <1>1, <1>9, SameCalls
  <1>. QED BY <1>8, <1>10 DEF Keeps, IInv

LEMMA CleanMail ==
  ASSUME NEW cp
  PROVE  <<[type |-> "clean"]>> \in Seq(Mail(cp))
  <1>1. [type |-> "clean"] \in Mail(cp)
    BY DEF Mail, Cleans
  <1>. QED BY <1>1, OneMail

LEMMA RepairMail ==
  ASSUME NEW cp, NEW s, NEW k \in Nat, NEW d \in [1..k -> Server],
         NEW cleaned, version \in Nat, now \in Nat,
         NEW x \in DOMAIN Repair(s, d, cleaned)
  PROVE  Repair(s, d, cleaned)[x] \in Seq(Mail(cp))
  <1>. DEFINE targets == {d[i] : i \in DOMAIN d}
              order == [type |-> "recover", version |-> version,
                        lease |-> now + RecoverLease, copyto |-> targets]
  <1>1. IsFiniteSet(targets)
    <2>1. d \in Surjection(1..k, targets)
      BY DEF Surjection
    <2>2. IsFiniteSet(1..k)
      BY FS_Interval
    <2>. QED BY <2>1, <2>2, FS_Surjection
  <1>2. targets \in SUBSET Server
    OBVIOUS
  <1>. HIDE DEF targets
  <1>3. order \in Mail(cp)
    BY <1>1, <1>2, MasterAssumption DEF Mail, Recovers
  <1>4. Repair(s, d, cleaned) =
          [y \in cleaned \cup {s} |-> IF y \in cleaned
             THEN Clean(cleaned)[y] \o IF y = s THEN <<order>> ELSE <<>>
             ELSE <<order>>]
    BY DEF Repair, targets
  <1>. HIDE DEF order
  <1>5. <<order>> \in Seq(Mail(cp)) /\ <<>> \in Seq(Mail(cp))
    BY <1>3, OneMail
  <1>6. x \in cleaned => Clean(cleaned)[x] \in Seq(Mail(cp))
    BY CleanMail DEF Clean
  <1>7. CASE x \in cleaned
    <2>1. Repair(s, d, cleaned)[x] =
            Clean(cleaned)[x] \o IF x = s THEN <<order>> ELSE <<>>
      BY <1>4, <1>7
    <2>. QED BY <1>5, <1>6, <1>7, <2>1, ConcatProperties
  <1>8. CASE x \notin cleaned
    BY <1>4, <1>5, <1>8
  <1>. QED BY <1>7, <1>8

LEMMA CheckReplicaKeeps ==
  ASSUME IInv, CheckReplica
  PROVE  Keeps
  <1>1. /\ Spend("checks")
        /\ UNCHANGED <<now, up, blk, disk, tasks, op, usable, copied>>
    BY DEF CheckReplica, ghosts
  <1>2. /\ TypeInv /\ M!TypeOK /\ chan \in Queues(copied) /\ Master \in Party
        /\ now \in Nat /\ version \in Nat
    BY RecordTypes DEF IInv, TypeInv, Party
  <1>3. M!TypeOK' /\ chan' \in Queues(copied)
    <2>1. ASSUME NEW d \in M!Placements({}, BlockCount), M!OrderRepair(d),
                 chan' = Sent(chan, Master,
                           Repair(replicas[M!MainReplica(replicas)].server, d,
                                  M!OtherServers))
          PROVE  M!TypeOK' /\ chan' \in Queues(copied)
      <3>1. M!TypeOK' /\ \E k \in Nat : d \in [1..k -> Server]
        BY <1>1, <1>2, <2>1, RepairRecord
      <3>. DEFINE s == replicas[M!MainReplica(replicas)].server
      <3>2. \A x \in DOMAIN Repair(s, d, M!OtherServers) :
              Repair(s, d, M!OtherServers)[x] \in Seq(Mail(copied))
        <4>. HIDE DEF s
        <4>. QED BY <1>2, <3>1, RepairMail
      <3>3. chan' = Sent(chan, Master, Repair(s, d, M!OtherServers))
        BY <2>1
      <3>. HIDE DEF s
      <3>. QED BY <1>2, <3>1, <3>2, <3>3, SentMail
    <2>2. ASSUME NEW kept \in SUBSET M!Healthy, M!OrderCleanOnly,
                 chan' = Sent(chan, Master, Clean(M!CleanOrders(kept)))
          PROVE  M!TypeOK' /\ chan' \in Queues(copied)
      <3>1. M!TypeOK'
        BY <1>1, <1>2, <2>2 DEF M!OrderCleanOnly, M!masterVars, M!TypeOK
      <3>2. \A x \in DOMAIN Clean(M!CleanOrders(kept)) :
              Clean(M!CleanOrders(kept))[x] \in Seq(Mail(copied))
        BY CleanMail DEF Clean
      <3>. QED BY <1>2, <2>2, <3>1, <3>2, SentMail
    <2>. QED BY <2>1, <2>2 DEF CheckReplica
  <1>4. spent' \in [budget : Budgets, used : [Kinds -> Nat]] /\ Onward
    BY <1>1, <1>2, SpentWell DEF Kinds, Onward
  <1>5. TypeInv'
    BY <1>1, <1>2, <1>3, <1>4 DEF TypeInv
  <1>6. NodesInv' /\ \A n \in Server : Follows(n)
    BY <1>1, <1>4, SameCalls
  <1>. QED BY <1>5, <1>6 DEF Keeps, IInv

LEMMA UsableKeeps ==
  ASSUME IInv, NEW n \in Server, TimeOut(n) \/ Heartbeat(n)
  PROVE  Keeps
  <1>1. /\ usable' \in {usable \ {n}, usable \cup {n}}
        /\ UNCHANGED <<now, up, blk, disk, tasks, op, chan, version,
                       expectVersion, lease, size, recoverLease, replicas,
                       spent, copied>>
    BY DEF TimeOut, Heartbeat, nodeVars, ghosts
  <1>2. TypeInv
    BY DEF IInv
  <1>3. TypeInv'
    BY <1>1, <1>2 DEF TypeInv, M!TypeOK
  <1>4. Onward
    BY <1>1, <1>2, NothingSpent
  <1>5. NodesInv' /\ \A m \in Server : Follows(m)
    BY <1>1, <1>4, SameCalls
  <1>. QED BY <1>3, <1>5 DEF Keeps, IInv

LEMMA TickKeeps ==
  ASSUME IInv, Tick
  PROVE  Keeps
  <1>1. /\ Spend("ticks") /\ now' = now + 1
        /\ UNCHANGED <<up, blk, disk, tasks, op, chan, usable, version,
                       expectVersion, lease, size, recoverLease, replicas,
                       copied>>
    BY DEF Tick, nodeVars, masterVars, ghosts
  <1>2. TypeInv
    BY DEF IInv
  <1>3. spent' \in [budget : Budgets, used : [Kinds -> Nat]] /\ Onward
    BY <1>1, <1>2, SpentWell DEF Kinds, Onward
  <1>4. TypeInv'
    BY <1>1, <1>2, <1>3 DEF TypeInv, M!TypeOK
  <1>5. NodesInv' /\ \A m \in Server : Follows(m)
    BY <1>1, <1>3, SameCalls
  <1>. QED BY <1>4, <1>5 DEF Keeps, IInv

\* A master that starts again has forgotten the block; the nodes have not.
LEMMA RestartMasterKeeps ==
  ASSUME IInv, RestartMaster
  PROVE  Keeps
  <1>1. /\ Spend("restarts")
        /\ version' = 0 /\ expectVersion' = 0 /\ lease' = 0 /\ size' = 0
        /\ recoverLease' = 0 /\ replicas' = <<>> /\ usable' = {}
        /\ op' = [c \in Client |-> IF At(c, "granted") THEN None ELSE op[c]]
        /\ chan' = [a \in DOMAIN chan |-> [b \in DOMAIN chan |->
                IF Master \notin {a, b} THEN chan[a][b]
                ELSE IF a = Master \/ ~up[a] THEN <<>> ELSE FullReport(blk[a])]]
        /\ UNCHANGED <<now, up, blk, disk, tasks, copied>>
    BY DEF RestartMaster, ghosts
  <1>2. TypeInv
    BY DEF IInv
  <1>3. spent' \in [budget : Budgets, used : [Kinds -> Nat]] /\ Onward
    BY <1>1, <1>2, SpentWell DEF Kinds, Onward
  <1>4. M!TypeOK'
    BY <1>1, <1>2, OneMail DEF TypeInv, M!TypeOK, M!Version
  <1>5. chan' \in Queues(copied)
    <2>1. DOMAIN chan = Party /\ chan \in Queues(copied)
      BY <1>2 DEF TypeInv, Queues
    <2>2. \A a \in Party \ {Master} : FullReport(blk[a]) \in Seq(Mail(copied))
      BY <1>2, ReportMail DEF TypeInv, Party
    <2>3. <<>> \in Seq(Mail(copied))
      BY OneMail
    <2>4. \A a, b \in Party : chan[a][b] \in Seq(Mail(copied))
      BY <2>1 DEF Queues
    <2>. QED BY <1>1, <2>1, <2>2, <2>3, <2>4 DEF Queues
  <1>6. op' \in [Client -> {None} \cup Op]
    BY <1>1, <1>2 DEF TypeInv
  <1>7. TypeInv'
    BY <1>1, <1>2, <1>3, <1>4, <1>5, <1>6 DEF TypeInv
  <1>8. \A c \in Client :
          /\ (At(c, "begun") <=> At(c, "begun")')
          /\ (At(c, "applied") <=> At(c, "applied")')
          /\ At(c, "begun") \/ At(c, "applied") => op'[c] = op[c]
    BY <1>1 DEF At
  <1>9. \A n : Writers(n)' = Writers(n)
    BY <1>8 DEF Writers
  <1>10. NodesInv' /\ \A n \in Server : Follows(n)
    BY <1>1, <1>3, <1>8, <1>9, SameNodes
  <1>. QED BY <1>7, <1>10 DEF Keeps, IInv

\* Only messages are lost, or sent.
LEMMA QueuesKeep ==
  ASSUME IInv, NEW what \in Kinds, Spend(what), chan' \in Queues(copied),
         UNCHANGED <<now, up, blk, disk, tasks, op, masterVars, copied>>
  PROVE  Keeps
  <1>1. TypeInv
    BY DEF IInv
  <1>2. spent' \in [budget : Budgets, used : [Kinds -> Nat]] /\ Onward
    BY <1>1, SpentWell DEF Onward
  <1>3. TypeInv'
    BY <1>1, <1>2 DEF TypeInv, M!TypeOK, masterVars
  <1>4. NodesInv' /\ \A n \in Server : Follows(n)
    BY <1>2, SameCalls
  <1>. QED BY <1>3, <1>4 DEF Keeps, IInv

LEMMA PeriodicReportKeeps ==
  ASSUME IInv, NEW n \in Server, PeriodicReport(n)
  PROVE  Keeps
  <1>1. /\ Spend("reports")
        /\ chan' = Sent(chan, n, To(Master, FullReport(blk[n])))
        /\ UNCHANGED <<now, up, blk, disk, tasks, op, masterVars, copied>>
    BY DEF PeriodicReport, ReportBlocks, ghosts
  <1>2. /\ chan \in Queues(copied) /\ blk[n] \in {None} \cup Block
        /\ n \in Party /\ "reports" \in Kinds
    BY DEF IInv, TypeInv, Party, Kinds
  <1>3. FullReport(blk[n]) \in Seq(Mail(copied))
    BY <1>2, ReportMail
  <1>4. chan' \in Queues(copied)
    BY <1>1, <1>2, <1>3, SentToOne
  <1>. QED BY <1>1, <1>2, <1>4, QueuesKeep

LEMMA DropKeeps ==
  ASSUME IInv, NEW n \in Server, Drop(n)
  PROVE  Keeps
  <1>1. PICK a \in Party : Reconnect(n, a)
    BY DEF Drop, Party
  <1>2. /\ Spend("drops")
        /\ UNCHANGED <<now, up, blk, disk, tasks, op, masterVars, copied>>
    BY <1>1 DEF Drop, Reconnect, ghosts
  <1>3. PICK in \in Survivors(a, n), out \in Survivors(n, a) :
          chan' = [chan EXCEPT ![a][n] = in,
                     ![n][a] = IF a = Master THEN FullReport(blk[n]) ELSE out]
    BY <1>1 DEF Reconnect
  <1>4. /\ chan \in Queues(copied) /\ blk[n] \in {None} \cup Block
        /\ n \in Party /\ "drops" \in Kinds
    BY DEF IInv, TypeInv, Party, Kinds
  <1>5. ASSUME NEW p \in Party, NEW q \in Party
        PROVE  Survivors(p, q) \subseteq Seq(Mail(copied))
    <2>1. chan[p][q] \in Seq(Mail(copied))
      BY <1>4 DEF Queues
    <2>. DEFINE s == chan[p][q]
    <2>2. ASSUME NEW i \in 2..Len(s) + 1
          PROVE  SubSeq(s, i, Len(s)) \in Seq(Mail(copied))
      <3>. HIDE DEF s
      <3>1. s \in Seq(Mail(copied))
        BY <2>1 DEF s
      <3>2. Len(s) \in Nat /\ i \in Int /\ Len(s) \in Int
        BY <3>1, LenProperties
      <3>3. \A j \in i..Len(s) : s[j] \in Mail(copied)
        BY <3>1, <3>2, ElementOfSeq, <2>2
      <3>. QED BY <3>2, <3>3, SubSeqProperties
    <2>. QED BY <2>2, OneMail DEF Survivors
  <1>. DEFINE out2 == IF a = Master THEN FullReport(blk[n]) ELSE out
  <1>6. in \in Seq(Mail(copied)) /\ out2 \in Seq(Mail(copied))
    BY <1>4, <1>5, ReportMail
  <1>7. chan' = [chan EXCEPT ![a][n] = in, ![n][a] = out2]
    BY <1>3
  <1>. HIDE DEF out2
  <1>8. chan' \in Queues(copied)
    BY <1>4, <1>6, <1>7 DEF Queues
  <1>. QED BY <1>2, <1>4, <1>8, QueuesKeep

-----------------------------------------------------------------------------
(***************************************************************************)
(* References.                                                             *)
(***************************************************************************)
LEMMA HeldByUsers ==
  ASSUME NEW b \in {None} \cup Block, NEW ts, NEW W, Held(b, ts, W)
  PROVE  /\ W # {} => b # None
         /\ ts # {} => b # None
         /\ b = None => W = {} /\ ts = {}
  <1>1. /\ IsFiniteSet(W) /\ IsFiniteSet(ts)
        /\ Cardinality(W) \in Nat /\ Cardinality(ts) \in Nat
    BY FS_CardinalityType DEF Held
  <1>2. W # {} => Cardinality(W) > 0
    BY <1>1, FS_EmptySet
  <1>3. ts # {} => Cardinality(ts) > 0
    BY <1>1, FS_EmptySet
  <1>. QED BY <1>1, <1>2, <1>3 DEF Held

LEMMA HeldByNobody ==
  ASSUME NEW b
  PROVE  Held(b, {}, {})
  BY FS_EmptySet DEF Held

LEMMA BlankBlock ==
  /\ Blank \in Block /\ Blank # None
  /\ Blank.version = 0 /\ Blank.size = 0 /\ Blank.refs = 0
  /\ Blank.recover = None
  <1>1. Blank \in Block
    BY DEF Blank, Block
  <1>2. Blank # None
    BY <1>1, NoneAssumption
  <1>. QED BY <1>1, <1>2 DEF Blank

\* A user that comes takes a reference.
LEMMA HeldOnceMore ==
  ASSUME NEW b \in Block, NEW ts, NEW W, NEW c, Held(b, ts, W), c \notin W,
         NEW nb \in Block, nb.refs = b.refs + 1
  PROVE  Held(nb, ts, W \cup {c})
  <1>1. /\ IsFiniteSet(W) /\ IsFiniteSet(ts)
        /\ Cardinality(W) \in Nat /\ Cardinality(ts) \in Nat
    BY FS_CardinalityType DEF Held
  <1>2. IsFiniteSet(W \cup {c}) /\ Cardinality(W \cup {c}) = Cardinality(W) + 1
    BY <1>1, FS_AddElement
  <1>3. b.refs \in Nat /\ nb # None
    BY NoneAssumption DEF Block
  <1>. QED BY <1>1, <1>2, <1>3 DEF Held

\* One that goes gives it back.
LEMMA HeldOnceLess ==
  ASSUME NEW b \in Block, NEW ts, NEW W, NEW c \in W, Held(b, ts, W)
  PROVE  /\ b.refs - 1 \in Nat
         /\ \A nb \in Block : nb.refs = b.refs - 1 => Held(nb, ts, W \ {c})
  <1>1. /\ IsFiniteSet(W) /\ IsFiniteSet(ts)
        /\ Cardinality(W) \in Nat /\ Cardinality(ts) \in Nat
    BY FS_CardinalityType DEF Held
  <1>2. /\ IsFiniteSet(W \ {c}) /\ Cardinality(W \ {c}) = Cardinality(W) - 1
        /\ Cardinality(W \ {c}) \in Nat
    BY <1>1, FS_RemoveElement, FS_CardinalityType
  <1>3. b.refs \in Nat
    BY DEF Block
  <1>4. Cardinality(W) + Cardinality(ts) <= b.refs
    BY <1>1, <1>2 DEF Held
  <1>5. \A nb \in Block : nb # None
    BY NoneAssumption
  <1>. QED BY <1>1, <1>2, <1>3, <1>4, <1>5 DEF Held

\* The same of tasks.
LEMMA HeldByFewerTasks ==
  ASSUME NEW b \in Block, NEW ts, NEW W, NEW t \in ts, Held(b, ts, W)
  PROVE  /\ b.refs - 1 \in Nat
         /\ \A nb \in Block : nb.refs = b.refs - 1 => Held(nb, ts \ {t}, W)
         /\ Held(b, ts \ {t}, W)
  <1>1. /\ IsFiniteSet(W) /\ IsFiniteSet(ts)
        /\ Cardinality(W) \in Nat /\ Cardinality(ts) \in Nat
    BY FS_CardinalityType DEF Held
  <1>2. /\ IsFiniteSet(ts \ {t}) /\ Cardinality(ts \ {t}) = Cardinality(ts) - 1
        /\ Cardinality(ts \ {t}) \in Nat
    BY <1>1, FS_RemoveElement, FS_CardinalityType
  <1>3. b.refs \in Nat
    BY DEF Block
  <1>4. Cardinality(W) + Cardinality(ts) <= b.refs
    BY <1>1, <1>2 DEF Held
  <1>5. \A nb \in Block : nb # None
    BY NoneAssumption
  <1>. QED BY <1>1, <1>2, <1>3, <1>4, <1>5 DEF Held

LEMMA HeldByMoreTasks ==
  ASSUME NEW b \in Block, NEW ts, NEW W, NEW more, IsFiniteSet(more),
         Held(b, ts, W), NEW nb \in Block,
         nb.refs = b.refs + Cardinality(more)
  PROVE  Held(nb, ts \cup more, W)
  <1>1. /\ IsFiniteSet(W) /\ IsFiniteSet(ts)
        /\ Cardinality(W) \in Nat /\ Cardinality(ts) \in Nat
        /\ Cardinality(more) \in Nat
    BY FS_CardinalityType DEF Held
  <1>2. /\ IsFiniteSet(ts \cup more)
        /\ Cardinality(ts \cup more) =
             Cardinality(ts) + Cardinality(more) - Cardinality(ts \cap more)
    BY <1>1, FS_Union
  <1>3. Cardinality(ts \cap more) \in Nat
    BY <1>1, FS_Subset, FS_CardinalityType
  <1>4. b.refs \in Nat /\ nb # None
    BY NoneAssumption DEF Block
  <1>5. Cardinality(ts \cup more) \in Nat
    BY <1>2, FS_CardinalityType
  <1>6. Cardinality(W) + Cardinality(ts) <= b.refs
    BY <1>1, <1>4 DEF Held
  <1>. QED BY <1>1, <1>2, <1>3, <1>4, <1>5, <1>6 DEF Held

LEMMA HeldByFewerWriters ==
  ASSUME NEW b, NEW ts, NEW W, Held(b, ts, W), NEW V \in SUBSET W,
         b # None => b \in Block
  PROVE  Held(b, ts, V)
  <1>1. /\ IsFiniteSet(W) /\ IsFiniteSet(ts) /\ IsFiniteSet(V)
        /\ Cardinality(W) \in Nat /\ Cardinality(ts) \in Nat
        /\ Cardinality(V) \in Nat /\ Cardinality(V) <= Cardinality(W)
    BY FS_CardinalityType, FS_Subset DEF Held
  <1>2. b # None => b.refs \in Nat
    BY DEF Block
  <1>. QED BY <1>1, <1>2 DEF Held

\* The number of references does not change, nor do the users.
LEMMA HeldAsBefore ==
  ASSUME NEW b \in Block, NEW ts, NEW W, Held(b, ts, W),
         NEW nb \in Block, nb.refs = b.refs
  PROVE  Held(nb, ts, W)
  BY NoneAssumption DEF Held

-----------------------------------------------------------------------------
(***************************************************************************)
(* Client writes.                                                          *)
(***************************************************************************)
\* A block that is the one before, or has just been made.
SameContent(b, nb) ==
  IF b = None
  THEN nb.version = 0 /\ nb.size = 0 /\ nb.recover = None
  ELSE nb.version = b.version /\ nb.size = b.size /\ nb.recover = b.recover

LEMMA ContentKept ==
  ASSUME NEW b \in {None} \cup Block, NEW nb \in Block, SameContent(b, nb)
  PROVE  /\ \A f \in {None} \cup Seq(Int) : Sound(b, f) => Sound(nb, f)
         /\ \A meta : Saved(b, meta) => Saved(nb, meta)
         /\ \A f, cp, faults :
              Received(b, f, cp, faults) => Received(nb, f, cp, faults)
  <1>1. \A f \in {None} \cup Seq(Int) : Len(Batches(f)) \in Nat
    BY FileIsSeq
  <1>2. CASE b = None
    BY <1>1, <1>2 DEF SameContent, Sound, Saved, Received
  <1>3. CASE b # None
    BY <1>3 DEF SameContent, Sound, Saved, Received
  <1>. QED BY <1>2, <1>3

LEMMA ReleasedBlock ==
  ASSUME NEW b \in Block, b.refs - 1 \in Nat
  PROVE  /\ Released(b) \in Block /\ Released(b).refs = b.refs - 1
         /\ Released(b) # None
         /\ Released(b).version = b.version /\ Released(b).size = b.size
         /\ Released(b).recover = b.recover
  <1>1. Released(b) = [version |-> b.version, size |-> b.size,
                       refs |-> b.refs - 1, recover |-> b.recover]
    BY DEF Released, Block
  <1>2. Released(b) \in Block
    BY <1>1 DEF Block
  <1>. QED BY <1>1, <1>2, NoneAssumption

LEMMA WriterAt ==
  ASSUME IInv, NEW c \in Client, At(c, "begun") \/ At(c, "applied")
  PROVE  LET n == op[c].node
         IN  /\ op[c] \in Op /\ n \in Server /\ c \in Writers(n)
             /\ blk[n] \in Block /\ blk[n] # None /\ up[n]
             /\ disk[n] \in Disk
             /\ NodeInv(n)
             /\ op[c].old <= blk[n].version
  <1>1. op[c] \in Op
    BY DEF IInv, TypeInv, At
  <1>2. PICK n \in Server : n = op[c].node
    BY <1>1 DEF Op
  <1>3. NodeInv(n) /\ c \in Writers(n)
    BY <1>2 DEF IInv, NodesInv, Writers
  <1>4. blk[n] \in {None} \cup Block /\ up[n] \in BOOLEAN /\ disk[n] \in Disk
    BY DEF IInv, TypeInv
  <1>5. blk[n] # None
    BY <1>3, <1>4, HeldByUsers DEF NodeInv
  <1>. QED BY <1>1, <1>2, <1>3, <1>4, <1>5 DEF NodeInv

\* Nothing but node n, its callers and the messages has changed.
LEMMA OnlyNode ==
  ASSUME IInv, NEW n \in Server, Onward, NodeInv(n)', Follows(n),
         \A m \in Server \ {n} : /\ up'[m] = up[m] /\ blk'[m] = blk[m]
                                 /\ disk'[m] = disk[m] /\ tasks'[m] = tasks[m]
                                 /\ Writers(m)' = Writers(m)
                                 /\ \A c \in Writers(m) : op'[c].old = op[c].old
  PROVE  NodesInv' /\ \A m \in Server : Follows(m)
  BY TouchedNode DEF IInv, Untouched

\* A call of node n, of which nobody else is a part.
LEMMA CallersOfOthers ==
  ASSUME NEW n \in Server, NEW c \in Client, op[c] \in Op, op[c].node = n,
         op'[c] = None \/ op'[c].node = n,
         \A e \in Client \ {c} : op'[e] = op[e]
  PROVE  \A m \in Server \ {n} : /\ Writers(m)' = Writers(m)
                                 /\ \A e \in Writers(m) : op'[e].old = op[e].old
  BY DEF Writers, At

LEMMA BeginWriteKeeps ==
  ASSUME IInv, NEW c \in Client, BeginWrite(c),
         UNCHANGED <<now, masterVars, spent, copied>>
  PROVE  Keeps
  <1>1. At(c, "sent") /\ ~Refuses(op[c].node, op[c])
        /\ UNCHANGED <<up, disk, tasks, chan>>
    BY DEF BeginWrite
  <1>2. TypeInv /\ NodesInv
    BY DEF IInv
  <1>3. op[c] \in Op /\ op[c].pc = "sent"
    BY <1>1, <1>2 DEF TypeInv, At
  <1>4. PICK n \in Server : n = op[c].node
    BY <1>3 DEF Op
  <1>5. /\ up[n] /\ blk[n] \in {None} \cup Block /\ disk[n] \in Disk
        /\ NodeInv(n)
    BY <1>1, <1>2, <1>4 DEF TypeInv, NodesInv, Refuses
  <1>. DEFINE b == IF blk[n] = None THEN Blank ELSE blk[n]
              nb == [b EXCEPT !.refs = @ + 1]
              x == [op[c] EXCEPT !.pc = "begun", !.old = b.version]
  <1>6. /\ blk' = [blk EXCEPT ![n] = nb]
        /\ op' = [op EXCEPT ![c] = x]
    BY <1>4 DEF BeginWrite
  <1>7. b \in Block /\ SameContent(blk[n], b)
    BY <1>5, BlankBlock DEF SameContent
  <1>. HIDE DEF b
  <1>8. /\ nb \in Block /\ nb.refs = b.refs + 1 /\ nb.version = b.version
        /\ nb.size = b.size /\ nb.recover = b.recover
    <2>1. nb = [version |-> b.version, size |-> b.size, refs |-> b.refs + 1,
                recover |-> b.recover]
      BY <1>7 DEF Block
    <2>. HIDE DEF nb
    <2>. QED BY <1>7, <2>1 DEF Block
  <1>9. x \in Op /\ x.node = n /\ x.old = b.version
    <2>1. b.version \in Nat
      BY <1>7 DEF Block
    <2>. QED BY <1>3, <1>4, <2>1 DEF Op
  <1>. HIDE DEF nb, x
  <1>10. TypeInv'
    BY <1>1, <1>2, <1>6, <1>8, <1>9 DEF TypeInv, masterVars, M!TypeOK
  <1>11. /\ op'[c] = x /\ \A e \in Client \ {c} : op'[e] = op[e]
         /\ Writers(n)' \subseteq Writers(n) \cup {c} /\ c \notin Writers(n)
         /\ \A e \in Writers(n) : op'[e] = op[e]
    BY <1>2, <1>3, <1>6, OneCall DEF TypeInv, Writers, At
  <1>12. blk'[n] = nb /\ \A m \in Server \ {n} : blk'[m] = blk[m]
    BY <1>2, <1>6 DEF TypeInv
  <1>13. Held(blk[n], tasks[n], Writers(n))'
    <2>1. Held(b, tasks[n], Writers(n))
      BY <1>5, HeldByUsers, HeldByNobody DEF NodeInv, b
    <2>2. Held(nb, tasks[n], Writers(n) \cup {c})
      BY <1>7, <1>8, <1>11, <2>1, HeldOnceMore
    <2>3. Held(nb, tasks[n], Writers(n)')
      BY <1>8, <1>11, <2>2, HeldByFewerWriters
    <2>. QED BY <1>1, <1>12, <2>3 DEF Held
  <1>14. \A e \in Writers(n)' : op'[e].old <= nb.version
    <2>1. b.version \in Nat
      BY <1>7 DEF Block
    <2>2. \A e \in Writers(n) : op[e].old <= b.version
      BY <1>5, HeldByUsers DEF NodeInv, b
    <2>. QED BY <1>8, <1>9, <1>11, <2>1, <2>2
  <1>15. SameContent(blk[n], nb)
    BY <1>7, <1>8 DEF SameContent
  <1>16. /\ Sound(nb, disk[n].file)
         /\ spent.used.faults = 0 => Saved(nb, disk[n].meta)
         /\ Received(nb, disk[n].file, copied, spent.used.faults)
    <2>1. disk[n].file \in {None} \cup Seq(Int)
      BY <1>5 DEF Disk
    <2>2. /\ Sound(blk[n], disk[n].file) => Sound(nb, disk[n].file)
          /\ Saved(blk[n], disk[n].meta) => Saved(nb, disk[n].meta)
          /\ Received(blk[n], disk[n].file, copied, spent.used.faults) =>
               Received(nb, disk[n].file, copied, spent.used.faults)
      BY <1>5, <1>8, <1>15, <2>1, ContentKept
    <2>. QED BY <1>5, <2>2 DEF NodeInv
  <1>17. NodeInv(n)'
    BY <1>1, <1>5, <1>12, <1>13, <1>14, <1>16
       DEF NodeInv, Sound, Saved, Received, Sourced
  <1>18. Follows(n)
    <2>1. blk[n] # None => blk[n].version \in Nat
      BY <1>5 DEF Block
    <2>. QED BY <1>12, <1>15, <2>1 DEF Follows, SameContent
  <1>19. Onward
    BY <1>2, NothingSpent
  <1>20. NodesInv' /\ \A m \in Server : Follows(m)
    <2>1. \A m \in Server \ {n} :
            /\ Writers(m)' = Writers(m)
            /\ \A e \in Writers(m) : op'[e].old = op[e].old
      BY <1>3, <1>4, <1>9, <1>11, CallersOfOthers
    <2>. QED BY <1>1, <1>12, <1>17, <1>18, <1>19, <2>1, OnlyNode
  <1>. QED BY <1>10, <1>20 DEF Keeps, IInv

\* A write to the disk fails only where the budget has been asked.
Paid(outcome) ==
  /\ spent' \in [budget : Budgets, used : [Kinds -> Nat]]
  /\ Onward
  /\ outcome # "written" => spent'.used.faults > 0

\* The end of a call, which leaves the block as nb and the files as nd.
LEMMA WriterLeaves ==
  ASSUME IInv, NEW c \in Client, At(c, "begun") \/ At(c, "applied"),
         NEW n \in Server, n = op[c].node,
         NEW mb \in Block, mb.refs = blk[n].refs,
         blk[n].version <= mb.version, mb.recover = blk[n].recover,
         NEW nd \in Disk,
         op' = [op EXCEPT ![c] = None],
         blk' = [blk EXCEPT ![n] = Released(mb)],
         disk' = [disk EXCEPT ![n] = nd],
         UNCHANGED <<now, up, tasks, masterVars, copied>>,
         chan' \in Queues(copied),
         spent' \in [budget : Budgets, used : [Kinds -> Nat]], Onward,
         Sound(mb, nd.file),
         spent'.used.faults = 0 => Saved(mb, nd.meta),
         Received(mb, nd.file, copied, spent'.used.faults)
  PROVE  Keeps
  <1>1. /\ op[c] \in Op /\ c \in Writers(n) /\ blk[n] \in Block
        /\ blk[n] # None /\ up[n] /\ NodeInv(n)
    BY WriterAt
  <1>2. TypeInv
    BY DEF IInv
  <1>. DEFINE nb == Released(mb)
  <1>3. mb.refs - 1 \in Nat
    BY <1>1, HeldOnceLess DEF NodeInv
  <1>4. /\ nb \in Block /\ nb.refs = blk[n].refs - 1 /\ nb # None
        /\ nb.version = mb.version /\ nb.size = mb.size
        /\ nb.recover = mb.recover
    BY <1>3, ReleasedBlock
  <1>5. mb # None /\ mb.version \in Nat /\ blk[n].version \in Nat
    BY <1>1, NoneAssumption DEF Block
  <1>. HIDE DEF nb
  <1>6. blk' = [blk EXCEPT ![n] = nb]
    BY DEF nb
  <1>7. /\ blk'[n] = nb /\ disk'[n] = nd
        /\ \A m \in Server \ {n} : blk'[m] = blk[m] /\ disk'[m] = disk[m]
    BY <1>2, <1>6 DEF TypeInv
  <1>8. TypeInv'
    BY <1>2, <1>4, <1>6 DEF TypeInv, masterVars, M!TypeOK
  <1>9. /\ Writers(n)' = Writers(n) \ {c}
        /\ \A e \in Client \ {c} : op'[e] = op[e]
        /\ op'[c] = None
        /\ \A e \in Writers(n)' : op'[e] = op[e]
    <2>1. /\ Writers(n)' = Writers(n) \ {c}
          /\ \A e \in Client \ {c} : op'[e] = op[e]
          /\ op'[c] = None
      BY <1>2, OneCall DEF TypeInv
    <2>. QED BY <2>1 DEF Writers
  <1>10. Held(blk[n], tasks[n], Writers(n))'
    <2>1. Held(nb, tasks[n], Writers(n) \ {c})
      BY <1>1, <1>4, HeldOnceLess DEF NodeInv
    <2>. QED BY <1>7, <1>9, <2>1 DEF Held
  <1>11. \A e \in Writers(n)' : op'[e].old <= blk'[n].version
    <2>1. \A e \in Writers(n) : op[e].old \in Nat /\ op[e].old <= blk[n].version
      BY <1>1, <1>2 DEF TypeInv, Writers, At, NodeInv, Op
    <2>. QED BY <1>4, <1>5, <1>7, <1>9, <2>1
  <1>12. SameContent(mb, nb)
    BY <1>4, <1>5 DEF SameContent
  <1>13. /\ Sound(nb, nd.file)
         /\ spent'.used.faults = 0 => Saved(nb, nd.meta)
         /\ Received(nb, nd.file, copied, spent'.used.faults)
    <2>1. nd.file \in {None} \cup Seq(Int)
      BY DEF Disk
    <2>. QED BY <1>4, <1>12, <2>1, ContentKept
  <1>14. NodeInv(n)'
    <2>1. ~up'[n] => blk'[n] = None
      BY <1>1
    <2>2. /\ Sound(blk'[n], disk'[n].file)
          /\ spent'.used.faults = 0 => Saved(blk'[n], disk'[n].meta)
          /\ Received(blk'[n], disk'[n].file, copied', spent'.used.faults)
      BY <1>7, <1>13
    <2>. QED BY <1>10, <1>11, <2>1, <2>2 DEF NodeInv
  <1>15. Follows(n)
    BY <1>4, <1>5, <1>7 DEF Follows
  <1>16. NodesInv' /\ \A m \in Server : Follows(m)
    <2>1. \A m \in Server \ {n} :
            /\ Writers(m)' = Writers(m)
            /\ \A e \in Writers(m) : op'[e].old = op[e].old
      BY <1>1, <1>9, CallersOfOthers
    <2>2. \A m \in Server \ {n} :
            /\ up'[m] = up[m] /\ blk'[m] = blk[m] /\ disk'[m] = disk[m]
            /\ tasks'[m] = tasks[m]
      BY <1>7
    <2>. QED BY <1>14, <1>15, <2>1, <2>2, OnlyNode
  <1>. QED BY <1>8, <1>16 DEF Keeps, IInv

\* A block that is not being recovered has nothing to receive.
LEMMA NothingReceived ==
  ASSUME NEW b, b.recover = None, NEW f, NEW cp, NEW faults
  PROVE  Received(b, f, cp, faults)
  BY DEF Received

LEMMA FailWriteKeeps ==
  ASSUME IInv, NEW c \in Client, NEW outcome \in Outcomes,
         FailWrite(c, outcome), Paid(outcome),
         UNCHANGED <<now, masterVars, copied>>
  PROVE  Keeps
  <1>1. PICK n \in Server : n = op[c].node
    BY WriterAt DEF FailWrite
  <1>2. /\ op[c] \in Op /\ blk[n] \in Block /\ blk[n] # None
        /\ disk[n] \in Disk /\ NodeInv(n) /\ At(c, "begun")
    BY <1>1, WriterAt DEF FailWrite
  <1>3. /\ op' = [op EXCEPT ![c] = None]
        /\ UNCHANGED <<up, tasks, chan>>
        /\ chan' \in Queues(copied)
    BY DEF FailWrite, IInv, TypeInv
  <1>4. disk \in [Server -> Disk]
    BY DEF IInv, TypeInv
  <1>. DEFINE w == op[c].write
              v == op[c].lease.newversion
              from == op[c].lease.version
              b == BlkAfter(blk[n], w, FALSE, v, outcome)
              nd == DiskAfter(disk[n], b, w, outcome)
  <1>5. w \in Write /\ v \in Nat /\ from \in Nat
    BY <1>2 DEF Op, Lease
  <1>6. CASE /\ blk' = [blk EXCEPT ![n] = Released(@)]
             /\ UNCHANGED disk
    <2>1. disk' = [disk EXCEPT ![n] = disk[n]]
      BY <1>4, <1>6
    <2>2. blk[n].version <= blk[n].version
      BY <1>2 DEF Block
    <2>3. /\ Sound(blk[n], disk[n].file)
          /\ spent'.used.faults = 0 => Saved(blk[n], disk[n].meta)
          /\ Received(blk[n], disk[n].file, copied, spent'.used.faults)
      BY <1>2 DEF NodeInv, Paid, Onward, Received
    <2>. QED BY <1>1, <1>2, <1>3, <1>6, <2>1, <2>2, <2>3, WriterLeaves DEF Paid
  <1>7. CASE /\ Accepts(blk[n], w, FALSE, from)
             /\ outcome # "written"
             /\ blk' = [blk EXCEPT ![n] = Released(b)]
             /\ disk' = [disk EXCEPT ![n] = nd]
    <2>1. /\ Sound(blk[n], disk[n].file)
          /\ blk[n].recover = None
      BY <1>2, <1>7 DEF NodeInv, Accepts
    <2>2. Written(blk[n], b, w, outcome)
      BY <1>2, <1>5, ClientBlock
    <2>3. nd = DiskAfter(disk[n], b, w, outcome)
      OBVIOUS
    <2>. HIDE DEF w, v, b, nd
    <2>4. /\ b \in Block /\ b.refs = blk[n].refs /\ b.recover = None
          /\ blk[n].version <= b.version
          /\ nd \in Disk /\ Sound(b, nd.file)
      <3>1. nd \in Disk /\ Sound(b, nd.file)
        BY <1>2, <1>5, <2>1, <2>2, <2>3, WrittenFiles
      <3>. QED BY <2>1, <2>2, <3>1 DEF Written
    <2>5. spent'.used.faults # 0
      BY <1>7 DEF Paid
    <2>6. Received(b, nd.file, copied, spent'.used.faults)
      BY <2>4, NothingReceived
    <2>. QED BY <1>1, <1>2, <1>3, <1>7, <2>1, <2>4, <2>5, <2>6, WriterLeaves
             DEF Paid
  <1>. QED BY <1>1, <1>6, <1>7 DEF FailWrite

LEMMA FinishWriteKeeps ==
  ASSUME IInv, NEW c \in Client, FinishWrite(c),
         UNCHANGED <<now, masterVars, spent, copied>>
  PROVE  Keeps
  <1>1. PICK n \in Server : n = op[c].node
    BY WriterAt DEF FinishWrite
  <1>2. /\ op[c] \in Op /\ blk[n] \in Block /\ blk[n] # None
        /\ disk[n] \in Disk /\ NodeInv(n) /\ At(c, "applied")
        /\ op[c].old <= blk[n].version
    BY <1>1, WriterAt DEF FinishWrite
  <1>3. TypeInv /\ disk \in [Server -> Disk] /\ chan \in Queues(copied)
    BY DEF IInv, TypeInv
  <1>. DEFINE notify == [type |-> "notify", write |-> op[c].write,
                         old |-> op[c].old, new |-> blk[n].version]
              out == [d \in op[c].peers \cup {Master} |->
                        IF d = Master THEN <<Update(blk[n])>> ELSE <<notify>>]
  <1>4. /\ op' = [op EXCEPT ![c] = None]
        /\ blk' = [blk EXCEPT ![n] = Released(blk[n])]
        /\ chan' = Sent(chan, n, out)
        /\ UNCHANGED <<up, disk, tasks>>
    BY <1>1 DEF FinishWrite
  <1>5. notify \in Mail(copied)
    BY <1>2 DEF Mail, Notifies, Op, Block
  <1>6. <<notify>> \in Seq(Mail(copied))
        /\ <<Update(blk[n])>> \in Seq(Mail(copied))
    BY <1>2, <1>5, OneMail, ReportMail
  <1>. HIDE DEF notify
  <1>7. \A d \in DOMAIN out : out[d] \in Seq(Mail(copied))
    BY <1>6
  <1>. HIDE DEF out
  <1>8. chan' \in Queues(copied)
    BY <1>3, <1>4, <1>7, SentMail DEF Party
  <1>9. disk' = [disk EXCEPT ![n] = disk[n]]
    BY <1>3, <1>4
  <1>10. Onward /\ spent' \in [budget : Budgets, used : [Kinds -> Nat]]
    BY <1>3, NothingSpent DEF TypeInv
  <1>11. /\ Sound(blk[n], disk[n].file)
         /\ spent'.used.faults = 0 => Saved(blk[n], disk[n].meta)
         /\ Received(blk[n], disk[n].file, copied, spent'.used.faults)
    BY <1>2 DEF NodeInv
  <1>12. blk[n].version <= blk[n].version
    BY <1>2 DEF Block
  <1>. QED BY <1>1, <1>2, <1>4, <1>8, <1>9, <1>10, <1>11, <1>12, WriterLeaves

LEMMA ApplyWriteKeeps ==
  ASSUME IInv, NEW c \in Client, ApplyWrite(c),
         UNCHANGED <<now, masterVars, spent, copied>>
  PROVE  Keeps
  <1>1. PICK n \in Server : n = op[c].node
    BY WriterAt DEF ApplyWrite
  <1>2. /\ op[c] \in Op /\ blk[n] \in Block /\ blk[n] # None /\ up[n]
        /\ disk[n] \in Disk /\ NodeInv(n) /\ At(c, "begun")
        /\ c \in Writers(n)
    BY <1>1, WriterAt DEF ApplyWrite
  <1>3. TypeInv
    BY DEF IInv
  <1>. DEFINE w == op[c].write
              v == op[c].lease.newversion
              nb == BlkAfter(blk[n], w, FALSE, v, "written")
              nd == DiskAfter(disk[n], nb, w, "written")
              x == [op[c] EXCEPT !.pc = "applied"]
  <1>4. /\ blk' = [blk EXCEPT ![n] = nb]
        /\ disk' = [disk EXCEPT ![n] = nd]
        /\ op' = [op EXCEPT ![c] = x]
        /\ blk[n].recover = None
        /\ UNCHANGED <<up, tasks, chan>>
    BY <1>1 DEF ApplyWrite, BlkAfter, Accepts
  <1>5. w \in Write /\ v \in Nat /\ "written" \in Outcomes
    BY <1>2 DEF Op, Lease, Outcomes
  <1>6. x \in Op /\ x.node = n /\ x.old = op[c].old
    BY <1>1, <1>2 DEF Op
  <1>7. Written(blk[n], nb, w, "written")
    BY <1>2, <1>5, ClientBlock
  <1>8. nd = DiskAfter(disk[n], nb, w, "written")
    OBVIOUS
  <1>. HIDE DEF w, v, nb, nd, x
  <1>9. nd \in Disk /\ Sound(nb, nd.file) /\ Saved(nb, nd.meta)
    <2>1. Sound(blk[n], disk[n].file)
      BY <1>2 DEF NodeInv
    <2>. QED BY <1>2, <1>4, <1>5, <1>7, <1>8, <2>1, WrittenFiles
  <1>10. /\ nb \in Block /\ nb.refs = blk[n].refs /\ nb.recover = None
         /\ nb # None
         /\ blk[n].version <= nb.version
         /\ blk[n].version \in Nat /\ nb.version \in Nat
    BY <1>2, <1>4, <1>7, NoneAssumption DEF Written, Block
  <1>11. /\ blk'[n] = nb /\ disk'[n] = nd
         /\ \A m \in Server \ {n} : blk'[m] = blk[m] /\ disk'[m] = disk[m]
    BY <1>3, <1>4 DEF TypeInv
  <1>12. TypeInv'
    BY <1>3, <1>4, <1>6, <1>9, <1>10 DEF TypeInv, masterVars, M!TypeOK
  <1>13. /\ op'[c] = x /\ \A e \in Client \ {c} : op'[e] = op[e]
         /\ Writers(n)' \subseteq Writers(n)
    <2>1. op \in [Client -> {None} \cup Op]
      BY <1>3 DEF TypeInv
    <2>2. /\ op'[c] = x /\ \A e \in Client \ {c} : op'[e] = op[e]
          /\ \A m : Writers(m)' =
               IF x # None /\ x.pc \in {"begun", "applied"} /\ x.node = m
               THEN Writers(m) \cup {c} ELSE Writers(m) \ {c}
      BY <1>4, <2>1, OneCall
    <2>3. Writers(n)' \subseteq Writers(n) \cup {c}
      BY <2>2
    <2>. QED BY <1>2, <2>2, <2>3
  <1>14. Held(blk[n], tasks[n], Writers(n))'
    <2>1. Held(nb, tasks[n], Writers(n))
      BY <1>2, <1>10, HeldAsBefore DEF NodeInv
    <2>2. Held(nb, tasks[n], Writers(n)')
      BY <1>10, <1>13, <2>1, HeldByFewerWriters
    <2>. QED BY <1>4, <1>11, <2>2 DEF Held
  <1>15. \A e \in Writers(n)' : op'[e].old <= blk'[n].version
    <2>1. \A e \in Writers(n) : op[e].old \in Nat /\ op[e].old <= blk[n].version
      BY <1>2, <1>3 DEF TypeInv, Writers, At, NodeInv, Op
    <2>2. \A e \in Writers(n)' : e \in Writers(n) /\ op'[e].old = op[e].old
      BY <1>6, <1>13 DEF Writers
    <2>. QED BY <1>10, <1>11, <2>1, <2>2
  <1>16. Received(nb, nd.file, copied, spent.used.faults)
    BY <1>10, NothingReceived
  <1>17. NodeInv(n)'
    BY <1>2, <1>4, <1>9, <1>11, <1>14, <1>15, <1>16
       DEF NodeInv, Sound, Saved, Received, Sourced
  <1>18. Follows(n)
    BY <1>4, <1>10, <1>11 DEF Follows
  <1>19. Onward
    BY <1>3, NothingSpent
  <1>20. NodesInv' /\ \A m \in Server : Follows(m)
    <2>1. \A m \in Server \ {n} :
            /\ Writers(m)' = Writers(m)
            /\ \A e \in Writers(m) : op'[e].old = op[e].old
      BY <1>1, <1>2, <1>6, <1>13, CallersOfOthers
    <2>. QED BY <1>4, <1>11, <1>17, <1>18, <1>19, <2>1, OnlyNode
  <1>. QED BY <1>12, <1>20 DEF Keeps, IInv

\* A call of a client, all steps of it.
LEMMA ClientStepKeeps ==
  ASSUME IInv, NEW c \in Client, ClientStep(c)
  PROVE  Keeps
  <1>1. UNCHANGED <<now, masterVars, copied, spent>>
    BY DEF ClientStep
  <1>2. Paid("written") /\ "written" \in Outcomes
    <2>1. TypeInv
      BY DEF IInv
    <2>. QED BY <1>1, <2>1, NothingSpent DEF Paid, TypeInv, Outcomes
  <1>3. RefuseWrite(c) \/ BeginWrite(c) \/ FinishWrite(c)
          \/ FailWrite(c, "written") \/ ApplyWrite(c)
    BY DEF ClientStep
  <1>. QED BY <1>1, <1>2, <1>3, RefuseWriteKeeps, BeginWriteKeeps,
              FinishWriteKeeps, FailWriteKeeps, ApplyWriteKeeps

-----------------------------------------------------------------------------
(***************************************************************************)
(* Handlers of a node that runs.                                           *)
(***************************************************************************)
\* The block, the files and the tasks of n become nb, nd and ts.
NodeBecomes(n, nb, nd, ts) ==
  /\ blk' = [blk EXCEPT ![n] = nb]
  /\ disk' = [disk EXCEPT ![n] = nd]
  /\ tasks' = [tasks EXCEPT ![n] = ts]
  /\ UNCHANGED <<now, up, op, masterVars>>

\* The block nb that b becomes is no older, and recovered only when all of it
\* has been received.
Succeeds(b, f, nb, nf) ==
  b # None /\ nb # None =>
    /\ b.version <= nb.version
    /\ b.recover # None /\ nb.recover = None =>
         /\ nb.version = b.recover.version
         /\ b.recover.got = 0..(nb.size - 1)
         /\ nf = f

LEMMA HandlerKeeps ==
  ASSUME IInv, NEW n \in Server, up[n],
         NEW nb \in {None} \cup Block, NEW nd \in Disk, NEW ts \in SUBSET Task,
         NodeBecomes(n, nb, nd, ts),
         chan' \in Queues(copied'),
         spent' \in [budget : Budgets, used : [Kinds -> Nat]], Onward,
         Held(nb, ts, Writers(n)),
         Succeeds(blk[n], disk[n].file, nb, nd.file),
         Sound(nb, nd.file),
         spent'.used.faults = 0 => Saved(nb, nd.meta),
         Received(nb, nd.file, copied', spent'.used.faults)
  PROVE  Keeps
  <1>1. /\ TypeInv /\ NodeInv(n) /\ blk[n] \in {None} \cup Block
    BY DEF IInv, TypeInv, NodesInv
  <1>2. /\ blk'[n] = nb /\ disk'[n] = nd /\ tasks'[n] = ts
        /\ UNCHANGED <<now, up, op, masterVars>>
        /\ \A m \in Server \ {n} : /\ blk'[m] = blk[m] /\ disk'[m] = disk[m]
                                   /\ tasks'[m] = tasks[m]
    BY <1>1 DEF NodeBecomes, TypeInv
  <1>3. TypeInv'
    BY <1>1, <1>2 DEF NodeBecomes, TypeInv, masterVars, M!TypeOK
  <1>4. \A m \in Server : Writers(m)' = Writers(m)
    BY <1>2 DEF Writers, At
  <1>5. Held(blk[n], tasks[n], Writers(n))'
    BY <1>2, <1>4 DEF Held
  <1>6. \A c \in Writers(n)' : op'[c].old <= blk'[n].version
    <2>1. \A c \in Writers(n) :
            /\ op[c].old \in Nat /\ op[c].old <= blk[n].version
            /\ blk[n] # None /\ nb # None
      BY <1>1, HeldByUsers DEF TypeInv, Writers, At, NodeInv, Op
    <2>2. /\ blk[n] # None => blk[n].version \in Nat
          /\ nb # None => nb.version \in Nat
      BY <1>1 DEF Block
    <2>. QED BY <1>2, <1>4, <2>1, <2>2 DEF Succeeds
  <1>7. NodeInv(n)'
    BY <1>2, <1>5, <1>6 DEF NodeInv, Sound, Saved, Received, Sourced
  <1>8. Follows(n)
    BY <1>2 DEF Follows, Succeeds
  <1>9. NodesInv' /\ \A m \in Server : Follows(m)
    BY <1>2, <1>4, <1>7, <1>8, OnlyNode
  <1>. QED BY <1>3, <1>9 DEF Keeps, IInv

\* A message that changes nothing of the node.
LEMMA IgnoredKeeps ==
  ASSUME IInv, UNCHANGED <<now, up, blk, disk, tasks, op, masterVars, copied>>,
         chan' \in Queues(copied),
         spent' \in [budget : Budgets, used : [Kinds -> Nat]], Onward
  PROVE  Keeps
  <1>1. TypeInv'
    BY DEF IInv, TypeInv, masterVars, M!TypeOK
  <1>2. NodesInv' /\ \A n \in Server : Follows(n)
    BY SameCalls
  <1>. QED BY <1>1, <1>2 DEF Keeps, IInv

\* A block that is looked up and, for an append or a repair, made.
LEMMA LookedUp ==
  ASSUME IInv, NEW n \in Server, NEW b,
         b = IF blk[n] = None THEN Blank ELSE blk[n]
  PROVE  /\ b \in Block /\ b # None
         /\ Held(b, tasks[n], Writers(n))
         /\ Succeeds(blk[n], disk[n].file, b, disk[n].file)
         /\ Sound(b, disk[n].file)
         /\ spent.used.faults = 0 => Saved(b, disk[n].meta)
         /\ Received(b, disk[n].file, copied, spent.used.faults)
  <1>1. /\ NodeInv(n) /\ blk[n] \in {None} \cup Block /\ disk[n] \in Disk
        /\ disk[n].file \in {None} \cup Seq(Int)
    BY DEF IInv, TypeInv, NodesInv, Disk
  <1>2. b \in Block /\ b # None /\ SameContent(blk[n], b)
    BY <1>1, BlankBlock DEF SameContent
  <1>3. Held(b, tasks[n], Writers(n))
    BY <1>1, HeldByUsers, HeldByNobody DEF NodeInv
  <1>4. Succeeds(blk[n], disk[n].file, b, disk[n].file)
    <2>1. b.version \in Nat
      BY <1>2 DEF Block
    <2>. QED BY <2>1 DEF Succeeds
  <1>5. /\ Sound(b, disk[n].file)
        /\ spent.used.faults = 0 => Saved(b, disk[n].meta)
        /\ Received(b, disk[n].file, copied, spent.used.faults)
    BY <1>1, <1>2, ContentKept DEF NodeInv
  <1>. QED BY <1>2, <1>3, <1>4, <1>5

\* A handler that only looks the block up.
LEMMA LookedUpKeeps ==
  ASSUME IInv, NEW n \in Server, up[n], NEW b,
         b = IF blk[n] = None THEN Blank ELSE blk[n],
         blk' = [blk EXCEPT ![n] = b],
         UNCHANGED <<now, up, disk, tasks, op, masterVars, copied>>,
         chan' \in Queues(copied),
         spent' \in [budget : Budgets, used : [Kinds -> Nat]], Onward
  PROVE  Keeps
  <1>1. /\ disk \in [Server -> Disk] /\ tasks \in [Server -> SUBSET Task]
    BY DEF IInv, TypeInv
  <1>2. NodeBecomes(n, b, disk[n], tasks[n])
    BY <1>1 DEF NodeBecomes
  <1>3. /\ spent'.used.faults = 0 => spent.used.faults = 0
        /\ spent.used.faults > 0 => spent'.used.faults > 0
    BY DEF Onward
  <1>4. /\ b \in Block /\ Held(b, tasks[n], Writers(n))
        /\ Succeeds(blk[n], disk[n].file, b, disk[n].file)
        /\ Sound(b, disk[n].file)
        /\ spent.used.faults = 0 => Saved(b, disk[n].meta)
        /\ Received(b, disk[n].file, copied, spent.used.faults)
    BY LookedUp
  <1>5. Received(b, disk[n].file, copied', spent'.used.faults)
    BY <1>3, <1>4 DEF Received
  <1>6. disk[n] \in Disk /\ tasks[n] \in SUBSET Task
    BY <1>1
  <1>. QED BY <1>2, <1>3, <1>4, <1>5, <1>6, HandlerKeeps

\* The write of the lease holder, repeated.
LEMMA OnNotifyKeeps ==
  ASSUME IInv, NEW n \in Server, NEW a \in Party, NEW outcome \in Outcomes,
         OnNotify(n, a, outcome), Paid(outcome),
         UNCHANGED <<now, masterVars, copied>>
  PROVE  Keeps
  <1>. DEFINE m == Head(chan[a][n])
              w == m.write
              known == blk[n] # None \/ w.kind = "append"
              old == IF blk[n] = None THEN Blank ELSE blk[n]
              b == BlkAfter(old, w, TRUE, m.new, outcome)
              nd == DiskAfter(disk[n], b, w, outcome)
              fits == /\ w.kind = "write" => w.offset < old.size
                      /\ Accepts(old, w, TRUE, m.old)
  <1>1. /\ Receives(n, a, "notify")
        /\ UNCHANGED <<up, tasks, op>>
        /\ \/ /\ blk' = IF known THEN [blk EXCEPT ![n] = old] ELSE blk
              /\ chan' = Taken(a, n)
              /\ UNCHANGED disk
           \/ /\ known /\ fits
              /\ blk' = [blk EXCEPT ![n] = b]
              /\ disk' = [disk EXCEPT ![n] = nd]
              /\ chan' = IF outcome = "written"
                         THEN Sent(Taken(a, n), n, To(Master, <<Update(b)>>))
                         ELSE Taken(a, n)
    BY DEF OnNotify
  <1>2. TypeInv /\ n \in Party /\ Master \in Party
    BY DEF IInv, Party
  <1>3. /\ m \in Mail(copied) /\ m.type = "notify"
        /\ Taken(a, n) \in Queues(copied) /\ up[n]
    BY <1>1, <1>2, ReceivedMail
  <1>. HIDE DEF m
  <1>4. w \in Write /\ m.old \in Nat /\ m.new \in Nat /\ m.old <= m.new
    BY <1>3, MailOfType DEF Notifies
  <1>5. /\ disk[n] \in Disk /\ tasks[n] \in SUBSET Task
        /\ tasks \in [Server -> SUBSET Task]
    BY <1>2 DEF TypeInv
  <1>6. old = IF blk[n] = None THEN Blank ELSE blk[n]
    OBVIOUS
  <1>7. /\ b = BlkAfter(old, w, TRUE, m.new, outcome)
        /\ nd = DiskAfter(disk[n], b, w, outcome)
        /\ fits => Accepts(old, w, TRUE, m.old)
    OBVIOUS
  <1>. HIDE DEF w, old, b, nd, fits
  <1>8. CASE /\ blk' = IF known THEN [blk EXCEPT ![n] = old] ELSE blk
             /\ chan' = Taken(a, n)
             /\ UNCHANGED disk
    <2>1. CASE known
      BY <1>1, <1>3, <1>6, <1>8, <2>1, LookedUpKeeps DEF Paid
    <2>2. CASE ~known
      BY <1>1, <1>3, <1>8, <2>2, IgnoredKeeps DEF Paid
    <2>. QED BY <2>1, <2>2
  <1>9. CASE /\ fits
             /\ blk' = [blk EXCEPT ![n] = b]
             /\ disk' = [disk EXCEPT ![n] = nd]
             /\ chan' = IF outcome = "written"
                        THEN Sent(Taken(a, n), n, To(Master, <<Update(b)>>))
                        ELSE Taken(a, n)
    <2>1. /\ old \in Block /\ old # None
          /\ Held(old, tasks[n], Writers(n))
          /\ Sound(old, disk[n].file)
          /\ Succeeds(blk[n], disk[n].file, old, disk[n].file)
      BY <1>6, LookedUp
    <2>2. old.recover = None /\ old.version <= m.new
      BY <1>4, <1>7, <1>9 DEF Accepts
    <2>3. Written(old, b, w, outcome)
      BY <1>4, <1>7, <2>1, <2>2, NotifiedBlock
    <2>4. /\ nd \in Disk /\ Sound(b, nd.file)
          /\ outcome = "written" => Saved(b, nd.meta)
      BY <1>4, <1>5, <1>7, <2>1, <2>2, <2>3, WrittenFiles
    <2>5. /\ b \in Block /\ b.refs = old.refs /\ b.recover = None
          /\ old.version <= b.version /\ old.version \in Nat
          /\ b.version \in Nat /\ b # None
      BY <2>1, <2>2, <2>3, NoneAssumption DEF Written, Block
    <2>6. Held(b, tasks[n], Writers(n))
      BY <2>1, <2>5, HeldAsBefore
    <2>7. Succeeds(blk[n], disk[n].file, b, nd.file)
      BY <1>6, <2>2, <2>5 DEF Succeeds
    <2>8. NodeBecomes(n, b, nd, tasks[n])
      BY <1>1, <1>5, <1>9 DEF NodeBecomes
    <2>9. chan' \in Queues(copied')
      <3>1. <<Update(b)>> \in Seq(Mail(copied))
        BY <2>5, ReportMail
      <3>2. Sent(Taken(a, n), n, To(Master, <<Update(b)>>)) \in Queues(copied)
        BY <1>2, <1>3, <3>1, SentToOne
      <3>. QED BY <1>3, <1>9, <3>2
    <2>10. /\ spent'.used.faults = 0 => Saved(b, nd.meta)
           /\ Received(b, nd.file, copied', spent'.used.faults)
      BY <2>4, <2>5, NothingReceived DEF Paid
    <2>. QED BY <1>3, <1>5, <2>4, <2>5, <2>6, <2>7, <2>8, <2>9, <2>10,
                HandlerKeeps DEF Paid
  <1>. QED BY <1>1, <1>8, <1>9

\* A repair begins: the file gets the size of the copy, which is newer.
LEMMA OnRecoverBlockStartKeeps ==
  ASSUME IInv, NEW n \in Server, NEW a \in Party, OnRecoverBlockStart(n, a),
         Paid("written"), UNCHANGED <<now, masterVars, copied>>
  PROVE  Keeps
  <1>. DEFINE m == Head(chan[a][n])
              b == IF blk[n] = None THEN Blank ELSE blk[n]
              nb == NewRecover(b, m)
              nd == [disk[n] EXCEPT !.file = Resized(@, m.size)]
  <1>1. /\ Receives(n, a, "start")
        /\ UNCHANGED <<up, tasks, op>>
        /\ chan' = Taken(a, n)
        /\ IF Restarts(b, m)
           THEN /\ blk' = [blk EXCEPT ![n] = nb]
                /\ disk' = [disk EXCEPT ![n] = nd]
           ELSE /\ blk' = [blk EXCEPT ![n] = b]
                /\ UNCHANGED disk
    BY DEF OnRecoverBlockStart
  <1>2. TypeInv /\ n \in Party
    BY DEF IInv, Party
  <1>3. /\ m \in Mail(copied) /\ m.type = "start"
        /\ Taken(a, n) \in Queues(copied) /\ up[n]
    BY <1>1, <1>2, ReceivedMail
  <1>. HIDE DEF m
  <1>4. m.version \in Nat /\ m.size \in Nat
    BY <1>3, MailOfType DEF Starts
  <1>5. /\ disk[n] \in Disk /\ tasks[n] \in SUBSET Task
        /\ tasks \in [Server -> SUBSET Task]
    BY <1>2 DEF TypeInv
  <1>6. /\ b = IF blk[n] = None THEN Blank ELSE blk[n]
        /\ nb = NewRecover(b, m)
        /\ nd = [disk[n] EXCEPT !.file = Resized(@, m.size)]
    OBVIOUS
  <1>. HIDE DEF b, nb, nd
  <1>7. CASE Restarts(b, m)
    <2>1. b \in Block /\ b # None /\ Held(b, tasks[n], Writers(n))
      BY <1>6, LookedUp
    <2>. DEFINE rc == [version |-> m.version, size |-> m.size, got |-> {}]
    <2>2. rc \in Recovery /\ rc # None
      BY <1>4, NoneAssumption DEF Recovery
    <2>3. /\ rc.version = m.version /\ rc.size = m.size /\ rc.got = {}
          /\ nb = [version |-> b.version, size |-> b.size, refs |-> b.refs,
                   recover |-> rc]
      BY <1>6, <2>1 DEF NewRecover, Block
    <2>. HIDE DEF rc
    <2>4. /\ nb \in Block /\ nb.refs = b.refs /\ nb.recover = rc
          /\ nb.version = b.version /\ b.version \in Nat
      BY <2>1, <2>2, <2>3 DEF Block
    <2>5. b.version < m.version
      BY <1>7 DEF Restarts
    <2>6. /\ nd.file \in Seq(Int) /\ Len(Batches(nd.file)) = m.size
          /\ nd \in Disk
      BY <1>4, <1>5, <1>6, ResizedFile DEF Disk
    <2>7. Held(nb, tasks[n], Writers(n))
      BY <2>1, <2>4, HeldAsBefore
    <2>8. Succeeds(blk[n], disk[n].file, nb, nd.file)
      BY <1>6, <2>2, <2>4 DEF Succeeds
    <2>9. /\ Sound(nb, nd.file) /\ Saved(nb, nd.meta)
          /\ Received(nb, nd.file, copied', spent'.used.faults)
      BY <1>4, <2>2, <2>3, <2>4, <2>5, <2>6 DEF Sound, Saved, Received
    <2>10. NodeBecomes(n, nb, nd, tasks[n])
      BY <1>1, <1>5, <1>7 DEF NodeBecomes
    <2>. QED BY <1>1, <1>3, <1>5, <2>4, <2>6, <2>7, <2>8, <2>9, <2>10,
                HandlerKeeps DEF Paid
  <1>8. CASE ~Restarts(b, m)
    BY <1>1, <1>3, <1>6, <1>8, LookedUpKeeps DEF Paid
  <1>. QED BY <1>7, <1>8

\* A batch that is stored, or half of it: what had been received stays.
LEMMA BatchStored ==
  ASSUME NEW b \in Block, NEW f \in {None} \cup Seq(Int), NEW cp, NEW faults,
         b.recover # None, Sound(b, f), Received(b, f, cp, faults),
         NEW w, w.kind = "write", w.offset \in Nat, NEW x \in Int,
         NEW g, g = Stored(f, w, x),
         \/ Sourced(cp, b.recover.version, w.offset, x)
         \/ faults > 0 /\ x = Torn
  PROVE  /\ g \in Seq(Int)
         /\ b.recover.size <= Len(Batches(g))
         /\ \A o \in b.recover.got \cup {w.offset} :
              /\ o + 1 <= Len(Batches(g))
              /\ \/ Sourced(cp, b.recover.version, o, g[o + 1])
                 \/ faults > 0 /\ g[o + 1] = Torn
  <1>1. /\ b.recover \in Recovery /\ b # None
        /\ b.recover.size \in Nat /\ b.recover.got \subseteq Nat
    BY NoneAssumption DEF Block, Recovery
  <1>2. /\ g \in Seq(Int) /\ Batches(g) = g
        /\ Len(Batches(f)) <= Len(g)
        /\ w.offset + 1 <= Len(g) /\ g[w.offset + 1] = x
        /\ \A i \in 1..Len(Batches(f)) : i # w.offset + 1 => g[i] = f[i]
    BY StoredFile, SMTT(30)
  <1>3. Len(Batches(f)) \in Nat /\ Len(g) \in Nat
    BY <1>2, FileIsSeq
  <1>4. b.recover.size <= Len(Batches(f))
    BY <1>1 DEF Sound
  <1>5. ASSUME NEW o \in b.recover.got, o # w.offset
        PROVE  /\ o + 1 <= Len(g)
               /\ \/ Sourced(cp, b.recover.version, o, g[o + 1])
                  \/ faults > 0 /\ g[o + 1] = Torn
    <2>1. /\ o \in Nat /\ o + 1 <= Len(Batches(f))
          /\ \/ Sourced(cp, b.recover.version, o, f[o + 1])
             \/ faults > 0 /\ f[o + 1] = Torn
      BY <1>1, <1>5 DEF Received
    <2>2. g[o + 1] = f[o + 1]
      BY <1>2, <1>3, <1>5, <2>1
    <2>. QED BY <1>2, <1>3, <2>1, <2>2
  <1>. QED BY <1>1, <1>2, <1>3, <1>4, <1>5

LEMMA OnRecoverBlockDataKeeps ==
  ASSUME IInv, NEW n \in Server, NEW a \in Party, NEW outcome \in Outcomes,
         OnRecoverBlockData(n, a, outcome), Paid(outcome),
         UNCHANGED <<now, masterVars, copied>>
  PROVE  Keeps
  <1>. DEFINE m == Head(chan[a][n])
              w == [kind |-> "write", offset |-> m.offset, data |-> m.data]
              g == Stored(disk[n].file, w, m.data)
              h == Stored(disk[n].file, w, Torn)
              nb == [blk[n] EXCEPT !.recover.got = @ \cup {m.offset}]
              nd == [disk[n] EXCEPT !.file = g]
              nt == [disk[n] EXCEPT !.file = h]
  <1>1. /\ Receives(n, a, "data")
        /\ UNCHANGED <<up, tasks, op>>
        /\ chan' = Taken(a, n)
        /\ \/ UNCHANGED <<blk, disk>>
           \/ /\ WantsData(blk[n], m) /\ outcome = "written"
              /\ blk' = [blk EXCEPT ![n] = nb]
              /\ disk' = [disk EXCEPT ![n] = nd]
           \/ /\ WantsData(blk[n], m) /\ outcome # "written"
              /\ disk' = [disk EXCEPT ![n] = nt]
              /\ UNCHANGED blk
    BY DEF OnRecoverBlockData
  <1>2. TypeInv /\ n \in Party /\ NodeInv(n)
    BY DEF IInv, Party, NodesInv
  <1>3. /\ m \in Mail(copied) /\ m.type = "data"
        /\ Taken(a, n) \in Queues(copied) /\ up[n]
    BY <1>1, <1>2, ReceivedMail
  <1>. HIDE DEF m
  <1>4. /\ m.version \in Nat /\ m.offset \in Nat /\ m.data \in Int
        /\ Sourced(copied, m.version, m.offset, m.data)
    BY <1>3, MailOfType DEF Datas
  <1>5. /\ disk[n] \in Disk /\ tasks[n] \in SUBSET Task
        /\ tasks \in [Server -> SUBSET Task]
        /\ blk \in [Server -> {None} \cup Block]
        /\ blk[n] \in {None} \cup Block
        /\ disk[n].file \in {None} \cup Seq(Int)
    BY <1>2 DEF TypeInv, Disk
  <1>6. /\ w.kind = "write" /\ w.offset = m.offset
        /\ g = Stored(disk[n].file, w, m.data)
        /\ h = Stored(disk[n].file, w, Torn)
        /\ Torn \in Int
    BY DEF Torn
  <1>. HIDE DEF w, g, h
  <1>7. nd.file = g /\ nt.file = h /\ nd.meta = disk[n].meta
        /\ nt.meta = disk[n].meta
        /\ (g \in Seq(Int) => nd \in Disk) /\ (h \in Seq(Int) => nt \in Disk)
    BY <1>5 DEF Disk
  <1>. HIDE DEF nd, nt
  <1>8. /\ spent'.used.faults = 0 => spent.used.faults = 0
        /\ spent.used.faults > 0 => spent'.used.faults > 0
    BY DEF Paid, Onward
  <1>9. CASE UNCHANGED <<blk, disk>>
    BY <1>1, <1>3, <1>9, IgnoredKeeps DEF Paid
  <1>10. CASE WantsData(blk[n], m)
    <2>1. /\ blk[n] \in Block /\ blk[n] # None /\ blk[n].recover # None
          /\ blk[n].recover.version = m.version
          /\ blk[n].recover \in Recovery
          /\ blk[n].version \in Nat /\ blk[n].recover.version \in Nat
      BY <1>5, <1>10 DEF WantsData, Block, Recovery
    <2>2. /\ Sound(blk[n], disk[n].file)
          /\ Received(blk[n], disk[n].file, copied, spent'.used.faults)
          /\ Held(blk[n], tasks[n], Writers(n))
          /\ blk[n].version < blk[n].recover.version
      BY <1>2, <1>8, <2>1 DEF NodeInv, Received, Sound
    <2>3. copied' = copied
      OBVIOUS
    <2>4. CASE /\ outcome = "written"
               /\ blk' = [blk EXCEPT ![n] = nb]
               /\ disk' = [disk EXCEPT ![n] = nd]
      <3>. DEFINE got == blk[n].recover.got \cup {m.offset}
                  rc == [blk[n].recover EXCEPT !.got = got]
      <3>1. /\ g \in Seq(Int)
            /\ blk[n].recover.size <= Len(Batches(g))
            /\ \A o \in got :
                 /\ o + 1 <= Len(Batches(g))
                 /\ \/ Sourced(copied, m.version, o, g[o + 1])
                    \/ spent'.used.faults > 0 /\ g[o + 1] = Torn
        BY <1>4, <1>5, <1>6, <2>1, <2>2, BatchStored
      <3>2. /\ rc \in Recovery /\ rc # None /\ rc.got = got
            /\ rc.version = m.version /\ rc.size = blk[n].recover.size
        <4>1. rc = [version |-> m.version, size |-> blk[n].recover.size,
                    got |-> got]
          BY <2>1, SMTT(30) DEF Recovery
        <4>2. got \subseteq Nat
          BY <1>4, <2>1 DEF Recovery
        <4>. HIDE DEF rc, got
        <4>. QED BY <1>4, <2>1, <4>1, <4>2, NoneAssumption DEF Recovery
      <3>3. nb = [blk[n] EXCEPT !.recover = rc]
        OBVIOUS
      <3>. HIDE DEF nb, rc, got
      <3>4. nb = [version |-> blk[n].version, size |-> blk[n].size,
                  refs |-> blk[n].refs, recover |-> rc]
        BY <2>1, <3>3 DEF Block
      <3>5. /\ nb \in Block /\ nb.refs = blk[n].refs /\ nb.recover = rc
            /\ nb.version = blk[n].version /\ nb # None
        BY <2>1, <3>2, <3>4, NoneAssumption DEF Block
      <3>6. nd \in Disk
        BY <1>7, <3>1
      <3>7. Held(nb, tasks[n], Writers(n))
        BY <2>1, <2>2, <3>5, HeldAsBefore
      <3>8. Succeeds(blk[n], disk[n].file, nb, nd.file)
        BY <2>1, <3>2, <3>5 DEF Succeeds
      <3>9. /\ Sound(nb, nd.file) /\ Saved(nb, nd.meta)
        BY <1>7, <2>1, <2>2, <3>1, <3>2, <3>5 DEF Sound, Saved
      <3>10. Received(nb, nd.file, copied', spent'.used.faults)
        BY <1>7, <2>3, <3>1, <3>2, <3>5 DEF Received
      <3>11. NodeBecomes(n, nb, nd, tasks[n])
        BY <1>1, <1>5, <2>4 DEF NodeBecomes
      <3>. QED BY <1>1, <1>3, <1>5, <2>3, <3>5, <3>6, <3>7, <3>8, <3>9, <3>10,
                  <3>11, HandlerKeeps DEF Paid
    <2>5. CASE /\ outcome # "written"
               /\ disk' = [disk EXCEPT ![n] = nt]
               /\ UNCHANGED blk
      <3>1. /\ h \in Seq(Int)
            /\ blk[n].recover.size <= Len(Batches(h))
            /\ \A o \in blk[n].recover.got \cup {m.offset} :
                 /\ o + 1 <= Len(Batches(h))
                 /\ \/ Sourced(copied, m.version, o, h[o + 1])
                    \/ spent'.used.faults > 0 /\ h[o + 1] = Torn
        <4>1. spent'.used.faults > 0
          BY <2>5 DEF Paid
        <4>. QED BY <1>4, <1>5, <1>6, <2>1, <2>2, <4>1, BatchStored
      <3>2. nt \in Disk
        BY <1>7, <3>1
      <3>3. Succeeds(blk[n], disk[n].file, blk[n], nt.file)
        BY <2>1 DEF Succeeds
      <3>4. /\ Sound(blk[n], nt.file) /\ Saved(blk[n], nt.meta)
        BY <1>7, <2>1, <2>2, <3>1 DEF Sound, Saved
      <3>5. Received(blk[n], nt.file, copied', spent'.used.faults)
        BY <1>7, <2>1, <2>3, <3>1 DEF Received
      <3>6. NodeBecomes(n, blk[n], nt, tasks[n])
        BY <1>1, <1>5, <2>5 DEF NodeBecomes
      <3>. QED BY <1>1, <1>3, <1>5, <2>2, <2>3, <3>2, <3>3, <3>4, <3>5, <3>6,
                  HandlerKeeps DEF Paid
    <2>. QED BY <1>1, <1>9, <2>4, <2>5
  <1>. QED BY <1>1, <1>9, <1>10

LEMMA RecoveredBlock ==
  ASSUME NEW b \in Block, NEW v, NEW sz
  PROVE  [b EXCEPT !.version = v, !.size = sz, !.recover = None] =
           [version |-> v, size |-> sz, refs |-> b.refs, recover |-> None]
  <1>1. PICK r : r = [b EXCEPT !.version = v, !.size = sz, !.recover = None]
    OBVIOUS
  <1>2. r = [version |-> v, size |-> sz, refs |-> b.refs, recover |-> None]
    BY <1>1 DEF Block
  <1>. QED BY <1>1, <1>2

\* A repair ends: nothing but the version and the size of the block changes.
LEMMA OnRecoverBlockCompleteKeeps ==
  ASSUME IInv, NEW n \in Server, NEW a \in Party, NEW outcome \in Outcomes,
         OnRecoverBlockComplete(n, a, outcome), Paid(outcome),
         UNCHANGED <<now, masterVars, copied>>
  PROVE  Keeps
  <1>. DEFINE m == Head(chan[a][n])
              b == [blk[n] EXCEPT !.version = m.version,
                                  !.size = blk[n].recover.size,
                                  !.recover = None]
              nd == [disk[n] EXCEPT !.meta = [version |-> b.version,
                                              size |-> b.size]]
              more == Sent(Taken(a, n), n, To(Master, <<Update(b)>>))
  <1>1. /\ Receives(n, a, "complete")
        /\ UNCHANGED <<up, tasks, op>>
        /\ \/ /\ chan' = Taken(a, n)
              /\ UNCHANGED <<blk, disk>>
           \/ /\ Completes(blk[n], m)
              /\ blk' = [blk EXCEPT ![n] = b]
              /\ \/ /\ outcome = "written"
                    /\ disk' = [disk EXCEPT ![n] = nd]
                    /\ chan' = more
                 \/ /\ outcome # "written"
                    /\ chan' = Taken(a, n)
                    /\ UNCHANGED disk
    BY DEF OnRecoverBlockComplete
  <1>2. TypeInv /\ n \in Party /\ Master \in Party /\ NodeInv(n)
    BY DEF IInv, Party, NodesInv
  <1>3. /\ m \in Mail(copied) /\ m.type = "complete"
        /\ Taken(a, n) \in Queues(copied) /\ up[n]
    BY <1>1, <1>2, ReceivedMail
  <1>. HIDE DEF m
  <1>4. m.version \in Nat
    BY <1>3, MailOfType DEF Completions
  <1>5. /\ disk[n] \in Disk /\ tasks[n] \in SUBSET Task
        /\ tasks \in [Server -> SUBSET Task]
        /\ disk \in [Server -> Disk]
        /\ blk[n] \in {None} \cup Block
    BY <1>2 DEF TypeInv
  <1>6. CASE /\ chan' = Taken(a, n)
             /\ UNCHANGED <<blk, disk>>
    BY <1>1, <1>3, <1>6, IgnoredKeeps DEF Paid
  <1>7. CASE /\ Completes(blk[n], m)
             /\ blk' = [blk EXCEPT ![n] = b]
             /\ \/ /\ outcome = "written"
                   /\ disk' = [disk EXCEPT ![n] = nd]
                   /\ chan' = more
                \/ /\ outcome # "written"
                   /\ chan' = Taken(a, n)
                   /\ UNCHANGED disk
    <2>1. /\ blk[n] \in Block /\ blk[n] # None /\ blk[n].recover # None
          /\ blk[n].recover \in Recovery
          /\ blk[n].recover.version = m.version
          /\ blk[n].recover.got = 0..(blk[n].recover.size - 1)
      BY <1>5, <1>7 DEF Completes, WantsData, Block
    <2>. DEFINE sz == blk[n].recover.size
    <2>2. sz \in Nat /\ blk[n].version \in Nat
      BY <2>1 DEF Block, Recovery
    <2>3. b = [version |-> m.version, size |-> sz, refs |-> blk[n].refs,
               recover |-> None]
      BY <2>1, RecoveredBlock
    <2>4. more = Sent(Taken(a, n), n, To(Master, <<Update(b)>>))
      OBVIOUS
    <2>. HIDE DEF b, more
    <2>5. /\ b \in Block /\ b # None /\ b.refs = blk[n].refs
          /\ b.version = m.version /\ b.size = sz /\ b.recover = None
      BY <1>4, <2>1, <2>2, <2>3, NoneAssumption DEF Block
    <2>6. /\ blk[n].version < m.version
          /\ sz <= Len(Batches(disk[n].file))
      BY <1>2, <2>1 DEF NodeInv, Sound
    <2>7. Held(b, tasks[n], Writers(n))
      BY <1>2, <2>1, <2>5, HeldAsBefore DEF NodeInv
    <2>8. \A nf : nf = disk[n].file => Succeeds(blk[n], disk[n].file, b, nf)
      BY <1>4, <2>1, <2>2, <2>5, <2>6 DEF Succeeds
    <2>9. \A nf : nf = disk[n].file =>
            /\ Sound(b, nf)
            /\ Received(b, nf, copied', spent'.used.faults)
      BY <2>5, <2>6, NothingReceived DEF Sound
    <2>10. CASE /\ outcome = "written"
                /\ disk' = [disk EXCEPT ![n] = nd]
                /\ chan' = more
      <3>1. /\ nd \in Disk /\ nd.file = disk[n].file
            /\ nd.meta = [version |-> b.version, size |-> b.size]
        BY <1>4, <1>5, <2>2, <2>5 DEF Disk, Meta
      <3>. HIDE DEF nd
      <3>2. Saved(b, nd.meta)
        BY <3>1 DEF Saved
      <3>3. chan' \in Queues(copied')
        <4>1. <<Update(b)>> \in Seq(Mail(copied))
          BY <2>5, ReportMail
        <4>. QED BY <1>2, <1>3, <2>4, <2>10, <4>1, SentToOne
      <3>4. NodeBecomes(n, b, nd, tasks[n])
        BY <1>1, <1>5, <1>7, <2>10 DEF NodeBecomes
      <3>. QED BY <1>3, <1>5, <2>5, <2>7, <2>8, <2>9, <3>1, <3>2, <3>3, <3>4,
                  HandlerKeeps DEF Paid
    <2>11. CASE /\ outcome # "written"
                /\ chan' = Taken(a, n)
                /\ UNCHANGED disk
      <3>1. spent'.used.faults # 0
        BY <2>11 DEF Paid
      <3>2. NodeBecomes(n, b, disk[n], tasks[n])
        BY <1>1, <1>5, <1>7, <2>11 DEF NodeBecomes
      <3>3. chan' \in Queues(copied')
        BY <1>3, <2>11
      <3>. QED BY <1>3, <1>5, <2>5, <2>7, <2>8, <2>9, <3>1, <3>2, <3>3,
                  HandlerKeeps DEF Paid
    <2>. QED BY <1>7, <2>10, <2>11
  <1>. QED BY <1>1, <1>6, <1>7

\* What a node hears from another node.
LEMMA FromNodeKeeps ==
  ASSUME IInv, NEW n \in Server, NEW a \in Server, FromNode(n, a)
  PROVE  Keeps
  <1>1. UNCHANGED <<now, masterVars, copied, spent>>
    BY DEF FromNode, ghosts
  <1>2. Paid("written") /\ "written" \in Outcomes /\ a \in Party
    <2>1. TypeInv
      BY DEF IInv
    <2>. QED BY <1>1, <2>1, NothingSpent DEF Paid, TypeInv, Outcomes, Party
  <1>3. \/ OnNotify(n, a, "written")
        \/ OnRecoverBlockStart(n, a)
        \/ OnRecoverBlockData(n, a, "written")
        \/ OnRecoverBlockComplete(n, a, "written")
    BY DEF FromNode
  <1>. QED BY <1>1, <1>2, <1>3, OnNotifyKeeps, OnRecoverBlockStartKeeps,
              OnRecoverBlockDataKeeps, OnRecoverBlockCompleteKeeps

\* The same, and the client writes, with a write to the disk that fails.
LEMMA FaultyStepKeeps ==
  ASSUME IInv, FaultyStep
  PROVE  Keeps
  <1>1. Spend("faults") /\ UNCHANGED <<now, masterVars, copied>>
    BY DEF FaultyStep, ghosts
  <1>2. TypeInv /\ "faults" \in Kinds /\ Server \subseteq Party
    BY DEF IInv, Kinds, Party
  <1>3. \A outcome : Paid(outcome)
    BY <1>1, <1>2, SpentWell DEF Paid, Onward
  <1>4. PICK outcome \in Outcomes :
          \/ \E c \in Client : FailWrite(c, outcome)
          \/ \E n, a \in Server : \/ OnNotify(n, a, outcome)
                                  \/ OnRecoverBlockData(n, a, outcome)
                                  \/ OnRecoverBlockComplete(n, a, outcome)
    BY DEF FaultyStep
  <1>5. \A c \in Client : FailWrite(c, outcome) => Keeps
    BY <1>1, <1>3, FailWriteKeeps
  <1>6. \A n, a \in Server :
          /\ OnNotify(n, a, outcome) => Keeps
          /\ OnRecoverBlockData(n, a, outcome) => Keeps
          /\ OnRecoverBlockComplete(n, a, outcome) => Keeps
    BY <1>1, <1>2, <1>3, OnNotifyKeeps, OnRecoverBlockDataKeeps,
       OnRecoverBlockCompleteKeeps
  <1>. QED BY <1>4, <1>5, <1>6

-----------------------------------------------------------------------------
(***************************************************************************)
(* Orders of the master, and the copies that repairs send out.             *)
(***************************************************************************)
\* Every batch of the copy is one of the file.
LEMMA CopyMail ==
  ASSUME NEW b \in Block, NEW f \in Seq(Int), Len(f) = b.size, NEW cp,
         [version |-> b.version, data |-> f] \in cp
  PROVE  Copy(b, f) \in Seq(Mail(cp))
  <1>1. b.version \in Nat /\ b.size \in Nat
    BY DEF Block
  <1>. DEFINE first == [type |-> "start", version |-> b.version, size |-> b.size]
              last == [type |-> "complete", version |-> b.version]
              batch(i) == [type |-> "data", version |-> b.version,
                           offset |-> i - 1, data |-> f[i]]
              body == [i \in 1..b.size |-> batch(i)]
  <1>2. first \in Mail(cp) /\ last \in Mail(cp)
    BY <1>1 DEF Mail, Starts, Completions
  <1>3. ASSUME NEW i \in 1..b.size
        PROVE  batch(i) \in Mail(cp)
    <2>1. f[i] \in Int /\ i - 1 \in Nat /\ (i - 1) + 1 = i
      BY <1>1, <1>3
    <2>2. Sourced(cp, b.version, i - 1, f[i])
      <3>. DEFINE c == [version |-> b.version, data |-> f]
      <3>1. c \in cp /\ c.version = b.version /\ i <= Len(c.data)
            /\ c.data[i] = f[i]
        BY <1>1
      <3>. QED BY <2>1, <3>1 DEF Sourced
    <2>. QED BY <1>1, <2>1, <2>2 DEF Mail, Datas
  <1>4. Copy(b, f) = <<first>> \o body \o <<last>>
    BY DEF Copy
  <1>. HIDE DEF first, last, batch
  <1>5. body \in Seq(Mail(cp))
    BY <1>1, <1>3
  <1>. HIDE DEF body
  <1>6. <<first>> \in Seq(Mail(cp)) /\ <<last>> \in Seq(Mail(cp))
    BY <1>2, OneMail
  <1>7. <<first>> \o body \in Seq(Mail(cp))
    BY <1>5, <1>6, ConcatProperties
  <1>. QED BY <1>4, <1>6, <1>7, ConcatProperties

LEMMA CopyOutKeeps ==
  ASSUME IInv, NEW n \in Server, CopyOut(n)
  PROVE  Keeps
  <1>1. PICK t \in tasks[n] :
          /\ RunRecover(n, t)
          /\ copied' = IF chan' = chan THEN copied
                       ELSE copied \cup {[version |-> blk[n].version,
                                          data |-> disk[n].file]}
    BY DEF CopyOut
  <1>2. UNCHANGED <<now, masterVars, spent>>
    BY DEF CopyOut
  <1>3. /\ TypeInv /\ NodeInv(n) /\ n \in Party
        /\ blk[n] \in {None} \cup Block /\ disk[n] \in Disk
        /\ tasks[n] \in SUBSET Task
        /\ disk[n].file \in {None} \cup Seq(Int)
        /\ up[n] \in BOOLEAN
    BY DEF IInv, TypeInv, NodesInv, Party, Disk
  <1>4. blk[n] # None /\ blk[n] \in Block /\ up[n]
    <2>1. blk[n] # None
      BY <1>3, HeldByUsers DEF NodeInv
    <2>. QED BY <1>3, <2>1 DEF NodeInv
  <1>. DEFINE skipped == blk[n].version < t.version \/ now >= t.lease
              nb == IF skipped THEN blk[n] ELSE Released(blk[n])
              f == disk[n].file
              ts == tasks[n] \ {t}
  <1>5. /\ skipped \/ f # None
        /\ tasks' = [tasks EXCEPT ![n] = ts]
        /\ blk' = [blk EXCEPT ![n] = nb]
        /\ chan' = IF ~skipped /\ Len(f) = blk[n].size
                   THEN Sent(chan, n, To(t.to, Copy(blk[n], f))) ELSE chan
        /\ UNCHANGED <<up, disk, op>>
    BY <1>1, <1>3 DEF RunRecover, TypeInv
  <1>6. /\ nb \in Block /\ nb # None /\ nb.version = blk[n].version
        /\ nb.size = blk[n].size /\ nb.recover = blk[n].recover
        /\ Held(nb, ts, Writers(n))
    <2>1. /\ blk[n].refs - 1 \in Nat
          /\ \A b \in Block : b.refs = blk[n].refs - 1 => Held(b, ts, Writers(n))
          /\ Held(blk[n], ts, Writers(n))
      BY <1>3, <1>4, HeldByFewerTasks DEF NodeInv
    <2>. QED BY <1>4, <2>1, ReleasedBlock
  <1>7. chan' # chan => /\ f \in Seq(Int) /\ Len(f) = blk[n].size
                        /\ chan' = Sent(chan, n, To(t.to, Copy(blk[n], f)))
    BY <1>3, <1>5
  <1>. HIDE DEF skipped, nb, f, ts
  <1>8. copied \subseteq copied'
    BY <1>1
  <1>9. chan' \in Queues(copied')
    <2>1. chan \in Queues(copied')
      BY <1>3, <1>8, MoreCopies DEF TypeInv
    <2>2. CASE chan' # chan
      <3>1. [version |-> blk[n].version, data |-> f] \in copied'
        BY <1>1, <2>2 DEF f
      <3>2. Copy(blk[n], f) \in Seq(Mail(copied'))
        BY <1>4, <1>7, <2>2, <3>1, CopyMail
      <3>. QED BY <1>3, <1>7, <2>1, <2>2, <3>2, SentToOne
    <2>. QED BY <2>1, <2>2
  <1>10. Onward /\ spent' \in [budget : Budgets, used : [Kinds -> Nat]]
    BY <1>2, <1>3, <1>8, NothingSpent DEF TypeInv
  <1>11. NodeBecomes(n, nb, disk[n], ts)
    BY <1>2, <1>3, <1>5 DEF NodeBecomes, TypeInv
  <1>12. Succeeds(blk[n], disk[n].file, nb, disk[n].file)
    BY <1>4, <1>6 DEF Succeeds, Block
  <1>13. /\ Sound(nb, disk[n].file)
         /\ spent'.used.faults = 0 => Saved(nb, disk[n].meta)
         /\ Received(nb, disk[n].file, copied, spent.used.faults)
    <2>1. SameContent(blk[n], nb)
      BY <1>4, <1>6 DEF SameContent
    <2>. QED BY <1>2, <1>3, <1>6, <2>1, ContentKept DEF NodeInv
  <1>14. Received(nb, disk[n].file, copied', spent'.used.faults)
    BY <1>2, <1>8, <1>13 DEF Received, Sourced
  <1>15. ts \in SUBSET Task
    BY <1>3 DEF ts
  <1>. QED BY <1>3, <1>4, <1>6, <1>9, <1>10, <1>11, <1>12, <1>13, <1>14, <1>15,
              HandlerKeeps

\* A task, and its reference, for each node to copy to.
LEMMA OnRecoverBlockKeeps ==
  ASSUME IInv, NEW n \in Server, OnRecoverBlock(n),
         Paid("written"), UNCHANGED <<now, masterVars, copied>>
  PROVE  Keeps
  <1>. DEFINE m == Head(chan[Master][n])
              forked == {[to |-> d, version |-> m.version, lease |-> m.lease] :
                           d \in m.copyto}
              nb == [blk[n] EXCEPT !.refs = @ + Cardinality(forked)]
  <1>1. /\ Receives(n, Master, "recover")
        /\ chan' = Taken(Master, n)
        /\ UNCHANGED <<up, disk, op>>
        /\ IF blk[n] = None
           THEN UNCHANGED <<blk, tasks>>
           ELSE /\ tasks' = [tasks EXCEPT ![n] = @ \cup forked]
                /\ blk' = [blk EXCEPT ![n] = nb]
    BY DEF OnRecoverBlock
  <1>2. /\ TypeInv /\ n \in Party /\ Master \in Party /\ NodeInv(n)
        /\ blk[n] \in {None} \cup Block /\ tasks[n] \in SUBSET Task
        /\ disk[n] \in Disk
    BY DEF IInv, TypeInv, Party, NodesInv
  <1>3. /\ m \in Mail(copied) /\ m.type = "recover"
        /\ Taken(Master, n) \in Queues(copied) /\ up[n]
    BY <1>1, <1>2, ReceivedMail
  <1>. HIDE DEF m
  <1>4. /\ m.version \in Nat /\ m.lease \in Nat
        /\ m.copyto \in SUBSET Server /\ IsFiniteSet(m.copyto)
    BY <1>3, MailOfType DEF Recovers
  <1>5. forked \in SUBSET Task
    BY <1>4 DEF Task
  <1>6. IsFiniteSet(forked)
    <2>. DEFINE task == [d \in m.copyto |-> [to |-> d, version |-> m.version,
                                             lease |-> m.lease]]
    <2>1. task \in Surjection(m.copyto, forked)
      BY DEF Surjection
    <2>. QED BY <1>4, <2>1, FS_Surjection
  <1>. HIDE DEF forked
  <1>7. CASE blk[n] = None
    BY <1>1, <1>3, <1>7, IgnoredKeeps DEF Paid
  <1>8. CASE blk[n] # None
    <2>1. Cardinality(forked) \in Nat
      BY <1>6, FS_CardinalityType
    <2>2. /\ nb \in Block /\ nb.refs = blk[n].refs + Cardinality(forked)
          /\ nb.version = blk[n].version /\ nb.size = blk[n].size
          /\ nb.recover = blk[n].recover
      <3>1. blk[n] \in Block
        BY <1>2, <1>8
      <3>2. nb = [version |-> blk[n].version, size |-> blk[n].size,
                  refs |-> blk[n].refs + Cardinality(forked),
                  recover |-> blk[n].recover]
        BY <3>1 DEF Block
      <3>. HIDE DEF nb
      <3>. QED BY <2>1, <3>1, <3>2 DEF Block
    <2>. HIDE DEF nb
    <2>3. Held(nb, tasks[n] \cup forked, Writers(n))
      BY <1>2, <1>6, <1>8, <2>2, HeldByMoreTasks DEF NodeInv
    <2>4. NodeBecomes(n, nb, disk[n], tasks[n] \cup forked)
      BY <1>1, <1>2, <1>8 DEF NodeBecomes, TypeInv
    <2>5. /\ SameContent(blk[n], nb)
          /\ Succeeds(blk[n], disk[n].file, nb, disk[n].file)
      BY <1>2, <1>8, <2>2 DEF SameContent, Succeeds, Block
    <2>6. /\ spent'.used.faults = 0 => spent.used.faults = 0
          /\ spent.used.faults > 0 => spent'.used.faults > 0
      BY DEF Paid, Onward
    <2>7. disk[n].file \in {None} \cup Seq(Int)
      BY <1>2 DEF Disk
    <2>8. /\ Sound(nb, disk[n].file)
          /\ spent.used.faults = 0 => Saved(nb, disk[n].meta)
          /\ Received(nb, disk[n].file, copied, spent.used.faults)
      BY <1>2, <2>2, <2>5, <2>7, ContentKept DEF NodeInv
    <2>9. Received(nb, disk[n].file, copied', spent'.used.faults)
      BY <2>6, <2>8 DEF Received
    <2>10. chan' \in Queues(copied') /\ tasks[n] \cup forked \in SUBSET Task
      BY <1>1, <1>2, <1>3, <1>5
    <2>. QED BY <1>2, <1>3, <2>2, <2>3, <2>4, <2>5, <2>6, <2>8, <2>9, <2>10,
                HandlerKeeps DEF Paid
  <1>. QED BY <1>7, <1>8

\* A block that is deleted has no users.
LEMMA OnCleanBlockKeeps ==
  ASSUME IInv, NEW n \in Server, OnCleanBlock(n),
         Paid("written"), UNCHANGED <<now, masterVars, copied>>
  PROVE  Keeps
  <1>1. /\ Receives(n, Master, "clean")
        /\ UNCHANGED <<up, tasks, op>>
        /\ \/ /\ chan' = Taken(Master, n)
              /\ UNCHANGED <<blk, disk>>
           \/ /\ blk[n] # None /\ ~InUse(blk[n])
              /\ blk' = [blk EXCEPT ![n] = None]
              /\ disk' = [disk EXCEPT ![n] = [file |-> None, meta |-> None]]
              /\ chan' = Sent(Taken(Master, n), n,
                              To(Master, <<[type |-> "cleaned"]>>))
    BY DEF OnCleanBlock
  <1>2. /\ TypeInv /\ n \in Party /\ Master \in Party /\ NodeInv(n)
        /\ blk[n] \in {None} \cup Block /\ tasks[n] \in SUBSET Task
    BY DEF IInv, TypeInv, Party, NodesInv
  <1>3. Taken(Master, n) \in Queues(copied) /\ up[n]
    BY <1>1, <1>2, ReceivedMail
  <1>4. CASE /\ chan' = Taken(Master, n)
             /\ UNCHANGED <<blk, disk>>
    BY <1>1, <1>3, <1>4, IgnoredKeeps DEF Paid
  <1>5. CASE /\ blk[n] # None /\ ~InUse(blk[n])
             /\ blk' = [blk EXCEPT ![n] = None]
             /\ disk' = [disk EXCEPT ![n] = [file |-> None, meta |-> None]]
             /\ chan' = Sent(Taken(Master, n), n,
                             To(Master, <<[type |-> "cleaned"]>>))
    <2>. DEFINE nd == [file |-> None, meta |-> None]
    <2>1. nd \in Disk
      BY DEF Disk
    <2>2. Held(None, tasks[n], Writers(n))
      <3>1. blk[n].refs = 0
        BY <1>2, <1>5 DEF InUse, Block
      <3>2. Held(blk[n], tasks[n], Writers(n))
        BY <1>2 DEF NodeInv
      <3>3. /\ Cardinality(Writers(n)) \in Nat /\ Cardinality(tasks[n]) \in Nat
            /\ IsFiniteSet(Writers(n)) /\ IsFiniteSet(tasks[n])
        BY <3>2, FS_CardinalityType DEF Held
      <3>. QED BY <3>1, <3>2, <3>3 DEF Held
    <2>3. chan' \in Queues(copied')
      <3>1. [type |-> "cleaned"] \in Mail(copied)
        BY DEF Mail, Cleans
      <3>2. <<[type |-> "cleaned"]>> \in Seq(Mail(copied))
        BY <3>1, OneMail
      <3>. QED BY <1>2, <1>3, <1>5, <3>2, SentToOne
    <2>4. NodeBecomes(n, None, nd, tasks[n])
      BY <1>1, <1>2, <1>5 DEF NodeBecomes, TypeInv
    <2>. HIDE DEF nd
    <2>5. /\ Succeeds(blk[n], disk[n].file, None, nd.file)
          /\ Sound(None, nd.file) /\ Saved(None, nd.meta)
          /\ Received(None, nd.file, copied', spent'.used.faults)
      BY DEF Succeeds, Sound, Saved, Received
    <2>. QED BY <1>2, <1>3, <2>1, <2>2, <2>3, <2>4, <2>5, HandlerKeeps DEF Paid
  <1>. QED BY <1>1, <1>4, <1>5

LEMMA FromMasterKeeps ==
  ASSUME IInv, NEW n \in Server, FromMaster(n)
  PROVE  Keeps
  <1>1. UNCHANGED <<now, masterVars, copied, spent>>
    BY DEF FromMaster, ghosts
  <1>2. Paid("written")
    <2>1. TypeInv
      BY DEF IInv
    <2>. QED BY <1>1, <2>1, NothingSpent DEF Paid, TypeInv
  <1>3. OnRecoverBlock(n) \/ OnCleanBlock(n)
    BY DEF FromMaster
  <1>. QED BY <1>1, <1>2, <1>3, OnRecoverBlockKeeps, OnCleanBlockKeeps

-----------------------------------------------------------------------------
(***************************************************************************)
(* The process of a node ends, and starts again.                           *)
(***************************************************************************)
\* Whatever is left on the disk.
LEMMA StopsKeeps ==
  ASSUME IInv, NEW n \in Server, Stops(n), NEW nd \in Disk,
         disk' = [disk EXCEPT ![n] = nd],
         Paid("written"), UNCHANGED <<now, masterVars, copied>>
  PROVE  Keeps
  <1>1. /\ up' = [up EXCEPT ![n] = FALSE]
        /\ blk' = [blk EXCEPT ![n] = None]
        /\ tasks' = [tasks EXCEPT ![n] = {}]
        /\ op' = [c \in Client |->
                    IF (At(c, "begun") \/ At(c, "applied")) /\ op[c].node = n
                    THEN None ELSE op[c]]
        /\ chan' = [a \in DOMAIN chan |-> [b \in DOMAIN chan |->
                      IF n \in {a, b} THEN <<>> ELSE chan[a][b]]]
    BY DEF Stops
  <1>2. TypeInv
    BY DEF IInv
  <1>3. chan' \in Queues(copied')
    <2>1. DOMAIN chan = Party /\ chan \in Queues(copied)
      BY <1>2 DEF TypeInv, Queues
    <2>2. <<>> \in Seq(Mail(copied))
      BY OneMail
    <2>3. \A a, b \in Party : chan[a][b] \in Seq(Mail(copied))
      BY <2>1 DEF Queues
    <2>. QED BY <1>1, <2>1, <2>2, <2>3 DEF Queues
  <1>4. op' \in [Client -> {None} \cup Op]
    BY <1>1, <1>2 DEF TypeInv
  <1>5. /\ up' \in [Server -> BOOLEAN]
        /\ blk' \in [Server -> {None} \cup Block]
        /\ disk' \in [Server -> Disk]
        /\ tasks' \in [Server -> SUBSET Task]
    BY <1>1, <1>2 DEF TypeInv
  <1>6. TypeInv'
    BY <1>2, <1>3, <1>4, <1>5 DEF TypeInv, Paid, masterVars, M!TypeOK
  <1>7. /\ up'[n] = FALSE /\ blk'[n] = None /\ tasks'[n] = {}
        /\ \A m \in Server \ {n} : /\ up'[m] = up[m] /\ blk'[m] = blk[m]
                                   /\ disk'[m] = disk[m]
                                   /\ tasks'[m] = tasks[m]
    BY <1>1, <1>2 DEF TypeInv
  <1>8. \A c \in Client :
          op'[c] = IF (At(c, "begun") \/ At(c, "applied")) /\ op[c].node = n
                   THEN None ELSE op[c]
    BY <1>1
  <1>9. Writers(n)' = {}
    BY <1>8 DEF Writers, At
  <1>10. \A m \in Server \ {n} :
           /\ Writers(m)' = Writers(m)
           /\ \A c \in Writers(m) : op'[c].old = op[c].old
    BY <1>8 DEF Writers, At
  <1>11. NodeInv(n)'
    <2>1. Held(blk[n], tasks[n], Writers(n))'
      BY <1>7, <1>9, HeldByNobody DEF Held
    <2>2. /\ Sound(blk[n], disk[n].file)'
          /\ Saved(blk[n], disk[n].meta)'
          /\ Received(blk[n], disk[n].file, copied, spent.used.faults)'
      BY <1>7 DEF Sound, Saved, Received
    <2>. QED BY <1>7, <1>9, <2>1, <2>2 DEF NodeInv
  <1>12. Follows(n)
    BY <1>7 DEF Follows
  <1>13. NodesInv' /\ \A m \in Server : Follows(m)
    BY <1>7, <1>10, <1>11, <1>12, OnlyNode DEF Paid
  <1>. QED BY <1>6, <1>13 DEF Keeps, IInv

\* What a write leaves that stops between the two files.
LEMMA HalfWritten ==
  ASSUME IInv, NEW n \in Server, NEW old,
         old = IF blk[n] = None THEN Blank ELSE blk[n],
         NEW w \in Write, NEW strict, NEW from,
         Accepts(old, w, strict, from), NEW outcome \in Outcomes
  PROVE  DiskAfter(disk[n], old, w, outcome) \in Disk
  <1>1. disk[n] \in Disk /\ old.recover = None
    BY DEF IInv, TypeInv, Accepts
  <1>2. old \in Block /\ Sound(old, disk[n].file)
    BY LookedUp
  <1>3. Written(old, old, w, outcome)
    BY <1>1, <1>2 DEF Written, Block
  <1>. QED BY <1>1, <1>2, <1>3, WrittenFiles

LEMMA StopKeeps ==
  ASSUME IInv, Stop
  PROVE  Keeps
  <1>1. Spend("stops") /\ UNCHANGED <<now, masterVars, copied>>
    BY DEF Stop, ghosts
  <1>2. TypeInv /\ "stops" \in Kinds /\ Server \subseteq Party
    BY DEF IInv, Kinds, Party
  <1>3. Paid("written")
    BY <1>1, <1>2, SpentWell DEF Paid, Onward
  <1>4. disk \in [Server -> Disk]
    BY <1>2 DEF TypeInv
  <1>5. ASSUME NEW n \in Server, Crash(n)
        PROVE  Keeps
    <2>1. Stops(n) /\ disk' = [disk EXCEPT ![n] = disk[n]] /\ disk[n] \in Disk
      BY <1>4, <1>5 DEF Crash
    <2>. QED BY <1>1, <1>3, <2>1, StopsKeeps
  <1>6. ASSUME NEW n \in Server, CrashInClean(n)
        PROVE  Keeps
    <2>. DEFINE nd == [disk[n] EXCEPT !.file = None]
    <2>1. Stops(n) /\ disk' = [disk EXCEPT ![n] = nd] /\ nd \in Disk
      BY <1>4, <1>6 DEF CrashInClean, Disk
    <2>. HIDE DEF nd
    <2>. QED BY <1>1, <1>3, <2>1, StopsKeeps
  <1>7. ASSUME NEW c \in Client, NEW outcome \in Outcomes,
               CrashInWrite(c, outcome)
        PROVE  Keeps
    <2>1. PICK n \in Server : n = op[c].node
      BY <1>7, WriterAt DEF CrashInWrite
    <2>2. op[c] \in Op /\ blk[n] # None
      BY <1>7, <2>1, WriterAt DEF CrashInWrite
    <2>. DEFINE nd == DiskAfter(disk[n], blk[n], op[c].write, outcome)
    <2>3. /\ Accepts(blk[n], op[c].write, FALSE, op[c].lease.version)
          /\ Stops(n) /\ disk' = [disk EXCEPT ![n] = nd]
      BY <1>7, <2>1 DEF CrashInWrite
    <2>4. op[c].write \in Write
      BY <2>2 DEF Op
    <2>5. nd \in Disk
      BY <1>7, <2>2, <2>3, <2>4, HalfWritten
    <2>. HIDE DEF nd
    <2>. QED BY <1>1, <1>3, <2>3, <2>5, StopsKeeps
  <1>8. ASSUME NEW n \in Server, NEW a \in Server, NEW outcome \in Outcomes,
               CrashInNotify(n, a, outcome)
        PROVE  Keeps
    <2>. DEFINE m == Head(chan[a][n])
                old == IF blk[n] = None THEN Blank ELSE blk[n]
                nd == DiskAfter(disk[n], old, m.write, outcome)
    <2>1. /\ Receives(n, a, "notify") /\ Accepts(old, m.write, TRUE, m.old)
          /\ Stops(n) /\ disk' = [disk EXCEPT ![n] = nd]
      BY <1>8 DEF CrashInNotify
    <2>2. m \in Mail(copied) /\ m.type = "notify"
      BY <1>2, <2>1, ReceivedMail
    <2>. HIDE DEF m
    <2>3. m.write \in Write
      BY <2>2, MailOfType DEF Notifies
    <2>4. old = IF blk[n] = None THEN Blank ELSE blk[n]
      OBVIOUS
    <2>5. nd = DiskAfter(disk[n], old, m.write, outcome)
      OBVIOUS
    <2>. HIDE DEF old, nd
    <2>6. nd \in Disk
      BY <1>8, <2>1, <2>3, <2>4, <2>5, HalfWritten
    <2>. QED BY <1>1, <1>3, <2>1, <2>6, StopsKeeps
  <1>9. \/ \E n \in Server : Crash(n) \/ CrashInClean(n)
        \/ \E outcome \in Outcomes :
             \/ \E c \in Client : CrashInWrite(c, outcome)
             \/ \E n, a \in Server : CrashInNotify(n, a, outcome)
    BY DEF Stop, CrashInRecover
  <1>. QED BY <1>5, <1>6, <1>7, <1>8, <1>9

\* A block that is loaded.
LEMMA LoadedBlock ==
  ASSUME NEW v, NEW sz
  PROVE  [Blank EXCEPT !.version = v, !.size = sz] =
           [version |-> v, size |-> sz, refs |-> 0, recover |-> None]
  <1>1. PICK r : r = [Blank EXCEPT !.version = v, !.size = sz]
    OBVIOUS
  <1>2. r = [version |-> v, size |-> sz, refs |-> 0, recover |-> None]
    BY <1>1 DEF Blank
  <1>. QED BY <1>1, <1>2

LEMMA ScannedBlock ==
  ASSUME NEW dk \in Disk, ~(dk.meta # None /\ dk.file = None),
         NEW b, b = Scanned(dk), b # None
  PROVE  /\ b \in Block /\ b.refs = 0 /\ b.recover = None /\ b.size \in Nat
         /\ dk.meta = [version |-> b.version, size |-> b.size]
         /\ dk.file \in Seq(Int)
         /\ b.size <= Len(dk.file)
  <1>1. /\ dk.meta \in {None} \cup Meta /\ dk.file \in {None} \cup Seq(Int)
    BY DEF Disk
  <1>2. /\ dk.meta # None
        /\ ~(Len(Batches(dk.file)) < dk.meta.size)
        /\ b = [Blank EXCEPT !.version = dk.meta.version,
                             !.size = dk.meta.size]
    BY DEF Scanned
  <1>3. /\ dk.meta \in Meta /\ dk.file \in Seq(Int)
        /\ Batches(dk.file) = dk.file /\ Len(dk.file) \in Nat
    BY <1>1, <1>2, FileIsSeq
  <1>4. PICK v \in Nat, sz \in Nat : dk.meta = [version |-> v, size |-> sz]
    BY <1>3 DEF Meta
  <1>5. b = [version |-> v, size |-> sz, refs |-> 0, recover |-> None]
    <2>1. dk.meta.version = v /\ dk.meta.size = sz
      BY <1>4
    <2>2. b = [Blank EXCEPT !.version = v, !.size = sz]
      BY <1>2, <2>1
    <2>. QED BY <2>2, LoadedBlock
  <1>6. /\ b \in Block /\ b.refs = 0 /\ b.recover = None
        /\ b.version = v /\ b.size = sz
    BY <1>5 DEF Block
  <1>7. sz <= Len(dk.file)
    <2>1. dk.meta.size = sz
      BY <1>4
    <2>. QED BY <1>2, <1>3, <1>4, <2>1
  <1>. QED BY <1>3, <1>4, <1>6, <1>7

\* A file that is cut to what the meta file says.
LEMMA CutFile ==
  ASSUME NEW dk \in Disk, dk.file \in Seq(Int), NEW k \in Nat,
         k <= Len(dk.file), NEW nd, nd = [dk EXCEPT !.file = SubSeq(@, 1, k)]
  PROVE  nd \in Disk /\ nd.meta = dk.meta /\ Len(Batches(nd.file)) = k
  <1>. DEFINE f == dk.file
              g == SubSeq(f, 1, k)
  <1>1. nd.file = g /\ nd.meta = dk.meta
        /\ (g \in Seq(Int) => nd \in Disk)
    BY DEF Disk
  <1>2. f \in Seq(Int) /\ k <= Len(f)
    OBVIOUS
  <1>. HIDE DEF f
  <1>3. \A i \in 1..k : f[i] \in Int
    BY <1>2
  <1>4. g \in Seq(Int) /\ Len(g) = k
    BY <1>2, <1>3, SubSeqProperties
  <1>. HIDE DEF g
  <1>. QED BY <1>1, <1>4, FileIsSeq

\* What a node loads when it starts is what its meta file says, and is there.
LEMMA StartKeeps ==
  ASSUME IInv, NEW n \in Server, Start(n)
  PROVE  Keeps
  <1>0. PICK b : b = Scanned(disk[n])
    OBVIOUS
  <1>1. /\ ~up[n]
        /\ ~(disk[n].meta # None /\ disk[n].file = None)
        /\ up' = [up EXCEPT ![n] = TRUE]
        /\ blk' = [blk EXCEPT ![n] = b]
        /\ disk' = IF b = None THEN disk
                   ELSE [disk EXCEPT ![n].file = SubSeq(@, 1, b.size)]
        /\ chan' = [chan EXCEPT ![n][Master] = @ \o FullReport(b)]
        /\ UNCHANGED <<now, tasks, op, masterVars, spent, copied>>
    BY <1>0 DEF Start, Restart, ghosts
  <1>2. /\ TypeInv /\ NodeInv(n) /\ n \in Party /\ Master \in Party
        /\ disk \in [Server -> Disk] /\ disk[n] \in Disk
        /\ blk[n] = None
    BY <1>1 DEF IInv, TypeInv, NodesInv, NodeInv, Party
  <1>3. b # None => /\ b \in Block /\ b.refs = 0 /\ b.recover = None
                    /\ b.size \in Nat
                    /\ disk[n].meta = [version |-> b.version, size |-> b.size]
                    /\ disk[n].file \in Seq(Int)
                    /\ b.size <= Len(disk[n].file)
    BY <1>0, <1>1, <1>2, ScannedBlock
  <1>4. PICK nd \in Disk :
          /\ disk' = [disk EXCEPT ![n] = nd]
          /\ nd.meta = disk[n].meta
          /\ b # None => Len(Batches(nd.file)) = b.size
    <2>1. CASE b = None
      <3>1. disk' = [disk EXCEPT ![n] = disk[n]]
        BY <1>1, <1>2, <2>1
      <3>. QED BY <1>2, <2>1, <3>1
    <2>2. CASE b # None
      <3>1. PICK nd : nd = [disk[n] EXCEPT !.file = SubSeq(@, 1, b.size)]
        OBVIOUS
      <3>2. nd \in Disk /\ nd.meta = disk[n].meta
            /\ Len(Batches(nd.file)) = b.size
        BY <1>2, <1>3, <2>2, <3>1, CutFile
      <3>3. disk' = [disk EXCEPT ![n] = nd]
        BY <1>1, <2>2, <3>1
      <3>. QED BY <3>2, <3>3
    <2>. QED BY <2>1, <2>2
  <1>6. b \in {None} \cup Block
    BY <1>3
  <1>8. Writers(n) = {} /\ tasks[n] = {}
    BY <1>2, HeldByUsers DEF NodeInv
  <1>9. chan' \in Queues(copied')
    <2>1. FullReport(b) \in Seq(Mail(copied))
      BY <1>6, ReportMail
    <2>2. chan \in Queues(copied) /\ chan[n][Master] \in Seq(Mail(copied))
      BY <1>2 DEF TypeInv, Queues
    <2>3. chan[n][Master] \o FullReport(b) \in Seq(Mail(copied))
      BY <2>1, <2>2, ConcatProperties
    <2>. QED BY <1>1, <1>2, <2>2, <2>3 DEF Queues
  <1>10. TypeInv'
    BY <1>1, <1>2, <1>4, <1>6, <1>9 DEF TypeInv, masterVars, M!TypeOK
  <1>11. /\ up'[n] /\ blk'[n] = b /\ disk'[n] = nd
         /\ \A m \in Server \ {n} : /\ up'[m] = up[m] /\ blk'[m] = blk[m]
                                    /\ disk'[m] = disk[m]
                                    /\ tasks'[m] = tasks[m]
    BY <1>1, <1>2, <1>4 DEF TypeInv
  <1>12. \A m \in Server : Writers(m)' = Writers(m)
    BY <1>1 DEF Writers, At
  <1>13. NodeInv(n)'
    <2>1. Held(blk[n], tasks[n], Writers(n))'
      BY <1>1, <1>8, <1>12, HeldByNobody DEF Held
    <2>2. Sound(b, nd.file) /\ Received(b, nd.file, copied, spent.used.faults)
      BY <1>3, <1>4 DEF Sound, Received
    <2>3. Saved(b, nd.meta)
      BY <1>3, <1>4 DEF Saved
    <2>4. Sound(blk[n], disk[n].file)'
      BY <1>11, <2>2 DEF Sound
    <2>5. Saved(blk[n], disk[n].meta)'
      BY <1>11, <2>3 DEF Saved
    <2>6. Received(blk[n], disk[n].file, copied, spent.used.faults)'
      <3>1. b # None => b.recover = None
        BY <1>3
      <3>. QED BY <1>11, <3>1 DEF Received
    <2>7. up'[n] /\ Writers(n)' = {}
      BY <1>8, <1>11, <1>12
    <2>. QED BY <2>1, <2>4, <2>5, <2>6, <2>7 DEF NodeInv
  <1>14. Follows(n)
    BY <1>2 DEF Follows
  <1>15. Onward
    BY <1>1, <1>2, NothingSpent
  <1>16. NodesInv' /\ \A m \in Server : Follows(m)
    BY <1>1, <1>11, <1>12, <1>13, <1>14, <1>15, OnlyNode
  <1>. QED BY <1>10, <1>16 DEF Keeps, IInv

-----------------------------------------------------------------------------
(***************************************************************************)
(* The invariant, and what follows from it.                                *)
(***************************************************************************)
LEMMA InitIInv ==
  ASSUME Init
  PROVE  IInv
  <1>1. /\ now = 0 /\ usable \in SUBSET Server /\ copied = {}
        /\ version = 0 /\ expectVersion = 0 /\ lease = 0 /\ size = 0
        /\ recoverLease = 0 /\ replicas = <<>>
        /\ spent \in [budget : Budgets, used : {[what \in Kinds |-> 0]}]
    BY DEF Init, M!MasterInit
  <1>2. /\ up = [n \in Server |-> TRUE]
        /\ blk = [n \in Server |-> None]
        /\ disk = [n \in Server |-> [file |-> None, meta |-> None]]
        /\ tasks = [n \in Server |-> {}]
        /\ op = [c \in Client |-> None]
        /\ chan = [a \in Party |-> [b \in Party |-> <<>>]]
    BY DEF Init, NodeInit, Party
  <1>3. M!TypeOK
    BY <1>1, OneMail DEF M!TypeOK, M!Version
  <1>4. disk \in [Server -> Disk]
    BY <1>2 DEF Disk
  <1>5. chan \in Queues(copied)
    BY <1>2, OneMail DEF Queues
  <1>6. spent \in [budget : Budgets, used : [Kinds -> Nat]]
    BY <1>1
  <1>7. TypeInv
    BY <1>2, <1>3, <1>4, <1>5, <1>6 DEF TypeInv
  <1>8. ASSUME NEW n \in Server
        PROVE  NodeInv(n)
    <2>1. blk[n] = None /\ tasks[n] = {} /\ up[n]
      BY <1>2
    <2>2. Writers(n) = {}
      BY <1>2 DEF Writers, At
    <2>3. Held(blk[n], tasks[n], Writers(n))
      BY <2>1, <2>2, HeldByNobody
    <2>. QED BY <2>1, <2>2, <2>3 DEF NodeInv, Sound, Saved, Received
  <1>. QED BY <1>7, <1>8 DEF IInv, NodesInv

LEMMA StepKeeps ==
  ASSUME IInv, Next
  PROVE  Keeps
  <1>1. ASSUME NEW c \in Client,
               \/ \E kind \in {"append", "write"} : AskLease(c, kind, 0)
               \/ ReadLease(c)
               \/ ClientStep(c)
        PROVE  Keeps
    BY <1>1, AskLeaseKeeps, ReadLeaseKeeps, ClientStepKeeps
  <1>2. ASSUME NEW n \in Server,
               \/ OnUpdate(n) \/ OnReport(n) \/ OnClean(n)
               \/ TimeOut(n) \/ Heartbeat(n)
               \/ \E a \in Server : FromNode(n, a)
               \/ FromMaster(n) \/ CopyOut(n) \/ PeriodicReport(n)
               \/ Start(n) \/ Drop(n)
        PROVE  Keeps
    BY <1>2, MasterHears, UsableKeeps, FromNodeKeeps, FromMasterKeeps,
       CopyOutKeeps, PeriodicReportKeeps, StartKeeps, DropKeeps
  <1>3. CheckReplica \/ RestartMaster \/ FaultyStep \/ Stop \/ Tick => Keeps
    BY CheckReplicaKeeps, RestartMasterKeeps, FaultyStepKeeps, StopKeeps,
       TickKeeps
  <1>. QED BY <1>1, <1>2, <1>3 DEF Next

LEMMA NothingKeeps ==
  ASSUME IInv, UNCHANGED vars
  PROVE  Keeps
  <1>1. UNCHANGED <<now, up, blk, disk, tasks, op, chan, masterVars, spent,
                    copied>>
    BY DEF vars, nodeVars, ghosts
  <1>2. TypeInv
    BY DEF IInv
  <1>3. Onward /\ spent' \in [budget : Budgets, used : [Kinds -> Nat]]
        /\ chan' \in Queues(copied)
    BY <1>1, <1>2, NothingSpent DEF TypeInv
  <1>. QED BY <1>1, <1>3, IgnoredKeeps

\* The invariant holds in every reachable state: a Block object is of the right
\* shape and used only by those that hold it, its files are what it says, and no
\* message claims what its sender could not know.
THEOREM CopiesInvariant == Spec => []IInv
  <1>1. Init => IInv
    BY InitIInv
  <1>2. IInv /\ [Next]_vars => IInv'
    BY StepKeeps, NothingKeeps DEF Keeps
  <1>. QED BY <1>1, <1>2, PTL DEF Spec

\* A Block is not deleted under a coroutine that uses it (BlockManager::Get,
\* Block::StartRecover and their releases, against BlockManager::Clean).
THEOREM UsersAlwaysHoldReferences == Spec => []UsersHoldReferences
  <1>1. IInv => UsersHoldReferences
    BY DEF IInv, NodesInv, NodeInv, Held, UsersHoldReferences, Writers
  <1>. QED BY <1>1, CopiesInvariant, PTL

\* A block that answers reads has all the batches it claims (Block::Read, against
\* Write, Append, Resize and ScanBlock).
THEOREM ReadableDataAlwaysExists == Spec => []ReadableDataExists
  <1>1. IInv => ReadableDataExists
    BY DEF IInv, NodesInv, NodeInv, Sound, ReadableDataExists
  <1>. QED BY <1>1, CopiesInvariant, PTL

\* A node that stops and starts again serves the version and the size it served
\* before, unless a write to its disk failed (Block::Write, Append and
\* CompleteRecover, which write the meta file last, and ScanBlock).
THEOREM RestartAlwaysLoadsWhatWasServed == Spec => []RestartLoadsWhatWasServed
  <1>1. ASSUME IInv, spent.used.faults = 0, NEW n \in Server,
               Readable(n), blk[n].version > 0
        PROVE  LET b == Scanned(disk[n])
               IN  /\ b # None
                   /\ b.version = blk[n].version /\ b.size = blk[n].size
    <2>1. /\ blk[n] \in Block /\ blk[n] # None /\ blk[n].recover = None
          /\ disk[n] \in Disk /\ NodeInv(n)
      BY <1>1 DEF IInv, TypeInv, NodesInv, Readable
    <2>. DEFINE mt == [version |-> blk[n].version, size |-> blk[n].size]
    <2>2. blk[n].version \in Nat /\ blk[n].size \in Nat
      BY <2>1 DEF Block
    <2>3. mt \in Meta /\ mt # None
      BY <2>2, NoneAssumption DEF Meta
    <2>4. disk[n].meta = mt
      BY <1>1, <2>1 DEF NodeInv, Saved
    <2>5. blk[n].size <= Len(Batches(disk[n].file))
      BY <2>1 DEF NodeInv, Sound
    <2>6. Len(Batches(disk[n].file)) \in Nat
      BY <2>1, FileIsSeq DEF Disk
    <2>7. mt.version = blk[n].version /\ mt.size = blk[n].size
      OBVIOUS
    <2>. HIDE DEF mt
    <2>. DEFINE sb == [Blank EXCEPT !.version = disk[n].meta.version,
                                    !.size = disk[n].meta.size]
    <2>8. Scanned(disk[n]) = sb
      BY <2>2, <2>3, <2>4, <2>5, <2>6, <2>7 DEF Scanned
    <2>9. sb = [version |-> blk[n].version, size |-> blk[n].size, refs |-> 0,
                recover |-> None]
      BY <2>4, <2>7, LoadedBlock
    <2>. HIDE DEF sb
    <2>10. sb \in Block /\ sb # None
      BY <2>2, <2>9, NoneAssumption DEF Block
    <2>. QED BY <2>8, <2>9, <2>10
  <1>2. IInv => RestartLoadsWhatWasServed
    BY <1>1 DEF RestartLoadsWhatWasServed
  <1>. QED BY <1>2, CopiesInvariant, PTL

\* While a Block object lives its version never goes back (the assignments of
\* the strict Write and Append and of CompleteRecover).
THEOREM NodeVersionsAlwaysGrow == Spec => NodeVersionsGrow
  <1>. DEFINE Grow == \A n \in Server : blk[n] # None /\ blk'[n] # None =>
                                          blk[n].version <= blk'[n].version
  <1>1. IInv /\ [Next]_vars => Grow
    BY StepKeeps, NothingKeeps DEF Keeps, Follows
  <1>2. IInv /\ [Next]_vars => [Grow]_vars
    BY <1>1
  <1>. QED BY <1>2, CopiesInvariant, PTL DEF Spec, NodeVersionsGrow

\* A recovered block holds, batch for batch, what was sent out for its version
\* (RecoverController and Block::Resize, RecoverData and CompleteRecover), but
\* for a batch that was sent twice and torn the second time.
THEOREM AlwaysRecoveredFromCopies == Spec => RecoveredFromCopies
  <1>. DEFINE Whole ==
         \A n \in Server :
           Recovering(n) /\ blk'[n] # None /\ blk'[n].recover = None =>
             \A i \in 1..blk'[n].size :
               \/ \E c \in copied : /\ c.version = blk'[n].version
                                   /\ i <= Len(c.data)
                                   /\ c.data[i] = disk'[n].file[i]
               \/ spent.used.faults > 0 /\ disk'[n].file[i] = Torn
  <1>1. ASSUME IInv, Keeps, NEW n \in Server, Recovering(n), blk'[n] # None,
               blk'[n].recover = None, NEW i \in 1..blk'[n].size
        PROVE  \/ \E c \in copied : /\ c.version = blk'[n].version
                                   /\ i <= Len(c.data)
                                   /\ c.data[i] = disk'[n].file[i]
               \/ spent.used.faults > 0 /\ disk'[n].file[i] = Torn
    <2>1. /\ blk[n] # None /\ blk[n].recover # None
          /\ blk'[n].version = blk[n].recover.version
          /\ blk[n].recover.got = 0..(blk'[n].size - 1)
          /\ disk'[n].file = disk[n].file
      BY <1>1 DEF Keeps, Follows, Recovering
    <2>2. Received(blk[n], disk[n].file, copied, spent.used.faults)
      BY <1>1 DEF IInv, NodesInv, NodeInv
    <2>3. blk'[n].size \in Nat
      BY <1>1 DEF Keeps, IInv, TypeInv, Block
    <2>4. i - 1 \in blk[n].recover.got /\ (i - 1) + 1 = i
      BY <1>1, <2>1, <2>3
    <2>5. \/ Sourced(copied, blk[n].recover.version, i - 1, disk[n].file[i])
          \/ spent.used.faults > 0 /\ disk[n].file[i] = Torn
      BY <2>1, <2>2, <2>4 DEF Received
    <2>. QED BY <2>1, <2>4, <2>5 DEF Sourced
  <1>2. IInv /\ [Next]_vars => Whole
    BY <1>1, StepKeeps, NothingKeeps
  <1>3. IInv /\ [Next]_vars => [Whole]_vars
    BY <1>2
  <1>. QED BY <1>3, CopiesInvariant, PTL DEF Spec, RecoveredFromCopies

-----------------------------------------------------------------------------
(***************************************************************************)
(* Terms.  Who may still make a version, and which there can be.           *)
(***************************************************************************)
\* The client writes that have been asked for and have made no version yet.
Pending == {c \in Client : /\ op[c] # None
                           /\ op[c].pc \in {"granted", "sent", "begun"}}

\* The versions in terms that the master has opened, of which a term has no more
\* than there were client writes.
Grants ==
  {v \in Nat : /\ Term(v) <= Term(expectVersion)
               /\ v % TermWidth <= spent.used.writes - Cardinality(Pending)}

\* The versions that a message makes its receiver take over.
Says(m) ==
  {v \in Nat : \/ m.type = "notify" /\ v = m.new
               \/ m.type \in {"update", "report", "complete"} /\ v = m.version}

Tells(q, S) == \A i \in 1..Len(q) : Says(q[i]) \subseteq S

BlocksIn(S) == \A n \in Server : blk[n] # None => blk[n].version \in S
FilesIn(S) ==
  \A n \in Server : disk[n].meta # None => disk[n].meta.version \in S
CallsIn(S) == \A c \in Client : op[c] # None => op[c].lease.newversion \in S
MailIn(ch, S) == \A a, b \in Party : Tells(ch[a][b], S)

KnownIn(S) == BlocksIn(S) /\ FilesIn(S) /\ CallsIn(S) /\ MailIn(chan, S)

\* The master is at most one term ahead of what it has heard of.
LeadInv == version <= expectVersion /\ expectVersion <= NextVersion(version)

\* Whatever any part of the system takes for a version has been granted.
TermInv == /\ LeadInv
           /\ IsFiniteSet(Pending)
           /\ {0, expectVersion} \subseteq Grants
           /\ KnownIn(Grants)

\* The master remembers its terms, and there were too few client writes to use
\* one up.
TermsLast == spent.used.restarts = 0 /\ spent.used.writes < TermWidth

\* The next version is in the same term.
LEMMA NextInTerm ==
  ASSUME NEW v \in Nat, (v % TermWidth) + 1 < TermWidth
  PROVE  Term(v + 1) = Term(v) /\ (v + 1) % TermWidth = (v % TermWidth) + 1
  <1>0. TermWidth \in Nat \ {0}
    BY TermWidthAssumption
  <1>. DEFINE t == v \div TermWidth
              r == v % TermWidth
              t2 == (v + 1) \div TermWidth
              r2 == (v + 1) % TermWidth
  <1>1. v = TermWidth * t + r /\ t \in Int /\ r \in 0..(TermWidth - 1)
    BY <1>0, SMT
  <1>2. v + 1 = TermWidth * t2 + r2 /\ t2 \in Int /\ r2 \in 0..(TermWidth - 1)
    BY <1>0, SMT
  <1>. HIDE DEF t, r, t2, r2
  <1>3. TermWidth * (t2 - t) = r + 1 - r2
    BY <1>0, <1>1, <1>2, SMT
  <1>4. r + 1 \in 0..(TermWidth - 1)
    BY <1>0, <1>1, SMT DEF r
  <1>5. t2 = t
    BY <1>0, <1>1, <1>2, <1>3, <1>4, SMT
  <1>. QED BY <1>0, <1>1, <1>2, <1>3, <1>5, SMT DEF Term, t, r, t2, r2

\* The first version of a term, and the order of terms.
LEMMA FirstOfTerm ==
  ASSUME NEW v \in Nat
  PROVE  /\ NextVersion(v) \in Nat
         /\ Term(NextVersion(v)) = Term(v) + 1
         /\ NextVersion(v) % TermWidth = 0
         /\ Term(v) \in Nat /\ v % TermWidth \in Nat
  <1>0. TermWidth \in Nat \ {0}
    BY TermWidthAssumption
  <1>. DEFINE a == Term(v) + 1
              x == a * TermWidth
              t == x \div TermWidth
              r == x % TermWidth
  <1>1. Term(v) \in Nat /\ v % TermWidth \in Nat
    BY <1>0, SMT DEF Term
  <1>2. a \in Nat
    BY <1>1
  <1>. HIDE DEF a
  <1>3. x \in Nat
    BY <1>0, <1>2, SMT
  <1>. HIDE DEF x
  <1>4. x = TermWidth * t + r /\ t \in Int /\ r \in 0..(TermWidth - 1)
    BY <1>0, <1>3, SMT
  <1>. HIDE DEF t, r
  <1>5. TermWidth * (a - t) = r
    BY <1>0, <1>2, <1>4, SMT DEF x
  <1>6. a = t
    BY <1>0, <1>2, <1>4, <1>5, SMT
  <1>7. r = 0
    BY <1>0, <1>2, <1>5, <1>6, SMT
  <1>8. NextVersion(v) = x
    BY DEF NextVersion, x, a
  <1>. QED BY <1>1, <1>3, <1>6, <1>7, <1>8 DEF Term, a, t, r

LEMMA TermsInOrder ==
  ASSUME NEW v \in Nat, NEW w \in Nat, v <= w
  PROVE  Term(v) <= Term(w) /\ NextVersion(v) <= NextVersion(w)
  <1>0. TermWidth \in Nat \ {0}
    BY TermWidthAssumption
  <1>1. v \div TermWidth \in Nat /\ w \div TermWidth \in Nat
    BY <1>0
  <1>2. v \div TermWidth <= w \div TermWidth
    BY <1>0, <1>1
  <1>. QED BY <1>0, <1>1, <1>2, SMT DEF NextVersion, Term

-----------------------------------------------------------------------------
\* What queues tell.
LEMMA TellsJoined ==
  ASSUME NEW X, NEW p \in Seq(X), NEW q \in Seq(X), NEW S, Tells(p, S), Tells(q, S)
  PROVE  Tells(p \o q, S)
  <1>1. /\ Len(p) \in Nat /\ Len(q) \in Nat /\ Len(p \o q) = Len(p) + Len(q)
        /\ \A i \in 1..Len(p) + Len(q) :
             (p \o q)[i] = IF i <= Len(p) THEN p[i] ELSE q[i - Len(p)]
    BY ConcatProperties, LenProperties
  <1>2. ASSUME NEW i \in 1..Len(p \o q)
        PROVE  Says((p \o q)[i]) \subseteq S
    <2>1. CASE i <= Len(p)
      BY <1>1, <2>1 DEF Tells
    <2>2. CASE ~(i <= Len(p))
      <3>1. i - Len(p) \in 1..Len(q)
        BY <1>1, <2>2
      <3>. QED BY <1>1, <2>2, <3>1 DEF Tells
    <2>. QED BY <2>1, <2>2
  <1>. QED BY <1>2 DEF Tells

LEMMA TellsOfTail ==
  ASSUME NEW X, NEW q \in Seq(X), q # <<>>, NEW S, Tells(q, S)
  PROVE  Tells(Tail(q), S)
  <1>1. /\ Len(q) \in Nat /\ Len(Tail(q)) = Len(q) - 1
        /\ \A i \in 1..Len(q) - 1 : Tail(q)[i] = q[i + 1]
    BY HeadTailProperties, LenProperties
  <1>. QED BY <1>1 DEF Tells

LEMMA TellsOne ==
  ASSUME NEW m, NEW S
  PROVE  /\ Tells(<<>>, S)
         /\ Says(m) \subseteq S => Tells(<<m>>, S)
  BY DEF Tells

LEMMA MoreIsTold ==
  ASSUME NEW S, NEW T, S \subseteq T
  PROVE  /\ \A q : Tells(q, S) => Tells(q, T)
         /\ KnownIn(S) => KnownIn(T)
  <1>1. \A q : Tells(q, S) => Tells(q, T)
    BY DEF Tells
  <1>2. MailIn(chan, S) => MailIn(chan, T)
    BY <1>1 DEF MailIn
  <1>. QED BY <1>1, <1>2 DEF KnownIn, BlocksIn, FilesIn, CallsIn

\* A message that is handled was told, and the others still are.
LEMMA TakenTells ==
  ASSUME TypeInv, NEW a \in Party, NEW b \in Party, chan[a][b] # <<>>,
         NEW S, MailIn(chan, S)
  PROVE  /\ Says(Head(chan[a][b])) \subseteq S
         /\ MailIn(Taken(a, b), S)
  <1>1. chan \in Queues(copied)
    BY DEF TypeInv
  <1>2. chan[a][b] \in Seq(Mail(copied)) /\ Tells(chan[a][b], S)
    BY <1>1 DEF Queues, MailIn
  <1>3. Tells(Tail(chan[a][b]), S)
    BY <1>2, TellsOfTail
  <1>4. Head(chan[a][b]) = chan[a][b][1] /\ 1 \in 1..Len(chan[a][b])
    BY <1>2, HeadTailProperties, LenProperties, EmptySeq
  <1>5. \A p, q \in Party : Taken(a, b)[p][q] =
           IF p = a /\ q = b THEN Tail(chan[a][b]) ELSE chan[p][q]
    BY <1>1 DEF Taken, Queues
  <1>6. MailIn(Taken(a, b), S)
    BY <1>3, <1>5 DEF MailIn
  <1>. QED BY <1>2, <1>4, <1>6 DEF Tells

LEMMA SentTells ==
  ASSUME NEW cp, NEW ch \in Queues(cp), NEW n \in Party, NEW S, MailIn(ch, S), NEW out,
         \A d \in Party : d \in DOMAIN out =>
           out[d] \in Seq(Mail(cp)) /\ Tells(out[d], S)
  PROVE  MailIn(Sent(ch, n, out), S)
  <1>1. ASSUME NEW p \in Party, NEW q \in Party
        PROVE  Tells(Sent(ch, n, out)[p][q], S)
    <2>1. /\ ch[p][q] \in Seq(Mail(cp)) /\ Tells(ch[p][q], S)
          /\ p \in DOMAIN ch /\ DOMAIN ch[p] = Party
      BY DEF Queues, MailIn
    <2>2. Sent(ch, n, out)[p][q] =
            IF p = n /\ q \in DOMAIN out /\ Reachable(q)
            THEN ch[p][q] \o out[q] ELSE ch[p][q]
      BY <2>1 DEF Sent
    <2>3. q \in DOMAIN out => Tells(ch[p][q] \o out[q], S)
      BY <2>1, TellsJoined
    <2>. QED BY <2>1, <2>2, <2>3
  <1>. QED BY <1>1 DEF MailIn

LEMMA SentToOneTells ==
  ASSUME NEW cp, NEW ch \in Queues(cp), NEW n \in Party, NEW S, MailIn(ch, S), NEW d,
         NEW msgs \in Seq(Mail(cp)), Tells(msgs, S)
  PROVE  MailIn(Sent(ch, n, To(d, msgs)), S)
  <1>1. \A x \in Party : x \in DOMAIN To(d, msgs) =>
          To(d, msgs)[x] \in Seq(Mail(cp)) /\ Tells(To(d, msgs)[x], S)
    BY DEF To
  <1>. QED BY <1>1, SentTells

\* What a node says of its block.
LEMMA BlockTells ==
  ASSUME NEW b \in {None} \cup Block, NEW S, b # None => b.version \in S
  PROVE  /\ Tells(FullReport(b), S)
         /\ b # None => Tells(<<Update(b)>>, S)
  <1>1. b # None => /\ Says([type |-> "report", version |-> b.version,
                             size |-> b.size]) \subseteq S
                    /\ Says(Update(b)) \subseteq S
    BY DEF Says, Update
  <1>. QED BY <1>1, TellsOne DEF FullReport

-----------------------------------------------------------------------------
\* What has been granted stays so.
LEMMA SpentWrites ==
  ASSUME TypeInv
  PROVE  /\ expectVersion \in Nat /\ version \in Nat
         /\ \A what \in Kinds : spent.used[what] \in Nat
         /\ spent.used.writes \in Nat
  <1>1. M!TypeOK /\ spent \in [budget : Budgets, used : [Kinds -> Nat]]
        /\ "writes" \in Kinds
    BY DEF TypeInv, Kinds
  <1>2. expectVersion \in Nat /\ version \in Nat
    BY <1>1, RecordTypes
  <1>. QED BY <1>1, <1>2

LEMMA GrantsGrow ==
  ASSUME TypeInv, TypeInv', IsFiniteSet(Pending), IsFiniteSet(Pending'),
         expectVersion <= expectVersion',
         spent.used.writes - Cardinality(Pending) <=
           spent'.used.writes - Cardinality(Pending')
  PROVE  Grants \subseteq Grants'
  <1>. DEFINE k == Cardinality(Pending)
              k2 == Cardinality(Pending')
  <1>1. k \in Nat /\ k2 \in Nat
    BY FS_CardinalityType
  <1>2. /\ expectVersion \in Nat /\ expectVersion' \in Nat
        /\ spent.used.writes \in Nat /\ spent'.used.writes \in Nat
    <2>1. /\ expectVersion' \in Nat
          /\ spent' \in [budget : Budgets, used : [Kinds -> Nat]]
          /\ "writes" \in Kinds
      BY DEF TypeInv, M!TypeOK, M!Version, Kinds
    <2>2. spent'.used.writes \in Nat
      BY <2>1
    <2>. QED BY <2>1, <2>2, SpentWrites
  <1>3. Term(expectVersion) <= Term(expectVersion')
        /\ Term(expectVersion) \in Nat /\ Term(expectVersion') \in Nat
    BY <1>2, TermsInOrder, FirstOfTerm
  <1>. HIDE DEF k, k2
  <1>4. ASSUME NEW v \in Nat, Term(v) <= Term(expectVersion),
               v % TermWidth <= spent.used.writes - k
        PROVE  /\ Term(v) <= Term(expectVersion')
               /\ v % TermWidth <= spent'.used.writes - k2
    <2>1. Term(v) \in Nat /\ v % TermWidth \in Nat
      BY FirstOfTerm
    <2>2. spent.used.writes - k <= spent'.used.writes - k2
      BY DEF k, k2
    <2>. QED BY <1>1, <1>2, <1>3, <1>4, <2>1, <2>2
  <1>. QED BY <1>4 DEF Grants, k, k2

LEMMA MoreIsKnown ==
  ASSUME NEW S, NEW T, S \subseteq T, KnownIn(S)'
  PROVE  KnownIn(T)'
  <1>1. \A q : Tells(q, S) => Tells(q, T)
    BY DEF Tells
  <1>2. MailIn(chan, S)' => MailIn(chan, T)'
    BY <1>1 DEF MailIn
  <1>. QED BY <1>2 DEF KnownIn, BlocksIn, FilesIn, CallsIn

LEMMA TermHolds ==
  ASSUME NEW S, S \subseteq Grants', KnownIn(S)', LeadInv', IsFiniteSet(Pending'),
         0 \in Grants', expectVersion' \in Grants'
  PROVE  TermInv'
  <1>1. PICK T : T = Grants'
    OBVIOUS
  <1>2. KnownIn(T)'
    BY <1>1, MoreIsKnown
  <1>3. (KnownIn(Grants))'
    BY <1>1, <1>2 DEF KnownIn, BlocksIn, FilesIn, CallsIn, MailIn
  <1>. QED BY <1>3 DEF TermInv

\* A step that opens no term and asks for no write keeps what is granted.
LEMMA SameGrants ==
  ASSUME TypeInv, TypeInv', TermInv, UNCHANGED <<version, expectVersion>>,
         spent'.used.writes = spent.used.writes, Pending' \subseteq Pending
  PROVE  /\ Grants \subseteq Grants' /\ LeadInv' /\ IsFiniteSet(Pending')
         /\ 0 \in Grants' /\ expectVersion' \in Grants'
  <1>1. IsFiniteSet(Pending) /\ LeadInv /\ 0 \in Grants /\ expectVersion \in Grants
    BY DEF TermInv
  <1>2. IsFiniteSet(Pending') /\ Cardinality(Pending') <= Cardinality(Pending)
    BY <1>1, FS_Subset
  <1>3. Cardinality(Pending) \in Nat /\ Cardinality(Pending') \in Nat
    BY <1>1, <1>2, FS_CardinalityType
  <1>4. /\ expectVersion \in Nat /\ spent.used.writes \in Nat
    BY SpentWrites
  <1>5. spent.used.writes - Cardinality(Pending) <=
           spent'.used.writes - Cardinality(Pending')
    <2>1. \A k, k2, w \in Nat : k2 <= k => w - k <= w - k2
      OBVIOUS
    <2>. QED BY <1>2, <1>3, <1>4, <2>1
  <1>6. Grants \subseteq Grants'
    BY <1>1, <1>2, <1>4, <1>5, GrantsGrow
  <1>. QED BY <1>1, <1>2, <1>6 DEF LeadInv

LEMMA SameTerms ==
  ASSUME TypeInv, TypeInv', TermInv, UNCHANGED <<version, expectVersion>>,
         spent'.used.writes = spent.used.writes, Pending' \subseteq Pending,
         NEW S, S = Grants, KnownIn(S)'
  PROVE  TermInv'
  BY SameGrants, TermHolds

\* A write that is asked for, answered, made or given up.
LEMMA OnePending ==
  ASSUME NEW c \in Client, NEW x, op \in [Client -> {None} \cup Op],
         op' = [op EXCEPT ![c] = x]
  PROVE  /\ \A d \in Client \ {c} : op'[d] = op[d]
         /\ op'[c] = x
         /\ Pending' = IF x # None /\ x.pc \in {"granted", "sent", "begun"}
                       THEN Pending \cup {c} ELSE Pending \ {c}
  BY DEF Pending

\* The version that a primary makes, when its write is no longer pending.
LEMMA PrimaryIsGranted ==
  ASSUME TypeInv, TypeInv', TermInv, TermsLast, UNCHANGED <<version, expectVersion>>,
         spent'.used.writes = spent.used.writes,
         NEW c \in Pending, Pending' = Pending \ {c},
         NEW v \in Grants, NEW l \in Grants
  PROVE  PrimaryVersion(v, l) \in Grants'
  <1>1. IsFiniteSet(Pending)
    BY DEF TermInv
  <1>2. IsFiniteSet(Pending') /\ Cardinality(Pending') = Cardinality(Pending) - 1
    BY <1>1, FS_RemoveElement
  <1>. DEFINE k == Cardinality(Pending)
              k2 == Cardinality(Pending')
              w == spent.used.writes
  <1>3. k \in Nat /\ k2 \in Nat /\ k2 = k - 1
    BY <1>1, <1>2, FS_CardinalityType
  <1>4. w \in Nat /\ w < TermWidth /\ TermWidth \in Nat /\ expectVersion \in Nat
    BY SpentWrites, TermWidthAssumption DEF TermsLast
  <1>5. Grants \subseteq Grants'
    BY SameGrants
  <1>6. CASE v < l
    BY <1>5, <1>6 DEF PrimaryVersion
  <1>7. CASE ~(v < l)
    <2>1. v \in Nat /\ Term(v) <= Term(expectVersion) /\ v % TermWidth <= w - k
      BY DEF Grants
    <2>2. v % TermWidth \in Nat
      BY <2>1, FirstOfTerm
    <2>. HIDE DEF k, k2, w
    <2>3. (v % TermWidth) + 1 <= w - k2 /\ (v % TermWidth) + 1 < TermWidth
      BY <1>3, <1>4, <2>1, <2>2
    <2>4. Term(v + 1) = Term(v) /\ (v + 1) % TermWidth = (v % TermWidth) + 1
      BY <2>1, <2>3, NextInTerm
    <2>5. v + 1 \in Nat /\ Term(v + 1) <= Term(expectVersion')
          /\ (v + 1) % TermWidth <= w - k2
      BY <2>1, <2>3, <2>4
    <2>6. v + 1 \in Grants'
      BY <2>5 DEF Grants, k2, w
    <2>. QED BY <1>7, <2>6 DEF PrimaryVersion
  <1>. QED BY <1>6, <1>7

-----------------------------------------------------------------------------
\* Steps of one node.
LEMMA NodeKnown ==
  ASSUME NEW S, KnownIn(S), NEW n \in Server,
         \A m \in Server \ {n} : blk'[m] = blk[m] /\ disk'[m] = disk[m],
         blk'[n] # None => blk'[n].version \in S,
         disk'[n].meta # None => disk'[n].meta.version \in S,
         \A c \in Client : op'[c] # None => op[c] # None /\ op'[c].lease = op[c].lease,
         MailIn(chan', S)
  PROVE  KnownIn(S)'
  <1>1. BlocksIn(S)' /\ FilesIn(S)'
    BY DEF KnownIn, BlocksIn, FilesIn
  <1>2. CallsIn(S)'
    BY DEF KnownIn, CallsIn
  <1>3. MailIn(chan, S)'
    BY DEF MailIn
  <1>. QED BY <1>1, <1>2, <1>3 DEF KnownIn

LEMMA NodeKept ==
  ASSUME TypeInv, TypeInv', TermInv, UNCHANGED <<version, expectVersion>>,
         spent'.used.writes = spent.used.writes, Pending' \subseteq Pending,
         NEW n \in Server,
         \A m \in Server \ {n} : blk'[m] = blk[m] /\ disk'[m] = disk[m],
         blk'[n] # None => blk'[n].version \in Grants,
         disk'[n].meta # None => disk'[n].meta.version \in Grants,
         \A c \in Client : op'[c] # None => op[c] # None /\ op'[c].lease = op[c].lease,
         MailIn(chan', Grants)
  PROVE  TermInv'
  <1>1. PICK S : S = Grants
    OBVIOUS
  <1>2. KnownIn(S) /\ MailIn(chan', S)
    BY <1>1 DEF TermInv
  <1>3. KnownIn(S)'
    BY <1>1, <1>2, NodeKnown
  <1>. QED BY <1>1, <1>3, SameTerms

LEMMA MailKept ==
  ASSUME TypeInv, TypeInv', TermInv, UNCHANGED <<version, expectVersion, blk, disk, op>>,
         spent'.used.writes = spent.used.writes, MailIn(chan', Grants)
  PROVE  TermInv'
  <1>1. PICK S : S = Grants
    OBVIOUS
  <1>2. KnownIn(S) /\ MailIn(chan', S)
    BY <1>1 DEF TermInv
  <1>3. KnownIn(S)'
    BY <1>2 DEF KnownIn, BlocksIn, FilesIn, CallsIn, MailIn
  <1>4. Pending' = Pending
    BY DEF Pending
  <1>. QED BY <1>1, <1>3, <1>4, SameTerms

LEMMA SpentOther ==
  ASSUME TypeInv, NEW what \in Kinds, Spend(what)
  PROVE  /\ spent'.used[what] = spent.used[what] + 1
         /\ \A other \in Kinds \ {what} : spent'.used[other] = spent.used[other]
  <1>1. /\ spent' = [spent EXCEPT !.used[what] = @ + 1]
        /\ spent \in [budget : Budgets, used : [Kinds -> Nat]]
    BY DEF Spend, TypeInv
  <1>2. spent' = [budget |-> spent.budget,
                  used |-> [spent.used EXCEPT ![what] = spent.used[what] + 1]]
    BY <1>1
  <1>3. spent'.used = [spent.used EXCEPT ![what] = spent.used[what] + 1]
    BY <1>2
  <1>. QED BY <1>1, <1>3

\* What is known in a state whose invariants hold.
LEMMA WhatIsKnown ==
  ASSUME TypeInv, TermInv
  PROVE  /\ \A n \in Server : /\ blk[n] \in {None} \cup Block
                              /\ blk[n] # None => blk[n].version \in Grants
                              /\ disk[n] \in Disk
                              /\ disk[n].meta # None => disk[n].meta.version \in Grants
         /\ \A c \in Client : /\ op[c] \in {None} \cup Op
                              /\ op[c] # None => op[c].lease.newversion \in Grants
         /\ MailIn(chan, Grants)
         /\ chan \in Queues(copied)
         /\ 0 \in Grants /\ expectVersion \in Grants
  BY DEF TypeInv, TermInv, KnownIn, BlocksIn, FilesIn, CallsIn

-----------------------------------------------------------------------------
\* Calls.
LEMMA RefuseWriteTerm ==
  ASSUME TypeInv, TypeInv', TermInv, NEW c \in Client, RefuseWrite(c),
         UNCHANGED <<masterVars, spent>>
  PROVE  TermInv'
  <1>1. /\ op' = [op EXCEPT ![c] = None]
        /\ UNCHANGED <<blk, disk, chan, version, expectVersion, spent>>
    BY DEF RefuseWrite, masterVars
  <1>2. op \in [Client -> {None} \cup Op]
    BY DEF TypeInv
  <1>3. /\ \A d \in Client \ {c} : op'[d] = op[d]
        /\ op'[c] = None /\ Pending' = Pending \ {c}
    BY <1>1, <1>2, OnePending
  <1>4. PICK S : S = Grants
    OBVIOUS
  <1>5. KnownIn(S)
    BY <1>4 DEF TermInv
  <1>6. KnownIn(S)'
    BY <1>1, <1>3, <1>5 DEF KnownIn, BlocksIn, FilesIn, CallsIn, MailIn
  <1>. QED BY <1>1, <1>3, <1>4, <1>6, SameTerms

LEMMA BeginWriteTerm ==
  ASSUME TypeInv, TypeInv', TermInv, NEW c \in Client, BeginWrite(c),
         UNCHANGED <<masterVars, spent>>
  PROVE  TermInv'
  <1>. DEFINE n == op[c].node
              b == IF blk[n] = None THEN Blank ELSE blk[n]
              nb == [b EXCEPT !.refs = @ + 1]
              x == [op[c] EXCEPT !.pc = "begun", !.old = b.version]
  <1>1. /\ At(c, "sent")
        /\ blk' = [blk EXCEPT ![n] = nb]
        /\ op' = [op EXCEPT ![c] = x]
        /\ UNCHANGED <<disk, chan, version, expectVersion, spent>>
    BY DEF BeginWrite, masterVars
  <1>2. /\ op \in [Client -> {None} \cup Op] /\ blk \in [Server -> {None} \cup Block]
    BY DEF TypeInv
  <1>3. op[c] \in Op /\ op[c] # None /\ op[c].pc = "sent" /\ n \in Server
    BY <1>1, <1>2 DEF At, Op
  <1>4. b \in Block /\ b.version \in Grants
    BY <1>2, <1>3, WhatIsKnown, BlankBlock DEF Blank
  <1>5. nb.version = b.version
    <2>. HIDE DEF b, n
    <2>. QED BY <1>4 DEF Block
  <1>6. x.pc = "begun" /\ x.lease = op[c].lease
    BY <1>2, <1>3 DEF Op
  <1>7. c \in Pending
    BY <1>3 DEF Pending
  <1>. HIDE DEF x, nb, b
  <1>8. /\ \A d \in Client \ {c} : op'[d] = op[d]
        /\ op'[c] = x /\ Pending' \subseteq Pending
    <2>1. Pending' = IF x # None /\ x.pc \in {"granted", "sent", "begun"}
                     THEN Pending \cup {c} ELSE Pending \ {c}
      BY <1>1, <1>2, OnePending
    <2>. QED BY <1>1, <1>2, <1>7, <2>1
  <1>9. /\ \A m \in Server \ {n} : blk'[m] = blk[m] /\ disk'[m] = disk[m]
        /\ blk'[n].version \in Grants
        /\ disk'[n].meta # None => disk'[n].meta.version \in Grants
        /\ MailIn(chan', Grants)
    BY <1>1, <1>2, <1>3, <1>4, <1>5, WhatIsKnown
  <1>10. \A d \in Client : op'[d] # None => op[d] # None /\ op'[d].lease = op[d].lease
    BY <1>3, <1>6, <1>8
  <1>. QED BY <1>1, <1>3, <1>8, <1>9, <1>10, NodeKept

LEMMA ReleasedVersion ==
  ASSUME NEW b \in Block
  PROVE  Released(b).version = b.version
  BY DEF Released, Block

LEMMA FinishWriteTerm ==
  ASSUME IInv, TypeInv', TermInv, NEW c \in Client, FinishWrite(c),
         UNCHANGED <<masterVars, spent>>
  PROVE  TermInv'
  <1>1. PICK n \in Server : n = op[c].node
    BY WriterAt DEF FinishWrite
  <1>2. TypeInv /\ op \in [Client -> {None} \cup Op]
        /\ blk \in [Server -> {None} \cup Block]
    BY DEF IInv, TypeInv
  <1>3. /\ op[c] \in Op /\ blk[n] \in Block /\ blk[n] # None
        /\ op[c].old <= blk[n].version
    BY <1>1, WriterAt DEF FinishWrite
  <1>. DEFINE notify == [type |-> "notify", write |-> op[c].write,
                         old |-> op[c].old, new |-> blk[n].version]
              out == [d \in op[c].peers \cup {Master} |->
                        IF d = Master THEN <<Update(blk[n])>> ELSE <<notify>>]
              nb == Released(blk[n])
  <1>4. /\ op' = [op EXCEPT ![c] = None]
        /\ blk' = [blk EXCEPT ![n] = nb]
        /\ chan' = Sent(chan, n, out)
        /\ UNCHANGED <<disk, version, expectVersion, spent>>
    BY <1>1 DEF FinishWrite, masterVars
  <1>5. PICK S : S = Grants
    OBVIOUS
  <1>6. blk[n].version \in S /\ MailIn(chan, S) /\ chan \in Queues(copied)
    BY <1>2, <1>3, <1>5, WhatIsKnown
  <1>7. notify \in Mail(copied) /\ Says(notify) \subseteq S
    BY <1>3, <1>6 DEF Mail, Notifies, Op, Block, Says
  <1>8. /\ <<notify>> \in Seq(Mail(copied)) /\ <<Update(blk[n])>> \in Seq(Mail(copied))
        /\ Tells(<<notify>>, S) /\ Tells(<<Update(blk[n])>>, S)
    BY <1>3, <1>6, <1>7, OneMail, ReportMail, TellsOne, BlockTells
  <1>9. nb.version = blk[n].version
    BY <1>3, ReleasedVersion
  <1>. HIDE DEF notify, nb
  <1>10. \A d \in Party : d \in DOMAIN out =>
           out[d] \in Seq(Mail(copied)) /\ Tells(out[d], S)
    BY <1>8
  <1>. HIDE DEF out
  <1>11. MailIn(chan', S)
    BY <1>4, <1>6, <1>10, SentTells DEF Party
  <1>12. /\ \A d \in Client \ {c} : op'[d] = op[d]
         /\ op'[c] = None /\ Pending' = Pending \ {c}
    BY <1>2, <1>4, OnePending
  <1>13. /\ \A m \in Server \ {n} : blk'[m] = blk[m] /\ disk'[m] = disk[m]
         /\ blk'[n].version \in S
         /\ disk'[n].meta # None => disk'[n].meta.version \in S
    BY <1>2, <1>4, <1>5, <1>6, <1>9, WhatIsKnown
  <1>14. \A d \in Client : op'[d] # None => op[d] # None /\ op'[d].lease = op[d].lease
    BY <1>12
  <1>. QED BY <1>2, <1>4, <1>5, <1>11, <1>12, <1>13, <1>14, NodeKept

\* The end of a client's call at its primary, which may have made a version.
LEMMA PrimaryKept ==
  ASSUME TypeInv, TypeInv', TermInv, TermsLast, UNCHANGED <<version, expectVersion, chan>>,
         spent'.used.writes = spent.used.writes,
         NEW c \in Pending, NEW x, op' = [op EXCEPT ![c] = x],
         x = None \/ (x.pc = "applied" /\ x.lease = op[c].lease),
         NEW n \in Server, blk[n] # None,
         \A m \in Server \ {n} : blk'[m] = blk[m] /\ disk'[m] = disk[m],
         blk'[n].version \in {blk[n].version,
                              PrimaryVersion(blk[n].version, op[c].lease.newversion)},
         disk'[n].meta # disk[n].meta => disk'[n].meta.version = blk'[n].version
  PROVE  TermInv'
  <1>1. /\ c \in Client /\ op[c] # None /\ op \in [Client -> {None} \cup Op]
    BY DEF Pending, TypeInv
  <1>2. /\ \A d \in Client \ {c} : op'[d] = op[d]
        /\ op'[c] = x /\ Pending' = Pending \ {c}
    BY <1>1, OnePending
  <1>3. Grants \subseteq Grants' /\ LeadInv' /\ IsFiniteSet(Pending')
        /\ 0 \in Grants' /\ expectVersion' \in Grants'
    BY <1>2, SameGrants
  <1>4. blk[n].version \in Grants /\ op[c].lease.newversion \in Grants
    BY <1>1, WhatIsKnown
  <1>5. blk'[n].version \in Grants'
    BY <1>2, <1>3, <1>4, PrimaryIsGranted
  <1>6. PICK S : S = Grants'
    OBVIOUS
  <1>7. PICK R : R = Grants
    OBVIOUS
  <1>8. KnownIn(R)
    BY <1>7 DEF TermInv
  <1>9. KnownIn(S)
    BY <1>3, <1>6, <1>7, <1>8, MoreIsTold
  <1>10. disk'[n].meta # None => disk'[n].meta.version \in S
    BY <1>5, <1>6, <1>9 DEF KnownIn, FilesIn
  <1>11. \A d \in Client : op'[d] # None => op[d] # None /\ op'[d].lease = op[d].lease
    BY <1>1, <1>2
  <1>12. MailIn(chan', S)
    BY <1>9 DEF KnownIn
  <1>13. KnownIn(S)'
    BY <1>5, <1>6, <1>9, <1>10, <1>11, <1>12, NodeKnown
  <1>. QED BY <1>3, <1>6, <1>13, TermHolds

\* What a write makes of the version, in memory and in the meta file.
LEMMA ClientVersion ==
  ASSUME NEW b \in Block, NEW w, NEW v \in Nat, NEW outcome
  PROVE  BlkAfter(b, w, FALSE, v, outcome).version \in
           {b.version, PrimaryVersion(b.version, v)}
  <1>1. PICK s, k : /\ s = (IF w.kind = "append" THEN b.size + 1 ELSE b.size)
                    /\ k = PrimaryVersion(b.version, v)
    OBVIOUS
  <1>2. NextBlk(b, w, FALSE, v) = [b EXCEPT !.version = k, !.size = s]
    BY <1>1 DEF NextBlk
  <1>3. PICK r : r = [b EXCEPT !.version = k, !.size = s]
    OBVIOUS
  <1>4. r.version = k
    BY <1>3 DEF Block
  <1>5. NextBlk(b, w, FALSE, v).version = k
    BY <1>2, <1>3, <1>4
  <1>. QED BY <1>1, <1>5 DEF BlkAfter

LEMMA NotifiedVersion ==
  ASSUME NEW b \in Block, NEW w, NEW v \in Nat, NEW outcome
  PROVE  BlkAfter(b, w, TRUE, v, outcome).version \in {b.version, v}
  <1>1. PICK s : s = IF w.kind = "append" THEN b.size + 1 ELSE b.size
    OBVIOUS
  <1>2. NextBlk(b, w, TRUE, v) = [b EXCEPT !.version = v, !.size = s]
    BY <1>1 DEF NextBlk
  <1>3. PICK r : r = [b EXCEPT !.version = v, !.size = s]
    OBVIOUS
  <1>4. r.version = v
    BY <1>3 DEF Block
  <1>5. NextBlk(b, w, TRUE, v).version = v
    BY <1>2, <1>3, <1>4
  <1>. QED BY <1>5 DEF BlkAfter

LEMMA WrittenMeta ==
  ASSUME NEW dk, NEW b, NEW w, NEW outcome
  PROVE  DiskAfter(dk, b, w, outcome).meta \in
           {dk.meta, [version |-> b.version, size |-> b.size]}
  BY DEF DiskAfter

LEMMA FailWriteTerm ==
  ASSUME IInv, TypeInv', TermInv, TermsLast, NEW c \in Client, NEW outcome \in Outcomes,
         FailWrite(c, outcome), UNCHANGED masterVars,
         spent'.used.writes = spent.used.writes
  PROVE  TermInv'
  <1>1. PICK n \in Server : n = op[c].node
    BY WriterAt DEF FailWrite
  <1>2. TypeInv /\ blk \in [Server -> {None} \cup Block] /\ disk \in [Server -> Disk]
    BY DEF IInv, TypeInv
  <1>3. /\ op[c] \in Op /\ op[c] # None /\ op[c].pc = "begun"
        /\ blk[n] \in Block /\ blk[n] # None
    BY <1>1, WriterAt DEF FailWrite, At
  <1>. DEFINE w == op[c].write
              v == op[c].lease.newversion
              b == BlkAfter(blk[n], w, FALSE, v, outcome)
  <1>4. /\ op' = [op EXCEPT ![c] = None]
        /\ UNCHANGED <<chan, version, expectVersion>>
        /\ \/ blk' = [blk EXCEPT ![n] = Released(@)] /\ UNCHANGED disk
           \/ /\ blk' = [blk EXCEPT ![n] = Released(b)]
              /\ disk' = [disk EXCEPT ![n] = DiskAfter(@, b, w, outcome)]
    BY <1>1 DEF FailWrite, masterVars
  <1>5. c \in Pending
    BY <1>3 DEF Pending
  <1>6. w \in Write /\ v \in Nat
    BY <1>3 DEF Op, Lease
  <1>7. Written(blk[n], b, w, outcome)
    BY <1>3, <1>6, ClientBlock
  <1>8. /\ b.version \in {blk[n].version, PrimaryVersion(blk[n].version, v)}
        /\ DiskAfter(disk[n], b, w, outcome).meta \in
             {disk[n].meta, [version |-> b.version, size |-> b.size]}
    BY <1>3, <1>6, ClientVersion, WrittenMeta
  <1>9. Released(b).version = b.version /\ Released(blk[n]).version = blk[n].version
    BY <1>3, <1>7, ReleasedVersion DEF Written
  <1>. HIDE DEF w, v, b
  <1>10. /\ \A m \in Server \ {n} : blk'[m] = blk[m] /\ disk'[m] = disk[m]
         /\ blk'[n].version \in {blk[n].version, PrimaryVersion(blk[n].version, v)}
         /\ disk'[n].meta # disk[n].meta => disk'[n].meta.version = blk'[n].version
    <2>1. CASE blk' = [blk EXCEPT ![n] = Released(@)] /\ UNCHANGED disk
      BY <1>2, <1>9, <2>1
    <2>2. CASE /\ blk' = [blk EXCEPT ![n] = Released(b)]
               /\ disk' = [disk EXCEPT ![n] = DiskAfter(@, b, w, outcome)]
      <3>1. blk'[n] = Released(b) /\ disk'[n] = DiskAfter(disk[n], b, w, outcome)
        BY <1>2, <2>2
      <3>2. \A m \in Server \ {n} : blk'[m] = blk[m] /\ disk'[m] = disk[m]
        BY <1>2, <2>2
      <3>. QED BY <1>8, <1>9, <3>1, <3>2
    <2>. QED BY <1>4, <2>1, <2>2
  <1>. QED BY <1>2, <1>3, <1>4, <1>5, <1>10, PrimaryKept DEF v

LEMMA ApplyWriteTerm ==
  ASSUME IInv, TypeInv', TermInv, TermsLast, NEW c \in Client, ApplyWrite(c),
         UNCHANGED <<masterVars, spent>>
  PROVE  TermInv'
  <1>1. PICK n \in Server : n = op[c].node
    BY WriterAt DEF ApplyWrite
  <1>2. TypeInv /\ blk \in [Server -> {None} \cup Block] /\ disk \in [Server -> Disk]
    BY DEF IInv, TypeInv
  <1>3. /\ op[c] \in Op /\ op[c] # None /\ op[c].pc = "begun"
        /\ blk[n] \in Block /\ blk[n] # None
    BY <1>1, WriterAt DEF ApplyWrite, At
  <1>. DEFINE w == op[c].write
              v == op[c].lease.newversion
              b == BlkAfter(blk[n], w, FALSE, v, "written")
              nd == DiskAfter(disk[n], b, w, "written")
              x == [op[c] EXCEPT !.pc = "applied"]
  <1>4. /\ op' = [op EXCEPT ![c] = x]
        /\ UNCHANGED <<chan, version, expectVersion, spent>>
        /\ blk' = [blk EXCEPT ![n] = b]
        /\ disk' = [disk EXCEPT ![n] = nd]
    BY <1>1 DEF ApplyWrite, masterVars, BlkAfter
  <1>5. c \in Pending
    BY <1>3 DEF Pending
  <1>6. w \in Write /\ v \in Nat
    BY <1>3 DEF Op, Lease
  <1>7. /\ b.version \in {blk[n].version, PrimaryVersion(blk[n].version, v)}
        /\ nd.meta \in {disk[n].meta, [version |-> b.version, size |-> b.size]}
    BY <1>3, <1>6, ClientVersion, WrittenMeta
  <1>8. x.pc = "applied" /\ x.lease = op[c].lease
    BY <1>3 DEF Op
  <1>. HIDE DEF w, v, b, nd, x
  <1>9. /\ \A m \in Server \ {n} : blk'[m] = blk[m] /\ disk'[m] = disk[m]
        /\ blk'[n] = b /\ disk'[n] = nd
    BY <1>2, <1>4
  <1>10. /\ blk'[n].version \in {blk[n].version, PrimaryVersion(blk[n].version, v)}
         /\ disk'[n].meta # disk[n].meta => disk'[n].meta.version = blk'[n].version
    BY <1>7, <1>9
  <1>. QED BY <1>2, <1>3, <1>4, <1>5, <1>8, <1>9, <1>10, PrimaryKept DEF v

LEMMA ClientStepTerm ==
  ASSUME IInv, TypeInv', TermInv, TermsLast, NEW c \in Client, ClientStep(c)
  PROVE  TermInv'
  <1>1. UNCHANGED <<masterVars, spent>> /\ TypeInv /\ "written" \in Outcomes
    BY DEF ClientStep, IInv, Outcomes
  <1>2. RefuseWrite(c) \/ BeginWrite(c) \/ FinishWrite(c)
          \/ FailWrite(c, "written") \/ ApplyWrite(c)
    BY DEF ClientStep
  <1>. QED BY <1>1, <1>2, RefuseWriteTerm, BeginWriteTerm,
              FinishWriteTerm, FailWriteTerm, ApplyWriteTerm

-----------------------------------------------------------------------------
\* The master.
LEMMA ReadLeaseTerm ==
  ASSUME TypeInv, TypeInv', TermInv, NEW c \in Client, ReadLease(c)
  PROVE  TermInv'
  <1>. DEFINE x == [op[c] EXCEPT !.pc = "sent",
                      !.lease = [until |-> lease, version |-> version,
                                 newversion |-> expectVersion]]
  <1>1. /\ op' = [op EXCEPT ![c] = x]
        /\ At(c, "granted")
        /\ UNCHANGED <<blk, disk, chan, version, expectVersion, spent>>
    BY DEF ReadLease, masterVars
  <1>2. op \in [Client -> {None} \cup Op]
    BY DEF TypeInv
  <1>3. op[c] \in Op /\ op[c] # None /\ op[c].pc = "granted"
    BY <1>1, <1>2 DEF At
  <1>4. x.pc = "sent" /\ x.lease.newversion = expectVersion
    BY <1>3 DEF Op
  <1>5. c \in Pending
    BY <1>3 DEF Pending
  <1>. HIDE DEF x
  <1>6. /\ \A d \in Client \ {c} : op'[d] = op[d]
        /\ op'[c] = x /\ Pending' \subseteq Pending
    BY <1>1, <1>2, <1>5, OnePending
  <1>7. PICK S : S = Grants
    OBVIOUS
  <1>8. KnownIn(S) /\ expectVersion \in S
    BY <1>7 DEF TermInv
  <1>9. CallsIn(S)'
    BY <1>4, <1>6, <1>8 DEF KnownIn, CallsIn
  <1>10. KnownIn(S)'
    BY <1>1, <1>8, <1>9 DEF KnownIn, BlocksIn, FilesIn, MailIn
  <1>. QED BY <1>1, <1>6, <1>7, <1>10, SameTerms

LEMMA VersionBeforeNext ==
  ASSUME NEW v \in Nat
  PROVE  v <= NextVersion(v)
  <1>1. CASE NextVersion(v) <= v
    <2>1. Term(v) + 1 <= Term(v) /\ Term(v) \in Nat
      BY <1>1, FirstOfTerm, TermsInOrder
    <2>. QED BY <2>1
  <1>. QED BY <1>1, FirstOfTerm

\* A lease in a new term, or the old one once more.
LEMMA AskLeaseTerm ==
  ASSUME TypeInv, TypeInv', TermInv, NEW c \in Client,
         NEW kind \in {"append", "write"}, AskLease(c, kind, 0)
  PROVE  TermInv'
  <1>1. PICK node, peers :
          op' = [op EXCEPT ![c] =
                   [pc |-> "granted", node |-> node, peers |-> peers, old |-> 0,
                    lease |-> [until |-> 0, version |-> 0, newversion |-> 0],
                    write |-> [kind |-> kind, offset |-> 0,
                               data |-> spent'.used.writes]]]
    BY DEF AskLease
  <1>. DEFINE y == [pc |-> "granted", node |-> node, peers |-> peers, old |-> 0,
                    lease |-> [until |-> 0, version |-> 0, newversion |-> 0],
                    write |-> [kind |-> kind, offset |-> 0,
                               data |-> spent'.used.writes]]
  <1>2. PICK x : /\ op' = [op EXCEPT ![c] = x]
                 /\ x.pc = "granted" /\ x.lease.newversion = 0
    <2>1. y.pc = "granted" /\ y.lease.newversion = 0
      OBVIOUS
    <2>. QED BY <1>1, <2>1
  <1>3. /\ op[c] = None /\ Spend("writes")
        /\ UNCHANGED <<blk, disk, chan>>
        /\ version' = version
        /\ expectVersion' \in {expectVersion, NextVersion(version)}
    <2>1. M!NextVersion(version) = NextVersion(version)
      BY DEF M!NextVersion, NextVersion, M!Term, Term
    <2>. QED BY <2>1 DEF AskLease, M!GrantLease, M!RepeatLease
  <1>4. /\ op \in [Client -> {None} \cup Op]
        /\ IsFiniteSet(Pending) /\ LeadInv
        /\ expectVersion \in Grants /\ 0 \in Grants
        /\ version \in Nat /\ expectVersion \in Nat /\ spent.used.writes \in Nat
        /\ spent'.used.writes = spent.used.writes + 1
    BY <1>3, SpentWrites, SpentOther DEF TypeInv, TermInv, Kinds
  <1>5. /\ \A d \in Client \ {c} : op'[d] = op[d]
        /\ op'[c] = x
        /\ Pending' \in {Pending \cup {c}, Pending \ {c}}
    BY <1>2, <1>4, OnePending
  <1>6. c \notin Pending /\ Pending' \in {Pending \cup {c}, Pending}
    BY <1>3, <1>5 DEF Pending
  <1>. DEFINE k == Cardinality(Pending)
              k2 == Cardinality(Pending')
  <1>7. IsFiniteSet(Pending') /\ k \in Nat /\ k2 \in {k, k + 1}
    BY <1>4, <1>6, FS_AddElement, FS_CardinalityType
  <1>. HIDE DEF k, k2
  <1>8. spent.used.writes - k <= spent'.used.writes - k2
        /\ 0 <= spent'.used.writes - k2
    <2>1. 0 % TermWidth \in Nat /\ 0 % TermWidth <= spent.used.writes - k
      BY <1>4, FirstOfTerm DEF Grants, k
    <2>. QED BY <1>4, <1>7, <2>1
  <1>9. LeadInv' /\ expectVersion <= expectVersion'
    <2>1. NextVersion(version) \in Nat /\ version <= NextVersion(version)
      BY <1>4, FirstOfTerm, VersionBeforeNext
    <2>. QED BY <1>3, <1>4, <2>1 DEF LeadInv
  <1>10. Grants \subseteq Grants'
    BY <1>4, <1>7, <1>8, <1>9, GrantsGrow DEF k, k2
  <1>11. expectVersion' \in Grants'
    <2>1. CASE expectVersion' = expectVersion
      BY <1>4, <1>10, <2>1
    <2>2. CASE expectVersion' = NextVersion(version)
      <3>1. /\ expectVersion' \in Nat /\ expectVersion' % TermWidth = 0
            /\ Term(expectVersion') \in Nat
        BY <1>4, <2>2, FirstOfTerm
      <3>. QED BY <1>8, <3>1 DEF Grants, k2
    <2>. QED BY <1>3, <2>1, <2>2
  <1>12. PICK S : S = Grants
    OBVIOUS
  <1>13. KnownIn(S) /\ 0 \in S
    BY <1>12 DEF TermInv
  <1>14. CallsIn(S)'
    BY <1>2, <1>5, <1>13 DEF KnownIn, CallsIn
  <1>15. KnownIn(S)'
    BY <1>3, <1>13, <1>14 DEF KnownIn, BlocksIn, FilesIn, MailIn
  <1>. QED BY <1>4, <1>7, <1>9, <1>10, <1>11, <1>12, <1>15, TermHolds

\* What the master hears of was granted.
LEMMA AbsorbTerm ==
  ASSUME TypeInv, TypeInv', TermInv, UNCHANGED <<blk, disk, op, spent>>,
         MailIn(chan', Grants),
         NEW v \in Grants, NEW sz, NEW fault,
         UNCHANGED <<version, expectVersion>> \/ M!Absorb(v, sz, fault)
  PROVE  TermInv'
  <1>1. /\ IsFiniteSet(Pending) /\ LeadInv
        /\ expectVersion \in Grants /\ 0 \in Grants
        /\ version \in Nat /\ expectVersion \in Nat
        /\ v \in Nat /\ spent.used.writes \in Nat
    BY SpentWrites DEF TermInv, Grants
  <1>2. \/ UNCHANGED <<version, expectVersion>>
        \/ /\ version' = Larger(version, v)
           /\ expectVersion' = Larger(expectVersion, v)
    BY DEF M!Absorb, M!Larger, Larger
  <1>3. Pending' = Pending
    BY DEF Pending
  <1>4. /\ NextVersion(version) \in Nat /\ NextVersion(v) \in Nat
        /\ v <= NextVersion(v)
        /\ version <= v => NextVersion(version) <= NextVersion(v)
    BY <1>1, FirstOfTerm, VersionBeforeNext, TermsInOrder
  <1>5. /\ LeadInv' /\ expectVersion <= expectVersion'
        /\ expectVersion' \in {expectVersion, v}
    <2>1. CASE UNCHANGED <<version, expectVersion>>
      BY <1>1, <2>1 DEF LeadInv
    <2>2. CASE /\ version' = Larger(version, v)
               /\ expectVersion' = Larger(expectVersion, v)
      <3>1. version' = (IF version < v THEN v ELSE version)
            /\ expectVersion' = (IF expectVersion < v THEN v ELSE expectVersion)
        BY <1>1, <2>2 DEF Larger
      <3>2. NextVersion(version') = (IF version < v THEN NextVersion(v)
                                                   ELSE NextVersion(version))
        BY <3>1
      <3>3. version <= expectVersion /\ expectVersion <= NextVersion(version)
        BY <1>1 DEF LeadInv
      <3>4. version' <= expectVersion' /\ expectVersion' <= NextVersion(version')
        BY <1>1, <1>4, <3>1, <3>2, <3>3
      <3>. QED BY <1>1, <3>1, <3>4 DEF LeadInv, NextVersion, Term
    <2>. QED BY <1>2, <2>1, <2>2
  <1>6. spent.used.writes - Cardinality(Pending) <=
           spent'.used.writes - Cardinality(Pending')
    BY <1>1, <1>3, FS_CardinalityType
  <1>7. Grants \subseteq Grants'
    BY <1>1, <1>3, <1>5, <1>6, GrantsGrow
  <1>8. PICK S : S = Grants
    OBVIOUS
  <1>9. KnownIn(S) /\ MailIn(chan', S)
    BY <1>8 DEF TermInv
  <1>10. KnownIn(S)'
    BY <1>9 DEF KnownIn, BlocksIn, FilesIn, CallsIn, MailIn
  <1>. QED BY <1>1, <1>3, <1>5, <1>7, <1>8, <1>10, TermHolds

LEMMA MasterHearsTerm ==
  ASSUME TypeInv, TypeInv', TermInv, NEW n \in Server,
         OnUpdate(n) \/ OnReport(n) \/ OnClean(n)
  PROVE  TermInv'
  <1>. DEFINE m == Head(chan[n][Master])
  <1>1. /\ chan' = Taken(n, Master)
        /\ UNCHANGED <<blk, disk, op, spent>>
        /\ chan[n][Master] # <<>>
    BY DEF OnUpdate, OnReport, OnClean, Hears, Receives
  <1>2. n \in Party /\ Master \in Party /\ MailIn(chan, Grants)
    BY WhatIsKnown DEF Party
  <1>3. Says(m) \subseteq Grants /\ MailIn(chan', Grants)
    <2>1. PICK S : S = Grants
      OBVIOUS
    <2>2. Says(m) \subseteq S /\ MailIn(Taken(n, Master), S)
      BY <1>1, <1>2, <2>1, TakenTells
    <2>. QED BY <1>1, <2>1, <2>2
  <1>4. \A type : Receives(Master, n, type) =>
                   m \in Mail(copied) /\ m.type = type
    BY <1>2, ReceivedMail
  <1>. HIDE DEF m
  <1>5. CASE UNCHANGED <<version, expectVersion>>
    BY <1>1, <1>3, <1>5, WhatIsKnown, MailKept
  <1>6. CASE OnUpdate(n) /\ M!UpdateReplica(n, m.version, m.size, m.fault)
    <2>1. m.type = "update" /\ m \in Updates
      BY <1>4, <1>6, MailOfType DEF OnUpdate, Hears
    <2>2. m.version \in Grants
      BY <1>3, <2>1 DEF Says, Updates
    <2>. QED BY <1>1, <1>3, <1>6, <2>2, AbsorbTerm DEF M!UpdateReplica
  <1>7. CASE OnReport(n)
    <2>1. m.type = "report" /\ m \in Reports
      BY <1>4, <1>7, MailOfType DEF OnReport, Hears
    <2>2. m.version \in Grants
      BY <1>3, <2>1 DEF Says, Reports
    <2>3. M!Absorb(m.version, m.size, FALSE)
      BY <1>7 DEF OnReport, m, M!ReportReplica, M!UpdateReplica, M!InsertReplica
    <2>. QED BY <1>1, <1>3, <2>2, <2>3, AbsorbTerm
  <1>8. CASE OnClean(n)
    BY <1>5, <1>8 DEF OnClean, M!ClearReplica
  <1>9. OnUpdate(n) => \/ UNCHANGED <<version, expectVersion>>
                       \/ M!UpdateReplica(n, m.version, m.size, m.fault)
    BY DEF OnUpdate, m, masterVars
  <1>. QED BY <1>5, <1>6, <1>7, <1>8, <1>9

\* Orders name no version that is taken over.
LEMMA OrdersTell ==
  ASSUME NEW cp, NEW S
  PROVE  /\ Tells(<<[type |-> "clean"]>>, S) /\ Tells(<<[type |-> "cleaned"]>>, S)
         /\ \A m \in Mail(cp) : m.type = "recover" => Tells(<<m>>, S)
  <1>1. \A m : m.type \in {"clean", "cleaned", "recover"} => Says(m) = {}
    BY DEF Says
  <1>2. [type |-> "clean"].type = "clean" /\ [type |-> "cleaned"].type = "cleaned"
    OBVIOUS
  <1>. QED BY <1>1, <1>2, TellsOne

LEMMA RepairTells ==
  ASSUME NEW cp, NEW s, NEW k \in Nat, NEW d \in [1..k -> Server],
         NEW cleaned, version \in Nat, now \in Nat, NEW S,
         NEW x \in DOMAIN Repair(s, d, cleaned)
  PROVE  Tells(Repair(s, d, cleaned)[x], S)
  <1>. DEFINE targets == {d[i] : i \in DOMAIN d}
              order == [type |-> "recover", version |-> version,
                        lease |-> now + RecoverLease, copyto |-> targets]
  <1>1. Repair(s, d, cleaned) =
          [y \in cleaned \cup {s} |-> IF y \in cleaned
             THEN Clean(cleaned)[y] \o IF y = s THEN <<order>> ELSE <<>>
             ELSE <<order>>]
    BY DEF Repair
  <1>2. order.type = "recover"
    OBVIOUS
  <1>3. Says(order) = {}
    <2>. HIDE DEF order
    <2>. QED BY <1>2 DEF Says
  <1>. HIDE DEF order
  <1>4. Tells(<<order>>, S) /\ Tells(<<>>, S)
    BY <1>3, TellsOne
  <1>5. x \in cleaned => Clean(cleaned)[x] = <<[type |-> "clean"]>>
    BY DEF Clean
  <1>. DEFINE X == {order, [type |-> "clean"]}
              more == IF x = s THEN <<order>> ELSE <<>>
  <1>6. /\ more \in Seq(X) /\ Tells(more, S)
        /\ <<[type |-> "clean"]>> \in Seq(X) /\ Tells(<<[type |-> "clean"]>>, S)
    BY <1>4, OneMail, OrdersTell
  <1>. HIDE DEF X, more
  <1>7. CASE x \in cleaned
    <2>1. Repair(s, d, cleaned)[x] = <<[type |-> "clean"]>> \o more
      BY <1>1, <1>5, <1>7 DEF more
    <2>. QED BY <1>6, <2>1, TellsJoined
  <1>8. CASE x \notin cleaned
    BY <1>1, <1>4, <1>8
  <1>. QED BY <1>7, <1>8

LEMMA CheckReplicaTerm ==
  ASSUME TypeInv, TypeInv', TermInv, CheckReplica
  PROVE  TermInv'
  <1>1. /\ Spend("checks")
        /\ UNCHANGED <<now, blk, disk, op, usable>>
    BY DEF CheckReplica
  <1>2. /\ M!TypeOK /\ chan \in Queues(copied) /\ Master \in Party
        /\ now \in Nat /\ version \in Nat
    BY RecordTypes DEF TypeInv, Party
  <1>3. spent'.used.writes = spent.used.writes
    BY <1>1, SpentOther DEF Kinds
  <1>4. PICK S : S = Grants
    OBVIOUS
  <1>5. MailIn(chan, S)
    BY <1>4, WhatIsKnown
  <1>6. UNCHANGED <<version, expectVersion>> /\ MailIn(chan', S)
    <2>1. ASSUME NEW d \in M!Placements({}, BlockCount), M!OrderRepair(d),
                 chan' = Sent(chan, Master,
                           Repair(replicas[M!MainReplica(replicas)].server, d,
                                  M!OtherServers))
          PROVE  UNCHANGED <<version, expectVersion>> /\ MailIn(chan', S)
      <3>1. PICK k \in Nat : d \in [1..k -> Server]
        BY <1>1, <1>2, <2>1, RepairRecord
      <3>. DEFINE s == replicas[M!MainReplica(replicas)].server
                  out == Repair(s, d, M!OtherServers)
      <3>2. \A x \in DOMAIN out : out[x] \in Seq(Mail(copied)) /\ Tells(out[x], S)
        <4>. HIDE DEF s
        <4>. QED BY <1>2, <3>1, RepairMail, RepairTells
      <3>3. chan' = Sent(chan, Master, out)
        BY <2>1
      <3>. HIDE DEF out
      <3>4. MailIn(chan', S)
        BY <1>2, <1>5, <3>2, <3>3, SentTells
      <3>. QED BY <2>1, <3>4 DEF M!OrderRepair
    <2>2. ASSUME NEW kept \in SUBSET M!Healthy, M!OrderCleanOnly,
                 chan' = Sent(chan, Master, Clean(M!CleanOrders(kept)))
          PROVE  UNCHANGED <<version, expectVersion>> /\ MailIn(chan', S)
      <3>. DEFINE out == Clean(M!CleanOrders(kept))
      <3>1. \A x \in DOMAIN out : out[x] \in Seq(Mail(copied)) /\ Tells(out[x], S)
        BY CleanMail, OrdersTell DEF Clean
      <3>2. chan' = Sent(chan, Master, out)
        BY <2>2
      <3>. HIDE DEF out
      <3>3. MailIn(chan', S)
        BY <1>2, <1>5, <3>1, <3>2, SentTells
      <3>. QED BY <2>2, <3>3 DEF M!OrderCleanOnly, M!masterVars
    <2>. QED BY <2>1, <2>2 DEF CheckReplica
  <1>. QED BY <1>1, <1>3, <1>4, <1>6, MailKept

\* The clock and the heartbeats.
LEMMA QuietTerm ==
  ASSUME TypeInv, TypeInv', TermInv,
         Tick \/ (\E n \in Server : TimeOut(n) \/ Heartbeat(n)) \/ UNCHANGED vars
  PROVE  TermInv'
  <1>1. UNCHANGED <<version, expectVersion, blk, disk, op, chan>>
    BY DEF Tick, TimeOut, Heartbeat, vars, nodeVars, masterVars
  <1>2. Spend("ticks") \/ spent' = spent
    BY DEF Tick, TimeOut, Heartbeat, vars
  <1>3. spent'.used.writes = spent.used.writes
    BY <1>2, SpentOther DEF Kinds
  <1>4. MailIn(chan, Grants)
    BY WhatIsKnown
  <1>. QED BY <1>1, <1>3, <1>4, MailKept

\* Messages that are sent again, or lost.
LEMMA PeriodicReportTerm ==
  ASSUME TypeInv, TypeInv', TermInv, NEW n \in Server, PeriodicReport(n)
  PROVE  TermInv'
  <1>1. /\ Spend("reports")
        /\ chan' = Sent(chan, n, To(Master, FullReport(blk[n])))
        /\ UNCHANGED <<version, expectVersion, blk, disk, op>>
    BY DEF PeriodicReport, ReportBlocks, masterVars
  <1>2. PICK S : S = Grants
    OBVIOUS
  <1>3. /\ chan \in Queues(copied) /\ blk[n] \in {None} \cup Block
        /\ n \in Party /\ MailIn(chan, S)
        /\ blk[n] # None => blk[n].version \in S
    BY <1>2, WhatIsKnown DEF Party
  <1>4. FullReport(blk[n]) \in Seq(Mail(copied)) /\ Tells(FullReport(blk[n]), S)
    BY <1>3, ReportMail, BlockTells
  <1>5. MailIn(chan', S)
    BY <1>1, <1>3, <1>4, SentToOneTells
  <1>6. spent'.used.writes = spent.used.writes
    BY <1>1, SpentOther DEF Kinds
  <1>. QED BY <1>1, <1>2, <1>5, <1>6, MailKept

LEMMA DropTerm ==
  ASSUME TypeInv, TypeInv', TermInv, NEW n \in Server, Drop(n)
  PROVE  TermInv'
  <1>1. PICK a \in Party : Reconnect(n, a)
    BY DEF Drop, Party
  <1>2. /\ Spend("drops")
        /\ UNCHANGED <<version, expectVersion, blk, disk, op>>
    BY <1>1 DEF Drop, Reconnect, masterVars
  <1>3. PICK in \in Survivors(a, n), out \in Survivors(n, a) :
          chan' = [chan EXCEPT ![a][n] = in,
                     ![n][a] = IF a = Master THEN FullReport(blk[n]) ELSE out]
    BY <1>1 DEF Reconnect
  <1>4. PICK S : S = Grants
    OBVIOUS
  <1>5. /\ chan \in Queues(copied) /\ blk[n] \in {None} \cup Block
        /\ n \in Party /\ MailIn(chan, S)
        /\ blk[n] # None => blk[n].version \in S
    BY <1>4, WhatIsKnown DEF Party
  <1>6. ASSUME NEW p \in Party, NEW q \in Party, NEW r \in Survivors(p, q)
        PROVE  Tells(r, S)
    <2>. DEFINE s == chan[p][q]
    <2>1. s \in Seq(Mail(copied)) /\ Tells(s, S)
      BY <1>5 DEF Queues, MailIn
    <2>2. r = <<>> \/ \E i \in 2..Len(s) + 1 : r = SubSeq(s, i, Len(s))
      BY <1>6 DEF Survivors
    <2>. HIDE DEF s
    <2>3. ASSUME NEW i \in 2..Len(s) + 1, r = SubSeq(s, i, Len(s))
          PROVE  Tells(r, S)
      <3>1. Len(s) \in Nat /\ i \in Int /\ Len(s) \in Int
        BY <2>1, LenProperties
      <3>2. \A j \in i..Len(s) : s[j] \in Mail(copied)
        BY <2>1, <3>1, ElementOfSeq, <2>3
      <3>3. /\ Len(r) = IF i <= Len(s) THEN Len(s) - i + 1 ELSE 0
            /\ \A j \in 1..Len(s) - i + 1 : r[j] = s[i + j - 1]
        BY <2>3, <3>1, <3>2, SubSeqProperties
      <3>4. \A j \in 1..Len(r) : r[j] = s[i + j - 1] /\ i + j - 1 \in 1..Len(s)
        BY <2>3, <3>1, <3>3
      <3>. QED BY <2>1, <3>4 DEF Tells
    <2>. QED BY <2>2, <2>3, TellsOne
  <1>. DEFINE out2 == IF a = Master THEN FullReport(blk[n]) ELSE out
  <1>7. Tells(in, S) /\ Tells(out2, S)
    BY <1>5, <1>6, BlockTells
  <1>8. chan' = [chan EXCEPT ![a][n] = in, ![n][a] = out2]
    BY <1>3
  <1>. HIDE DEF out2
  <1>9. \A p, q \in Party : chan'[p][q] \in {chan[p][q], in, out2}
    BY <1>5, <1>8 DEF Queues
  <1>10. MailIn(chan', S)
    BY <1>5, <1>7, <1>9 DEF MailIn
  <1>11. spent'.used.writes = spent.used.writes
    BY <1>2, SpentOther DEF Kinds
  <1>. QED BY <1>2, <1>4, <1>10, <1>11, MailKept

-----------------------------------------------------------------------------
\* The handlers of a node.
LEMMA ReceivedTells ==
  ASSUME TypeInv, TermInv, NEW n \in Party, NEW a \in Party, NEW type,
         Receives(n, a, type), NEW S, S = Grants
  PROVE  /\ Says(Head(chan[a][n])) \subseteq S
         /\ MailIn(Taken(a, n), S)
         /\ \A b \in {None} \cup Block :
              b # None /\ b.version \in S =>
                MailIn(Sent(Taken(a, n), n, To(Master, <<Update(b)>>)), S)
         /\ MailIn(Sent(Taken(a, n), n, To(Master, <<[type |-> "cleaned"]>>)), S)
  <1>1. chan[a][n] # <<>> /\ MailIn(chan, S)
    BY WhatIsKnown DEF Receives
  <1>2. Says(Head(chan[a][n])) \subseteq S /\ MailIn(Taken(a, n), S)
    BY <1>1, TakenTells
  <1>3. Taken(a, n) \in Queues(copied)
    BY ReceivedMail
  <1>4. ASSUME NEW b \in {None} \cup Block, b # None, b.version \in S
        PROVE  MailIn(Sent(Taken(a, n), n, To(Master, <<Update(b)>>)), S)
    <2>1. <<Update(b)>> \in Seq(Mail(copied)) /\ Tells(<<Update(b)>>, S)
      BY <1>4, ReportMail, BlockTells
    <2>. QED BY <1>2, <1>3, <2>1, SentToOneTells
  <1>5. MailIn(Sent(Taken(a, n), n, To(Master, <<[type |-> "cleaned"]>>)), S)
    <2>1. [type |-> "cleaned"] \in Mail(copied)
      BY DEF Mail, Cleans
    <2>2. <<[type |-> "cleaned"]>> \in Seq(Mail(copied))
      BY <2>1, OneMail
    <2>. QED BY <1>2, <1>3, <2>2, OrdersTell, SentToOneTells
  <1>. QED BY <1>2, <1>4, <1>5

LEMMA HandlerTerm ==
  ASSUME TypeInv, TypeInv', TermInv, UNCHANGED <<version, expectVersion, op>>,
         spent'.used.writes = spent.used.writes,
         NEW n \in Server, NEW nb, NEW nd,
         blk' = [blk EXCEPT ![n] = nb], disk' = [disk EXCEPT ![n] = nd],
         nb # None => nb.version \in Grants,
         nd.meta # None => nd.meta.version \in Grants,
         MailIn(chan', Grants)
  PROVE  TermInv'
  <1>1. /\ \A m \in Server \ {n} : blk'[m] = blk[m] /\ disk'[m] = disk[m]
        /\ blk'[n] = nb /\ disk'[n] = nd
    BY DEF TypeInv
  <1>2. Pending' = Pending
    BY DEF Pending
  <1>. QED BY <1>1, <1>2, NodeKept

LEMMA OnNotifyTerm ==
  ASSUME TypeInv, TypeInv', TermInv, NEW n \in Server, NEW a \in Party,
         NEW outcome \in Outcomes, OnNotify(n, a, outcome),
         UNCHANGED masterVars, spent'.used.writes = spent.used.writes
  PROVE  TermInv'
  <1>. DEFINE m == Head(chan[a][n])
              w == m.write
              known == blk[n] # None \/ w.kind = "append"
              old == IF blk[n] = None THEN Blank ELSE blk[n]
              b == BlkAfter(old, w, TRUE, m.new, outcome)
              nd == DiskAfter(disk[n], b, w, outcome)
  <1>1. /\ Receives(n, a, "notify")
        /\ UNCHANGED <<op, version, expectVersion>>
        /\ \/ /\ blk' = IF known THEN [blk EXCEPT ![n] = old] ELSE blk
              /\ chan' = Taken(a, n)
              /\ UNCHANGED disk
           \/ /\ Accepts(old, w, TRUE, m.old)
              /\ blk' = [blk EXCEPT ![n] = b]
              /\ disk' = [disk EXCEPT ![n] = nd]
              /\ chan' = IF outcome = "written"
                         THEN Sent(Taken(a, n), n, To(Master, <<Update(b)>>))
                         ELSE Taken(a, n)
    BY DEF OnNotify, masterVars
  <1>2. n \in Party /\ Master \in Party
    BY DEF Party
  <1>3. m \in Mail(copied) /\ m.type = "notify"
    BY <1>1, <1>2, ReceivedMail
  <1>4. PICK S : S = Grants
    OBVIOUS
  <1>5. /\ Says(m) \subseteq S /\ MailIn(Taken(a, n), S)
        /\ \A x \in {None} \cup Block :
             x # None /\ x.version \in S =>
               MailIn(Sent(Taken(a, n), n, To(Master, <<Update(x)>>)), S)
    BY <1>1, <1>2, <1>4, ReceivedTells
  <1>. HIDE DEF m
  <1>6. m.new \in Nat /\ m.new \in S /\ w \in Write /\ m.old <= m.new /\ m.old \in Nat
    BY <1>3, <1>5, MailOfType DEF Notifies, Says
  <1>7. /\ disk[n] \in Disk /\ disk \in [Server -> Disk]
        /\ blk \in [Server -> {None} \cup Block]
        /\ disk[n].meta # None => disk[n].meta.version \in S
        /\ blk[n] \in {None} \cup Block
        /\ blk[n] # None => blk[n].version \in S
        /\ 0 \in S
    BY <1>4, WhatIsKnown DEF TypeInv
  <1>8. old \in Block /\ old # None /\ old.version \in S
    BY <1>7, BlankBlock DEF Blank
  <1>9. b.version \in {old.version, m.new}
    <2>. HIDE DEF old, w
    <2>. QED BY <1>6, <1>8, NotifiedVersion
  <1>10. nd.meta \in {disk[n].meta, [version |-> b.version, size |-> b.size]}
    <2>. HIDE DEF b, w
    <2>. QED BY WrittenMeta
  <1>11. /\ b = BlkAfter(old, w, TRUE, m.new, outcome)
         /\ disk' = disk => disk' = [disk EXCEPT ![n] = disk[n]]
    BY <1>7
  <1>. HIDE DEF w, old, b, nd
  <1>12. CASE /\ blk' = IF known THEN [blk EXCEPT ![n] = old] ELSE blk
              /\ chan' = Taken(a, n)
              /\ UNCHANGED disk
    <2>1. CASE known
      BY <1>1, <1>4, <1>5, <1>7, <1>8, <1>11, <1>12, <2>1, HandlerTerm
    <2>2. CASE ~known
      BY <1>1, <1>4, <1>5, <1>12, <2>2, MailKept
    <2>. QED BY <2>1, <2>2
  <1>13. CASE /\ Accepts(old, w, TRUE, m.old)
              /\ blk' = [blk EXCEPT ![n] = b]
              /\ disk' = [disk EXCEPT ![n] = nd]
              /\ chan' = IF outcome = "written"
                         THEN Sent(Taken(a, n), n, To(Master, <<Update(b)>>))
                         ELSE Taken(a, n)
    <2>1. b.version \in S
      BY <1>6, <1>8, <1>9
    <2>2. old.recover = None /\ old.version <= m.new
      BY <1>6, <1>13 DEF Accepts
    <2>3. Written(old, b, w, outcome)
      BY <1>6, <1>8, <1>11, <2>2, NotifiedBlock
    <2>4. b \in Block /\ b # None
      BY <2>3, NoneAssumption DEF Written
    <2>5. MailIn(chan', S)
      BY <1>5, <1>13, <2>1, <2>4
    <2>6. nd.meta # None => nd.meta.version \in S
      BY <1>7, <1>10, <2>1
    <2>. QED BY <1>1, <1>4, <1>13, <2>1, <2>5, <2>6, HandlerTerm
  <1>. QED BY <1>1, <1>12, <1>13

LEMMA OnRecoverBlockStartTerm ==
  ASSUME TypeInv, TypeInv', TermInv, NEW n \in Server, NEW a \in Party,
         OnRecoverBlockStart(n, a), UNCHANGED <<masterVars, spent>>
  PROVE  TermInv'
  <1>. DEFINE m == Head(chan[a][n])
              b == IF blk[n] = None THEN Blank ELSE blk[n]
              nb == NewRecover(b, m)
              nd == [disk[n] EXCEPT !.file = Resized(@, m.size)]
  <1>1. /\ Receives(n, a, "start")
        /\ UNCHANGED <<op, version, expectVersion, spent>>
        /\ chan' = Taken(a, n)
        /\ \/ /\ blk' = [blk EXCEPT ![n] = nb]
              /\ disk' = [disk EXCEPT ![n] = nd]
           \/ /\ blk' = [blk EXCEPT ![n] = b]
              /\ UNCHANGED disk
    BY DEF OnRecoverBlockStart, masterVars
  <1>2. MailIn(chan', Grants)
    <2>1. PICK S : S = Grants
      OBVIOUS
    <2>2. MailIn(Taken(a, n), S)
      BY <1>1, <2>1, ReceivedTells DEF Party
    <2>. QED BY <1>1, <2>1, <2>2
  <1>3. /\ disk[n] \in Disk /\ disk \in [Server -> Disk]
        /\ disk[n].meta # None => disk[n].meta.version \in Grants
        /\ blk[n] \in {None} \cup Block
        /\ blk[n] # None => blk[n].version \in Grants
        /\ 0 \in Grants
    BY WhatIsKnown DEF TypeInv
  <1>4. b \in Block /\ b.version \in Grants
    BY <1>3, BlankBlock DEF Blank
  <1>. HIDE DEF b, m
  <1>5. nb.version = b.version /\ nd.meta = disk[n].meta
    BY <1>3, <1>4 DEF NewRecover, Block, Disk
  <1>. HIDE DEF nb, nd
  <1>6. disk' = disk => disk' = [disk EXCEPT ![n] = disk[n]]
    BY <1>3
  <1>. QED BY <1>1, <1>2, <1>3, <1>4, <1>5, <1>6, HandlerTerm

LEMMA OnRecoverBlockDataTerm ==
  ASSUME TypeInv, TypeInv', TermInv, NEW n \in Server, NEW a \in Party,
         NEW outcome, OnRecoverBlockData(n, a, outcome),
         UNCHANGED masterVars, spent'.used.writes = spent.used.writes
  PROVE  TermInv'
  <1>. DEFINE m == Head(chan[a][n])
              w == [kind |-> "write", offset |-> m.offset, data |-> m.data]
              nb == [blk[n] EXCEPT !.recover.got = @ \cup {m.offset}]
              nd == [disk[n] EXCEPT !.file = Stored(@, w, m.data)]
              nt == [disk[n] EXCEPT !.file = Stored(@, w, Torn)]
  <1>1. /\ Receives(n, a, "data")
        /\ UNCHANGED <<op, version, expectVersion>>
        /\ chan' = Taken(a, n)
        /\ \/ UNCHANGED <<blk, disk>>
           \/ /\ blk[n] # None
              /\ blk' = [blk EXCEPT ![n] = nb]
              /\ disk' = [disk EXCEPT ![n] = nd]
           \/ /\ disk' = [disk EXCEPT ![n] = nt]
              /\ UNCHANGED blk
    BY DEF OnRecoverBlockData, masterVars, WantsData
  <1>2. MailIn(chan', Grants)
    <2>1. PICK S : S = Grants
      OBVIOUS
    <2>2. MailIn(Taken(a, n), S)
      BY <1>1, <2>1, ReceivedTells DEF Party
    <2>. QED BY <1>1, <2>1, <2>2
  <1>3. /\ disk[n] \in Disk /\ disk \in [Server -> Disk]
        /\ blk \in [Server -> {None} \cup Block]
        /\ disk[n].meta # None => disk[n].meta.version \in Grants
        /\ blk[n] \in {None} \cup Block
        /\ blk[n] # None => blk[n].version \in Grants
    BY WhatIsKnown DEF TypeInv
  <1>. HIDE DEF m, w
  <1>4. /\ blk[n] # None => nb.version = blk[n].version
        /\ nd.meta = disk[n].meta /\ nt.meta = disk[n].meta
    BY <1>3 DEF Block, Disk
  <1>. HIDE DEF nb, nd, nt
  <1>5. blk' = blk => blk' = [blk EXCEPT ![n] = blk[n]]
    BY <1>3
  <1>6. CASE UNCHANGED <<blk, disk>>
    BY <1>1, <1>2, <1>6, MailKept
  <1>7. CASE /\ blk[n] # None
             /\ blk' = [blk EXCEPT ![n] = nb]
             /\ disk' = [disk EXCEPT ![n] = nd]
    BY <1>1, <1>2, <1>3, <1>4, <1>7, HandlerTerm
  <1>8. CASE /\ disk' = [disk EXCEPT ![n] = nt]
             /\ UNCHANGED blk
    BY <1>1, <1>2, <1>3, <1>4, <1>5, <1>8, HandlerTerm
  <1>. QED BY <1>1, <1>6, <1>7, <1>8

LEMMA OnRecoverBlockCompleteTerm ==
  ASSUME TypeInv, TypeInv', TermInv, NEW n \in Server, NEW a \in Party,
         NEW outcome, OnRecoverBlockComplete(n, a, outcome),
         UNCHANGED masterVars, spent'.used.writes = spent.used.writes
  PROVE  TermInv'
  <1>. DEFINE m == Head(chan[a][n])
              b == [blk[n] EXCEPT !.version = m.version,
                                  !.size = blk[n].recover.size,
                                  !.recover = None]
              nd == [disk[n] EXCEPT !.meta = [version |-> b.version,
                                              size |-> b.size]]
              more == Sent(Taken(a, n), n, To(Master, <<Update(b)>>))
  <1>1. /\ Receives(n, a, "complete")
        /\ UNCHANGED <<op, version, expectVersion>>
        /\ \/ /\ chan' = Taken(a, n)
              /\ UNCHANGED <<blk, disk>>
           \/ /\ Completes(blk[n], m)
              /\ blk' = [blk EXCEPT ![n] = b]
              /\ \/ /\ disk' = [disk EXCEPT ![n] = nd]
                    /\ chan' = more
                 \/ /\ chan' = Taken(a, n)
                    /\ UNCHANGED disk
    BY DEF OnRecoverBlockComplete, masterVars
  <1>2. n \in Party /\ Master \in Party
    BY DEF Party
  <1>3. m \in Mail(copied) /\ m.type = "complete"
    BY <1>1, <1>2, ReceivedMail
  <1>4. PICK S : S = Grants
    OBVIOUS
  <1>5. /\ Says(m) \subseteq S /\ MailIn(Taken(a, n), S)
        /\ \A x \in {None} \cup Block :
             x # None /\ x.version \in S =>
               MailIn(Sent(Taken(a, n), n, To(Master, <<Update(x)>>)), S)
    BY <1>1, <1>2, <1>4, ReceivedTells
  <1>. HIDE DEF m
  <1>6. m.version \in Nat /\ m.version \in S
    BY <1>3, <1>5, MailOfType DEF Completions, Says
  <1>7. /\ disk[n] \in Disk /\ disk \in [Server -> Disk]
        /\ disk[n].meta # None => disk[n].meta.version \in S
        /\ blk[n] \in {None} \cup Block
    BY <1>4, WhatIsKnown DEF TypeInv
  <1>8. CASE /\ chan' = Taken(a, n)
             /\ UNCHANGED <<blk, disk>>
    BY <1>1, <1>4, <1>5, <1>8, MailKept
  <1>9. CASE /\ Completes(blk[n], m)
             /\ blk' = [blk EXCEPT ![n] = b]
             /\ \/ /\ disk' = [disk EXCEPT ![n] = nd]
                   /\ chan' = more
                \/ /\ chan' = Taken(a, n)
                   /\ UNCHANGED disk
    <2>1. /\ blk[n] \in Block /\ blk[n].recover # None
          /\ blk[n].recover \in Recovery
      BY <1>7, <1>9 DEF Completes, WantsData, Block
    <2>2. b = [version |-> m.version, size |-> blk[n].recover.size,
               refs |-> blk[n].refs, recover |-> None]
      BY <2>1, RecoveredBlock
    <2>3. more = Sent(Taken(a, n), n, To(Master, <<Update(b)>>))
      OBVIOUS
    <2>. HIDE DEF b, more
    <2>4. b \in Block /\ b # None /\ b.version = m.version
      BY <1>6, <2>1, <2>2, NoneAssumption DEF Block, Recovery
    <2>5. MailIn(chan', S)
      BY <1>5, <1>6, <1>9, <2>3, <2>4
    <2>6. nd.meta.version = m.version
      BY <1>7, <2>4 DEF Disk
    <2>. HIDE DEF nd
    <2>7. disk' = disk => disk' = [disk EXCEPT ![n] = disk[n]]
      BY <1>7
    <2>. QED BY <1>1, <1>4, <1>6, <1>7, <1>9, <2>4, <2>5, <2>6, <2>7, HandlerTerm
  <1>. QED BY <1>1, <1>8, <1>9

LEMMA FromNodeTerm ==
  ASSUME TypeInv, TypeInv', TermInv, NEW n \in Server, NEW a \in Server,
         FromNode(n, a)
  PROVE  TermInv'
  <1>1. /\ UNCHANGED <<masterVars, spent>> /\ UNCHANGED masterVars
        /\ spent'.used.writes = spent.used.writes
    BY DEF FromNode
  <1>2. "written" \in Outcomes /\ a \in Party
    BY DEF Outcomes, Party
  <1>3. \/ OnNotify(n, a, "written")
        \/ OnRecoverBlockStart(n, a)
        \/ OnRecoverBlockData(n, a, "written")
        \/ OnRecoverBlockComplete(n, a, "written")
    BY DEF FromNode
  <1>. QED BY <1>1, <1>2, <1>3, OnNotifyTerm, OnRecoverBlockStartTerm,
              OnRecoverBlockDataTerm, OnRecoverBlockCompleteTerm

LEMMA FaultyStepTerm ==
  ASSUME IInv, TypeInv', TermInv, TermsLast, FaultyStep
  PROVE  TermInv'
  <1>1. Spend("faults") /\ UNCHANGED masterVars
    BY DEF FaultyStep
  <1>2. TypeInv /\ Server \subseteq Party
    BY DEF IInv, Party
  <1>3. spent'.used.writes = spent.used.writes
    BY <1>1, <1>2, SpentOther DEF Kinds
  <1>4. PICK outcome \in Outcomes :
          \/ \E c \in Client : FailWrite(c, outcome)
          \/ \E n, a \in Server : \/ OnNotify(n, a, outcome)
                                  \/ OnRecoverBlockData(n, a, outcome)
                                  \/ OnRecoverBlockComplete(n, a, outcome)
    BY DEF FaultyStep
  <1>5. \A c \in Client : FailWrite(c, outcome) => TermInv'
    BY <1>1, <1>3, FailWriteTerm
  <1>6. \A n, a \in Server :
          /\ OnNotify(n, a, outcome) => TermInv'
          /\ OnRecoverBlockData(n, a, outcome) => TermInv'
          /\ OnRecoverBlockComplete(n, a, outcome) => TermInv'
    BY <1>1, <1>2, <1>3, OnNotifyTerm, OnRecoverBlockDataTerm,
       OnRecoverBlockCompleteTerm
  <1>. QED BY <1>4, <1>5, <1>6

\* The orders of the master, and the copies that they make a node send.
LEMMA FromMasterTerm ==
  ASSUME TypeInv, TypeInv', TermInv, NEW n \in Server, FromMaster(n)
  PROVE  TermInv'
  <1>1. /\ UNCHANGED <<version, expectVersion, op, spent>>
        /\ OnRecoverBlock(n) \/ OnCleanBlock(n)
    BY DEF FromMaster, OnRecoverBlock, OnCleanBlock, masterVars
  <1>2. PICK S : S = Grants
    OBVIOUS
  <1>3. /\ disk \in [Server -> Disk]
        /\ disk[n].meta # None => disk[n].meta.version \in S
        /\ blk[n] \in {None} \cup Block
        /\ blk[n] # None => blk[n].version \in S
        /\ n \in Party /\ Master \in Party
    BY <1>2, WhatIsKnown DEF TypeInv, Party
  <1>4. CASE OnRecoverBlock(n)
    <2>1. PICK refs :
            /\ Receives(n, Master, "recover")
            /\ chan' = Taken(Master, n)
            /\ UNCHANGED disk
            /\ \/ UNCHANGED blk
               \/ /\ blk[n] # None
                  /\ blk' = [blk EXCEPT ![n] = [blk[n] EXCEPT !.refs = refs]]
      BY <1>4 DEF OnRecoverBlock
    <2>2. MailIn(chan', S)
      BY <1>2, <1>3, <2>1, ReceivedTells
    <2>3. CASE UNCHANGED blk
      BY <1>1, <1>2, <2>1, <2>2, <2>3, MailKept
    <2>4. CASE /\ blk[n] # None
               /\ blk' = [blk EXCEPT ![n] = [blk[n] EXCEPT !.refs = refs]]
      <3>1. PICK nb : nb = [blk[n] EXCEPT !.refs = refs]
        OBVIOUS
      <3>2. nb.version \in S
        BY <1>3, <2>4, <3>1 DEF Block
      <3>3. disk' = [disk EXCEPT ![n] = disk[n]]
        BY <1>3, <2>1
      <3>. QED BY <1>1, <1>2, <1>3, <2>2, <2>4, <3>1, <3>2, <3>3, HandlerTerm
    <2>. QED BY <2>1, <2>3, <2>4
  <1>5. CASE OnCleanBlock(n)
    <2>1. /\ Receives(n, Master, "clean")
          /\ \/ /\ chan' = Taken(Master, n)
                /\ UNCHANGED <<blk, disk>>
             \/ /\ blk' = [blk EXCEPT ![n] = None]
                /\ disk' = [disk EXCEPT ![n] = [file |-> None, meta |-> None]]
                /\ chan' = Sent(Taken(Master, n), n,
                                To(Master, <<[type |-> "cleaned"]>>))
      BY <1>5 DEF OnCleanBlock
    <2>2. MailIn(chan', S)
      BY <1>2, <1>3, <2>1, ReceivedTells
    <2>3. CASE UNCHANGED <<blk, disk>>
      BY <1>1, <1>2, <2>2, <2>3, MailKept
    <2>4. CASE /\ blk' = [blk EXCEPT ![n] = None]
               /\ disk' = [disk EXCEPT ![n] = [file |-> None, meta |-> None]]
      <3>1. PICK nd : nd = [file |-> None, meta |-> None]
        OBVIOUS
      <3>2. nd.meta = None
        BY <3>1
      <3>. QED BY <1>1, <1>2, <2>2, <2>4, <3>1, <3>2, HandlerTerm
    <2>. QED BY <2>1, <2>3, <2>4
  <1>. QED BY <1>1, <1>4, <1>5

LEMMA CopyTells ==
  ASSUME NEW b \in Block, NEW f, NEW S, b.version \in S
  PROVE  Tells(Copy(b, f), S)
  <1>1. b.version \in Nat /\ b.size \in Nat
    BY DEF Block
  <1>. DEFINE first == [type |-> "start", version |-> b.version, size |-> b.size]
              last == [type |-> "complete", version |-> b.version]
              batch(i) == [type |-> "data", version |-> b.version,
                           offset |-> i - 1, data |-> f[i]]
              body == [i \in 1..b.size |-> batch(i)]
              X == {first, last} \cup {batch(i) : i \in 1..b.size}
  <1>2. Says(first) = {} /\ Says(last) \subseteq S /\ \A i : Says(batch(i)) = {}
    BY DEF Says
  <1>3. Copy(b, f) = <<first>> \o body \o <<last>>
    BY DEF Copy
  <1>4. /\ first \in X /\ last \in X
        /\ \A i \in 1..b.size : batch(i) \in X
    <2>. HIDE DEF first, last, batch
    <2>. QED OBVIOUS
  <1>. HIDE DEF first, last, batch, X
  <1>5. body \in Seq(X) /\ Len(body) = b.size
    BY <1>1, <1>4
  <1>6. Tells(body, S)
    BY <1>2, <1>5 DEF Tells
  <1>. HIDE DEF body
  <1>7. /\ <<first>> \in Seq(X) /\ <<last>> \in Seq(X)
        /\ Tells(<<first>>, S) /\ Tells(<<last>>, S)
    BY <1>2, <1>4, OneMail, TellsOne
  <1>8. <<first>> \o body \in Seq(X) /\ Tells(<<first>> \o body, S)
    BY <1>5, <1>6, <1>7, ConcatProperties, TellsJoined
  <1>. QED BY <1>3, <1>7, <1>8, TellsJoined

LEMMA CopyOutTerm ==
  ASSUME IInv, TypeInv', TermInv, NEW n \in Server, CopyOut(n)
  PROVE  TermInv'
  <1>1. PICK t \in tasks[n] :
          /\ RunRecover(n, t)
          /\ copied' = IF chan' = chan THEN copied
                       ELSE copied \cup {[version |-> blk[n].version,
                                          data |-> disk[n].file]}
    BY DEF CopyOut
  <1>2. /\ UNCHANGED <<version, expectVersion, op, spent, disk>>
        /\ TypeInv /\ n \in Party /\ NodeInv(n)
    BY <1>1 DEF CopyOut, RunRecover, masterVars, IInv, Party, NodesInv
  <1>3. PICK S : S = Grants
    OBVIOUS
  <1>4. /\ disk \in [Server -> Disk] /\ disk[n] \in Disk
        /\ blk \in [Server -> {None} \cup Block]
        /\ disk[n].meta # None => disk[n].meta.version \in S
        /\ blk[n] \in {None} \cup Block
        /\ blk[n] # None => blk[n].version \in S
        /\ MailIn(chan, S) /\ chan \in Queues(copied)
    BY <1>2, <1>3, WhatIsKnown DEF TypeInv
  <1>5. blk[n] # None
    BY <1>2, HeldByUsers DEF NodeInv, TypeInv
  <1>6. /\ blk' = blk \/ blk' = [blk EXCEPT ![n] = Released(blk[n])]
        /\ chan' # chan =>
             /\ disk[n].file # None /\ Len(disk[n].file) = blk[n].size
             /\ chan' = Sent(chan, n, To(t.to, Copy(blk[n], disk[n].file)))
    BY <1>1 DEF RunRecover
  <1>7. MailIn(chan', S)
    <2>1. CASE chan' # chan
      <3>1. disk[n].file \in Seq(Int)
        BY <1>4, <1>6, <2>1 DEF Disk
      <3>2. [version |-> blk[n].version, data |-> disk[n].file] \in copied'
        BY <1>1, <2>1
      <3>3. Copy(blk[n], disk[n].file) \in Seq(Mail(copied'))
        BY <1>4, <1>5, <1>6, <2>1, <3>1, <3>2, CopyMail
      <3>4. Tells(Copy(blk[n], disk[n].file), S)
        BY <1>4, <1>5, CopyTells
      <3>5. chan \in Queues(copied')
        BY <1>1, <1>4, MoreCopies
      <3>. QED BY <1>2, <1>4, <1>6, <2>1, <3>3, <3>4, <3>5, SentToOneTells
    <2>. QED BY <1>4, <2>1
  <1>8. CASE blk' = blk
    BY <1>2, <1>3, <1>7, <1>8, MailKept
  <1>9. CASE blk' = [blk EXCEPT ![n] = Released(blk[n])]
    <2>1. Released(blk[n]).version \in S
      BY <1>4, <1>5, ReleasedVersion
    <2>2. disk' = [disk EXCEPT ![n] = disk[n]]
      BY <1>2, <1>4
    <2>. QED BY <1>2, <1>3, <1>4, <1>7, <1>9, <2>1, <2>2, HandlerTerm
  <1>. QED BY <1>6, <1>8, <1>9

-----------------------------------------------------------------------------
\* A node stops, and starts again.
LEMMA StopsTerm ==
  ASSUME TypeInv, TypeInv', TermInv, UNCHANGED <<version, expectVersion>>,
         spent'.used.writes = spent.used.writes,
         NEW n \in Server, Stops(n), NEW nd, disk' = [disk EXCEPT ![n] = nd],
         nd.meta \in {None, disk[n].meta}
  PROVE  TermInv'
  <1>1. /\ blk' = [blk EXCEPT ![n] = None]
        /\ op' = [c \in Client |->
                    IF (At(c, "begun") \/ At(c, "applied")) /\ op[c].node = n
                    THEN None ELSE op[c]]
        /\ chan' = [a \in DOMAIN chan |-> [b \in DOMAIN chan |->
                      IF n \in {a, b} THEN <<>> ELSE chan[a][b]]]
    BY DEF Stops
  <1>2. PICK S : S = Grants
    OBVIOUS
  <1>3. /\ blk \in [Server -> {None} \cup Block] /\ disk \in [Server -> Disk]
        /\ DOMAIN chan = Party /\ MailIn(chan, S)
        /\ disk[n].meta # None => disk[n].meta.version \in S
    BY <1>2, WhatIsKnown DEF TypeInv, Queues
  <1>4. MailIn(chan', S)
    <2>1. ASSUME NEW a \in Party, NEW b \in Party
          PROVE  Tells(chan'[a][b], S)
      <3>1. chan'[a][b] = IF n \in {a, b} THEN <<>> ELSE chan[a][b]
        BY <1>1, <1>3
      <3>2. Tells(chan[a][b], S) /\ Tells(<<>>, S)
        BY <1>3, TellsOne DEF MailIn
      <3>. QED BY <3>1, <3>2
    <2>. QED BY <2>1 DEF MailIn
  <1>5. \A c \in Client : op'[c] \in {None, op[c]}
    BY <1>1
  <1>6. Pending' \subseteq Pending
    BY <1>5 DEF Pending
  <1>7. /\ \A m \in Server \ {n} : blk'[m] = blk[m] /\ disk'[m] = disk[m]
        /\ blk'[n] = None /\ disk'[n] = nd
    BY <1>1, <1>3
  <1>. QED BY <1>2, <1>3, <1>4, <1>5, <1>6, <1>7, NodeKept

LEMMA StopTerm ==
  ASSUME TypeInv, TypeInv', TermInv, Stop
  PROVE  TermInv'
  <1>1. Spend("stops") /\ UNCHANGED <<version, expectVersion>>
    BY DEF Stop, masterVars
  <1>2. spent'.used.writes = spent.used.writes /\ disk \in [Server -> Disk]
    BY <1>1, SpentOther DEF Kinds, TypeInv
  <1>. DEFINE Leaves(n) ==
                \/ disk' = disk
                \/ disk' = [disk EXCEPT ![n].file = None]
                \/ \E b, w : \E outcome \in {"no_meta", "torn_data"} :
                     disk' = [disk EXCEPT ![n] = DiskAfter(@, b, w, outcome)]
  <1>3. \E n \in Server : Stops(n) /\ Leaves(n)
    <2>1. ASSUME NEW n \in Server,
                 Crash(n) \/ CrashInClean(n) \/ \E t \in tasks[n] : CrashInRecover(n, t)
          PROVE  Stops(n) /\ Leaves(n)
      BY <2>1 DEF Crash, CrashInClean, CrashInRecover
    <2>2. ASSUME NEW c \in Client, NEW outcome, CrashInWrite(c, outcome)
          PROVE  op[c].node \in Server /\ Stops(op[c].node) /\ Leaves(op[c].node)
      <3>1. op[c].node \in Server
        BY <2>2 DEF CrashInWrite, TypeInv, At, Op
      <3>. QED BY <2>2, <3>1 DEF CrashInWrite
    <2>3. ASSUME NEW n \in Server, NEW a \in Server, NEW outcome,
                 CrashInNotify(n, a, outcome)
          PROVE  Stops(n) /\ Leaves(n)
      BY <2>3 DEF CrashInNotify
    <2>. HIDE DEF Leaves
    <2>. QED BY <2>1, <2>2, <2>3 DEF Stop
  <1>4. PICK n \in Server : Stops(n) /\ Leaves(n)
    BY <1>3
  <1>5. PICK nd : disk' = [disk EXCEPT ![n] = nd] /\ nd.meta = disk[n].meta
    <2>1. CASE disk' = disk
      <3>1. disk' = [disk EXCEPT ![n] = disk[n]]
        BY <1>2, <2>1
      <3>. QED BY <3>1
    <2>2. CASE disk' = [disk EXCEPT ![n].file = None]
      <3>1. PICK nd : nd = [disk[n] EXCEPT !.file = None]
        OBVIOUS
      <3>2. nd.meta = disk[n].meta
        BY <1>2, <1>4, <3>1 DEF Disk
      <3>. QED BY <2>2, <3>1, <3>2
    <2>3. ASSUME NEW b, NEW w, NEW outcome \in {"no_meta", "torn_data"},
                 disk' = [disk EXCEPT ![n] = DiskAfter(@, b, w, outcome)]
          PROVE  \E nd : disk' = [disk EXCEPT ![n] = nd] /\ nd.meta = disk[n].meta
      <3>1. DiskAfter(disk[n], b, w, outcome).meta = disk[n].meta
        BY DEF DiskAfter
      <3>. QED BY <2>3, <3>1
    <2>. QED BY <1>4, <2>1, <2>2, <2>3
  <1>. QED BY <1>1, <1>2, <1>4, <1>5, StopsTerm

LEMMA StartTerm ==
  ASSUME TypeInv, TypeInv', TermInv, NEW n \in Server, Start(n)
  PROVE  TermInv'
  <1>0. PICK b : b = Scanned(disk[n])
    OBVIOUS
  <1>1. /\ ~(disk[n].meta # None /\ disk[n].file = None)
        /\ blk' = [blk EXCEPT ![n] = b]
        /\ disk' = IF b = None THEN disk
                   ELSE [disk EXCEPT ![n].file = SubSeq(@, 1, b.size)]
        /\ chan' = [chan EXCEPT ![n][Master] = @ \o FullReport(b)]
        /\ UNCHANGED <<op, version, expectVersion, spent>>
    BY <1>0 DEF Start, Restart, masterVars
  <1>2. PICK S : S = Grants
    OBVIOUS
  <1>3. /\ disk \in [Server -> Disk] /\ disk[n] \in Disk
        /\ disk[n].meta # None => disk[n].meta.version \in S
        /\ MailIn(chan, S) /\ chan \in Queues(copied)
        /\ n \in Party /\ Master \in Party
    BY <1>2, WhatIsKnown DEF TypeInv, Party
  <1>4. b # None => /\ b \in Block
                    /\ disk[n].meta = [version |-> b.version, size |-> b.size]
    BY <1>0, <1>1, <1>3, ScannedBlock
  <1>5. b # None => b.version \in S
    <2>1. b # None => disk[n].meta # None
      BY <1>0 DEF Scanned
    <2>. QED BY <1>3, <1>4, <2>1
  <1>6. MailIn(chan', S)
    <2>1. FullReport(b) \in Seq(Mail(copied)) /\ Tells(FullReport(b), S)
      BY <1>4, <1>5, ReportMail, BlockTells
    <2>2. chan[n][Master] \in Seq(Mail(copied)) /\ Tells(chan[n][Master], S)
      BY <1>3 DEF Queues, MailIn
    <2>3. Tells(chan[n][Master] \o FullReport(b), S)
      BY <2>1, <2>2, TellsJoined
    <2>4. \A p, q \in Party :
            chan'[p][q] \in {chan[p][q], chan[n][Master] \o FullReport(b)}
      BY <1>1, <1>3 DEF Queues
    <2>. QED BY <1>3, <2>3, <2>4 DEF MailIn
  <1>7. PICK nd : disk' = [disk EXCEPT ![n] = nd] /\ nd.meta = disk[n].meta
    <2>1. CASE b = None
      <3>1. disk' = [disk EXCEPT ![n] = disk[n]]
        BY <1>1, <1>3, <2>1
      <3>. QED BY <3>1
    <2>2. CASE b # None
      <3>1. PICK nd : nd = [disk[n] EXCEPT !.file = SubSeq(@, 1, b.size)]
        OBVIOUS
      <3>2. nd.meta = disk[n].meta
        BY <1>3, <3>1 DEF Disk
      <3>. QED BY <1>1, <2>2, <3>1, <3>2
    <2>. QED BY <2>1, <2>2
  <1>. QED BY <1>1, <1>2, <1>3, <1>5, <1>6, <1>7, HandlerTerm

-----------------------------------------------------------------------------
\* The invariant of terms.
LEMMA InitTermInv ==
  ASSUME Init
  PROVE  TermInv
  <1>1. /\ version = 0 /\ expectVersion = 0
        /\ spent \in [budget : Budgets, used : {[what \in Kinds |-> 0]}]
        /\ blk = [n \in Server |-> None]
        /\ disk = [n \in Server |-> [file |-> None, meta |-> None]]
        /\ op = [c \in Client |-> None]
        /\ chan = [a \in Party |-> [b \in Party |-> <<>>]]
    BY DEF Init, M!MasterInit, NodeInit, Party
  <1>2. Pending = {}
    BY <1>1 DEF Pending
  <1>3. IsFiniteSet(Pending) /\ Cardinality(Pending) = 0
    BY <1>2, FS_EmptySet
  <1>4. LeadInv
    BY <1>1, VersionBeforeNext DEF LeadInv
  <1>5. 0 \in Grants /\ expectVersion \in Grants
    <2>1. spent.used.writes = 0
      BY <1>1 DEF Kinds
    <2>2. Term(0) \in Nat /\ 0 % TermWidth = 0
      BY TermWidthAssumption, FirstOfTerm
    <2>. QED BY <1>1, <1>3, <2>1, <2>2 DEF Grants
  <1>6. KnownIn(Grants)
    BY <1>1, TellsOne DEF KnownIn, BlocksIn, FilesIn, CallsIn, MailIn
  <1>. QED BY <1>3, <1>4, <1>5, <1>6 DEF TermInv

\* What has been spent stays so.
LEMMA TermsLasted ==
  ASSUME TypeInv, Next, TermsLast'
  PROVE  TermsLast /\ ~RestartMaster
  <1>1. spent' = spent \/ \E what \in Kinds : Spend(what)
    BY DEF Next, AskLease, ReadLease, ClientStep, OnUpdate, OnReport, OnClean,
           TimeOut, Heartbeat, FromNode, FromMaster, CopyOut, PeriodicReport,
           Start, Drop, CheckReplica, RestartMaster, FaultyStep, Stop, Tick, Kinds
  <1>2. \A what \in Kinds : spent.used[what] \in Nat
    BY SpentWrites
  <1>3. \A what \in Kinds : spent.used[what] <= spent'.used[what]
    BY <1>1, <1>2, SpentOther
  <1>4. "restarts" \in Kinds /\ "writes" \in Kinds /\ TermWidth \in Nat
    BY TermWidthAssumption DEF Kinds
  <1>5. RestartMaster => spent'.used.restarts = spent.used.restarts + 1
    BY <1>4, SpentOther DEF RestartMaster
  <1>6. /\ spent'.used.restarts = 0 /\ spent'.used.writes < TermWidth
    BY DEF TermsLast
  <1>7. /\ spent.used.restarts \in Nat /\ spent.used.writes \in Nat
        /\ spent.used.restarts <= spent'.used.restarts
        /\ spent.used.writes <= spent'.used.writes
        /\ spent'.used.writes \in Nat
    <2>1. spent'.used.writes \in {spent.used.writes, spent.used.writes + 1}
      BY <1>1, <1>4, SpentOther
    <2>. QED BY <1>2, <1>3, <1>4, <2>1
  <1>. QED BY <1>4, <1>5, <1>6, <1>7 DEF TermsLast

LEMMA StepTerm ==
  ASSUME IInv, TypeInv', TermInv, TermsLast, Next, ~RestartMaster
  PROVE  TermInv'
  <1>0. TypeInv
    BY DEF IInv
  <1>1. ASSUME NEW c \in Client,
               \/ \E kind \in {"append", "write"} : AskLease(c, kind, 0)
               \/ ReadLease(c)
               \/ ClientStep(c)
        PROVE  TermInv'
    BY <1>0, <1>1, AskLeaseTerm, ReadLeaseTerm, ClientStepTerm
  <1>2. ASSUME NEW n \in Server,
               \/ OnUpdate(n) \/ OnReport(n) \/ OnClean(n)
               \/ TimeOut(n) \/ Heartbeat(n)
               \/ \E a \in Server : FromNode(n, a)
               \/ FromMaster(n) \/ CopyOut(n) \/ PeriodicReport(n)
               \/ Start(n) \/ Drop(n)
        PROVE  TermInv'
    BY <1>0, <1>2, MasterHearsTerm, QuietTerm, FromNodeTerm, FromMasterTerm,
       CopyOutTerm, PeriodicReportTerm, StartTerm, DropTerm
  <1>3. CheckReplica \/ FaultyStep \/ Stop \/ Tick => TermInv'
    BY <1>0, CheckReplicaTerm, FaultyStepTerm, StopTerm, QuietTerm
  <1>. QED BY <1>1, <1>2, <1>3 DEF Next

\* No copy is in a term that the master has not opened (Block::Write of the
\* master, which opens terms, against Write and Append of the nodes, which count
\* within one), as long as the master has not been restarted, which forgets
\* them, and there were fewer client writes than a term has versions.
THEOREM CopiesStayInGrantedTerms == Spec => [](TermsLast => NoCopyBeyondGrantedTerm)
  <1>1. Init => (TermsLast => TermInv)
    BY InitTermInv
  <1>2. IInv /\ IInv' /\ (TermsLast => TermInv) /\ [Next]_vars
          => (TermsLast => TermInv)'
    <2>1. ASSUME IInv, IInv', TermsLast => TermInv, Next, TermsLast'
          PROVE  TermInv'
      <3>1. TypeInv /\ TypeInv'
        BY <2>1 DEF IInv
      <3>2. TermsLast /\ ~RestartMaster
        BY <2>1, <3>1, TermsLasted
      <3>. QED BY <2>1, <3>1, <3>2, StepTerm
    <2>2. ASSUME IInv, IInv', TermsLast => TermInv, UNCHANGED vars, TermsLast'
          PROVE  TermInv'
      <3>1. TypeInv /\ TypeInv'
        BY <2>2 DEF IInv
      <3>2. TermsLast
        BY <2>2 DEF TermsLast, vars
      <3>. QED BY <2>2, <3>1, <3>2, QuietTerm
    <2>. QED BY <2>1, <2>2
  <1>3. (TermsLast => TermInv) => (TermsLast => NoCopyBeyondGrantedTerm)
    BY DEF TermInv, KnownIn, BlocksIn, Grants, NoCopyBeyondGrantedTerm
  <1>. QED BY <1>1, <1>2, <1>3, CopiesInvariant, PTL DEF Spec
=============================================================================
