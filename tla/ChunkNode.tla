----------------------------- MODULE ChunkNode ------------------------------
(***************************************************************************)
(* The copies of one block on the data nodes (ofs/node): the block in      *)
(* memory, its data and meta files, the coroutines that serve client       *)
(* writes, the tasks that copy the block to another node, and the queues   *)
(* of messages between nodes and master (one per direction and pair).      *)
(*                                                                         *)
(* Data is counted in batches: a client write carries exactly one.  A      *)
(* batch is the number of the write that made it, 0 where a file was only  *)
(* extended, Torn where a write stopped half-way.                          *)
(*                                                                         *)
(* What a Block does under its mutex is one step.  A client write is three *)
(* steps, since it reads the version before it takes the mutex and once    *)
(* more after it has released it.  A message handler is one step.          *)
(***************************************************************************)
EXTENDS BlockVersion, FiniteSets, Sequences

CONSTANTS Server,     \* data node ids
          Master,     \* MASTER_NODE, the id of the master
          Client,     \* coroutines that serve client writes
          BlockSize,  \* batches in a full block
          None        \* a null pointer, a file that does not exist

ASSUME NodeAssumption ==
  /\ Master \notin Server
  /\ BlockSize \in Nat \ {0}

\* A Block object, with the count of those that use it, and its RecoverController.
Recovery == [version : Nat, size : Nat, got : SUBSET Nat]
Block == [version : Nat, size : Nat, refs : Nat, recover : {None} \cup Recovery]

\* What the meta file of a block says.
Meta == [version : Nat, size : Nat]

\* A null pointer is no object, and a file that does not exist has no content.
ASSUME NoneAssumption == None \notin Block \cup Recovery \cup Meta \cup Seq(Int)

VARIABLES now,    \* the wall clock
          up,     \* up[n]: the process of node n runs
          blk,    \* blk[n]: the Block object, None when there is none
          disk,   \* disk[n]: the data file and the meta file
          tasks,  \* tasks[n]: copies to other nodes that were forked
          op,     \* op[c]: the client write that c serves
          chan    \* chan[a][b]: what a sent and b has not handled yet

nodeVars == <<up, blk, disk, tasks, op, chan>>

Torn == -1

Blank == [version |-> 0, size |-> 0, refs |-> 0, recover |-> None]

NodeInit ==
  /\ up = [n \in Server |-> TRUE]
  /\ blk = [n \in Server |-> None]
  /\ disk = [n \in Server |-> [file |-> None, meta |-> None]]
  /\ tasks = [n \in Server |-> {}]
  /\ op = [c \in Client |-> None]
  /\ chan = [a \in Server \cup {Master} |->
               [b \in Server \cup {Master} |-> <<>>]]

-----------------------------------------------------------------------------
(***************************************************************************)
(* Messages.  out[d] is what a step of n sends to d; what is sent to a node *)
(* that is down is lost.                                                   *)
(***************************************************************************)
Reachable(d) == d \in Server => up[d]

Sent(ch, n, out) ==
  [ch EXCEPT ![n] = [d \in DOMAIN @ |->
     IF d \in DOMAIN out /\ Reachable(d) THEN @[d] \o out[d] ELSE @[d]]]

Taken(a, b) == [chan EXCEPT ![a][b] = Tail(@)]

Receives(b, a, type) == /\ Reachable(b)
                        /\ chan[a][b] # <<>>
                        /\ Head(chan[a][b]).type = type

To(d, msgs) == [x \in {d} |-> msgs]

\* NodeService::Report; IsFault is true while the block is being recovered.
Update(b) == [type |-> "update", version |-> b.version, size |-> b.size,
              fault |-> b.recover # None]

-----------------------------------------------------------------------------
(***************************************************************************)
(* Block::Write and Block::Append.  w is [kind, data, offset].  A strict    *)
(* call comes from the lease holder, another one from a client.            *)
(***************************************************************************)
Batches(f) == IF f = None THEN <<>> ELSE f

\* RandomAccessFile::Write past the end leaves a gap that reads as zeros.
Overwrite(f, offset, x) ==
  [i \in 1..Larger(Len(f), offset + 1) |->
     IF i = offset + 1 THEN x ELSE IF i <= Len(f) THEN f[i] ELSE 0]

\* RandomAccessFile::Append writes at the end of the file, wherever the block
\* thinks it ends.
Stored(f, w, x) ==
  IF w.kind = "append" THEN Append(Batches(f), x)
                       ELSE Overwrite(Batches(f), w.offset, x)

\* Mutant: a notification is not compared with the version it starts from.
AcceptsNewer(b, w, strict, except) ==
  /\ b.recover = None
  /\ b.version >= except
  /\ w.kind = "append" => b.size < BlockSize

Accepts(b, w, strict, except) ==
  /\ b.recover = None
  /\ IF strict THEN b.version = except ELSE b.version >= except
  /\ w.kind = "append" => b.size < BlockSize

NextBlk(b, w, strict, newversion) ==
  [b EXCEPT !.version = IF strict THEN newversion
                                  ELSE PrimaryVersion(@, newversion),
            !.size = IF w.kind = "append" THEN @ + 1 ELSE @]

\* What becomes of the disk: all is written; the data file, or the meta file
\* after it, is not; or the data is written in part.
Outcomes == {"written", "no_data", "torn_data", "no_meta"}

\* Mutant: the block counts the batch before it looks at how the write went.
CountsFirst(b, w, strict, newversion, outcome) ==
  NextBlk(b, w, strict, newversion)

BlkAfter(b, w, strict, newversion, outcome) ==
  IF outcome \in {"written", "no_meta"}
  THEN NextBlk(b, w, strict, newversion) ELSE b

\* Mutant: the meta file is only written when the size changes.
MetaOnAppendOnly(dk, b, w, outcome) ==
  [file |-> CASE outcome = "no_data" -> dk.file
              [] outcome = "torn_data" -> Stored(dk.file, w, Torn)
              [] OTHER -> Stored(dk.file, w, w.data),
   meta |-> IF outcome = "written" /\ w.kind = "append"
            THEN [version |-> b.version, size |-> b.size] ELSE dk.meta]

DiskAfter(dk, b, w, outcome) ==
  [file |-> CASE outcome = "no_data" -> dk.file
              [] outcome = "torn_data" -> Stored(dk.file, w, Torn)
              [] OTHER -> Stored(dk.file, w, w.data),
   meta |-> IF outcome = "written"
            THEN [version |-> b.version, size |-> b.size] ELSE dk.meta]

-----------------------------------------------------------------------------
(***************************************************************************)
(* ClientService::Write and Append of the node, serving op[c]:             *)
(* [pc, node, write, lease, peers, old].                                   *)
(***************************************************************************)
At(c, pc) == op[c] # None /\ op[c].pc = pc

\* Without a block there is nothing to overwrite.
SizeOf(n) == IF blk[n] = None THEN 0 ELSE blk[n].size

Refuses(n, o) ==
  \/ ~up[n]
  \/ o.lease.until < now
  \/ o.write.kind = "write" /\ SizeOf(n) <= o.write.offset

RefuseWrite(c) ==
  /\ At(c, "sent")
  /\ Refuses(op[c].node, op[c])
  /\ op' = [op EXCEPT ![c] = None]
  /\ UNCHANGED <<up, blk, disk, tasks, chan>>

\* BlockManager::Get takes a reference and, for an append, makes the block;
\* the version is read without the block's mutex.
BeginWrite(c) ==
  LET n == op[c].node
      b == IF blk[n] = None THEN Blank ELSE blk[n]
  IN  /\ At(c, "sent")
      /\ ~Refuses(n, op[c])
      /\ blk' = [blk EXCEPT ![n] = [b EXCEPT !.refs = @ + 1]]
      /\ op' = [op EXCEPT ![c].pc = "begun", ![c].old = b.version]
      /\ UNCHANGED <<up, disk, tasks, chan>>

\* Mutant: the reference is given back twice.
ReleasedTwice(b) == [b EXCEPT !.refs = @ - 2]

Released(b) == [b EXCEPT !.refs = @ - 1]

\* Block::Write or Append refuses, or fails on the disk: no one is told.
FailWrite(c, outcome) ==
  LET n == op[c].node
      w == op[c].write
      b == BlkAfter(blk[n], w, FALSE, op[c].lease.newversion, outcome)
  IN  /\ At(c, "begun")
      /\ \/ /\ ~Accepts(blk[n], w, FALSE, op[c].lease.version)
            /\ blk' = [blk EXCEPT ![n] = Released(@)]
            /\ UNCHANGED disk
         \/ /\ Accepts(blk[n], w, FALSE, op[c].lease.version)
            /\ outcome # "written"
            /\ blk' = [blk EXCEPT ![n] = Released(b)]
            /\ disk' = [disk EXCEPT ![n] = DiskAfter(@, b, w, outcome)]
      /\ op' = [op EXCEPT ![c] = None]
      /\ UNCHANGED <<up, tasks, chan>>

ApplyWrite(c) ==
  LET n == op[c].node
      w == op[c].write
      b == NextBlk(blk[n], w, FALSE, op[c].lease.newversion)
  IN  /\ At(c, "begun")
      /\ Accepts(blk[n], w, FALSE, op[c].lease.version)
      /\ blk' = [blk EXCEPT ![n] = b]
      /\ disk' = [disk EXCEPT ![n] = DiskAfter(@, b, w, "written")]
      /\ op' = [op EXCEPT ![c].pc = "applied"]
      /\ UNCHANGED <<up, tasks, chan>>

\* The others are notified with the version the block has by now, the master
\* is told, the client answered.
FinishWrite(c) ==
  LET n == op[c].node
      notify == [type |-> "notify", write |-> op[c].write,
                 old |-> op[c].old, new |-> blk[n].version]
      out == [d \in op[c].peers \cup {Master} |->
                IF d = Master THEN <<Update(blk[n])>> ELSE <<notify>>]
  IN  /\ At(c, "applied")
      /\ chan' = Sent(chan, n, out)
      /\ blk' = [blk EXCEPT ![n] = Released(@)]
      /\ op' = [op EXCEPT ![c] = None]
      /\ UNCHANGED <<up, disk, tasks>>

-----------------------------------------------------------------------------
(***************************************************************************)
(* Handlers of the node's messages (node/NodeService.cpp).                 *)
(***************************************************************************)
\* OnWrite and OnAppend: the lease holder's write is repeated here when the
\* version is the one it started from.  OnAppend makes the block, and keeps it
\* when the append is refused.
OnNotify(n, a, outcome) ==
  LET m == Head(chan[a][n])
      known == blk[n] # None \/ m.write.kind = "append"
      old == IF blk[n] = None THEN Blank ELSE blk[n]
      b == BlkAfter(old, m.write, TRUE, m.new, outcome)
      fits == /\ m.write.kind = "write" => m.write.offset < old.size
              /\ Accepts(old, m.write, TRUE, m.old)
  IN  /\ Receives(n, a, "notify")
      /\ \/ /\ ~(known /\ fits)
            /\ blk' = IF known THEN [blk EXCEPT ![n] = old] ELSE blk
            /\ chan' = Taken(a, n)
            /\ UNCHANGED disk
         \/ /\ known /\ fits
            /\ blk' = [blk EXCEPT ![n] = b]
            /\ disk' = [disk EXCEPT ![n] = DiskAfter(@, b, m.write, outcome)]
            /\ chan' = IF outcome = "written"
                       THEN Sent(Taken(a, n), n, To(Master, <<Update(b)>>))
                       ELSE Taken(a, n)
      /\ UNCHANGED <<up, tasks, op>>

\* OnRecoverBlock: Block::StartRecover takes a reference for each node to copy
\* to and forks.
OnRecoverBlock(n) ==
  LET m == Head(chan[Master][n])
      forked == {[to |-> d, version |-> m.version, lease |-> m.lease] :
                   d \in m.copyto}
  IN  /\ Receives(n, Master, "recover")
      /\ IF blk[n] = None
         THEN UNCHANGED <<blk, tasks>>
         ELSE /\ tasks' = [tasks EXCEPT ![n] = @ \cup forked]
              /\ blk' = [blk EXCEPT ![n].refs = @ + Cardinality(forked)]
      /\ chan' = Taken(Master, n)
      /\ UNCHANGED <<up, disk, op>>

\* BlockCopyToAction::Start: the file goes out in batches, framed by the
\* version and the size.
Copy(b, file) ==
  <<[type |-> "start", version |-> b.version, size |-> b.size]>>
    \o [i \in 1..b.size |-> [type |-> "data", version |-> b.version,
                             offset |-> i - 1, data |-> file[i]]]
    \o <<[type |-> "complete", version |-> b.version]>>

\* The forked part of Block::StartRecover.  Both early returns keep the
\* reference; nothing is sent when the file is not as long as the block.
RunRecover(n, t) ==
  LET b == blk[n]
      f == disk[n].file
      skipped == b.version < t.version \/ now >= t.lease
  IN  /\ t \in tasks[n]
      /\ skipped \/ f # None
      /\ tasks' = [tasks EXCEPT ![n] = @ \ {t}]
      /\ blk' = IF skipped THEN blk ELSE [blk EXCEPT ![n] = Released(@)]
      /\ chan' = IF ~skipped /\ Len(f) = b.size
                 THEN Sent(chan, n, To(t.to, Copy(b, f))) ELSE chan
      /\ UNCHANGED <<up, disk, op>>

\* RecoverController::Resize and Block::Resize.
Restarts(b, m) == /\ b.version < m.version
                  /\ b.recover # None => b.recover.version < m.version

NewRecover(b, m) ==
  [b EXCEPT !.recover = [version |-> m.version, size |-> m.size, got |-> {}]]

Resized(f, size) ==
  [i \in 1..size |-> IF i <= Len(Batches(f)) THEN f[i] ELSE 0]

OnRecoverBlockStart(n, a) ==
  LET m == Head(chan[a][n])
      b == IF blk[n] = None THEN Blank ELSE blk[n]
  IN  /\ Receives(n, a, "start")
      /\ IF Restarts(b, m)
         THEN /\ blk' = [blk EXCEPT ![n] = NewRecover(b, m)]
              /\ disk' = [disk EXCEPT ![n].file = Resized(@, m.size)]
         ELSE /\ blk' = [blk EXCEPT ![n] = b]
              /\ UNCHANGED disk
      /\ chan' = Taken(a, n)
      /\ UNCHANGED <<up, tasks, op>>

\* Block::RecoverData: a batch of another version is ignored.
WantsData(b, m) ==
  b # None /\ b.recover # None /\ b.recover.version = m.version

OnRecoverBlockData(n, a, outcome) ==
  LET m == Head(chan[a][n])
      w == [kind |-> "write", offset |-> m.offset, data |-> m.data]
  IN  /\ Receives(n, a, "data")
      /\ IF WantsData(blk[n], m)
         THEN CASE outcome = "written" ->
                     /\ disk' = [disk EXCEPT ![n].file = Stored(@, w, m.data)]
                     /\ blk' = [blk EXCEPT ![n].recover.got =
                                  @ \cup {m.offset}]
                [] outcome = "no_data" -> UNCHANGED <<blk, disk>>
                [] OTHER ->
                     /\ disk' = [disk EXCEPT ![n].file = Stored(@, w, Torn)]
                     /\ UNCHANGED blk
         ELSE UNCHANGED <<blk, disk>>
      /\ chan' = Taken(a, n)
      /\ UNCHANGED <<up, tasks, op>>

\* Block::CompleteRecover.
\* Mutant: which batches have come is not looked at.
CompletesEarly(b, m) == WantsData(b, m)

\* Mutant: one batch more than were sent is waited for.
CompletesLate(b, m) == /\ WantsData(b, m)
                       /\ b.recover.got = 0..b.recover.size

Completes(b, m) == /\ WantsData(b, m)
                   /\ b.recover.got = 0..(b.recover.size - 1)

OnRecoverBlockComplete(n, a, outcome) ==
  LET m == Head(chan[a][n])
      b == [blk[n] EXCEPT !.version = m.version, !.size = blk[n].recover.size,
                          !.recover = None]
  IN  /\ Receives(n, a, "complete")
      /\ IF Completes(blk[n], m)
         THEN /\ blk' = [blk EXCEPT ![n] = b]
              /\ IF outcome = "written"
                 THEN /\ disk' = [disk EXCEPT ![n].meta =
                           [version |-> b.version, size |-> b.size]]
                      /\ chan' = Sent(Taken(a, n), n,
                                      To(Master, <<Update(b)>>))
                 ELSE chan' = Taken(a, n) /\ UNCHANGED disk
         ELSE chan' = Taken(a, n) /\ UNCHANGED <<blk, disk>>
      /\ UNCHANGED <<up, tasks, op>>

\* BlockManager::Clean: a block in use is left alone.
\* Mutant: the references are not looked at.
NeverInUse(b) == FALSE

InUse(b) == IF b = None THEN FALSE ELSE b.refs > 0

OnCleanBlock(n) ==
  /\ Receives(n, Master, "clean")
  /\ IF blk[n] = None \/ InUse(blk[n])
     THEN chan' = Taken(Master, n) /\ UNCHANGED <<blk, disk>>
     ELSE /\ blk' = [blk EXCEPT ![n] = None]
          /\ disk' = [disk EXCEPT ![n] = [file |-> None, meta |-> None]]
          /\ chan' = Sent(Taken(Master, n), n,
                          To(Master, <<[type |-> "cleaned"]>>))
  /\ UNCHANGED <<up, tasks, op>>

\* BlockManager::Report tells every block, and calls none of them faulty.
FullReport(b) ==
  IF b = None THEN <<>>
  ELSE <<[type |-> "report", version |-> b.version, size |-> b.size]>>

ReportBlocks(n) ==
  /\ up[n] /\ blk[n] # None
  /\ chan' = Sent(chan, n, To(Master, FullReport(blk[n])))
  /\ UNCHANGED <<up, blk, disk, tasks, op>>

-----------------------------------------------------------------------------
(***************************************************************************)
(* The process of a node ends, at rest or while it changes its disk, and   *)
(* starts again; a connection is lost and made again.                      *)
(***************************************************************************)
\* Everything n was doing is gone, the calls it served and the queues included.
Stops(n) ==
  /\ up[n]
  /\ up' = [up EXCEPT ![n] = FALSE]
  /\ blk' = [blk EXCEPT ![n] = None]
  /\ tasks' = [tasks EXCEPT ![n] = {}]
  /\ op' = [c \in Client |->
              IF (At(c, "begun") \/ At(c, "applied")) /\ op[c].node = n
              THEN None ELSE op[c]]
  /\ chan' = [a \in DOMAIN chan |-> [b \in DOMAIN chan |->
                IF n \in {a, b} THEN <<>> ELSE chan[a][b]]]

Crash(n) == Stops(n) /\ UNCHANGED disk

\* Between the data file and the meta file of an accepted client write.
CrashInWrite(c, outcome) ==
  /\ At(c, "begun")
  /\ Accepts(blk[op[c].node], op[c].write, FALSE, op[c].lease.version)
  /\ outcome \in {"no_meta", "torn_data"}
  /\ Stops(op[c].node)
  /\ disk' = [disk EXCEPT ![op[c].node] =
                DiskAfter(@, blk[op[c].node], op[c].write, outcome)]

\* The same, of a write repeated for the lease holder, be it the first append of
\* a block.
CrashInNotify(n, a, outcome) ==
  LET m == Head(chan[a][n])
      old == IF blk[n] = None THEN Blank ELSE blk[n]
  IN  /\ Receives(n, a, "notify")
      /\ blk[n] # None \/ m.write.kind = "append"
      /\ m.write.kind = "write" => m.write.offset < old.size
      /\ Accepts(old, m.write, TRUE, m.old)
      /\ outcome \in {"no_meta", "torn_data"}
      /\ Stops(n)
      /\ disk' = [disk EXCEPT ![n] = DiskAfter(@, old, m.write, outcome)]

\* Between the two files of a block that is cleaned.
CrashInClean(n) ==
  /\ Receives(n, Master, "clean")
  /\ blk[n] # None /\ ~InUse(blk[n])
  /\ Stops(n)
  /\ disk' = [disk EXCEPT ![n].file = None]

\* fs::file_size throws in a forked copy when there is no data file, and
\* nothing catches it.
CrashInRecover(n, t) ==
  /\ t \in tasks[n]
  /\ blk[n].version >= t.version /\ now < t.lease
  /\ disk[n].file = None
  /\ Crash(n)

\* BlockManager::ScanBlock: a longer file is cut to what the meta file says, a
\* shorter one keeps the block from being loaded, and without a data file the
\* scan throws and the node does not start.  Then it connects and reports.
Scanned(dk) ==
  IF dk.meta = None \/ Len(Batches(dk.file)) < dk.meta.size
  THEN None
  ELSE [Blank EXCEPT !.version = dk.meta.version, !.size = dk.meta.size]

Restart(n) ==
  LET b == Scanned(disk[n])
  IN  /\ ~up[n]
      /\ ~(disk[n].meta # None /\ disk[n].file = None)
      /\ up' = [up EXCEPT ![n] = TRUE]
      /\ blk' = [blk EXCEPT ![n] = b]
      /\ disk' = IF b = None THEN disk
                 ELSE [disk EXCEPT ![n].file = SubSeq(@, 1, b.size)]
      /\ chan' = [chan EXCEPT ![n][Master] = @ \o FullReport(b)]
      /\ UNCHANGED <<tasks, op>>

\* The queues of a broken connection are lost.  Between data nodes the last
\* messages of one may survive: a copy is sent message by message, and those
\* sent after the connection is made again arrive.  To the master a node
\* reports when it has connected again.
Survivors(a, n) ==
  IF Master \in {a, n} THEN {<<>>}
  ELSE {SubSeq(chan[a][n], i, Len(chan[a][n])) : i \in 2..Len(chan[a][n]) + 1}
         \cup {<<>>}

Reconnect(n, a) ==
  /\ up[n]
  /\ chan[n][a] # <<>> \/ chan[a][n] # <<>>
  /\ \E in \in Survivors(a, n), out \in Survivors(n, a) :
       chan' = [chan EXCEPT ![a][n] = in,
                            ![n][a] = IF a = Master THEN FullReport(blk[n])
                                                   ELSE out]
  /\ UNCHANGED <<up, blk, disk, tasks, op>>
=============================================================================
