-------------------------- MODULE BlockReplication --------------------------
(***************************************************************************)
(* One block of OFS: the master's record of it (MasterBlock), its copies   *)
(* on the data nodes (ChunkNode), the clients that get a lease from the    *)
(* one and write to the others, and the repair ticker.  The file the block *)
(* belongs to exists throughout.                                           *)
(***************************************************************************)
EXTENDS ChunkNode, FiniteSetsExt

CONSTANTS Rack, BlockCount, WriteLease, RecoverLease, RecoverAndWriteInterval

\* Bounds: how often the clock ticks, clients ask for a lease, the ticker checks
\* the replicas, nodes report, stop, lose a connection, fail to write, the master
\* restarts.  A behaviour keeps within one of the budgets.
CONSTANT Budgets

Kinds == {"ticks", "writes", "checks", "reports", "stops", "drops", "faults",
          "restarts"}

ASSUME BudgetsAssumption == Budgets \subseteq [Kinds -> Nat]

\* As in MasterBlock.
ASSUME MasterAssumption ==
  /\ BlockCount \in Nat \ {0}
  /\ WriteLease \in Nat \ {0}
  /\ RecoverLease \in Nat
  /\ RecoverAndWriteInterval \in Nat

VARIABLES usable, version, expectVersion, lease, size, recoverLease, replicas,
          spent,    \* the budget, and how much of it has been used
          authors,  \* the client writes that made a version, as pairs
          copied    \* the copies sent out by repairs, as [version, data]

MaxWrites == Max({b.writes : b \in Budgets})
MaxNow == Max({b.ticks : b \in Budgets})

\* No version is written that a lease did not announce, or that did not follow
\* one in the same term.
MaxVersion == (MaxWrites + 1) * (TermWidth + MaxWrites)

M == INSTANCE MasterBlock
       WITH Reported <- 0..MaxVersion, Sizes <- 0..BlockSize,
            MaxReplicas <- 2 * Cardinality(Server)

masterVars == <<usable, version, expectVersion, lease, size, recoverLease,
                replicas>>
ghosts == <<authors, copied>>
vars == <<now, nodeVars, masterVars, spent, ghosts>>

Spend(what) == /\ spent.used[what] < spent.budget[what]
               /\ spent' = [spent EXCEPT !.used[what] = @ + 1]

Init ==
  /\ now = 0
  /\ NodeInit
  /\ M!MasterInit
  /\ usable \in SUBSET Server \ {{}}   \* those that have registered
  /\ spent \in [budget : Budgets, used : {[what \in Kinds |-> 0]}]
  /\ authors = {}
  /\ copied = {}

-----------------------------------------------------------------------------
(***************************************************************************)
(* The master.                                                             *)
(***************************************************************************)
\* ClientService::Write and Append of the master: Block::Write, then ...
AskLease(c, kind, offset) ==
  /\ op[c] = None
  /\ Spend("writes")
  /\ \E d \in M!Placements({}, BlockCount) :
       LET placed == M!Placed(d)
           main == placed[M!MainReplica(placed)].server
       IN  /\ M!GrantLease(d) \/ M!RepeatLease(d)
           /\ op' = [op EXCEPT ![c] =
                [pc |-> "granted", node |-> main,
                 peers |-> M!Secondaries(placed, main), old |-> 0,
                 lease |-> [until |-> 0, version |-> 0, newversion |-> 0],
                 write |-> [kind |-> kind, offset |-> offset,
                            data |-> spent'.used.writes]]]
  /\ UNCHANGED <<now, up, blk, disk, tasks, chan, usable, ghosts>>

\* ... its mutex released, the answer is made of what the block is by then.
ReadLease(c) ==
  /\ At(c, "granted")
  /\ op' = [op EXCEPT ![c].pc = "sent",
                      ![c].lease = [until |-> lease, version |-> version,
                                    newversion |-> expectVersion]]
  /\ UNCHANGED <<now, up, blk, disk, tasks, chan, masterVars, spent, ghosts>>

\* DataNodeService::OnUpdate, OnReport and OnClean.  What a node says comes after
\* it has registered with the master.
Hears(n, type) == n \in usable /\ Receives(Master, n, type)

OnUpdate(n) ==
  LET m == Head(chan[n][Master])
  IN  /\ Hears(n, "update")
      /\ IF M!EntriesOf(n) = {}
         THEN UNCHANGED masterVars
         ELSE /\ M!UpdateReplica(n, m.version, m.size, m.fault)
              /\ UNCHANGED usable
      /\ chan' = Taken(n, Master)
      /\ UNCHANGED <<now, up, blk, disk, tasks, op, spent, ghosts>>

OnReport(n) ==
  LET m == Head(chan[n][Master])
  IN  /\ Hears(n, "report")
      /\ M!ReportReplica(n, m.version, m.size, FALSE)
      /\ chan' = Taken(n, Master)
      /\ UNCHANGED <<now, up, blk, disk, tasks, op, usable, spent, ghosts>>

OnClean(n) ==
  /\ Hears(n, "cleaned")
  /\ M!ClearReplica(n)
  /\ chan' = Taken(n, Master)
  /\ UNCHANGED <<now, up, blk, disk, tasks, op, usable, spent, ghosts>>

\* Block::CheckReplica, its messages included.
Clean(servers) ==
  [n \in servers |-> <<[type |-> "clean"]>>]

Repair(n, d, cleaned) ==
  LET order == [type |-> "recover", version |-> version,
                lease |-> now + RecoverLease, copyto |-> {d[i] : i \in DOMAIN d}]
  IN  [x \in cleaned \cup {n} |-> IF x \in cleaned
         THEN Clean(cleaned)[x] \o IF x = n THEN <<order>> ELSE <<>>
         ELSE <<order>>]

CheckReplica ==
  /\ Spend("checks")
  /\ \/ \E d \in M!Placements({}, BlockCount) :
          /\ M!OrderRepair(d)
          /\ chan' = Sent(chan, Master,
                          Repair(replicas[M!MainReplica(replicas)].server, d,
                                 M!OtherServers))
     \/ \E kept \in SUBSET M!Healthy :
          /\ M!OrderCleanOnly
          /\ M!Unnecessary(kept)
          /\ chan' = Sent(chan, Master, Clean(M!CleanOrders(kept)))
  /\ UNCHANGED <<now, up, blk, disk, tasks, op, usable, ghosts>>

\* DataNode::IsUseAble ends some time after the last heartbeat, which a node
\* that runs keeps sending.
TimeOut(n) == /\ ~up[n] /\ n \in usable
              /\ usable' = usable \ {n}
              /\ UNCHANGED <<now, nodeVars, version, expectVersion, lease, size,
                             recoverLease, replicas, spent, ghosts>>

Heartbeat(n) == /\ up[n] /\ n \notin usable
                /\ usable' = usable \cup {n}
                /\ UNCHANGED <<now, nodeVars, version, expectVersion, lease,
                               size, recoverLease, replicas, spent, ghosts>>

\* The master stops and starts again: it has forgotten the block, and the calls
\* and messages under way are lost.  Nodes register again (Heartbeat), each when
\* it has noticed, and then report.
RestartMaster ==
  /\ Spend("restarts")
  /\ version' = 0 /\ expectVersion' = 0 /\ lease' = 0 /\ size' = 0
  /\ recoverLease' = 0 /\ replicas' = <<>> /\ usable' = {}
  /\ op' = [c \in Client |-> IF At(c, "granted") THEN None ELSE op[c]]
  /\ chan' = [a \in DOMAIN chan |-> [b \in DOMAIN chan |->
                IF Master \notin {a, b} THEN chan[a][b]
                ELSE IF a = Master \/ ~up[a] THEN <<>> ELSE FullReport(blk[a])]]
  /\ UNCHANGED <<now, up, blk, disk, tasks, ghosts>>

Tick == /\ Spend("ticks")
        /\ now' = now + 1
        /\ UNCHANGED <<nodeVars, masterVars, ghosts>>

-----------------------------------------------------------------------------
(***************************************************************************)
(* The data nodes.                                                         *)
(***************************************************************************)
ClientStep(c) ==
  /\ UNCHANGED <<now, masterVars, copied>>
  /\ \/ /\ RefuseWrite(c) \/ BeginWrite(c) \/ FinishWrite(c)
           \/ FailWrite(c, "written")
        /\ UNCHANGED <<authors, spent>>
     \/ /\ ApplyWrite(c)
        /\ authors' = authors \cup
             {<<blk'[op[c].node].version, op[c].write.data>>}
        /\ UNCHANGED spent

FromNode(n, a) ==
  /\ \/ OnNotify(n, a, "written")
     \/ OnRecoverBlockStart(n, a)
     \/ OnRecoverBlockData(n, a, "written")
     \/ OnRecoverBlockComplete(n, a, "written")
  /\ UNCHANGED <<now, masterVars, spent, ghosts>>

FromMaster(n) ==
  /\ OnRecoverBlock(n) \/ OnCleanBlock(n)
  /\ UNCHANGED <<now, masterVars, spent, ghosts>>

CopyOut(n) ==
  /\ \E t \in tasks[n] :
       /\ RunRecover(n, t)
       /\ copied' = IF chan' = chan THEN copied
                    ELSE copied \cup {[version |-> blk[n].version,
                                       data |-> disk[n].file]}
  /\ UNCHANGED <<now, masterVars, authors, spent>>

PeriodicReport(n) == /\ Spend("reports")
                     /\ ReportBlocks(n)
                     /\ UNCHANGED <<now, masterVars, ghosts>>

\* A step whose write to the disk fails.
FaultyStep ==
  /\ Spend("faults")
  /\ \E outcome \in Outcomes \ {"written"} :
       \/ \E c \in Client : FailWrite(c, outcome)
       \/ \E n, a \in Server :
            \/ OnNotify(n, a, outcome)
            \/ outcome # "no_meta" /\ OnRecoverBlockData(n, a, outcome)
            \/ outcome = "no_meta" /\ OnRecoverBlockComplete(n, a, outcome)
  /\ UNCHANGED <<now, masterVars, ghosts>>

Stop ==
  /\ Spend("stops")
  /\ \/ \E n \in Server : \/ Crash(n)
                          \/ CrashInClean(n)
                          \/ \E t \in tasks[n] : CrashInRecover(n, t)
     \/ \E outcome \in Outcomes :
          \/ \E c \in Client : CrashInWrite(c, outcome)
          \/ \E n, a \in Server : CrashInNotify(n, a, outcome)
  /\ UNCHANGED <<now, masterVars, ghosts>>

Start(n) == Restart(n) /\ UNCHANGED <<now, masterVars, spent, ghosts>>

Drop(n) == /\ Spend("drops")
           /\ \E a \in Server \cup {Master} : Reconnect(n, a)
           /\ UNCHANGED <<now, masterVars, ghosts>>

Next ==
  \/ \E c \in Client :
       \/ \E kind \in {"append", "write"} : AskLease(c, kind, 0)
       \/ ReadLease(c)
       \/ ClientStep(c)
  \/ \E n \in Server :
       \/ OnUpdate(n) \/ OnReport(n) \/ OnClean(n)
       \/ TimeOut(n) \/ Heartbeat(n)
       \/ (\E a \in Server : FromNode(n, a))
       \/ FromMaster(n) \/ CopyOut(n) \/ PeriodicReport(n) \/ Start(n) \/ Drop(n)
  \/ CheckReplica
  \/ RestartMaster
  \/ FaultyStep
  \/ Stop
  \/ Tick

Spec == Init /\ [][Next]_vars

\* Each connection of a node is served by a coroutine that never gives up.
FairSpec == Spec /\ \A n, a \in Server : WF_vars(FromNode(n, a))

-----------------------------------------------------------------------------
(***************************************************************************)
(* Properties.                                                             *)
(***************************************************************************)
Recovering(n) == blk[n] # None /\ blk[n].recover # None

\* The state of the data nodes and of their clients is well formed; a process
\* that does not run holds no block, serves no call and has no mail.
TypeOK ==
  /\ M!TypeOK
  /\ \A n \in Server :
       /\ blk[n] # None => /\ blk[n].version \in 0..MaxVersion
                          /\ blk[n].size \in 0..BlockSize
                          /\ blk[n].refs \in Nat
       /\ Recovering(n) => blk[n].recover.got \subseteq 0..(BlockSize - 1)
       /\ Batches(disk[n].file) \in Seq(Torn..MaxWrites)
       /\ ~up[n] => /\ blk[n] = None /\ tasks[n] = {}
                   /\ \A a \in DOMAIN chan : chan[a][n] = chan[n][a]

\* While a Block object lives its version never goes back, although a strict
\* write and CompleteRecover assign it: the writes that are notified, copied or
\* made here are compared with a version that was read before.
NodeVersionsGrow ==
  [][\A n \in Server : blk[n] # None /\ blk'[n] # None =>
                          blk[n].version <= blk'[n].version]_vars

\* A block that answers reads has the data it says it has, across appends that
\* go to the end of the file, repairs that resize it, crashes between the two
\* files and failed writes.
ReadableDataExists ==
  \A n \in Server :
    blk[n] # None /\ blk[n].recover = None =>
      blk[n].size <= Len(Batches(disk[n].file))

\* A Block is not deleted under a coroutine that uses it: every client write
\* in progress and every forked copy holds one of its references.
UsersHoldReferences ==
  \A n \in Server :
    LET writers == {c \in Client : /\ At(c, "begun") \/ At(c, "applied")
                                  /\ op[c].node = n}
        users == Cardinality(writers) + Cardinality(tasks[n])
    IN  users > 0 => blk[n] # None /\ users <= blk[n].refs

\* No copy is in a term that the master has not opened: versions are only made
\* from leases, and the master's announced version never goes back.
NoCopyBeyondGrantedTerm ==
  \A n \in Server :
    blk[n] # None => Term(blk[n].version) <= Term(expectVersion)

\* A recovered block holds, batch for batch, what a repair sent out for the
\* version it now claims: no batch of another version, none left out, whatever
\* repairs and lost connections came between.  Only a batch that is sent twice
\* may be torn, for it counts as received although the second write fails.
RecoveredFromCopies ==
  [][\A n \in Server :
       Recovering(n) /\ blk'[n] # None /\ blk'[n].recover = None =>
         \A i \in 1..blk'[n].size :
           \/ \E c \in copied : /\ c.version = blk'[n].version
                               /\ i <= Len(c.data)
                               /\ c.data[i] = disk'[n].file[i]
           \/ spent.used.faults > 0 /\ disk'[n].file[i] = Torn]_vars

\* What a client reads from n.
Content(n) == SubSeq(Batches(disk[n].file), 1, blk[n].size)

Readable(n) == blk[n] # None /\ blk[n].recover = None

\* As long as no version was made by two client writes, copies of the same
\* version are the same: notifications and repairs never disagree.
CopiesAgree ==
  (\A p, q \in authors : p[1] = q[1] => p = q) =>
    \A n, m \in Server :
      Readable(n) /\ Readable(m) /\ blk[n].version = blk[m].version =>
        Content(n) = Content(m)

\* What a restart of n would load is what n serves now, as long as no write to
\* its disk failed: the two files follow the memory through writes, repairs and
\* crashes between them.
RestartLoadsWhatWasServed ==
  spent.used.faults = 0 =>
    \A n \in Server :
      Readable(n) /\ blk[n].version > 0 =>
        LET b == Scanned(disk[n])
        IN  b # None /\ b.version = blk[n].version /\ b.size = blk[n].size

\* A block that is being recovered, and so refuses every read and write, stops
\* being so, unless a connection is lost or a node stops.
RecoveryEnds ==
  \A n \in Server :
    Recovering(n) ~> ~Recovering(n) \/ spent.used.drops > 0 \/ spent.used.stops > 0
=============================================================================
