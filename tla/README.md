# Formal models of ooeyusea/zookeeper

The repository holds several programs on the coroutine library *hnet* (a submodule
that is not part of the tree): a distributed file system `ofs/`, a consensus
library `paxos/` with its predecessor `zookeeper/`, a `spider/`, the skeleton of a
`yarn/`, helpers in `olib/`, and empty `storm/` and `spark/`. The models are about
`ofs/`, the largest and most complete of them, from the client's upload loop to
the files of a data node; the election of `paxos/`; the search of the spider; and
the rpc channel that `ofs/` and `yarn/` share.
There are no tests to speak of and the documents say one sentence, so the
properties are taken from what the code's own parts rely on.

Contents: [the system](#the-system), [modules](#modules), [runs](#runs),
[proofs](#proofs), [abstractions](#abstractions-and-assumptions),
[flaws met](#flaws-met-while-modelling), [not modelled](#not-modelled), [plan](#plan).

## The system

### ofs: a master, data nodes, clients

A *file* is a list of *blocks*; a block has *copies* (replicas) on several data
nodes. The master keeps the name space and, for each block, what it knows of its
copies. Clients ask the master for a *lease* and write to one data node, the
primary, which notifies the others.

| part | state | operations | who calls it |
|---|---|---|---|
| block record (`master/block/Block`) | `_version`, `_expectVersion`, `_lease`, `_size`, `_recoverLease`, `_chunkServer` | `Write` (grants leases), `UpdateReplica`, `ReportReplica`, `ClearReplica`, `CheckReplica`, `Read` | client service, messages of nodes, a ticker |
| block manager (`master/block/BlockManager`) | map from id to record | `GetOrCreate`, ticker of `CheckReplica`; `DeleteFileBlock`, `Clean` (never called) | the same |
| data cluster (`master/chunk`) | racks, data centers, nodes with the time of their last heartbeat | `Register`, `Distribute`, `SelectUnnecessary`, `ChooseOne`, `IsUseAble` | block record, registration |
| name space (`master/file`) | tree of nodes with a deletion mark, index of files by id, the archive on disk | `CreateNode`, `Remove`, `List`, `GetFile`, `StartGC`, `SaveToFile`, `LoadFromFile` | client service, reports, two tickers |
| ids (`master/OfsId.h`) | one atomic | `GenerateId`, packing macros | every new `File` |
| users (`master/user`) | users, tokens | `Login`, `Acquire`, `ClearExpire` | client service |
| master's client service | none | `MakeDir`, `Create`, `List`, `Remove`, `Status`, `Read`, `Write`, `Append`, `Login` | clients, by rpc |
| data node block (`node/block`) | version, size, references, recovery in progress; data and meta file | `Write`, `Append`, `Remove`, `StartRecover`, `Resize`, `RecoverData`, `CompleteRecover`, `Clean`, `Report`, `ScanBlock` | clients, other nodes, master, a ticker |
| node service (`node/node`) | none of its own | handlers of the messages above, registration, heartbeat, neighbours | message queue |
| message queue (`common/message_queue`) | `_node` (descriptor by peer), `_connected` | `Connect`, `Listen`, `Poll`, `Send`, `Brocast` | everything |
| rpc (`common/rpc`) | a connection per channel, two mutexes | `Connect`, `CallMethod`, `Start`, `DealConn` | clients; a copy of it serves `yarn/` |
| client (`client`) | position in a file | `FileUploader::Start`, `FileDownloader::Start`, a shell | users |

Between any two processes there is one queue connection: messages of one
connection are handled in order by one coroutine, those of different connections
in any order. Messages are never acknowledged or repeated. The master and a data
node are multi-threaded: handlers of different connections, rpc calls and tickers
run at the same time and meet only in the mutexes of the objects they use.

Hard behaviour: versions are made at three places (the master announces one with
each lease, the primary counts up from it, secondaries and recovered copies take
over what they are told), so that leases, reports and repairs which overtake each
other must not make two copies of a version differ; blocks and files are freed
while others use them; nodes crash between two files; whatever a node sends while
it registers may overtake the registration. `PROJECT.json` lists these hazards
at their lines.

What makes each part correct:

* block record: versions never go back, a newly announced term is above all that
  is known, a lease is covered until its end, repairs do not meet writers;
* data node: what can be read is there, survives a restart, and is the same as on
  other nodes of that version; references keep blocks alive; recovery ends;
* name space: what a listing holds is not freed, what was removed is kept for its
  time, an archive loads as a tree and files in it keep their blocks;
* ids: unique and increasing; block ids decode;
* connections: a node is known before its blocks are; one loop that dials between
  two nodes;
* placement: a copy goes to a usable server that has none, and over two racks if
  there are two;
* a file, from master, nodes and clients together: a sequence that grows at its
  end; an upload keeps the order of the local file and ends, a download finds what
  it was told of;
* rpc: a call returns, with its own answer; a node that registers is registered
  again after its connection broke.

### paxos and zookeeper

Servers elect a leader by votes (epoch, id, newest transaction), which they
repeat and pass on; the leader then brings followers up to date (`lead.cpp`,
`follow.cpp`), orders transactions and writes them to a log (`dataset.cpp`). The
election is complete enough to be modelled. It should lead a server to a leader
whose log is not older than its own and whose epoch is its own. Leading and
following are unfinished in places (see the plan).

### The rest

`spider/` reads pages: `UrlGraph::Search` hands urls to a pool of coroutines
through the channel `waitDoing`, they send links and the ends of pages back through
`evts`, and results through `tofile` to a coroutine that writes them to a file. Each
url is to be read once, and the search to end when nothing is left, though each of
the three waits for the others. `yarn/` has an rpc channel whose loop registers a
node with its master, a state machine of resources and an event dispatcher which
nothing drives; `olib/` has file, xml and socket helpers; `depends/htmlparser`
parses html. `third/`, tinyxml, curl and the `*.pb.*` files are vendored or
generated.

## Modules

| module | models | main correspondence |
|---|---|---|
| `BlockVersion` | `NextVersion` (`master/block/Block.h:53`) and the versions a primary makes (`node/block/Block.cpp:121`) | a version is a term (high bits) and a count; `TermWidth` is the size of the low part |
| `MasterBlock` | the master's record of one block | the variables are the members of `Block`; one action per method, with everything that it calls under its mutex |
| `ChunkNode` | one block on every data node | `blk` is the `Block` object, `disk` its two files, `op` the coroutine of a client write, in the steps between which the mutex is free, `tasks` the forked copies, `chan` the connections |
| `BlockReplication` | `MasterBlock` and `ChunkNode` together, with the messages between them | `M == INSTANCE MasterBlock`; handlers of the master call its operators, those of the nodes are actions of `ChunkNode` |
| `IdGenerator` | `OfsId.h` | each thread's load, computation and compare-and-swap are steps; the shifts are products, so that the widths are parameters |
| `Namespace` | `master/file` and how the client service and reports use it | `tree` from path to node, `index` is `_files`; collector and saver are stacks of frames that hold shared locks, directory by directory; the collector then looks at what is in use (`Inspect`) and frees (`Sweep`) under the exclusive lock, two steps since a report takes a file without a lock |
| `Registration` | message queue, registration, gossip | per node the place in the dial loop, per connection what has been sent and who reads it |
| `Election` | `Election::LookForLeader` | one server; each vote popped is a step, other servers are arbitrary votes |
| `Placement` | `Distribute` and what calls it for a block | the `Choose…` functions are sets of the servers they may return, `Distribute` the set of its results |
| `FileTransfer` | one file: uploaders and a downloader (`ofs/client`), the master's 32 bit size (`FileSystem.h`, `File::UpdateSize`), blocks, reports | `put` and `get` are the calls of the two `Start` functions, one action per remote call they make |
| `RemoteFile` | what a file is to its users | abstract |
| `Rpc` | `CallMethod`, the loop of `Start`, `DealConn` of `ofs/` and `yarn/` | per coroutine the place in `CallMethod`; requests and answers under way on each connection |
| `UrlGraph` | `UrlGraph::Search`, the readers, `start()` and the writer of `spider/main.cpp` | three channels as sequences, the sending side of each a step |
| `Crawl` | what a search through pages is | abstract |
| `*Proofs` | the proofs about the module of that name | `FileProofs` has those about a file as a whole: its ids (`IdGenerator`), the servers of its blocks (`Placement`) and its content (`FileTransfer`) |
| `MC*` | instances for TLC | |

`BlockVersion` is extended by `MasterBlock` and `ChunkNode`; `ChunkNode` and an
instance of `MasterBlock` make `BlockReplication`, in which clients, master and nodes
exchange messages. The other modules stand alone: what they share with the rest is
named in the abstractions below.

Two detailed modules are shown to implement an abstract one:

* `FileTransfer` implements `RemoteFile` (`ImplementsFile`): the content is that of all
  blocks one after the other, the size the master's. That the content only grows at
  its end is what the choice of the block by a size that is late, wraps and is
  reported out of order could break.
* `UrlGraph` implements `Crawl` (`ImplementsCrawl`): a page is opened when `Search` has
  decided to (the url may be with a reader before it is in `_pendings`), and the
  search is over when the code compares the sizes of two sets. In `Crawl` it is over
  when nothing found is left to open.

What `Placement` shows of every result of `Distribute` (`PlacesFreshServers`) is what
`MasterBlock` assumes of it (`Placements`, `RepairRoom`): the theorem
`MasterTakesPlacements`.

Operators marked *Mutant* are plausible errors in the definition that follows them;
each property is known to fail when the one listed for it in `PROJECT.json` takes the
definition's place.

## Runs

| run | configuration | question |
|---|---|---|
| `master_block` | two nodes, two copies wanted, terms of 2 versions, clock to 2, at most 3 entries | do version, announced version, entries, leases and repairs fit together whatever two nodes report and whoever becomes unusable? |
| `repair` | one client; 3 writes and a report of all blocks, or 2 writes, 2 repairs and a lost connection | do copies of one version agree, is none in a term that the master has not opened, is a recovered copy what was sent, batch for batch, and does every recovery end? |
| `crash` | two clients at once; 3 writes and a repair, or 2 writes and a repair with a stop of a node and a failed disk write, with a lost connection, or with a restart of the master | has a node what it serves, and would it load what it served? Is a block deleted under a coroutine, does a version in memory go back? |
| `id_generator` | three threads, 3 seconds, 3 numbers in each | do ids increase, do block ids decode? |
| `namespace` | two names, a file, a directory, paths of length 2, a listing or two saves, restarts, clock to 3 | is anything freed that a listing holds or that clients could see too recently? Is what was archived a tree, and do its files keep their blocks? |
| `registration` | three nodes of which the third only gossips, three connections to the master, a heartbeat or report, restarts of everyone | does the report after a registration find its node; is there one dial loop between two nodes? |
| `registration_heartbeat` | two nodes | is every heartbeat that of a node the master knows, as the assertion in `DataNodeService.cpp:169` says? It is not: see below |
| `election` | three servers, two zxids, epochs to 2, two claims to have a leader | does the server vote in its epoch, decide for no older log, lead only in its epoch? |
| `placement` | five servers in three layouts, two of them in trouble, 2 to 4 copies | is every placement one that `MasterBlock` allows, does a repair find what is there, do copies span two racks? |
| `file_transfer` | an upload of two batches and one of less than one, a download, one early end of a lease or lost report | is the file one sequence that grows at its end, are retries in order, is a download complete, does an upload end? |
| `rpc` | three coroutines, with and without the loop, two connections of which the first may break, one failed connect | has a call its own answer, does it return, is the node registered in the end? |
| `url_graph` | four urls, two readers, channels of one, no limit and a limit of 2 | is each page read once, does the search end when nothing is left and not before, has the file all results? |

### Why these bounds

The hazards need few actors: all races between a primary and a secondary, a copy
and a write, two clients of a primary, appear with two nodes; a third repeats what
the second does, and `MasterBlockProofs` covers any number for the record.
`BlockSize` 2 is the least with a batch before and after another one, `TermWidth`
2 (or 4) the least that lets a term be left and, in the composition, holds all
versions of the writes. A clock to 2 gives a lease that is alive, ends and is
granted again. In `BlockReplication` a *budget* bounds how often the environment acts,
and a configuration gives several, each of which spends it on one kind of trouble;
a behaviour keeps within one of them.

In `Namespace` paths of length 2 let a directory be removed with a file in it; a
clock to 3 is two expiries of length 1 after a removal. In `Registration` three nodes
are the least that can gossip about a third, three connections the least with an
old, a new and another node's one. In `Election` three servers give a quorum without
the server itself, and two that say they have a leader are a quorum. In `Placement` five servers are the least with which a block of
four copies can get more than are missing, and the layouts are one data center of
two racks, two of which one has two racks, and two of one rack each: each makes
another one of the walks step over the only entry that it has. In `FileTransfer`
sizes take six values, so that three blocks of two batches reach the sign and the end
of the range; the first upload ends on a block's boundary, the second within a
batch. In `Rpc` one broken connection meets every place of the loop and of two calls,
and a third coroutine waits for either mutex. In `UrlGraph` channels of one are the
fullest that a channel can be; a page has no links, links to two others, or a link to
a third one and one back to the first.

Four runs have a `CONSTRAINT`, which keeps apart what need not meet: in `namespace` a
listing and the saves, in `registration` the third node's connections and what is sent
after a registration, in `election` a third server with a leader, in `placement` a third
server that is not usable or has a copy that does not count. These runs check safety
only. `election`, `namespace`, `registration`, `placement` and `crash` are the ones whose
bounds are tightest for what they ask; all their properties are also proved, without
any bound.

`CHECK_DEADLOCK FALSE` is stated where the bounds end the behaviour (all clocks and
counters spent, all uploads returned), never for a system that waits for itself: `rpc`,
`url_graph`, `id_generator`, `election` and `placement` are checked for deadlock.
Symmetry is used over nodes, clients, threads and names, which nothing orders; never
over the ids of `Registration` and `Election`, which are compared, and never where a
liveness property is checked.

### Fairness

* `repair`: `WF(FromNode(n, a))`, that a node goes on handling what another node sent
  it. In the code each connection has a coroutine in `MessageQueue::Poll` that reads
  until the connection ends, and handlers do not wait for other messages. Nothing is
  assumed of clients, of the master or of the tickers. `RecoveryEnds` excludes stops
  and lost connections, because with them a recovery really may not end.
* `file_transfer`: weak fairness of an upload that can go on, of the ticker that
  reports a node's blocks, and of the handler of reports. Ends of leases, lost
  reports, failing calls and downloads are not fair.
* `rpc`: what a coroutine does next when it can (read, fail, connect, close), the
  server's answers while the connection works, and strong fairness of getting the
  write mutex, which others take in between (`hn_mutex` wakes those that wait in turn).
  New calls are never fair, breaks neither.
* `url_graph`: weak fairness of the loop, of each reader and of the writer. That a
  reader gets on from a page is what the timeout of curl is for (`URLReader.h` sets it
  to ten seconds).

## Proofs

TLAPS proves the theorems listed in `PROJECT.json` for every value of the
constants that satisfies the modules' `ASSUME`s.

* `MasterBlockProofs`, for any set of servers, racks, leases, clock and bound on
  the entries. The inductive invariant `SafeInv` is the conjunction of
  `TypeOK`, `ExpectWithinOneTerm`, `NoHealthyReplicaAhead` and
  `LeaseCoversReplicas`: the announced version is compared with the entries only
  through the version known, so that the first two and the third need each other
  when a report is absorbed. One lemma per operation (`GrantLeaseSafe`,
  `ReportSafe`, `ClearSafe`, `RepairSafe`, …) rests on lemmas about vectors of
  entries (`SetReplica`, `PlacedReplicas`) and on `NextVersionIsNext` and
  `NextVersionMonotone` about the packed versions. The action properties
  (`VersionsNeverGoBack`, `NewTermIsNewest`, `RepairOnlyWhenQuiet`) follow from the
  invariant and one step. `RepairOnlyWhenQuiet` (`RepairsWaitForNewestLeases`) is about
  replicas at the version known: one that another has overtaken may still have a live
  lease when a repair is ordered.
* `FileProofs`. Of `IdGenerator`, for any number of threads, field widths and
  clock: `IdInv` says of each thread between load and swap that the id it computed is larger
  than the one it loaded, which is all a successful swap needs; `DivMod`, `Fields`,
  `LaterIsLarger` and `BlockDecodes` are the arithmetic of packed fields.

  Of `Placement` it proves what the run checks, for any finite set of servers, any
  layouts and any number of copies. `PlacementInv` is its types; the work is in
  `Distribute`, about which there is one lemma per `Choose…` function (`ThirdCopy`,
  `SecondCopy`, `MoreCopies`): each only appends (`Continues`) servers that are usable,
  new to the block and not yet chosen (`Chosen`), and so many (`DistributeFresh`).
  `GoodServers` says whom the loop of `CheckReplica` collects, so that no server of an
  entry is free. `RemoteIsFound` and `OtherRack` are about the walks that step over the
  excluded rack or center, `SecondIsRemote` carries the server they find into the
  result. `MasterTakesPlacements` puts the results among the `Placements` of
  `MasterBlock`.

  Of `FileTransfer` it proves all that the run checks but `UploadEnds`, for any clients and
  local files, any size of a block, and any number of early lease ends and lost reports.
  `TransferInv` says that blocks are `Filled` (one is begun when the one before is full),
  that an upload's block, unless it overwrites, has only full ones before it whatever
  has filled it up since the master chose it (`PutInv`), that the size and each report on its way are of
  what is stored (`SizeInv`), that a download has read what is there or has been
  overwritten (`ReadInv`) and is in the block of its next batch (`GetInv`).
  The content is a fold over the blocks; `Stored` gives it a closed form, batch k
  of block b at the place `At(b, k)`, so that a step is one at the end of the content
  (`Appended`) or in its place (`Replaced`). With that each step is one of `RemoteFile`
  or a stutter (`TransferImplementsFile`). `BatchesStayInOrder` needs `OrderInv` on
  top: an upload has as many batches in the file as it has come past in the local one,
  for its place there goes back after a refusal, unless its stream has failed at the
  last batch, which is the one that may be there more than once.
* `ElectionProofs`, for any servers, epochs and zxids and any votes. `IInv` adds to
  `TypeOK` and `LeadsInOwnEpoch` that what is voted for while searching is as new
  as the server's log (`LogInv`), which `BetterIsBetter` keeps through changes of
  epoch, and that a server that has not returned has no leader.

* `BlockReplicationProofs`, for any servers, clients, size of a block and of a term,
  and for any budgets, so that the environment may stop nodes, lose connections, fail
  writes and restart the master any number of times and in any order. `IInv` is
  `TypeInv` and `NodesInv`:
  * *messages* (`Mail`): a notification leads to no older version, and a batch of a
    copy is one of a copy that was sent (`copied`);
  * *each node* (`NodeInv`): the coroutines between `BlockManager::Get` and the release
    and the forked copies hold that many references (`Held`), none has read a version
    that the block has left behind, what can be read is in the file, a block that is being
    recovered has room for what comes and will get newer (`Sound`), the meta file
    follows the block unless a write to the disk failed (`Saved`), and a batch counted
    as received was sent or is torn (`Received`).

  The guards of the code compare versions before and after the mutex is free, so that
  the messages under way and the calls in progress have to be in the invariant: with
  `NodesInv` alone a late notification would take a block back. Per step the proof says
  what of a node it keeps (`Keeps`) and that messages `Follow`, one lemma per action.

  `CopiesStayInGrantedTerms` is about where versions come from. `TermInv` says that every
  version that a block, a meta file, a message or a lease names is one of `Grants`:
  in a term that the master has opened, and within it at most the number of client writes
  that have been asked for and are not `Pending` any more, since a node that counts on
  without limit would count into the next term. `LeadInv` (the master is at most one term ahead
  of what it has heard of) makes the announced version grow. The theorem holds while
  `TermsLast`: the master has not been restarted, for it forgets its terms, and there were
  fewer client writes than a term has versions (2^32 in the code). Both are needed: `crash`,
  which restarts the master, does not check `NoCopyBeyondGrantedTerm`.
* `NamespaceProofs`, for any names, depth, expiry, ids and clock. In `IInv`, `TreesInv` says
  that with a node all are there that are on the way to it (`Grown`), of the tree, of what
  is archived and of what is on disk; `IdsInv` that in all three an id is at one path,
  which is what lets a node removed, saved, and loaded again be one node; `WalkInv` that the stacks of
  collector and saver lead down directories that exist and, for the saver, whose
  entries it has not archived yet; `HeldInv` and `SeenInv` relate the time of a removal
  to that of a listing and of the last time something was visible; `IndexInv` covers the
  files that a restart may bring back; `LockInv` says that the directory which the
  collector has locked has no subdirectory left to walk and no saver in it.
  What the collector frees is judged by the history variable `seen`, which no restart
  sets back. `FreedAfterExpiry` excepts `undone`: what clients had got back (`fresh`)
  since the save began that a restart has loaded. That nothing else comes back with an
  older time of removal than it should is `SavedInv`: of what is archived and of what is
  on disk, a node that is removed there and not in `fresh` or `undone` was not seen
  after that removal. Paths are sequences, and `PrefixIsOnWay`,
  `WayOfParent` and their like make induction over them unnecessary. That the collector
  does not free a directory in which the saver is comes from its guard alone, and
  `WalkInv` is where it is needed.
* `RegistrationProofs`, for any nodes, connections, messages and restarts. `OrderInv`
  says that on each connection the registration is before a report of all blocks or has
  been handled, also for the report that a node is about to send; `ConnInv` says that a
  node has a connection for itself. `LoopInv` is inductive alone: a node dials nodes of larger
  ids, each once.
* `RpcProofs`, for any coroutines, connections and failures. `QueueInv` is the idea of
  pipelined calls: what comes back on a connection are the answers to those
  that wait (`Waiting`: the one that reads, then the one that has sent) in
  their order, and all of them while the connection works; `MutexInv` says that there are no
  others.
* `UrlGraphProofs`, for any pages and links, readers, limits and sizes of the channels.
  `PlaceInv` has each url in one place, `CoverInv` says that a link of a page is opened, need not
  be, or is ahead of the report that the page is done, and `FileInv` that the mark of the
  end is behind all results. From these `SearchImplementsCrawl`: the first state maps to
  that of `Crawl` and each step to one of its steps or a stutter; that the search
  ends only when nothing is left is `CoverInv` with `dones = pendings`. The url `##END##`, which the
  code uses as the mark, is assumed to be none that a page links to.

Of the assumptions, those on `None`, `Master` and the mark keep values apart that
differ in the code by their type or use; `MaxTick` of `Namespace` is at least 1 because the clock starts there.
In `FileTransfer` the block size divides 2^32, which a configured size in MB does when it
is a power of two; with others the block in which the size wraps is never filled.

Only model-checked:

* `CopiesAgree` of `BlockReplication`: why two copies of a version hold the same is in the
  writes that led to the version, which no variable of the model keeps; it is checked
  with one client at a time. `TypeOK` there also bounds
  versions by what the budgets allow, which is the part of it `TypeInv` leaves out.
* `HeartbeatsFindNode`, which is violated.
* Liveness (`RecoveryEnds`, `UploadEnds`, `SearchEnds`, `CallsEnd`, `RegistersAgain`),
  and ENABLED: they are out of the prover's reach. So are the library's theorems of
  induction, which take an operator. The two recursive functions that
  proofs are about, `Good` of `Placement` and the fold of `Content` (`Joins`), are handled
  by the least number at which a claim about them fails (`LeastNumber`), which
  well-foundedness of the naturals gives without such a theorem.

## Abstractions and assumptions

* What an object does under its mutex is one step; so is the handler of one
  message. A client write on a node is three steps, because it reads the version
  before it takes the mutex and again after (`node/client/ClientService.cpp:60-66`).
  That second reading, the notifications and the report to the master are one step
  (`FinishWrite`): a second write between the reading and the sending would announce
  the two out of order, of which a secondary takes one.
* Data is counted in batches and a batch is the number of the write that made it;
  `Torn` is a batch written in part. Write offsets are within the block, and a
  client that overwrites does so at the first batch.
* The client's token, the check of the file and the update of the file's size are
  not in `BlockReplication`; its file exists. In `Namespace` sizes, owners and
  authorities are left out; refused calls change nothing and are stutters.
* In `MasterBlock` and `BlockReplication`, `Distribute` and `ChooseOne` return any
  usable servers, all different, none
  excluded, no more than are missing. A repair may always find none; a first
  placement finds at least one when some server is usable. `SelectUnnecessary`
  is modelled by how many copies it keeps of each rack (`Selected`); which ones
  of a rack, which the code draws at random, is any choice.
* `Placement` follows one block and takes versions, leases and clean-ups out of it:
  an entry counts as a copy or does not. A server has one entry; that the code's
  list can come to hold a second one for it is in `MasterBlock` only.
* `FileTransfer` has one copy of each block, for its concern is which block a batch
  goes to, and takes the local file to open (`local.bad()` says nothing of an open
  that failed, `OfsFileUploader.cpp`). Reports are a set: what comes
  second with a smaller length changes nothing. A block's length is all that its
  version means here.
* `Rpc`: a channel that gives up its connection closes it and forgets the number in one
  step with the release of the mutex (`Rpc.cpp:51-59`); descriptors are not reused,
  both ends of a broken connection can tell, and a failed read leaves nothing to be read on that connection. `Stop` of a channel is
  never called.
* `UrlGraph`: a page is bad, or good with any of the lists of links; what its text is,
  and fetching and parsing it, are left out. An exception of the parser itself, which
  `spider/main.cpp:37` calls outside its `try`, would end the reader, or the program.
* A restart of the master in `BlockReplication` loses the block's record, the calls
  that wait for its lease and the messages to and from it; nodes register again, each
  at its own time, and report. Its name space is loaded in `Namespace`. Otherwise a
  connection that is lost is
  there again at once; of what was under way some prefix has arrived. A crash of a
  node loses all that it was sent and had not handled.
* `Resize` of a file always succeeds; on Windows a second one would fail while
  the recovery holds the file open.
* `IdGenerator`: the clock is not set back before the second in which the master
  started, and a restart takes until the second after that of the last id. Both
  are needed: without them ids repeat.
* `Namespace`: a listing is answered within the deletion expiry (that is what the
  expiry is for: "node is not delete immediately",
  `master/client/ClientService.cpp:71`). The entries of a directory are archived as
  they are when the saver comes to it; in the code a removal, which holds the shared
  lock too, may come between two of them, or between the mark and the time of one
  entry. The collector looks at all files of a directory before it frees any, where the
  code takes them one by one. `Report` takes files that exist: a freed one that is still in
  the index is left out (see below). A file whose archive is torn does not load
  and the master does not start, so that only complete archives are restarted
  from.
* `Registration`: gossip reaches any of the peers of a node or none; the chosen
  neighbour is any known node or none; the silence timeout is a connection that
  ends at any time. Reading what was sent before a connection ended goes on, but in
  `BlockReplication` not beside what comes over the next connection
  (`MessageQueue.cpp:63-81` reads each accepted one in a coroutine of its own).
* `Election`: votes are any records over the servers, epochs and zxids, the
  uninitialised one of `election.cpp:300-305` included. What is local to
  `LookForLeader` is forgotten on return. `_state` of `PaxosImpl` is never set to
  LOOKING again, so that the function runs once per process; what Echo answers is
  one of the votes of the other servers' environment.

## Flaws met while modelling

The run `registration_heartbeat` shows a heartbeat that overtakes the registration:
`MessageQueue::Connect` publishes the descriptor (`MessageQueue.cpp:111`) before it
sends the header and the registration, so that the coroutine of
`NodeService.cpp:225-244` may send in between; the master then dereferences the
null pointer that `assert(dataNode)` (`DataNodeService.cpp:169`) excludes.

Other behaviour which no document or assertion excludes, so that no property says
the contrary. What is under "hazards" in `PROJECT.json` has a note there.

Replication:

* A secondary whose report comes before the primary's becomes the main replica and is
  given a second lease while the first lives (`master/block/Block.cpp:103`).
  `CopiesAgree` is therefore stated for versions that one client write made.
* `SelectUnnecessary` returns the copies to keep and they are cleaned
  (`master/block/Block.cpp:191`). A replica that is behind or faulty is told to clean its
  copy whenever replicas are checked (`:166`), its own lease alive or not.
* A node that is recovering reports its copy as sound (`node/block/BlockManager.cpp:61`) and
  may be told to copy it: `RecoveredFromCopies` says that what arrives is what was sent,
  not that the source was whole.
* A file that is shorter than its meta file says is skipped at the start but stays
  (`BlockManager.cpp:94`), and a new block of that id begins with its bytes.
  `RestartLoadsWhatWasServed` compares versions and sizes, and does not show that.
* A restarted master starts again from version 0, grants terms that it has granted
  before and ignores updates of nodes until their next report of all blocks: two
  copies can then have one version and different data. `crash` includes the restart
  for the properties of a node, which survive it.
* A batch of a recovery that is sent twice stays received when the second write of it
  tears (`Recover`, `node/block/Block.cpp:29`), and the block becomes readable with it.
* A node whose recovery is interrupted is recovering forever
  (`node/block/Block.cpp:160`). A stop between the removal of a block's data and of its
  meta file leaves a file at which the next start throws (`node/block/Block.cpp:214`).

Files:

* A local file whose length is a multiple of the batch has its last batch sent twice;
  an empty one sends a buffer that was never set. A last batch that a full block
  refuses is sent for ever, since a failed stream neither seeks nor ends
  (`OfsFileUploader.cpp:119`).
* Overwriting sends the offset in the file where the node takes one in the block
  (`OfsFileUploader.cpp:43`), so that it stops at the second block.
* A size of 2 GB and more is negative for clients; at 4 GB it wraps to 0, and appends
  go to the full last block (`master/file/FileSystem.h:46`). After a restart of the
  master sizes are 0 until the nodes have reported.
* A node that is removed, saved and had back is loaded by a restart as removed, with its
  old time (`master/file/FileSystem.cpp:62`), and the next walk of the collector may free
  it, however recently clients have used it. `FreedAfterExpiry` names this exception.
* The collector asks `IsUsed` and then deletes (`master/file/Directory.cpp:151-159`), and
  `GetFile` takes its reference under another lock: a report may begin to use a file that
  is freed under it. A freed file also stays in the index (`FileSystem.h:30`).
* The only copy of the tree is truncated before it is written
  (`master/file/FileSystem.cpp:63`): a master that stops in between does not start
  again.

Placement (`DefaultDataCluster.cpp`): with several data centers a free server in the
first copy's own rack is found only if its center has no other rack; a third copy is
missing when the second's rack has no other server; from four copies on more can be
placed than are missing.

Others: calls have no timeout, so that a half-open connection stops all who share a
channel; a refused `RegisterNM` counts as done, and a heartbeat can come before it on a
new connection (`yarn/common/rpc/Rpc.cpp`). The seed of tokens is 0 after eleven logins
(`UserManager.cpp:134`). A server of `paxos/` that has lost its leader never elects
again (`PaxosImpl.cpp:64`), and two servers of one epoch can lead
(`election.cpp:292`).

## Not modelled

* *Leading, following and the log of `paxos/`, and `zookeeper/`.* As it stands the code
  commits nothing: the log of a new epoch is opened in a mode that does not create it
  (`transaction/dataset.cpp`), drafts are sent as buffers of zeros and a leader of three servers waits for
  both others (`lead.cpp`), an epoch of 0, with which all start, is not taken for an
  answer. A model that repairs any of it is not of this code, and one that does not
  takes no step worth checking. `zookeeper/` is the predecessor, function for function.
* *Users and tokens*: they are read once, and all a token does is to let a call be
  refused, which is a stutter of every other model.
* *Starting of the processes, instruction sequence, most of `yarn/`, `storm/`, `spark/`*:
  nothing calls it, or it is empty.
* *`olib/`, html parser, parsing of pages, configuration, the shells*: conversions
  without state of their own. A write to a file is modelled where it is used.
* *Reuse of a descriptor's number* in `MessageQueue` and `Rpc`: it depends on the
  library `hnet`, which is not in the tree.

Of the source's 152 thousand lines all but some sixteen thousand are vendored or generated
(the headers of protobuf, `*.pb.*`, four copies of tinyxml, curl, `args.h`), and of
those the larger part is what is listed above. The share of the lines of the whole tree
that the models cover is therefore small; what `ofs/` does of its own with files,
blocks, copies, connections and calls is what they are about.

## Plan

The order is that of importance: what data a client gets back comes first.

1. done: `MasterBlock` with its proof, `ChunkNode`, `BlockReplication` with stops of
   nodes, failed writes and restarts of the master.
2. done: `IdGenerator` with its proof, `Namespace`, `Registration`, `Election` with its
   proof.
3. done: `Placement`; `FileTransfer` and `RemoteFile`; `Rpc`; `UrlGraph` and `Crawl`.
4. done: proofs about `Registration`, `Rpc`, `UrlGraph` with its refinement, the
   composition `BlockReplication`, and `Namespace`.
5. done: proofs about `Placement`, and that what its `Distribute` returns is in `Placements`
   of `MasterBlock`; proofs about `FileTransfer` with its refinement of `RemoteFile`.
6. Not planned: leading and following of `paxos/`, until the code commits (see above).
