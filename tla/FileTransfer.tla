----------------------------- MODULE FileTransfer -----------------------------
(***************************************************************************)
(* One file of OFS as its users see it: uploads and downloads              *)
(* (ofs/client), the master's size of the file and choice of blocks, the   *)
(* blocks on the data nodes and the reports that tell the master how long  *)
(* they are.                                                               *)
(*                                                                         *)
(* Lengths are counted in batches (BATCH_SIZE).  Each block has one copy;  *)
(* what several do is in BlockReplication.                                 *)
(***************************************************************************)
EXTENDS Integers, SequencesExt

CONSTANTS Client,      \* those that upload
          Local,       \* their files: [full, part], full batches and a rest
          BlockSize,   \* FileSystem::_blockSize
          SizeRange,   \* the number of values of a 32 bit integer
          MaxTroubles  \* bound on the leases that end too early and the
                       \* reports that are lost, together

ASSUME FileTransferAssumption ==
  /\ Local \in [Client -> [full : Nat, part : BOOLEAN]]
  /\ BlockSize \in Nat \ {0}
  /\ SizeRange \in Nat \ {0} /\ SizeRange % BlockSize = 0
  /\ MaxTroubles \in Nat

VARIABLES blocks,    \* the data of each block, on its node
          known,     \* Block::_size of the master's records
          fileSize,  \* Node::_size of the master's file
          reports,   \* <<block, size>> on their way, in any order: known is
                     \* a maximum; those that it has passed are left out
          put,       \* the call of FileUploader::Start of each client
          get,       \* the call of FileDownloader::Start
          troubles

transferVars == <<blocks, known, fileSize, reports, put, get, troubles>>

Block == 1..(SizeRange \div BlockSize)

\* A batch is known by who sent it and by its number in the local file.
LastBatch(c) == Local[c].full + (IF Local[c].part THEN 1 ELSE 0)
Batch == UNION {{c} \X (0..LastBatch(c)) : c \in Client}

TransferInit ==
  /\ blocks = [b \in Block |-> <<>>]
  /\ known = [b \in Block |-> 0]
  /\ fileSize = 0
  /\ reports = {}
  /\ put = [c \in Client |-> [pc |-> "out", size |-> 0, pos |-> 0,
                              failed |-> FALSE, block |-> 0]]
  /\ get = [pc |-> "out", size |-> 0, block |-> 1, got |-> <<>>]
  /\ troubles = 0

-----------------------------------------------------------------------------
(***************************************************************************)
(* The master's arithmetic, in 32 bits; clients take sizes as signed.      *)
(***************************************************************************)
Signed(n) == IF 2 * n < SizeRange THEN n ELSE n - SizeRange

CalcBlockCount(n) == (n \div BlockSize) + (IF n % BlockSize = 0 THEN 0 ELSE 1)

\* Mutant: the last block that there is, also when it is full.
CalcLastBlock(n) == IF n = 0 THEN 1 ELSE CalcBlockCount(n)

CalcAppendBlock(n) == (n \div BlockSize) + 1

CalcFileSize(b, n) == ((b - 1) * BlockSize + n) % SizeRange

\* Mutant: the report that comes last counts.
UpdateLast(old, n) == n

\* File::UpdateSize: the loop of compare-and-swap ends with the larger one.
UpdateSize(old, n) == IF old < n THEN n ELSE old

-----------------------------------------------------------------------------
(***************************************************************************)
(* Uploading.                                                              *)
(***************************************************************************)
\* Client::Put: GetSize, then FileUploader::Start with the size as it was.
StartPut(c) ==
  /\ put[c].pc = "out"
  /\ put' = [put EXCEPT ![c].pc = "ask", ![c].size = Signed(fileSize)]
  /\ UNCHANGED <<blocks, known, fileSize, reports, get, troubles>>

\* offset < oldSize.  The offset stays behind the reading position once what is
\* there has been written over.
Overwrites(c) == put[c].pos < put[c].size

\* A lease to overwrite the block of the offset, or to append to the block that
\* the size leads to.
AskForBlock(c) ==
  /\ put[c].pc = "ask"
  /\ put' = [put EXCEPT ![c].pc = "send",
                        ![c].block = IF Overwrites(c)
                                     THEN put[c].pos \div BlockSize + 1
                                     ELSE CalcAppendBlock(fileSize)]
  /\ UNCHANGED <<blocks, known, fileSize, reports, get, troubles>>

\* A read that does not fill the buffer sets eof and fail; one of a stream that
\* has failed does nothing, and sets no eof.  What is sent is the buffer, with
\* what is left in it of earlier reads; a local file without a rest has its
\* last batch sent again.
Short(c) == put[c].failed \/ put[c].pos = Local[c].full
Eof(c) == ~put[c].failed /\ put[c].pos = Local[c].full
Buffer(c) == <<c, IF Short(c) THEN LastBatch(c) ELSE put[c].pos + 1>>

\* Start returns.
Ended(c, pc) == [put EXCEPT ![c] = [pc |-> pc, size |-> @.size, pos |-> 0,
                                    failed |-> FALSE, block |-> 0]]

\* The node has taken it: the next batch, the next block, or the end of the file.
Sent(c) ==
  LET pos == IF Short(c) THEN put[c].pos ELSE put[c].pos + 1
      over == /\ Overwrites(c)
              /\ pos % BlockSize = 0 \/ pos >= put[c].size
  IN  IF Eof(c) THEN Ended(c, "done")
      ELSE [put EXCEPT ![c].pos = pos, ![c].pc = IF over THEN "ask" ELSE "send"]

\* NodeService::Report, or a block among those of the periodic report.
Report(b, n) == IF known[b] < n THEN reports \cup {<<b, n>>} ELSE reports

\* Mutant: what was refused is not read again.
SeekNothing(c) ==
  [put EXCEPT ![c].pc = "ask",
              ![c].pos = IF Short(c) THEN @ ELSE @ + 1,
              ![c].failed = Short(c)]

\* EC_BLOCK_FULL or EC_LEASE_EXPIRE: seekg(-gcount) clears eof, but does not
\* move a stream that has failed.
SeekBack(c) == [put EXCEPT ![c].pc = "ask", ![c].failed = Short(c)]

\* Block::Append has room.
Fits(b) == Len(blocks[b]) < BlockSize

SendAppend(c) ==
  LET b == put[c].block
  IN  /\ put[c].pc = "send" /\ ~Overwrites(c)
      /\ IF Fits(b)
         THEN /\ blocks' = [blocks EXCEPT ![b] = Append(@, Buffer(c))]
              /\ reports' = Report(b, Len(blocks[b]) + 1)
              /\ put' = Sent(c)
         ELSE /\ put' = SeekBack(c)
              /\ UNCHANGED <<blocks, reports>>
      /\ UNCHANGED <<known, fileSize, get, troubles>>

\* The offset that is sent is that in the file, which a block but the first
\* refuses as out of range; only expiry is tried again.
SendWrite(c) ==
  LET b == put[c].block
      i == put[c].pos + 1
  IN  /\ put[c].pc = "send" /\ Overwrites(c)
      /\ IF i \in DOMAIN blocks[b]
         THEN /\ blocks' = [blocks EXCEPT ![b][i] = Buffer(c)]
              /\ reports' = Report(b, Len(blocks[b]))
              /\ put' = Sent(c)
         ELSE /\ put' = Ended(c, "stopped")
              /\ UNCHANGED <<blocks, reports>>
      /\ UNCHANGED <<known, fileSize, get, troubles>>

\* The lease ends before the batch is there.
Expire(c) ==
  /\ put[c].pc = "send"
  /\ troubles < MaxTroubles
  /\ troubles' = troubles + 1
  /\ put' = SeekBack(c)
  /\ UNCHANGED <<blocks, known, fileSize, reports, get>>

\* A call fails, or the block has no usable server.
StopPut(c) ==
  /\ put[c].pc \in {"ask", "send"}
  /\ put' = Ended(c, "stopped")
  /\ UNCHANGED <<blocks, known, fileSize, reports, get, troubles>>

-----------------------------------------------------------------------------
(***************************************************************************)
(* Reports.                                                                *)
(***************************************************************************)
\* DataNodeService::OnUpdate and OnReport: a block that has grown makes the
\* file grow.
OnReport(b, n) ==
  /\ <<b, n>> \in reports
  /\ known' = [known EXCEPT ![b] = n]
  /\ fileSize' = UpdateSize(fileSize, CalcFileSize(b, n))
  /\ reports' = {r \in reports : r[1] = b => r[2] > n}
  /\ UNCHANGED <<blocks, put, get, troubles>>

\* BlockManager::Report, from a ticker.
PeriodicReport(b) ==
  /\ blocks[b] # <<>>
  /\ reports' = Report(b, Len(blocks[b]))
  /\ UNCHANGED <<blocks, known, fileSize, put, get, troubles>>

Lose(r) ==
  /\ troubles < MaxTroubles
  /\ troubles' = troubles + 1
  /\ reports' = reports \ {r}
  /\ UNCHANGED <<blocks, known, fileSize, put, get>>

-----------------------------------------------------------------------------
(***************************************************************************)
(* Downloading.                                                            *)
(***************************************************************************)
\* GetRemoteFileSize; a negative size is an error, of an empty file nothing
\* is read.
StartGet ==
  /\ get.pc = "out"
  /\ get' = [get EXCEPT !.pc = IF Signed(fileSize) > 0 THEN "read" ELSE "end",
                        !.size = fileSize]
  /\ UNCHANGED <<blocks, known, fileSize, reports, put, troubles>>

\* Mutant: of the last block, too, all is wanted.
WantedAll(i, n) == BlockSize

Wanted(i, n) ==
  IF i # CalcBlockCount(n) THEN BlockSize ELSE n - (i - 1) * BlockSize

\* One turn of GetBlock's loop, which goes to the next block after the last one.
\* A call that fails ends it; it then never takes the next turn.
ReadBatch ==
  LET i == get.block
      offset == Len(get.got) - (i - 1) * BlockSize
      next == IF offset + 1 < Wanted(i, get.size) THEN i ELSE i + 1
  IN  /\ get.pc = "read"
      /\ get' = IF offset + 1 \in DOMAIN blocks[i]
                THEN [get EXCEPT !.got = Append(@, blocks[i][offset + 1]),
                                 !.block = next,
                                 !.pc = IF next <= CalcBlockCount(get.size)
                                        THEN "read" ELSE "end"]
                ELSE [get EXCEPT !.pc = "out of range"]
      /\ UNCHANGED <<blocks, known, fileSize, reports, put, troubles>>

Upload(c) == AskForBlock(c) \/ SendAppend(c) \/ SendWrite(c)

TransferNext ==
  \/ \E c \in Client : StartPut(c) \/ Upload(c) \/ Expire(c) \/ StopPut(c)
  \/ \E b \in Block : PeriodicReport(b) \/ \E n \in 1..BlockSize : OnReport(b, n)
  \/ \E r \in reports : Lose(r)
  \/ StartGet \/ ReadBatch

\* Uploads go on, reports are handled and sent again and again.
TransferSpec ==
  /\ TransferInit /\ [][TransferNext]_transferVars
  /\ \A c \in Client : WF_transferVars(Upload(c))
  /\ \A b \in Block : /\ WF_transferVars(PeriodicReport(b))
                      /\ WF_transferVars(\E n \in 1..BlockSize : OnReport(b, n))

-----------------------------------------------------------------------------
(***************************************************************************)
(* Properties.                                                             *)
(***************************************************************************)
Content == FlattenSeq(blocks)

File == INSTANCE RemoteFile WITH content <- Content, size <- fileSize

\* The blocks make up one file, whatever order uploads, retries and reports come
\* in: a block is begun when the one before it is full, batches are added at the
\* end of the file only, and the master's size goes up, never beyond what the
\* nodes have stored.
ImplementsFile == File!Spec

\* The batches of c among the first n.
Places(c, n) == {i \in 1..n : Content[i][1] = c}

\* A block is begun when the one before it is full.  Where nobody overwrites,
\* the batches of each upload are in the file in the order of the local file,
\* each once, up to the one it is at: a refused batch is neither lost nor stored
\* twice.  (Only the last one is repeated.)
BatchesInOrder ==
  /\ \A b \in Block : /\ Len(blocks[b]) <= BlockSize
                       /\ (b > 1 /\ blocks[b] # <<>>) =>
                            Len(blocks[b - 1]) = BlockSize
  /\ (\A c \in Client : put[c].size <= 0) =>
    \A c \in Client :
      LET mine == Places(c, Len(Content))
      IN  /\ Cardinality(mine) >= put[c].pos
          /\ put[c].pc = "done" => Cardinality(mine) > Local[c].full
          /\ \A i \in mine :
               LET n == Cardinality(Places(c, i))
               IN  Content[i][2] = IF n < LastBatch(c) THEN n ELSE LastBatch(c)

\* A download that is told of a size finds every batch of it, of the place it is
\* written to: it reads what has been stored there, or was until an upload
\* replaced it.
DownloadIsStored ==
  /\ get.pc # "out of range"
  /\ \A i \in DOMAIN get.got : \/ get.got[i] = Content[i]
                              \/ put[Content[i][1]].size > 0
  /\ get.pc = "end" /\ Signed(get.size) > 0 => Len(get.got) = get.size

\* An upload ends, although blocks fill up between its lease and its batch and
\* reports are lost, unless the refused batch was its last (the stream has failed
\* and never comes to its end) or the file has reached the end of 32 bits.
UploadEnds ==
  \A c \in Client :
    put[c].pc = "ask" ~> \/ put[c].pc \in {"done", "stopped"} \/ put[c].failed
                         \/ Len(Content) = SizeRange
=============================================================================
