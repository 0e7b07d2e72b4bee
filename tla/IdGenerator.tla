----------------------------- MODULE IdGenerator -----------------------------
(***************************************************************************)
(* File ids and block ids (ofs/master/OfsId.h).  A file id is a second and *)
(* a number within it; between the two it leaves room for the index of a   *)
(* block.  IdGenerator::GenerateId hands ids out to any number of threads  *)
(* by compare-and-swap on one atomic, whatever the wall clock does.        *)
(***************************************************************************)
EXTENDS Integers, Sequences

CONSTANTS Caller,    \* threads that create files
          MaxSeq,    \* MAX_SEQ, 0x3FF
          SeqSpan,   \* values of the low field, 0x3FF + 1
          IndexSpan, \* values of the middle field, 0x1FFFFF + 1
          MaxTick    \* bound on the wall clock, in seconds

ASSUME IdAssumption ==
  /\ MaxSeq \in Nat \ {0} /\ SeqSpan \in Nat /\ MaxSeq < SeqSpan
  /\ IndexSpan \in Nat \ {0}
  /\ MaxTick \in Nat \ {0}

VARIABLES clock,   \* TICK_FROM_TIMESTAMP of the wall clock
          started, \* what it was when the master started
          s_id,    \* the atomic: the last id handed out
          call,    \* call[c]: where thread c is, with its locals id and newId
          issued   \* the ids handed out, in order

vars == <<clock, started, s_id, call, issued>>

-----------------------------------------------------------------------------
(***************************************************************************)
(* The macros.  The shifts and masks are written as what they compute.     *)
(***************************************************************************)
TickFromId(id) == (id \div SeqSpan) \div IndexSpan
SeqFromId(id) == id % SeqSpan
BuildFileId(t, subId) == (t * IndexSpan) * SeqSpan + (subId % SeqSpan)

\* Mutant: the index is shifted one bit short.
NarrowBlockId(fileId, index) == fileId + (index % IndexSpan) * (SeqSpan \div 2)

BlockId(fileId, index) == fileId + (index % IndexSpan) * SeqSpan
IndexFromBlock(blockId) == (blockId \div SeqSpan) % IndexSpan

FileIdFromBlock(blockId) ==
  BuildFileId(TickFromId(blockId), SeqFromId(blockId))

-----------------------------------------------------------------------------
(***************************************************************************)
(* IdGenerator::GenerateId.                                                *)
(***************************************************************************)
Idle == [pc |-> "idle", id |-> 0, newId |-> 0]

Init == /\ clock \in 1..MaxTick
        /\ started = clock
        /\ s_id = 0
        /\ call = [c \in Caller |-> Idle]
        /\ issued = <<>>

\* The wall clock goes on, or is set, but not to before the master's start.
SetClock == /\ clock' \in started..MaxTick
            /\ UNCHANGED <<started, s_id, call, issued>>

\* The master is restarted, not within the second of its last id.
Restart == /\ clock' \in 1..MaxTick
           /\ \A i \in DOMAIN issued : TickFromId(issued[i]) < clock'
           /\ started' = clock'
           /\ s_id' = 0
           /\ call' = [c \in Caller |-> Idle]
           /\ UNCHANGED issued

Load(c) == /\ call[c].pc = "idle"
           /\ call' = [call EXCEPT ![c] = [@ EXCEPT !.pc = "loaded",
                                                    !.id = s_id]]
           /\ UNCHANGED <<clock, started, s_id, issued>>

\* Every number of the id's second is used up: sleep until the next one.
Exhausted(id) == TickFromId(id) >= clock /\ SeqFromId(id) + 1 >= MaxSeq

Wait(c) == /\ call[c].pc = "loaded"
           /\ Exhausted(call[c].id)
           /\ call' = [call EXCEPT ![c] = Idle]
           /\ UNCHANGED <<clock, started, s_id, issued>>

\* A new second starts at 0, an old one is counted on, also when the clock has
\* been set back.
Successor(id) == IF TickFromId(id) < clock
                 THEN BuildFileId(clock, 0)
                 ELSE BuildFileId(TickFromId(id), SeqFromId(id) + 1)

Build(c) == /\ call[c].pc = "loaded"
            /\ ~Exhausted(call[c].id)
            /\ call' = [call EXCEPT ![c] = [@ EXCEPT !.pc = "built",
                                       !.newId = Successor(call[c].id)]]
            /\ UNCHANGED <<clock, started, s_id, issued>>

\* Mutant: the new id is stored without comparing.
Store(c) == /\ call[c].pc = "built"
            /\ s_id' = call[c].newId
            /\ issued' = Append(issued, call[c].newId)
            /\ call' = [call EXCEPT ![c] = Idle]
            /\ UNCHANGED <<clock, started>>

Swap(c) == /\ call[c].pc = "built"
           /\ s_id = call[c].id
           /\ s_id' = call[c].newId
           /\ issued' = Append(issued, call[c].newId)
           /\ call' = [call EXCEPT ![c] = Idle]
           /\ UNCHANGED <<clock, started>>

\* Someone else was faster, or compare_exchange_weak failed for no reason.
Retry(c) == /\ call[c].pc = "built"
            /\ call' = [call EXCEPT ![c] = Idle]
            /\ UNCHANGED <<clock, started, s_id, issued>>

Next == \/ SetClock \/ Restart
        \/ \E c \in Caller : Load(c) \/ Wait(c) \/ Build(c) \/ Swap(c) \/ Retry(c)

Spec == Init /\ [][Next]_vars

-----------------------------------------------------------------------------
(***************************************************************************)
(* Properties.                                                             *)
(***************************************************************************)
\* The ids handed out, in the order of their swaps, strictly increase: no two
\* files get the same id, whatever the interleaving of the threads, when the
\* wall clock is set and when the master is restarted.
IdsIncrease ==
  \A i, j \in DOMAIN issued : i < j => issued[i] < issued[j]

\* The index field of a file id is free and its number fits, so that OR-ing an
\* index into it loses nothing: the file of a block and the index of a block,
\* from which reports find file and size, are what the block id was made of.
\* No two blocks, then, share an id.
BlockIdsDecode ==
  \A k \in DOMAIN issued, index \in 0..(IndexSpan - 1) :
    LET b == BlockId(issued[k], index)
    IN  /\ FileIdFromBlock(b) = issued[k]
        /\ IndexFromBlock(b) = index
=============================================================================
