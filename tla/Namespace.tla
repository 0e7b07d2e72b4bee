------------------------------ MODULE Namespace ------------------------------
(***************************************************************************)
(* The master's name space (ofs/master/file): a tree of directories and    *)
(* files that clients create, list and remove, an index of the files by    *)
(* id, a collector that frees what has been removed for long enough and a  *)
(* saver that writes the tree to disk, both walking the tree under the     *)
(* directories' shared locks.                                              *)
(*                                                                         *)
(* Refusals (no such path, wrong kind, no authority, expired user) change  *)
(* nothing and are stuttering steps.                                       *)
(***************************************************************************)
EXTENDS Integers, Sequences, FiniteSets

CONSTANTS Name,      \* names a directory entry may have
          MaxDepth,  \* bound on the length of a path
          Expire,    \* FileSystem::_deleteExpireTime
          MaxFiles,  \* bound on the files ever created
          MaxDirs,   \* bound on the directories ever created
          MaxLists,  \* bound on the calls of List
          MaxSaves,  \* bound on the saves
          MaxTick    \* bound on the clock

ASSUME NamespaceAssumption ==
  /\ MaxDepth \in Nat \ {0} /\ Expire \in Nat \ {0}
  /\ {MaxFiles, MaxDirs, MaxLists, MaxSaves} \subseteq Nat
  /\ MaxTick \in Nat \ {0}

VARIABLES now,      \* olib::GetTimeStamp
          tree,     \* every path but the root's, and its Node
          used,     \* how many files, directories, lists and saves there were
          index,    \* FileSystem::_files, the ids
          gc,       \* Directory::StartGC: the time it began, its frames and,
                    \* with the top one locked, what is in use there
          saver,    \* SaveToFile: what it has archived and its frames
          disk,     \* the file of meta data
          lister,   \* ClientService::List: the nodes it holds, and since when
          reporter, \* OnReport: the file it has acquired, 0 for none
          cleaned,  \* files whose blocks data nodes were told to clean
          seen,     \* history: when each node was last visible to clients
          fresh,    \* history: what clients got since the last save began
          undone    \* history: what of that a restart has made removed again

vars == <<now, tree, used, index, gc, saver, disk, lister, reporter, cleaned,
          seen, fresh, undone>>

Root == <<>>
Paths == UNION {[1..n -> Name] : n \in 1..MaxDepth}

\* Files have an id.  Directories have none: they are told apart by a negative
\* number here.
Files == 1..MaxFiles
Ids == (-MaxDirs)..(-1) \union Files

Parent(p) == SubSeq(p, 1, Len(p) - 1)
Prefix(p, q) == Len(p) <= Len(q) /\ SubSeq(q, 1, Len(p)) = p

\* The nodes to pass on the way to p, p included and the root not.
Way(p) == {SubSeq(p, 1, n) : n \in 1..Len(p)}

-----------------------------------------------------------------------------
(***************************************************************************)
(* Operators on a tree t.                                                  *)
(***************************************************************************)
\* Directory::QueryNode finds p: no node on the way to it is marked deleted.
Visible(t, p) == \A q \in Way(p) : q \in DOMAIN t /\ ~t[q].deleted

IsDir(t, p) == p # Root => t[p].id < 0
Children(t, d) == {p \in DOMAIN t : Parent(p) = d}
SubDirs(t, d) == {p \in Children(t, d) : IsDir(t, p)}
NodeIds(t) == {t[p].id : p \in DOMAIN t}
FileIds(t) == NodeIds(t) \intersect Files
VisibleIds(t) == {t[p].id : p \in {q \in DOMAIN t : Visible(t, q)}}

\* t with the entries s.
With(t, s) == [p \in DOMAIN t \union DOMAIN s |-> IF p \in DOMAIN t THEN t[p] ELSE s[p]]

NewNode(id) == [id |-> id, deleted |-> FALSE, tick |-> 0, stuck |-> FALSE]

\* Mutant: the time of the first removal stays.
MarkedOnce(n) == [n EXCEPT !.deleted = TRUE, !.tick = IF @ = 0 THEN now ELSE @]

Marked(n) == [n EXCEPT !.deleted = TRUE, !.tick = now]
Recovered(n) == [n EXCEPT !.deleted = FALSE]

\* Mutant: one node only, not what is below it.
JustNode(t, p) == {p}

\* ~Directory: what goes with p.
Subtree(t, p) == {q \in DOMAIN t : Prefix(p, q)}

\* Mutant: removed files are not indexed.
IndexedVisible(t) ==
  Files \intersect {t[p].id : p \in {q \in DOMAIN t : ~t[q].deleted}}

\* Directory::BuildAllFile.
Indexed(t) == FileIds(t)

-----------------------------------------------------------------------------
(***************************************************************************)
(* Walks.  A walk is a stack of frames, one per directory it is in, each   *)
(* with the subdirectories it has not entered yet.                         *)
(***************************************************************************)
Frame(d) == [dir |-> d, left |-> SubDirs(tree, d)]
Top(w) == w[Len(w)]
Pop(w) == SubSeq(w, 1, Len(w) - 1)
Enter(w, d) ==
  Append([w EXCEPT ![Len(w)].left = @ \ {d}], Frame(d))

\* The collector holds a directory's shared lock while it is in or below one of
\* its subdirectories, and gives it up before it sweeps.
GcHolds(d) == \E i \in DOMAIN gc.walk :
                gc.walk[i].dir = d /\ (i < Len(gc.walk) \/ gc.walk[i].left # {})

\* The saver holds it until the directory has been archived.
SaverHolds(d) == \E i \in DOMAIN saver.walk : saver.walk[i].dir = d

\* While it sweeps a directory it has the lock to itself: nobody gets in, or
\* past it to what is below.
Open(d) == gc.locked => Top(gc.walk).dir \notin Way(d) \union {Root}

NoWalk == [walk |-> <<>>, now |-> 0, locked |-> FALSE, inUse |-> {}]
NoSave == [walk |-> <<>>, image |-> <<>>]
NoList == [held |-> {}, at |-> 0]
Torn == [whole |-> FALSE, image |-> <<>>]
Whole(t) == [whole |-> TRUE, image |-> t]

-----------------------------------------------------------------------------
\* LoadFromFile without a file: the root, which is saved at once.
Init == /\ now = 1
        /\ tree = <<>>
        /\ used = [files |-> 0, dirs |-> 0, lists |-> 0, saves |-> 0]
        /\ index = {}
        /\ gc = NoWalk
        /\ saver = NoSave
        /\ disk = Whole(<<>>)
        /\ lister = NoList
        /\ reporter = 0
        /\ cleaned = {}
        /\ seen = [i \in Ids |-> 0]
        /\ fresh = {}
        /\ undone = {}

\* What was or is visible is seen now.
Seen(t) == [i \in Ids |-> IF i \in VisibleIds(tree) \union VisibleIds(t)
                          THEN now' ELSE seen[i]]

\* Keeps the history.
See == /\ seen' = Seen(tree')
       /\ fresh' = fresh \union (VisibleIds(tree') \ VisibleIds(tree))
       /\ undone' = undone \ VisibleIds(tree')

\* A List answers within the time that removed nodes are kept.
Tick == /\ now < MaxTick
        /\ lister.held # {} => now < lister.at + Expire
        /\ now' = now + 1
        /\ UNCHANGED <<tree, used, index, gc, saver, disk, lister, reporter, cleaned>>
        /\ See

\* Directory::CreateNode, from MakeDir and Create: a new node, or the removed
\* one of the same kind.
Create(d, n, dir) ==
  LET p == Append(d, n)
  IN  /\ Visible(tree, d)
      /\ IsDir(tree, d)
      /\ Open(d) /\ ~GcHolds(d) /\ ~SaverHolds(d)
      /\ Len(d) < MaxDepth
      /\ \/ /\ p \notin DOMAIN tree
            /\ IF dir
               THEN /\ used.dirs < MaxDirs
                    /\ used' = [used EXCEPT !.dirs = @ + 1]
                    /\ tree' = With(tree, [q \in {p} |-> NewNode(-used'.dirs)])
                    /\ UNCHANGED index
               ELSE /\ used.files < MaxFiles
                    /\ used' = [used EXCEPT !.files = @ + 1]
                    /\ tree' = With(tree, [q \in {p} |-> NewNode(used'.files)])
                    /\ index' = index \union {used'.files}
         \/ /\ p \in DOMAIN tree
            /\ tree[p].deleted
            /\ IsDir(tree, p) = dir
            /\ tree' = [tree EXCEPT ![p] = Recovered(@)]
            /\ UNCHANGED <<index, used>>
      /\ UNCHANGED <<now, gc, saver, disk, lister, reporter, cleaned>>
      /\ See

\* Directory::Remove marks the node, under its directory's shared lock.
Remove(p) ==
  /\ Visible(tree, p)
  /\ Open(Parent(p))
  /\ tree' = [tree EXCEPT ![p] = Marked(@)]
  /\ UNCHANGED <<now, used, index, gc, saver, disk, lister, reporter, cleaned>>
  /\ See

-----------------------------------------------------------------------------
(***************************************************************************)
(* ClientService::List takes the nodes out from under the locks and reads  *)
(* them afterwards.  (Status, Read, Write and Append use their node while  *)
(* QueryNode still holds the lock of its directory.)                       *)
(***************************************************************************)
List(p) ==
  /\ used.lists < MaxLists
  /\ lister.held = {}
  /\ Visible(tree, p)
  /\ Open(IF IsDir(tree, p) THEN p ELSE Parent(p))
  /\ lister' = [held |-> IF IsDir(tree, p)
                         THEN {tree[q].id : q \in {c \in Children(tree, p) : ~tree[c].deleted}}
                         ELSE {tree[p].id},
                at |-> now]
  /\ used' = [used EXCEPT !.lists = @ + 1]
  /\ UNCHANGED <<now, tree, index, gc, saver, disk, reporter, cleaned,
                 seen, fresh, undone>>

Listed ==
  /\ lister.held # {}
  /\ lister' = NoList
  /\ UNCHANGED <<now, tree, used, index, gc, saver, disk, reporter, cleaned,
                 seen, fresh, undone>>

-----------------------------------------------------------------------------
(***************************************************************************)
(* DataNodeService::OnReport.  A block of a file that is not indexed is    *)
(* cleaned.  A file that has been freed stays in the index: GetFile then   *)
(* acquires freed memory, and the block is kept: nothing here changes.     *)
(***************************************************************************)
Report(f) ==
  /\ reporter = 0
  /\ f <= used.files
  /\ \/ /\ f \in index \intersect FileIds(tree)
        /\ reporter' = f
        /\ UNCHANGED cleaned
     \/ /\ f \notin index
        /\ cleaned' = cleaned \union {f}
        /\ UNCHANGED reporter
  /\ UNCHANGED <<now, tree, used, index, gc, saver, disk, lister,
                 seen, fresh, undone>>

Release ==
  /\ reporter # 0
  /\ reporter' = 0
  /\ UNCHANGED <<now, tree, used, index, gc, saver, disk, lister, cleaned,
                 seen, fresh, undone>>

-----------------------------------------------------------------------------
(***************************************************************************)
(* Directory::StartGC.                                                     *)
(***************************************************************************)
StartGC ==
  /\ gc.walk = <<>>
  /\ gc' = [NoWalk EXCEPT !.walk = <<Frame(Root)>>, !.now = now]
  /\ UNCHANGED <<now, tree, used, index, saver, disk, lister, reporter, cleaned,
                 seen, fresh, undone>>

EnterGC ==
  /\ gc.walk # <<>>
  /\ \E d \in Top(gc.walk).left : gc' = [gc EXCEPT !.walk = Enter(@, d)]
  /\ UNCHANGED <<now, tree, used, index, saver, disk, lister, reporter, cleaned,
                 seen, fresh, undone>>

InUse(p) == tree[p].id = reporter

\* Mutant: one tick early.
DueAtExpiry(p) == tree[p].deleted /\ gc.now >= tree[p].tick + Expire

Due(p) == tree[p].deleted /\ gc.now > tree[p].tick + Expire

\* The second half, under the exclusive lock: looks which files are in use.
\* GetFile takes no directory's lock: a report may begin to use one afterwards.
Inspect ==
  /\ gc.walk # <<>> /\ ~gc.locked
  /\ Top(gc.walk).left = {}
  /\ ~SaverHolds(Top(gc.walk).dir)
  /\ gc' = [gc EXCEPT !.locked = TRUE,
                      !.inUse = {p \in Children(tree, Top(gc.walk).dir) : InUse(p)}]
  /\ UNCHANGED <<now, tree, used, index, saver, disk, lister, reporter, cleaned,
                 seen, fresh, undone>>

\* Frees what is due and gives up the lock.  _canNotCleanUp of a directory says
\* that a file right in it was in use when it was swept.
Sweep ==
  /\ gc.locked
  /\ LET d == Top(gc.walk).dir
         doomed == {p \in Children(tree, d) \ gc.inUse : Due(p) /\ ~tree[p].stuck}
         freed == UNION {Subtree(tree, p) : p \in doomed}
         stuck == gc.inUse # {}
     IN  tree' = [q \in DOMAIN tree \ freed |->
                    IF q = d THEN [tree[q] EXCEPT !.stuck = stuck] ELSE tree[q]]
  /\ gc' = IF Len(gc.walk) = 1 THEN NoWalk
           ELSE [gc EXCEPT !.walk = Pop(@), !.locked = FALSE, !.inUse = {}]
  /\ UNCHANGED <<now, used, index, saver, disk, lister, reporter, cleaned>>
  /\ See

-----------------------------------------------------------------------------
(***************************************************************************)
(* FileSystem::SaveToFile cuts the file to nothing and archives the tree   *)
(* into it, all entries of a directory when it comes to the directory.     *)
(***************************************************************************)
Archived(d) == [p \in Children(tree, d) |-> [tree[p] EXCEPT !.stuck = FALSE]]

StartSave ==
  /\ used.saves < MaxSaves
  /\ saver.walk = <<>>
  /\ Open(Root)
  /\ saver' = [walk |-> <<Frame(Root)>>, image |-> Archived(Root)]
  /\ disk' = Torn
  /\ used' = [used EXCEPT !.saves = @ + 1]
  /\ fresh' = {}
  /\ UNCHANGED <<now, tree, index, gc, lister, reporter, cleaned, seen, undone>>

EnterSave ==
  /\ saver.walk # <<>>
  /\ \E d \in Top(saver.walk).left :
       /\ Open(d)
       /\ saver' = [walk |-> Enter(saver.walk, d), image |-> With(saver.image, Archived(d))]
  /\ UNCHANGED <<now, tree, used, index, gc, disk, lister, reporter, cleaned,
                 seen, fresh, undone>>

LeaveSave ==
  /\ saver.walk # <<>>
  /\ Top(saver.walk).left = {}
  /\ IF Len(saver.walk) = 1
     THEN saver' = NoSave /\ disk' = Whole(saver.image)
     ELSE saver' = [saver EXCEPT !.walk = Pop(@)] /\ UNCHANGED disk
  /\ UNCHANGED <<now, tree, used, index, gc, lister, reporter, cleaned,
                 seen, fresh, undone>>

\* The master stops at any moment and is started again: LoadFromFile.  From a
\* file that was being written it does not start.  What the file does not have
\* is gone: what was got back since the save began is removed again.
Restart ==
  /\ disk.whole
  /\ tree' = disk.image
  /\ index' = Indexed(disk.image)
  /\ gc' = NoWalk
  /\ saver' = NoSave
  /\ lister' = NoList
  /\ reporter' = 0
  /\ UNCHANGED <<now, used, disk, cleaned>>
  /\ seen' = Seen(disk.image)
  /\ fresh' = {}
  /\ undone' = ((undone \union fresh) \intersect NodeIds(disk.image)) \ VisibleIds(disk.image)

Next == \/ Tick \/ Listed \/ Release \/ Restart
        \/ \E d \in Paths \union {Root}, n \in Name, dir \in BOOLEAN : Create(d, n, dir)
        \/ \E p \in Paths : Remove(p)
        \/ \E p \in Paths \union {Root} : List(p)
        \/ \E f \in Files : Report(f)
        \/ StartGC \/ EnterGC \/ Inspect \/ Sweep
        \/ StartSave \/ EnterSave \/ LeaveSave

Spec == Init /\ [][Next]_vars

-----------------------------------------------------------------------------
(***************************************************************************)
(* Properties.                                                             *)
(***************************************************************************)
IsTree(t) ==
  /\ DOMAIN t \subseteq Paths
  /\ \A p \in DOMAIN t :
       /\ t[p] \in [id : Ids, deleted : BOOLEAN, tick : 0..MaxTick, stuck : BOOLEAN]
       /\ Parent(p) # Root => Parent(p) \in DOMAIN t /\ IsDir(t, Parent(p))
  /\ \A p, q \in DOMAIN t : t[p].id = t[q].id => p = q

\* Types; and the tree in memory and the one on disk, written while clients and
\* the collector go on, are trees: every node is in a directory that exists and
\* no id occurs twice.
TypeOK ==
  /\ now \in 0..MaxTick
  /\ IsTree(tree) /\ IsTree(disk.image) /\ IsTree(saver.image)
  /\ used \in [files : 0..MaxFiles, dirs : 0..MaxDirs,
              lists : 0..MaxLists, saves : 0..MaxSaves]
  /\ index \subseteq Files /\ cleaned \subseteq Files
  /\ lister.held \subseteq Ids
  /\ reporter \in Files \union {0}
  /\ \A w \in {gc.walk, saver.walk} :
       \A i \in DOMAIN w : /\ w[i].dir \in DOMAIN tree \union {Root}
                           /\ w[i].left \subseteq SubDirs(tree, w[i].dir)
  /\ gc.inUse \subseteq DOMAIN tree
  /\ fresh \union undone \subseteq Ids

\* "because node is not delete immediately" (ClientService.cpp:71): the nodes
\* that List took out of the tree, and reads without a lock, are not freed under
\* it, whatever is removed meanwhile and although the collector walks with the
\* time it began at.
HeldNodesLive == lister.held \subseteq NodeIds(tree)

\* A node that clients could see until a moment ago can be had back by creating
\* it again: the collector frees only what has not been visible for longer than
\* the time of expiry, also when it was removed, recovered and removed again
\* while the collector was on its way, and across restarts.  The exception is
\* what a restart has undone: a node that was removed when the save began and
\* that clients have had back since is loaded with its old _deleteTick, and may
\* be freed at once.
FreedAfterExpiry ==
  [][ Sweep => \A i \in (NodeIds(tree) \ NodeIds(tree')) \ undone :
                 now > seen[i] + Expire ]_vars

\* A file that exists, even one that is removed and may be recovered, keeps its
\* blocks: OnReport has never told a data node to clean one because its file was
\* not found, across restarts.  (What CheckReplica cleans is in MasterBlock.)
FilesKeepBlocks == FileIds(tree) \intersect cleaned = {}
=============================================================================
