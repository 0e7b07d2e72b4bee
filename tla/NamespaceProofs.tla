-------------------------- MODULE NamespaceProofs --------------------------
(***************************************************************************)
(* Proofs about the master's name space, for any names, depth, expiry and  *)
(* bounds: what is held is not freed, what is freed was removed for long   *)
(* enough, and the trees in memory, on disk and being archived stay trees. *)
(***************************************************************************)
EXTENDS Namespace, SequenceTheorems, TLAPS

\* What the variables are made of.
Dirs == Paths \union {Root}
Nodes == [id : Ids, deleted : BOOLEAN, tick : 0..MaxTick, stuck : BOOLEAN]
Frames == [dir : Dirs, left : SUBSET Paths]
Collectors == [walk : Seq(Frames), now : 0..MaxTick, locked : BOOLEAN, inUse : SUBSET Paths]
Used == [files : 0..MaxFiles, dirs : 0..MaxDirs, lists : 0..MaxLists, saves : 0..MaxSaves]

\* The trees there are: a node keeps its id and its place in all of them.
Trees == {tree, disk.image, saver.image}

TypeInv ==
  /\ now \in 1..MaxTick
  /\ used \in Used
  /\ gc \in Collectors
  /\ DOMAIN saver = {"walk", "image"} /\ saver.walk \in Seq(Frames)
  /\ lister.held \subseteq Ids /\ lister.at \in 0..MaxTick
  /\ reporter \in Files \union {0}
  /\ seen \in [Ids -> 0..MaxTick]
  /\ fresh \subseteq Ids /\ undone \subseteq Ids

\* A tree, stated so that one step down is enough to see it kept: with a node
\* there are all those on the way to it.
Grown(t) ==
  /\ DOMAIN t \subseteq Paths
  /\ \A p \in DOMAIN t :
       /\ t[p] \in Nodes
       /\ Way(p) \subseteq DOMAIN t
       /\ Parent(p) # Root => t[Parent(p)].id < 0

TreesInv == \A t \in Trees : Grown(t)

\* Ids have been given out, and each to one path.
IdsInv ==
  /\ \A t \in Trees : \A p \in DOMAIN t :
       -used.dirs <= t[p].id /\ t[p].id <= used.files
  /\ \A t, u \in Trees : \A p \in DOMAIN t : \A q \in DOMAIN u :
       t[p].id = u[q].id => p = q

\* The directories of a walk lead from the root to the one it is in.
Chain(w) ==
  \A i \in DOMAIN w :
    /\ Len(w[i].dir) = i - 1
    /\ \A j \in 1..(i - 1) : w[j].dir \in Way(w[i].dir) \union {Root}

\* A walk w is in directories of t.
Within(w, t) ==
  \A i \in DOMAIN w :
    /\ w[i].dir # Root => w[i].dir \in DOMAIN t /\ t[w[i].dir].id < 0
    /\ \A d \in w[i].left : /\ d \in DOMAIN t
                            /\ t[d].id < 0
                            /\ Parent(d) = w[i].dir

\* No entry of a directory that the saver has still to enter is archived.
Unentered(w, t) ==
  \A i \in DOMAIN w : \A d \in w[i].left : \A p \in DOMAIN t : Parent(p) # d

WalkInv ==
  /\ Chain(gc.walk) /\ Within(gc.walk, tree)
  /\ Chain(saver.walk) /\ Within(saver.walk, tree)
  /\ Within(saver.walk, saver.image)
  /\ Unentered(saver.walk, saver.image)

\* What List holds was visible when it began: what has been removed of it since
\* then is not due for the collector before List ends.
HeldInv ==
  /\ gc.now <= now
  /\ \A i \in Ids : seen[i] <= now
  /\ lister.held # {} => lister.at <= now /\ now <= lister.at + Expire
  /\ \A i \in lister.held : \E q \in DOMAIN tree :
       /\ tree[q].id = i
       /\ \A p \in Way(q) : tree[p].deleted => tree[p].tick >= lister.at

\* The directory that the collector has locked is the one it is about to sweep,
\* and the saver is not in it.
LockInv ==
  /\ gc.inUse \subseteq DOMAIN tree
  /\ gc.locked => /\ gc.walk # <<>>
                  /\ Top(gc.walk).left = {}
                  /\ ~SaverHolds(Top(gc.walk).dir)

\* What is not visible was so for the last time before the removal of any node
\* on the way to it, unless a restart made the removal hold again.
SeenInv ==
  \A q \in DOMAIN tree : \A p \in Way(q) :
    tree[p].deleted /\ tree[q].id \notin undone => seen[tree[q].id] <= tree[p].tick

\* Nobody has seen i since k, but when it was got back after the save began.
Quiet(i, k) ==
  i \notin fresh \union undone => i \notin VisibleIds(tree) /\ seen[i] <= k

\* So it is with what a file or the saver has as removed, and what is below it:
\* what was seen since is what a restart is going to undo.
SavedInv ==
  /\ undone \intersect VisibleIds(tree) = {}
  /\ \A t \in {disk.image, saver.image} : \A q \in DOMAIN t : \A p \in Way(q) :
       t[p].deleted => Quiet(t[q].id, t[p].tick)
  /\ \A q \in DOMAIN tree : \A p \in Way(q) \intersect DOMAIN saver.image :
       saver.image[p].deleted => Quiet(tree[q].id, saver.image[p].tick)

\* A file that is, or that a restart may bring back, is indexed; only others are
\* cleaned, and only those that were created once.
IndexInv ==
  /\ \A t \in Trees : FileIds(t) \subseteq index
  /\ index \intersect cleaned = {}
  /\ index \subseteq Files
  /\ cleaned \subseteq 1..used.files

IInv ==
  /\ TypeInv /\ TreesInv /\ IdsInv /\ WalkInv /\ LockInv
  /\ HeldInv /\ SeenInv /\ SavedInv /\ IndexInv

-----------------------------------------------------------------------------
(***************************************************************************)
(* Paths, and the nodes on the way to them.                                *)
(***************************************************************************)
LEMMA PathIsSeq ==
  ASSUME NEW p \in Paths
  PROVE  p \in Seq(Name) /\ Len(p) \in 1..MaxDepth /\ p # Root
  <1>1. PICK n \in 1..MaxDepth : p \in [1..n -> Name]
    BY DEF Paths
  <1>2. p \in Seq(Name) /\ Len(p) = n
    BY <1>1, NamespaceAssumption
  <1>. QED BY <1>1, <1>2, NamespaceAssumption DEF Root

LEMMA DirIsSeq ==
  ASSUME NEW p \in Dirs
  PROVE  /\ p \in Seq(Name) /\ Len(p) \in 0..MaxDepth
         /\ p = Root \/ p \in Paths
         /\ Len(p) = 0 <=> p = Root
  <1>1. CASE p \in Paths
    BY <1>1, PathIsSeq, NamespaceAssumption
  <1>2. CASE p = Root
    BY <1>2, NamespaceAssumption DEF Root
  <1>. QED BY <1>1, <1>2 DEF Dirs

LEMMA SeqIsPath ==
  ASSUME NEW p \in Seq(Name), Len(p) \in 1..MaxDepth
  PROVE  p \in Paths
  <1>1. p \in [1..Len(p) -> Name]
    OBVIOUS
  <1>. QED BY <1>1 DEF Paths

\* A node on the way to q is a path, told apart by its length.
LEMMA OnTheWay ==
  ASSUME NEW q \in Paths, NEW p
  PROVE  p \in Way(q) <=> /\ p \in Paths
                          /\ Len(p) <= Len(q)
                          /\ \A i \in 1..Len(p) : p[i] = q[i]
  <1>1. q \in Seq(Name) /\ Len(q) \in 1..MaxDepth
    BY PathIsSeq
  <1>2. ASSUME p \in Way(q)
        PROVE  /\ p \in Paths /\ Len(p) <= Len(q)
               /\ \A i \in 1..Len(p) : p[i] = q[i]
    <2>1. PICK n \in 1..Len(q) : p = SubSeq(q, 1, n)
      BY <1>2 DEF Way
    <2>2. p \in Seq(Name) /\ Len(p) = n /\ \A i \in 1..n : p[i] = q[i]
      BY <1>1, <2>1
    <2>. QED BY <1>1, <2>2, SeqIsPath, NamespaceAssumption
  <1>3. ASSUME p \in Paths, Len(p) <= Len(q), \A i \in 1..Len(p) : p[i] = q[i]
        PROVE  p \in Way(q)
    <2>1. p \in Seq(Name) /\ Len(p) \in 1..MaxDepth
      BY <1>3, PathIsSeq
    <2>2. Len(p) \in 1..Len(q)
      BY <1>1, <1>3, <2>1, NamespaceAssumption
    <2>3. p = SubSeq(q, 1, Len(p))
      BY <1>1, <1>3, <2>1, <2>2
    <2>. QED BY <2>2, <2>3 DEF Way
  <1>. QED BY <1>2, <1>3

\* Nothing is passed on the way to the root.
LEMMA WayOfRoot == Way(Root) = {}
  BY DEF Way, Root

\* The way to a path is that to its directory and the path itself.
LEMMA WayOfParent ==
  ASSUME NEW p \in Paths
  PROVE  /\ Parent(p) \in Dirs
         /\ Len(Parent(p)) = Len(p) - 1
         /\ Way(p) = Way(Parent(p)) \union {p}
         /\ p \notin Way(Parent(p))
  <1>. DEFINE d == Parent(p)
  <1>1. p \in Seq(Name) /\ Len(p) \in 1..MaxDepth
    BY PathIsSeq
  <1>2. d \in Seq(Name) /\ Len(d) = Len(p) - 1 /\ \A i \in 1..Len(d) : d[i] = p[i]
    <2>. DEFINE n == Len(p) - 1
    <2>1. n \in Nat /\ n <= Len(p) /\ \A i \in 1..n : p[i] \in Name
      BY <1>1, NamespaceAssumption
    <2>2. d = SubSeq(p, 1, n)
      BY DEF Parent
    <2>. HIDE DEF n, d
    <2>3. d \in Seq(Name) /\ Len(d) = n /\ \A i \in 1..n : d[i] = p[i]
      BY <2>1, <2>2, SubSeqProperties
    <2>. QED BY <2>3 DEF n
  <1>3. d \in Dirs
    <2>1. CASE Len(p) = 1
      BY <1>2, <2>1, EmptySeq DEF Dirs, Root
    <2>2. CASE Len(p) # 1
      BY <1>1, <1>2, <2>2, SeqIsPath, NamespaceAssumption DEF Dirs
    <2>. QED BY <2>1, <2>2
  <1>4. \A n \in 1..Len(d) : SubSeq(d, 1, n) = SubSeq(p, 1, n)
    BY <1>1, <1>2
  <1>5. SubSeq(p, 1, Len(p)) = p
    BY <1>1
  <1>6. Way(d) = {SubSeq(p, 1, n) : n \in 1..Len(d)}
    BY <1>4 DEF Way
  <1>7. Way(p) = Way(d) \union {p}
    <2>1. 1..Len(p) = (1..Len(d)) \union {Len(p)}
      BY <1>1, <1>2
    <2>. HIDE DEF d
    <2>2. Way(p) = {SubSeq(p, 1, n) : n \in (1..Len(d)) \union {Len(p)}}
      BY <2>1 DEF Way
    <2>. QED BY <2>2, <1>5, <1>6
  <1>8. p \notin Way(d)
    BY <1>1, <1>2, <1>6
  <1>. QED BY <1>2, <1>3, <1>7, <1>8

\* What is created in a directory.
LEMMA WayOfEntry ==
  ASSUME NEW d \in Dirs, NEW n \in Name, Len(d) < MaxDepth,
         NEW p, p = Append(d, n)
  PROVE  /\ p \in Paths
         /\ Parent(p) = d
         /\ Way(p) = Way(d) \union {p}
  <1>1. d \in Seq(Name) /\ Len(d) \in 0..MaxDepth
    BY DirIsSeq
  <1>2. p \in Seq(Name) /\ Len(p) = Len(d) + 1 /\ SubSeq(p, 1, Len(p) - 1) = d
    BY <1>1
  <1>3. p \in Paths
    <2>1. Len(p) \in 1..MaxDepth
      BY <1>1, <1>2, NamespaceAssumption
    <2>. QED BY <1>2, <2>1, SeqIsPath
  <1>. QED BY <1>2, <1>3, WayOfParent DEF Parent

LEMMA WayIsPaths ==
  ASSUME NEW q \in Paths
  PROVE  Way(q) \subseteq Paths /\ q \in Way(q)
  BY OnTheWay, WayOfParent

LEMMA WayOfDir ==
  ASSUME NEW d \in Dirs
  PROVE  /\ Way(d) \subseteq Paths
         /\ d # Root => d \in Way(d)
  BY DirIsSeq, WayIsPaths, WayOfRoot

LEMMA WayTransitive ==
  ASSUME NEW q \in Paths, NEW p \in Way(q), NEW o \in Way(p)
  PROVE  o \in Way(q)
  <1>1. p \in Paths /\ Len(p) <= Len(q) /\ \A i \in 1..Len(p) : p[i] = q[i]
    BY OnTheWay
  <1>2. o \in Paths /\ Len(o) <= Len(p) /\ \A i \in 1..Len(o) : o[i] = p[i]
    BY <1>1, OnTheWay
  <1>3. Len(o) \in Nat /\ Len(p) \in Nat /\ Len(q) \in Nat
    BY <1>1, <1>2, PathIsSeq, NamespaceAssumption
  <1>4. Len(o) <= Len(q) /\ \A i \in 1..Len(o) : o[i] = q[i]
    BY <1>1, <1>2, <1>3
  <1>. QED BY <1>2, <1>4, OnTheWay

LEMMA OneOfEachLength ==
  ASSUME NEW q \in Paths, NEW p \in Way(q), NEW o \in Way(q), Len(p) = Len(o)
  PROVE  p = o
  <1>1. /\ p \in Paths /\ \A i \in 1..Len(p) : p[i] = q[i]
        /\ o \in Paths /\ \A i \in 1..Len(o) : o[i] = q[i]
    BY OnTheWay
  <1>2. p \in Seq(Name) /\ o \in Seq(Name)
    BY <1>1, PathIsSeq
  <1>. QED BY <1>1, <1>2

LEMMA PrefixIsOnWay ==
  ASSUME NEW p \in Paths, NEW q \in Paths
  PROVE  Prefix(p, q) <=> p \in Way(q)
  <1>1. /\ p \in Seq(Name) /\ Len(p) \in 1..MaxDepth
        /\ q \in Seq(Name) /\ Len(q) \in 1..MaxDepth
    BY PathIsSeq
  <1>2. ASSUME Len(p) <= Len(q)
        PROVE  SubSeq(q, 1, Len(p)) = p <=> \A i \in 1..Len(p) : p[i] = q[i]
    <2>. DEFINE s == SubSeq(q, 1, Len(p))
    <2>1. /\ s \in Seq(Name) /\ Len(s) = Len(p)
          /\ \A i \in 1..Len(p) : s[i] = q[i]
      BY <1>1, <1>2, NamespaceAssumption
    <2>. HIDE DEF s
    <2>2. s = p <=> \A i \in 1..Len(p) : p[i] = q[i]
      BY <1>1, <2>1
    <2>. QED BY <2>2 DEF s
  <1>. QED BY <1>2, OnTheWay DEF Prefix

-----------------------------------------------------------------------------
(***************************************************************************)
(* Trees.                                                                  *)
(***************************************************************************)
\* Part of a tree that has with every node those on the way to it is a tree.
LEMMA PartOfTree ==
  ASSUME NEW t, NEW u, Grown(t), DOMAIN u \subseteq DOMAIN t,
         \A p \in DOMAIN u : /\ u[p] \in Nodes /\ u[p].id = t[p].id
                             /\ Way(p) \subseteq DOMAIN u
  PROVE  Grown(u)
  <1>. SUFFICES ASSUME NEW p \in DOMAIN u, Parent(p) # Root
                PROVE  u[Parent(p)].id < 0
    BY DEF Grown
  <1>1. p \in Paths /\ t[Parent(p)].id < 0
    BY DEF Grown
  <1>2. Parent(p) \in Way(p)
    BY <1>1, WayOfParent, WayOfDir
  <1>. QED BY <1>1, <1>2

\* A tree with the entries of one of its directories, as in memory now.
LEMMA MoreOfTree ==
  ASSUME NEW t, NEW u, NEW d \in Dirs, NEW new,
         Grown(t),
         d # Root => d \in DOMAIN t /\ t[d].id < 0,
         DOMAIN u = DOMAIN t \union new,
         \A p \in DOMAIN t : u[p] = t[p],
         \A p \in new : p \in Paths /\ Parent(p) = d /\ u[p] \in Nodes
  PROVE  Grown(u)
  <1>1. DOMAIN t \subseteq Paths /\ new \subseteq Paths
    BY DEF Grown
  <1>2. ASSUME NEW p \in DOMAIN u
        PROVE  /\ u[p] \in Nodes /\ Way(p) \subseteq DOMAIN u
               /\ Parent(p) # Root => u[Parent(p)].id < 0
    <2>1. CASE p \in DOMAIN t
      <3>1. /\ t[p] \in Nodes /\ Way(p) \subseteq DOMAIN t
            /\ Parent(p) # Root => t[Parent(p)].id < 0
        BY <2>1 DEF Grown
      <3>2. Parent(p) # Root => Parent(p) \in Way(p)
        BY <1>1, <2>1, WayOfParent, WayOfDir
      <3>. QED BY <2>1, <3>1, <3>2
    <2>2. CASE p \in new
      <3>1. Way(p) = Way(d) \union {p}
        BY <1>1, <2>2, WayOfParent
      <3>2. Way(d) \subseteq DOMAIN t
        BY WayOfRoot DEF Grown
      <3>. QED BY <2>2, <3>1, <3>2
    <2>. QED BY <2>1, <2>2
  <1>. QED BY <1>1, <1>2 DEF Grown

LEMMA NoTree == Grown(<<>>) /\ DOMAIN <<>> = {}
  <1>1. DOMAIN <<>> = {}
    OBVIOUS
  <1>. QED BY <1>1 DEF Grown

\* Ids stay told apart while no tree gets a node that none of them had.
LEMMA IdsKept ==
  ASSUME IdsInv, used.dirs \in Nat, used.files \in Nat,
         used'.dirs \in Nat, used'.files \in Nat,
         used.dirs <= used'.dirs, used.files <= used'.files,
         \A t \in Trees : \A p \in DOMAIN t : t[p].id \in Int,
         \A t \in Trees' : \A p \in DOMAIN t :
           \E u \in Trees : p \in DOMAIN u /\ u[p].id = t[p].id
  PROVE  IdsInv'
  <1>1. ASSUME NEW t \in Trees', NEW p \in DOMAIN t
        PROVE  -used'.dirs <= t[p].id /\ t[p].id <= used'.files
    <2>1. PICK u \in Trees : p \in DOMAIN u /\ u[p].id = t[p].id
      BY <1>1
    <2>2. -used.dirs <= u[p].id /\ u[p].id <= used.files /\ u[p].id \in Int
      BY <2>1 DEF IdsInv
    <2>. QED BY <2>1, <2>2
  <1>2. ASSUME NEW t1 \in Trees', NEW t2 \in Trees', NEW p \in DOMAIN t1,
               NEW q \in DOMAIN t2, t1[p].id = t2[q].id
        PROVE  p = q
    <2>1. PICK u1 \in Trees : p \in DOMAIN u1 /\ u1[p].id = t1[p].id
      BY <1>2
    <2>2. PICK u2 \in Trees : q \in DOMAIN u2 /\ u2[q].id = t2[q].id
      BY <1>2
    <2>. QED BY <1>2, <2>1, <2>2 DEF IdsInv
  <1>. QED BY <1>1, <1>2 DEF IdsInv

-----------------------------------------------------------------------------
(***************************************************************************)
(* Walks.                                                                  *)
(***************************************************************************)
\* A walk is where it was while the directories it is in, and those it has still
\* to enter, are.
LEMMA WithinKept ==
  ASSUME NEW w, NEW t, NEW u, Within(w, t),
         \A i \in DOMAIN w :
           /\ w[i].dir # Root => /\ w[i].dir \in DOMAIN u
                                 /\ u[w[i].dir].id = t[w[i].dir].id
           /\ \A d \in w[i].left : d \in DOMAIN u /\ u[d].id = t[d].id
  PROVE  Within(w, u)
  BY DEF Within

LEMMA PoppedWalk ==
  ASSUME NEW w \in Seq(Frames), w # <<>>, Chain(w), NEW g, g = Pop(w)
  PROVE  /\ g \in Seq(Frames) /\ Chain(g)
         /\ Len(g) = Len(w) - 1 /\ \A i \in 1..Len(g) : g[i] = w[i]
         /\ \A t : Within(w, t) => Within(g, t)
         /\ \A t : Unentered(w, t) => Unentered(g, t)
  <1>1. Len(w) \in Nat \ {0}
    BY EmptySeq
  <1>2. /\ g \in Seq(Frames) /\ Len(g) = Len(w) - 1
        /\ \A i \in 1..Len(g) : g[i] = w[i]
    <2>. DEFINE n == Len(w) - 1
    <2>1. n \in Nat /\ \A i \in 1..n : w[i] \in Frames
      BY <1>1
    <2>2. g = SubSeq(w, 1, n)
      BY DEF Pop
    <2>. HIDE DEF n
    <2>3. g \in Seq(Frames) /\ Len(g) = n /\ \A i \in 1..n : g[i] = w[i]
      BY <2>1, <2>2, SubSeqProperties
    <2>. QED BY <2>3 DEF n
  <1>3. DOMAIN g \subseteq DOMAIN w /\ \A i \in DOMAIN g : g[i] = w[i]
    BY <1>1, <1>2
  <1>4. \A t : Within(w, t) => Within(g, t)
    BY <1>3 DEF Within
  <1>6. \A t : Unentered(w, t) => Unentered(g, t)
    BY <1>3 DEF Unentered
  <1>5. Chain(g)
    <2>1. \A i \in DOMAIN g : \A j \in 1..(i - 1) : g[j] = w[j]
      BY <1>1, <1>2
    <2>. QED BY <1>3, <2>1 DEF Chain
  <1>. QED BY <1>2, <1>4, <1>5, <1>6

LEMMA FrameIsFrame ==
  ASSUME Grown(tree), NEW d \in Dirs
  PROVE  /\ Frame(d) \in Frames /\ Frame(d).dir = d
         /\ Frame(d).left = {p \in DOMAIN tree : Parent(p) = d /\ tree[p].id < 0}
  <1>1. \A p \in DOMAIN tree : p # Root
    BY PathIsSeq DEF Grown
  <1>. QED BY <1>1 DEF Frame, Frames, SubDirs, Children, IsDir, Grown

\* Entering a directory that is left.
LEMMA EnteredWalk ==
  ASSUME NEW w \in Seq(Frames), w # <<>>, Chain(w), Grown(tree),
         NEW d \in Top(w).left, Within(w, tree),
         NEW g, g = Enter(w, d)
  PROVE  /\ g \in Seq(Frames) /\ Len(g) = Len(w) + 1
         /\ \A i \in 1..Len(w) : g[i].dir = w[i].dir /\ g[i].left \subseteq w[i].left
         /\ g[Len(w)].left = Top(w).left \ {d}
         /\ g[Len(g)] = Frame(d)
         /\ d \in Paths /\ Parent(d) = Top(w).dir
  <1>1. Len(w) \in Nat \ {0} /\ DOMAIN w = 1..Len(w)
    BY EmptySeq
  <1>2. /\ Top(w) \in Frames /\ Top(w) = w[Len(w)]
        /\ d \in Paths /\ Parent(d) = Top(w).dir
    BY <1>1 DEF Top, Within, Grown
  <1>3. PICK v : v = [w EXCEPT ![Len(w)].left = @ \ {d}]
    OBVIOUS
  <1>4. PICK r : r = [w[Len(w)] EXCEPT !.left = @ \ {d}]
    OBVIOUS
  <1>5. r \in Frames /\ r.dir = Top(w).dir /\ r.left = Top(w).left \ {d}
    BY <1>2, <1>4 DEF Frames
  <1>6. v = [w EXCEPT ![Len(w)] = r]
    BY <1>3, <1>4
  <1>7. /\ v \in Seq(Frames) /\ Len(v) = Len(w)
        /\ \A i \in 1..Len(w) : v[i] = IF i = Len(w) THEN r ELSE w[i]
    BY <1>1, <1>5, <1>6
  <1>8. Frame(d) \in Frames
    BY <1>2, FrameIsFrame DEF Dirs
  <1>9. g = Append(v, Frame(d))
    BY <1>3 DEF Enter
  <1>10. /\ g \in Seq(Frames) /\ Len(g) = Len(w) + 1 /\ g[Len(g)] = Frame(d)
         /\ \A i \in 1..Len(w) : g[i] = v[i]
    <2>1. PICK f \in Frames : f = Frame(d)
      BY <1>8
    <2>2. g = Append(v, f) /\ v \in Seq(Frames) /\ Len(v) \in Nat
      BY <1>7, <1>9, <2>1
    <2>3. /\ g \in Seq(Frames) /\ Len(g) = Len(v) + 1 /\ g[Len(v) + 1] = f
          /\ \A i \in 1..Len(v) : g[i] = v[i]
      BY <2>2, AppendProperties
    <2>. QED BY <1>7, <2>1, <2>3
  <1>11. \A i \in 1..Len(w) : g[i].dir = w[i].dir /\ g[i].left \subseteq w[i].left
    BY <1>2, <1>5, <1>7, <1>10
  <1>12. g[Len(w)].left = Top(w).left \ {d}
    <2>1. Len(w) \in 1..Len(w)
      BY <1>1
    <2>2. g[Len(w)] = v[Len(w)] /\ v[Len(w)] = r
      BY <1>7, <1>10, <2>1
    <2>. QED BY <1>5, <2>2
  <1>. QED BY <1>2, <1>10, <1>11, <1>12

LEMMA EnteredChain ==
  ASSUME NEW w \in Seq(Frames), w # <<>>, Chain(w), Grown(tree),
         NEW d \in Top(w).left, Within(w, tree),
         NEW g, g = Enter(w, d)
  PROVE  Chain(g)
  <1>1. Len(w) \in Nat \ {0} /\ DOMAIN w = 1..Len(w)
    BY EmptySeq
  <1>2. /\ g \in Seq(Frames) /\ Len(g) = Len(w) + 1
        /\ \A i \in 1..Len(w) : g[i].dir = w[i].dir
        /\ g[Len(g)].dir = d
        /\ d \in Paths /\ Parent(d) = Top(w).dir
    <2>1. d \in Paths
      BY EnteredWalk
    <2>. QED BY <2>1, EnteredWalk, FrameIsFrame DEF Dirs
  <1>3. /\ Len(d) = Len(Top(w).dir) + 1
        /\ Way(d) = Way(Top(w).dir) \union {d}
        /\ Top(w).dir # Root => Top(w).dir \in Way(Top(w).dir)
    <2>1. Len(d) \in Nat /\ Len(Parent(d)) = Len(d) - 1
      BY <1>2, PathIsSeq, WayOfParent, NamespaceAssumption
    <2>. QED BY <1>2, <2>1, WayOfParent, WayOfDir
  <1>4. Top(w) = w[Len(w)]
    BY DEF Top
  <1>5. ASSUME NEW i \in 1..Len(w)
        PROVE  /\ Len(g[i].dir) = i - 1
               /\ \A j \in 1..(i - 1) : g[j].dir \in Way(g[i].dir) \union {Root}
    <2>1. \A j \in 1..(i - 1) : g[j].dir = w[j].dir
      BY <1>1, <1>2
    <2>2. /\ Len(w[i].dir) = i - 1
          /\ \A j \in 1..(i - 1) : w[j].dir \in Way(w[i].dir) \union {Root}
      BY <1>1 DEF Chain
    <2>. QED BY <1>2, <2>1, <2>2
  <1>6. /\ Len(d) = Len(w)
        /\ \A j \in 1..Len(w) : g[j].dir \in Way(d) \union {Root}
    <2>1. Len(Top(w).dir) = Len(w) - 1
      <3>1. Len(w) \in DOMAIN w
        BY <1>1
      <3>. QED BY <1>4, <3>1 DEF Chain
    <2>2. ASSUME NEW j \in 1..Len(w)
          PROVE  w[j].dir \in Way(Top(w).dir) \union {Root}
      <3>1. CASE j = Len(w)
        BY <1>3, <1>4, <3>1
      <3>2. CASE j # Len(w)
        <4>. DEFINE n == Len(w)
        <4>1. n \in Nat \ {0} /\ DOMAIN w = 1..n /\ j \in 1..n /\ j # n
          BY <1>1, <3>2
        <4>. HIDE DEF n
        <4>2. n \in DOMAIN w /\ j \in 1..(n - 1)
          BY <4>1
        <4>3. Len(w) \in DOMAIN w /\ j \in 1..(Len(w) - 1)
          BY <4>2 DEF n
        <4>. QED BY <1>4, <4>3 DEF Chain
      <3>. QED BY <3>1, <3>2
    <2>3. Len(d) = Len(w)
      <3>1. \A m \in Nat : (m - 1) + 1 = m
        OBVIOUS
      <3>. QED BY <1>1, <1>3, <2>1, <3>1
    <2>. QED BY <1>2, <1>3, <2>2, <2>3
  <1>. QED BY <1>1, <1>2, <1>5, <1>6 DEF Chain

\* The directory that is entered is known to u with its subdirectories.
LEMMA EnteredWithin ==
  ASSUME NEW w \in Seq(Frames), w # <<>>, Chain(w), Grown(tree),
         NEW d \in Top(w).left, Within(w, tree),
         NEW g, g = Enter(w, d),
         NEW u, Within(w, u),
         \A e \in DOMAIN tree : Parent(e) = d /\ tree[e].id < 0 =>
           e \in DOMAIN u /\ u[e].id < 0
  PROVE  Within(g, u)
  <1>1. Len(w) \in Nat \ {0} /\ DOMAIN w = 1..Len(w)
    BY EmptySeq
  <1>2. d \in Dirs
    BY EnteredWalk DEF Dirs
  <1>3. /\ g \in Seq(Frames) /\ Len(g) = Len(w) + 1
        /\ \A i \in 1..Len(w) : g[i].dir = w[i].dir /\ g[i].left \subseteq w[i].left
        /\ g[Len(g)] = Frame(d)
    BY EnteredWalk
  <1>4. d \in DOMAIN u /\ u[d].id < 0
    BY <1>1 DEF Within, Top
  <1>5. ASSUME NEW i \in 1..Len(w)
        PROVE  /\ g[i].dir # Root => g[i].dir \in DOMAIN u /\ u[g[i].dir].id < 0
               /\ \A e \in g[i].left : /\ e \in DOMAIN u /\ u[e].id < 0
                                       /\ Parent(e) = g[i].dir
    BY <1>1, <1>3 DEF Within
  <1>6. /\ Frame(d).dir = d
        /\ \A e \in Frame(d).left : /\ e \in DOMAIN u /\ u[e].id < 0
                                    /\ Parent(e) = d
    BY <1>2, FrameIsFrame
  <1>. QED BY <1>1, <1>3, <1>4, <1>5, <1>6 DEF Within

LEMMA MoreEntries ==
  ASSUME NEW t, NEW s, NEW u, u = With(t, s)
  PROVE  /\ DOMAIN u = DOMAIN t \union DOMAIN s
         /\ \A p \in DOMAIN t : u[p] = t[p]
         /\ \A p \in DOMAIN s : p \notin DOMAIN t => u[p] = s[p]
  BY DEF With

-----------------------------------------------------------------------------
(***************************************************************************)
(* The invariant, one lemma per action.                                    *)
(***************************************************************************)
LEMMA Bounds ==
  /\ MaxFiles \in Nat /\ MaxDirs \in Nat /\ MaxLists \in Nat /\ MaxSaves \in Nat
  /\ MaxDepth \in Nat \ {0} /\ Expire \in Nat \ {0} /\ MaxTick \in Nat \ {0}
  BY NamespaceAssumption

LEMMA OneMore ==
  ASSUME used \in Used
  PROVE  /\ used.files < MaxFiles => [used EXCEPT !.files = @ + 1] \in Used
         /\ used.dirs < MaxDirs => [used EXCEPT !.dirs = @ + 1] \in Used
         /\ used.lists < MaxLists => [used EXCEPT !.lists = @ + 1] \in Used
         /\ used.saves < MaxSaves => [used EXCEPT !.saves = @ + 1] \in Used
  <1>1. \A n \in Nat : \A x \in 0..n : x < n => x + 1 \in 0..n
    OBVIOUS
  <1>2. /\ used.files < MaxFiles => used.files + 1 \in 0..MaxFiles
        /\ used.dirs < MaxDirs => used.dirs + 1 \in 0..MaxDirs
        /\ used.lists < MaxLists => used.lists + 1 \in 0..MaxLists
        /\ used.saves < MaxSaves => used.saves + 1 \in 0..MaxSaves
    BY <1>1, Bounds DEF Used
  <1>. QED BY <1>2 DEF Used

LEMMA InitIInv == Init => IInv
  <1>. SUFFICES ASSUME Init PROVE IInv
    OBVIOUS
  <1>1. /\ tree = <<>> /\ disk.image = <<>> /\ saver.image = <<>>
        /\ gc.walk = <<>> /\ saver.walk = <<>>
    BY DEF Init, NoSave, NoWalk, Whole
  <1>2. TypeInv
    BY Bounds DEF Init, TypeInv, Used, NoSave, NoWalk, NoList, Ids, Files, Collectors
  <1>3. TreesInv
    BY <1>1, NoTree DEF TreesInv, Trees
  <1>4. IdsInv
    BY <1>1, NoTree DEF IdsInv, Trees
  <1>5. WalkInv
    BY <1>1 DEF WalkInv, Chain, Within, Unentered
  <1>6. HeldInv
    BY NamespaceAssumption DEF Init, HeldInv, NoWalk, NoList
  <1>7. SeenInv
    BY <1>1, NoTree DEF SeenInv
  <1>8. IndexInv
    BY <1>1, NoTree DEF Init, IndexInv, Trees, FileIds, NodeIds
  <1>9. LockInv
    BY DEF Init, LockInv, NoWalk
  <1>10. SavedInv
    <2>1. undone = {}
      BY DEF Init
    <2>. QED BY <1>1, <2>1, NoTree DEF SavedInv
  <1>. QED BY <1>2, <1>3, <1>4, <1>5, <1>6, <1>7, <1>8, <1>9, <1>10 DEF IInv

\* What a call that touches no tree keeps.
LEMMA Undisturbed ==
  ASSUME IInv, UNCHANGED <<now, tree, gc, saver, disk, seen, fresh, undone>>,
         used'.dirs = used.dirs, used'.files = used.files
  PROVE  TreesInv' /\ IdsInv' /\ WalkInv' /\ LockInv' /\ SeenInv' /\ SavedInv'
  <1>1. Trees' = Trees
    BY DEF Trees
  <1>2. LockInv'
    BY DEF IInv, LockInv, SaverHolds, Top
  <1>3. SavedInv'
    BY DEF IInv, SavedInv, Quiet, VisibleIds, Visible
  <1>. QED BY <1>1, <1>2, <1>3 DEF IInv, TreesInv, IdsInv, WalkInv, SeenInv

LEMMA TreeIsGrown ==
  ASSUME IInv
  PROVE  /\ Grown(tree) /\ Grown(disk.image) /\ Grown(saver.image)
         /\ \A p \in DOMAIN tree : p \in Paths /\ p \in Way(p) /\ Way(p) \subseteq DOMAIN tree
  <1>1. Grown(tree) /\ Grown(disk.image) /\ Grown(saver.image)
    BY DEF IInv, TreesInv, Trees
  <1>. QED BY <1>1, WayIsPaths DEF Grown

LEMMA IdsAreNumbers ==
  ASSUME IInv
  PROVE  /\ used.dirs \in Nat /\ used.files \in Nat
         /\ \A t \in Trees : \A p \in DOMAIN t : t[p].id \in Int
  <1>1. used \in Used
    BY DEF IInv, TypeInv
  <1>2. used.dirs \in Nat /\ used.files \in Nat
    BY <1>1, Bounds DEF Used
  <1>3. \A i \in Ids : i \in Int
    BY Bounds DEF Ids, Files
  <1>4. \A t \in Trees : \A p \in DOMAIN t : t[p].id \in Ids
    BY TreeIsGrown DEF Trees, Grown, Nodes
  <1>. QED BY <1>2, <1>3, <1>4

\* No step of the calls changes the tree, and the time is that of the call.
LEMMA ListIInv ==
  ASSUME IInv, NEW p \in Dirs, List(p)
  PROVE  IInv'
  <1>1. /\ UNCHANGED <<now, tree, index, gc, saver, disk, reporter, cleaned,
                      seen, fresh, undone>>
        /\ used' = [used EXCEPT !.lists = @ + 1] /\ used.lists < MaxLists
        /\ Visible(tree, p)
    BY DEF List
  <1>2. used' \in Used /\ used'.dirs = used.dirs /\ used'.files = used.files
    BY <1>1, OneMore DEF IInv, TypeInv, Used
  <1>3. TreesInv' /\ IdsInv' /\ WalkInv' /\ LockInv' /\ SeenInv' /\ SavedInv'
    BY <1>1, <1>2, Undisturbed
  <1>4. lister'.at = now
    BY DEF List
  <1>5. ASSUME NEW i \in lister'.held
        PROVE  \E q \in DOMAIN tree : tree[q].id = i /\ \A o \in Way(q) : ~tree[o].deleted
    <2>1. CASE IsDir(tree, p)
      <3>1. PICK q \in DOMAIN tree : Parent(q) = p /\ ~tree[q].deleted /\ tree[q].id = i
        BY <1>5, <2>1 DEF List, Children
      <3>2. Way(q) = Way(p) \union {q}
        BY <3>1, TreeIsGrown, WayOfParent
      <3>3. \A o \in Way(q) : ~tree[o].deleted
        BY <1>1, <3>1, <3>2 DEF Visible
      <3>. QED BY <3>1, <3>3
    <2>2. CASE ~IsDir(tree, p)
      <3>1. i = tree[p].id /\ p \in Paths
        BY <1>5, <2>2 DEF List, IsDir, Dirs
      <3>2. p \in DOMAIN tree
        BY <1>1, <3>1, WayIsPaths DEF Visible
      <3>. QED BY <1>1, <3>1, <3>2 DEF Visible
    <2>. QED BY <2>1, <2>2
  <1>6. lister'.held \subseteq Ids
    BY <1>5, TreeIsGrown DEF Grown, Nodes
  <1>7. TypeInv'
    BY <1>1, <1>2, <1>4, <1>6 DEF IInv, TypeInv
  <1>8. HeldInv'
    <2>1. ASSUME NEW i \in lister'.held
          PROVE  \E q \in DOMAIN tree' :
                   /\ tree'[q].id = i
                   /\ \A o \in Way(q) : tree'[o].deleted => tree'[o].tick >= lister'.at
      <3>1. PICK q \in DOMAIN tree : tree[q].id = i /\ \A o \in Way(q) : ~tree[o].deleted
        BY <1>5
      <3>. QED BY <1>1, <3>1
    <2>2. /\ gc'.now <= now' /\ \A i \in Ids : seen'[i] <= now'
          /\ lister'.at <= now' /\ now' <= lister'.at + Expire
      BY <1>1, <1>4, NamespaceAssumption DEF IInv, TypeInv, HeldInv
    <2>. QED BY <2>1, <2>2 DEF HeldInv
  <1>9. IndexInv'
    BY <1>1, <1>2 DEF IInv, IndexInv, Trees
  <1>. QED BY <1>3, <1>7, <1>8, <1>9 DEF IInv

LEMMA ListedIInv ==
  ASSUME IInv, Listed
  PROVE  IInv'
  <1>1. /\ UNCHANGED <<now, tree, used, index, gc, saver, disk, reporter, cleaned,
                      seen, fresh, undone>>
        /\ lister' = NoList
    BY DEF Listed
  <1>2. TreesInv' /\ IdsInv' /\ WalkInv' /\ LockInv' /\ SeenInv' /\ SavedInv'
    BY <1>1, Undisturbed
  <1>3. TypeInv'
    BY <1>1, NamespaceAssumption DEF IInv, TypeInv, NoList
  <1>4. HeldInv'
    BY <1>1 DEF IInv, HeldInv, NoList
  <1>5. IndexInv'
    BY <1>1 DEF IInv, IndexInv, Trees
  <1>. QED BY <1>2, <1>3, <1>4, <1>5 DEF IInv

LEMMA ReportIInv ==
  ASSUME IInv, NEW f \in Files, Report(f)
  PROVE  IInv'
  <1>1. /\ UNCHANGED <<now, tree, used, index, gc, saver, disk, lister,
                      seen, fresh, undone>>
        /\ f <= used.files
        /\ \/ reporter' = f /\ cleaned' = cleaned
           \/ reporter' = reporter /\ f \notin index /\ cleaned' = cleaned \union {f}
    BY DEF Report
  <1>2. TreesInv' /\ IdsInv' /\ WalkInv' /\ LockInv' /\ SeenInv' /\ SavedInv'
    BY <1>1, Undisturbed
  <1>3. TypeInv'
    BY <1>1 DEF IInv, TypeInv
  <1>4. HeldInv'
    BY <1>1 DEF IInv, HeldInv
  <1>5. Trees' = Trees
    BY <1>1 DEF Trees
  <1>6. index \intersect cleaned' = {} /\ cleaned' \subseteq 1..used.files
    <2>1. f \in 1..used.files
      BY <1>1, NamespaceAssumption DEF Files, IInv, TypeInv
    <2>. QED BY <1>1, <2>1 DEF IInv, IndexInv
  <1>7. IndexInv'
    BY <1>1, <1>5, <1>6 DEF IInv, IndexInv
  <1>. QED BY <1>2, <1>3, <1>4, <1>7 DEF IInv

LEMMA ReleaseIInv ==
  ASSUME IInv, Release
  PROVE  IInv'
  <1>1. /\ UNCHANGED <<now, tree, used, index, gc, saver, disk, lister, cleaned,
                      seen, fresh, undone>>
        /\ reporter' = 0
    BY DEF Release
  <1>2. TreesInv' /\ IdsInv' /\ WalkInv' /\ LockInv' /\ SeenInv' /\ SavedInv'
    BY <1>1, Undisturbed
  <1>3. TypeInv' /\ HeldInv'
    BY <1>1 DEF IInv, TypeInv, HeldInv
  <1>4. IndexInv'
    BY <1>1 DEF IInv, IndexInv, Trees
  <1>. QED BY <1>2, <1>3, <1>4 DEF IInv

\* The first frame of a walk.
LEMMA FirstFrame ==
  ASSUME IInv, NEW w, w = <<Frame(Root)>>
  PROVE  /\ w \in Seq(Frames) /\ Chain(w)
         /\ Len(w) = 1 /\ w[1] = Frame(Root)
         /\ \A u : (\A e \in DOMAIN tree : Parent(e) = Root /\ tree[e].id < 0 =>
                      e \in DOMAIN u /\ u[e].id < 0)
                   => Within(w, u)
  <1>1. /\ Frame(Root) \in Frames /\ Frame(Root).dir = Root
        /\ Frame(Root).left = {p \in DOMAIN tree : Parent(p) = Root /\ tree[p].id < 0}
    BY TreeIsGrown, FrameIsFrame DEF Dirs
  <1>2. w \in Seq(Frames) /\ Len(w) = 1 /\ DOMAIN w = {1} /\ w[1] = Frame(Root)
    BY <1>1
  <1>3. Len(Root) = 0 /\ 1..0 = {}
    BY DEF Root
  <1>4. Chain(w)
    BY <1>1, <1>2, <1>3 DEF Chain
  <1>. QED BY <1>1, <1>2, <1>4 DEF Within

\* A step of the collector that sweeps nothing.
LEMMA CollectorWalks ==
  ASSUME IInv, UNCHANGED <<now, tree, used, index, saver, disk, lister, reporter, cleaned,
                           seen, fresh, undone>>,
         gc' \in Collectors, gc'.now <= now, LockInv',
         Chain(gc'.walk), Within(gc'.walk, tree)
  PROVE  IInv'
  <1>1. TypeInv'
    BY DEF IInv, TypeInv
  <1>2. Trees' = Trees
    BY DEF Trees
  <1>3. TreesInv' /\ IdsInv' /\ SeenInv' /\ IndexInv'
    BY <1>2 DEF IInv, TreesInv, IdsInv, SeenInv, IndexInv
  <1>4. SavedInv'
    BY DEF IInv, SavedInv, Quiet, VisibleIds, Visible
  <1>5. WalkInv'
    BY DEF IInv, WalkInv
  <1>6. HeldInv'
    BY DEF IInv, HeldInv
  <1>. QED BY <1>1, <1>3, <1>4, <1>5, <1>6 DEF IInv

LEMMA StartGCIInv ==
  ASSUME IInv, StartGC
  PROVE  IInv'
  <1>1. /\ UNCHANGED <<now, tree, used, index, saver, disk, lister, reporter, cleaned,
                       seen, fresh, undone>>
        /\ gc' = [walk |-> <<Frame(Root)>>, now |-> now, locked |-> FALSE, inUse |-> {}]
    BY DEF StartGC, NoWalk
  <1>2. PICK w : w = <<Frame(Root)>>
    OBVIOUS
  <1>3. w \in Seq(Frames) /\ Chain(w) /\ Within(w, tree)
    BY <1>2, FirstFrame
  <1>4. gc'.walk = w /\ gc'.now = now /\ ~gc'.locked /\ gc'.inUse = {}
    BY <1>1, <1>2
  <1>5. gc' \in Collectors
    BY <1>1, <1>2, <1>3 DEF Collectors, IInv, TypeInv
  <1>6. LockInv' /\ gc'.now <= now
    BY <1>4 DEF LockInv, IInv, TypeInv
  <1>. QED BY <1>1, <1>3, <1>4, <1>5, <1>6, CollectorWalks

LEMMA EnterGCIInv ==
  ASSUME IInv, EnterGC
  PROVE  IInv'
  <1>1. PICK d \in Top(gc.walk).left : gc' = [gc EXCEPT !.walk = Enter(gc.walk, d)]
    BY DEF EnterGC
  <1>2. gc.walk \in Seq(Frames) /\ gc.walk # <<>> /\ Chain(gc.walk) /\ Within(gc.walk, tree)
    BY DEF EnterGC, IInv, TypeInv, WalkInv, Collectors
  <1>3. PICK g : g = Enter(gc.walk, d)
    OBVIOUS
  <1>4. \A e \in DOMAIN tree : Parent(e) = d /\ tree[e].id < 0 =>
          e \in DOMAIN tree /\ tree[e].id < 0
    OBVIOUS
  <1>5. g \in Seq(Frames) /\ Chain(g) /\ Within(g, tree)
    BY <1>2, <1>3, <1>4, TreeIsGrown, EnteredWalk, EnteredChain, EnteredWithin
  <1>6. /\ gc' \in Collectors /\ gc'.walk = g /\ gc'.now = gc.now
        /\ gc'.locked = gc.locked /\ gc'.inUse = gc.inUse
    BY <1>1, <1>3, <1>5 DEF IInv, TypeInv, Collectors
  <1>7. ~gc.locked
    BY DEF IInv, LockInv, EnterGC
  <1>8. gc'.now <= now /\ LockInv'
    BY <1>6, <1>7 DEF IInv, HeldInv, LockInv, EnterGC
  <1>. QED BY <1>5, <1>6, <1>8, CollectorWalks DEF EnterGC

LEMMA InspectIInv ==
  ASSUME IInv, Inspect
  PROVE  IInv'
  <1>1. PICK u : u = {p \in Children(tree, Top(gc.walk).dir) : InUse(p)}
    OBVIOUS
  <1>2. u \subseteq DOMAIN tree /\ u \subseteq Paths
    BY <1>1, TreeIsGrown DEF Children
  <1>3. gc' = [gc EXCEPT !.locked = TRUE, !.inUse = u]
    BY <1>1 DEF Inspect
  <1>4. /\ gc' \in Collectors /\ gc'.walk = gc.walk /\ gc'.now = gc.now
        /\ gc'.locked /\ gc'.inUse = u
    BY <1>2, <1>3 DEF IInv, TypeInv, Collectors
  <1>5. LockInv'
    BY <1>2, <1>4 DEF LockInv, SaverHolds, Top, Inspect
  <1>6. gc'.now <= now /\ Chain(gc'.walk) /\ Within(gc'.walk, tree)
    BY <1>4 DEF IInv, HeldInv, WalkInv
  <1>. QED BY <1>4, <1>5, <1>6, CollectorWalks DEF Inspect

-----------------------------------------------------------------------------
\* The entries of a directory as they are archived.
LEMMA ArchivedEntries ==
  ASSUME IInv, NEW d \in Dirs
  PROVE  /\ DOMAIN Archived(d) = {p \in DOMAIN tree : Parent(p) = d}
         /\ \A p \in DOMAIN Archived(d) :
              /\ p \in Paths /\ Parent(p) = d
              /\ Archived(d)[p] \in Nodes /\ Archived(d)[p].id = tree[p].id
              /\ Archived(d)[p].deleted = tree[p].deleted
              /\ Archived(d)[p].tick = tree[p].tick
  <1>1. DOMAIN Archived(d) = {p \in DOMAIN tree : Parent(p) = d}
    BY DEF Archived, Children
  <1>2. ASSUME NEW p \in DOMAIN tree, Parent(p) = d
        PROVE  /\ Archived(d)[p] \in Nodes /\ Archived(d)[p].id = tree[p].id
               /\ Archived(d)[p].deleted = tree[p].deleted
               /\ Archived(d)[p].tick = tree[p].tick
    <2>1. tree[p] \in Nodes
      BY <1>2, TreeIsGrown DEF Grown
    <2>2. Archived(d)[p] = [tree[p] EXCEPT !.stuck = FALSE]
      BY <1>2 DEF Archived, Children
    <2>. QED BY <2>1, <2>2 DEF Nodes
  <1>. QED BY <1>1, <1>2, TreeIsGrown

\* What is below a removed node is not visible, and was not since the removal.
LEMMA RemovedIsQuiet ==
  ASSUME IInv, NEW q \in DOMAIN tree, NEW p \in Way(q), tree[p].deleted
  PROVE  /\ tree[q].id \notin VisibleIds(tree)
         /\ tree[q].id \notin undone => seen[tree[q].id] <= tree[p].tick
  <1>1. \A o \in DOMAIN tree : tree[o].id = tree[q].id => o = q
    BY DEF IInv, IdsInv, Trees
  <1>2. tree[q].id \notin VisibleIds(tree)
    BY <1>1 DEF VisibleIds, Visible
  <1>. QED BY <1>2 DEF IInv, SeenInv

\* Entries s of a directory d are archived as they are in memory now, into t of
\* which the saver has the way to d, and nothing below it.
LEMMA ArchivedIsQuiet ==
  ASSUME IInv, UNCHANGED <<tree, seen, undone>>, fresh' \in {fresh, {}},
         NEW d \in Dirs, NEW t, NEW u, Grown(t), Way(d) \subseteq DOMAIN t,
         (t = saver.image /\ fresh' = fresh) \/ t = <<>>,
         DOMAIN u = DOMAIN t \union DOMAIN Archived(d),
         \A p \in DOMAIN t : u[p] = t[p],
         \A p \in DOMAIN Archived(d) : p \notin DOMAIN t => u[p] = Archived(d)[p]
  PROVE  /\ \A q \in DOMAIN u : \A p \in Way(q) :
              u[p].deleted => Quiet(u[q].id, u[p].tick)'
         /\ \A q \in DOMAIN tree : \A p \in Way(q) \intersect DOMAIN u :
              u[p].deleted => Quiet(tree[q].id, u[p].tick)'
  <1>1. /\ DOMAIN Archived(d) = {p \in DOMAIN tree : Parent(p) = d}
        /\ \A p \in DOMAIN Archived(d) :
             /\ p \in Paths /\ Parent(p) = d
             /\ Archived(d)[p].id = tree[p].id
             /\ Archived(d)[p].deleted = tree[p].deleted
             /\ Archived(d)[p].tick = tree[p].tick
    BY ArchivedEntries
  <1>2. \A q \in DOMAIN tree : \A p \in Way(q) \intersect DOMAIN t :
          t[p].deleted => Quiet(tree[q].id, t[p].tick)'
    <2>1. CASE t = <<>>
      BY <2>1, NoTree
    <2>2. CASE t = saver.image /\ fresh' = fresh
      BY <2>2 DEF IInv, SavedInv, Quiet, VisibleIds, Visible
    <2>. QED BY <2>1, <2>2
  <1>3. \A q \in DOMAIN t : \A p \in Way(q) : t[p].deleted => Quiet(t[q].id, t[p].tick)'
    <2>1. CASE t = <<>>
      BY <2>1, NoTree
    <2>2. CASE t = saver.image /\ fresh' = fresh
      BY <2>2 DEF IInv, SavedInv, Quiet, VisibleIds, Visible
    <2>. QED BY <2>1, <2>2
  <1>4. ASSUME NEW q \in DOMAIN tree, NEW p \in Way(q), tree[p].deleted
        PROVE  Quiet(tree[q].id, tree[p].tick)'
    <2>1. tree[q].id \notin undone =>
            tree[q].id \notin VisibleIds(tree) /\ seen[tree[q].id] <= tree[p].tick
      BY <1>4, RemovedIsQuiet
    <2>. QED BY <2>1 DEF Quiet, VisibleIds, Visible
  <1>5. ASSUME NEW q \in DOMAIN tree, NEW p \in Way(q), p \in DOMAIN u, u[p].deleted
        PROVE  Quiet(tree[q].id, u[p].tick)'
    <2>1. CASE p \in DOMAIN t
      BY <1>2, <1>5, <2>1
    <2>2. CASE p \notin DOMAIN t
      <3>1. u[p] = Archived(d)[p] /\ p \in DOMAIN Archived(d)
        BY <1>5, <2>2
      <3>2. tree[p].deleted /\ tree[p].tick = u[p].tick
        BY <1>1, <1>5, <3>1
      <3>3. Quiet(tree[q].id, tree[p].tick)'
        BY <1>4, <3>2
      <3>. QED BY <3>2, <3>3
    <2>. QED BY <2>1, <2>2
  <1>6. ASSUME NEW q \in DOMAIN u, NEW p \in Way(q), u[p].deleted
        PROVE  Quiet(u[q].id, u[p].tick)'
    <2>1. CASE q \in DOMAIN t
      <3>1. p \in DOMAIN t
        BY <2>1 DEF Grown
      <3>. QED BY <1>3, <1>6, <2>1, <3>1
    <2>2. CASE q \notin DOMAIN t
      <3>1. q \in DOMAIN Archived(d) /\ u[q] = Archived(d)[q]
        BY <2>2
      <3>2. q \in DOMAIN tree /\ q \in Paths /\ Parent(q) = d /\ u[q].id = tree[q].id
        BY <1>1, <3>1
      <3>3. Way(q) \subseteq DOMAIN u
        BY <3>1, <3>2, WayOfParent
      <3>4. Quiet(tree[q].id, u[p].tick)'
        BY <1>5, <1>6, <3>2, <3>3
      <3>. QED BY <3>2, <3>4
    <2>. QED BY <2>1, <2>2
  <1>. QED BY <1>5, <1>6

\* What is archived of a tree comes from the tree, and a new save starts over.
LEMMA SaverWalks ==
  ASSUME IInv, UNCHANGED <<now, tree, index, gc, lister, reporter, cleaned, seen, undone>>,
         fresh' \subseteq Ids, LockInv', SavedInv',
         used' \in Used, used'.dirs = used.dirs, used'.files = used.files,
         DOMAIN saver' = {"walk", "image"}, saver'.walk \in Seq(Frames),
         Chain(saver'.walk), Within(saver'.walk, tree),
         Within(saver'.walk, saver'.image),
         Unentered(saver'.walk, saver'.image),
         Grown(saver'.image), Grown(disk'.image),
         \A p \in DOMAIN saver'.image :
           \E t \in Trees : p \in DOMAIN t /\ t[p].id = saver'.image[p].id,
         \A p \in DOMAIN disk'.image :
           \E t \in Trees : p \in DOMAIN t /\ t[p].id = disk'.image[p].id
  PROVE  IInv'
  <1>1. TypeInv'
    BY DEF IInv, TypeInv
  <1>2. Trees' = {tree, disk'.image, saver'.image}
    BY DEF Trees
  <1>3. TreesInv'
    BY <1>2, TreeIsGrown DEF TreesInv
  <1>4. \A t \in Trees' : \A p \in DOMAIN t :
          \E u \in Trees : p \in DOMAIN u /\ u[p].id = t[p].id
    BY <1>2 DEF Trees
  <1>5. /\ used.dirs \in Nat /\ used.files \in Nat
        /\ \A t \in Trees : \A p \in DOMAIN t : t[p].id \in Int
    BY IdsAreNumbers
  <1>6. IdsInv'
    BY <1>4, <1>5, IdsKept DEF IInv
  <1>7. WalkInv'
    BY DEF IInv, WalkInv
  <1>8. HeldInv' /\ SeenInv'
    BY DEF IInv, HeldInv, SeenInv
  <1>9. IndexInv'
    <2>1. \A t \in Trees' : FileIds(t) \subseteq index
      BY <1>4 DEF IInv, IndexInv, FileIds, NodeIds
    <2>. QED BY <2>1 DEF IInv, IndexInv
  <1>. QED BY <1>1, <1>3, <1>6, <1>7, <1>8, <1>9 DEF IInv

LEMMA StartSaveIInv ==
  ASSUME IInv, StartSave
  PROVE  IInv'
  <1>1. /\ UNCHANGED <<now, tree, index, gc, lister, reporter, cleaned, seen, undone>>
        /\ used' = [used EXCEPT !.saves = @ + 1] /\ used.saves < MaxSaves
        /\ saver' = [walk |-> <<Frame(Root)>>, image |-> Archived(Root)]
        /\ disk'.image = <<>> /\ fresh' = {} /\ Open(Root)
    BY DEF StartSave, Torn
  <1>2. used' \in Used /\ used'.dirs = used.dirs /\ used'.files = used.files
    BY <1>1, OneMore DEF IInv, TypeInv, Used
  <1>3. PICK i : i = Archived(Root)
    OBVIOUS
  <1>4. /\ DOMAIN saver' = {"walk", "image"}
        /\ saver'.walk = <<Frame(Root)>> /\ saver'.image = i
    BY <1>1, <1>3
  <1>5. /\ DOMAIN i = {p \in DOMAIN tree : Parent(p) = Root}
        /\ \A p \in DOMAIN i : /\ p \in Paths /\ Parent(p) = Root
                               /\ i[p] \in Nodes /\ i[p].id = tree[p].id
    BY <1>3, ArchivedEntries DEF Dirs
  <1>6. /\ saver'.walk \in Seq(Frames) /\ Chain(saver'.walk)
        /\ Within(saver'.walk, tree) /\ Within(saver'.walk, i)
        /\ Len(saver'.walk) = 1 /\ saver'.walk[1] = Frame(Root)
    BY <1>4, <1>5, FirstFrame
  <1>7. Grown(i)
    <2>1. DOMAIN i = DOMAIN <<>> \union DOMAIN i
      BY NoTree
    <2>2. \A p \in DOMAIN <<>> : i[p] = <<>>[p]
      BY NoTree
    <2>3. \A p \in DOMAIN i : p \in Paths /\ Parent(p) = Root /\ i[p] \in Nodes
      BY <1>5
    <2>. QED BY <2>1, <2>2, <2>3, NoTree, MoreOfTree DEF Dirs
  <1>8. \A p \in DOMAIN i : \E t \in Trees : p \in DOMAIN t /\ t[p].id = i[p].id
    BY <1>5 DEF Trees
  <1>9. Unentered(saver'.walk, i)
    <2>1. \A d \in Frame(Root).left : d \in Paths
      BY TreeIsGrown, FrameIsFrame DEF Dirs
    <2>2. \A d \in Frame(Root).left : d # Root
      BY <2>1, PathIsSeq
    <2>. QED BY <1>5, <1>6, <2>2 DEF Unentered
  <1>10. LockInv'
    <2>1. Frame(Root).dir = Root /\ DOMAIN saver'.walk = {1}
      BY <1>6, TreeIsGrown, FrameIsFrame DEF Dirs
    <2>2. SaverHolds(Top(gc.walk).dir)' => Top(gc.walk).dir = Root
      BY <1>1, <1>6, <2>1 DEF SaverHolds, Top
    <2>. QED BY <1>1, <2>2 DEF IInv, LockInv, Open, Top
  <1>11. SavedInv'
    <2>1. DOMAIN i = DOMAIN <<>> \union DOMAIN Archived(Root)
      BY <1>3, NoTree
    <2>2. \A p \in DOMAIN <<>> : i[p] = <<>>[p]
      BY NoTree
    <2>3. /\ \A q \in DOMAIN i : \A p \in Way(q) :
               i[p].deleted => Quiet(i[q].id, i[p].tick)'
          /\ \A q \in DOMAIN tree : \A p \in Way(q) \intersect DOMAIN i :
               i[p].deleted => Quiet(tree[q].id, i[p].tick)'
      BY <1>1, <1>3, <2>1, <2>2, NoTree, WayOfRoot, ArchivedIsQuiet DEF Dirs
    <2>4. undone' \intersect VisibleIds(tree)' = {}
      BY <1>1 DEF IInv, SavedInv, VisibleIds, Visible
    <2>. QED BY <1>1, <1>4, <2>3, <2>4, NoTree DEF SavedInv
  <1>. QED BY <1>1, <1>2, <1>4, <1>6, <1>7, <1>8, <1>9, <1>10, <1>11, NoTree, SaverWalks

LEMMA EnterSaveIInv ==
  ASSUME IInv, EnterSave
  PROVE  IInv'
  <1>1. PICK d \in Top(saver.walk).left :
          /\ Open(d)
          /\ saver' = [walk |-> Enter(saver.walk, d),
                       image |-> With(saver.image, Archived(d))]
    BY DEF EnterSave
  <1>2. UNCHANGED <<now, tree, used, index, gc, disk, lister, reporter, cleaned,
                      seen, fresh, undone>>
    BY DEF EnterSave
  <1>3. /\ saver.walk \in Seq(Frames) /\ saver.walk # <<>> /\ Chain(saver.walk)
        /\ Within(saver.walk, tree) /\ Within(saver.walk, saver.image)
        /\ Unentered(saver.walk, saver.image)
    BY DEF EnterSave, IInv, TypeInv, WalkInv
  <1>4. PICK g : g = Enter(saver.walk, d)
    OBVIOUS
  <1>5. PICK i : i = With(saver.image, Archived(d))
    OBVIOUS
  <1>6. DOMAIN saver' = {"walk", "image"} /\ saver'.walk = g /\ saver'.image = i
    BY <1>1, <1>4, <1>5
  <1>7. g \in Seq(Frames) /\ Chain(g) /\ d \in Paths
    BY <1>3, <1>4, TreeIsGrown, EnteredWalk, EnteredChain
  <1>8. /\ d \in DOMAIN saver.image /\ saver.image[d].id < 0
        /\ \A p \in DOMAIN saver.image : Parent(p) # d
    <2>1. Len(saver.walk) \in DOMAIN saver.walk
      BY <1>3, EmptySeq
    <2>. QED BY <1>3, <2>1 DEF Within, Unentered, Top
  <1>9. /\ DOMAIN Archived(d) = {p \in DOMAIN tree : Parent(p) = d}
        /\ \A p \in DOMAIN Archived(d) :
             /\ p \in Paths /\ Parent(p) = d
             /\ Archived(d)[p] \in Nodes /\ Archived(d)[p].id = tree[p].id
    BY <1>7, ArchivedEntries DEF Dirs
  <1>10. /\ DOMAIN i = DOMAIN saver.image \union DOMAIN Archived(d)
         /\ \A p \in DOMAIN saver.image : i[p] = saver.image[p]
         /\ \A p \in DOMAIN Archived(d) : p \notin DOMAIN saver.image => i[p] = Archived(d)[p]
    <2>1. PICK s : s = Archived(d)
      OBVIOUS
    <2>. QED BY <1>5, <2>1 DEF With
  <1>11. \A p \in DOMAIN saver.image : saver.image[p] \in Nodes
    BY TreeIsGrown DEF Grown
  <1>12. Grown(i)
    <2>. DEFINE s == DOMAIN Archived(d)
    <2>1. \A p \in s : p \in Paths /\ Parent(p) = d /\ i[p] \in Nodes
      BY <1>9, <1>10, <1>11
    <2>2. d \in Dirs
      BY <1>7 DEF Dirs
    <2>3. DOMAIN i = DOMAIN saver.image \union s
      BY <1>10
    <2>. HIDE DEF s
    <2>. QED BY <1>8, <1>10, <2>1, <2>2, <2>3, TreeIsGrown, MoreOfTree
  <1>13. \A p \in DOMAIN i : \E t \in Trees : p \in DOMAIN t /\ t[p].id = i[p].id
    BY <1>9, <1>10 DEF Trees
  <1>14. \A e \in DOMAIN tree : Parent(e) = d /\ tree[e].id < 0 =>
           e \in DOMAIN i /\ i[e].id < 0
    <2>. SUFFICES ASSUME NEW e \in DOMAIN tree, Parent(e) = d, tree[e].id < 0
                  PROVE  e \in DOMAIN i /\ i[e].id < 0
      OBVIOUS
    <2>1. e \in DOMAIN Archived(d) /\ Archived(d)[e].id < 0
      BY <1>9
    <2>. QED BY <1>8, <1>10, <2>1
  <1>15. Within(g, i)
    <2>1. Within(saver.walk, i)
      BY <1>3, <1>10, WithinKept DEF Within
    <2>. QED BY <1>3, <1>4, <1>14, <2>1, TreeIsGrown, EnteredWithin
  <1>16. Within(g, tree)
    BY <1>3, <1>4, TreeIsGrown, EnteredWithin
  <1>17. Unentered(g, i)
    <2>. SUFFICES ASSUME NEW k \in DOMAIN g, NEW e \in g[k].left,
                         NEW p \in DOMAIN i, Parent(p) = e
                  PROVE  FALSE
      BY DEF Unentered
    <2>. DEFINE n == Len(saver.walk)
    <2>1. n \in Nat \ {0} /\ DOMAIN saver.walk = 1..n
      BY <1>3, EmptySeq
    <2>2. /\ DOMAIN g = 1..(n + 1) /\ g[n + 1] = Frame(d)
          /\ \A j \in 1..n : /\ g[j].dir = saver.walk[j].dir
                            /\ g[j].left \subseteq saver.walk[j].left
      BY <1>3, <1>4, <2>1, TreeIsGrown, EnteredWalk
    <2>3. g[n].left = Top(saver.walk).left \ {d} /\ Top(saver.walk) = saver.walk[n]
      BY <1>3, <1>4, TreeIsGrown, EnteredWalk DEF Top
    <2>4. d \in Paths /\ Parent(d) = saver.walk[n].dir /\ Parent(d) # d
      <3>1. d \in Paths /\ Parent(d) = saver.walk[n].dir
        BY <1>3, <2>3, TreeIsGrown, EnteredWalk
      <3>. QED BY <3>1, WayOfParent, WayIsPaths
    <2>. HIDE DEF n
    <2>5. CASE k = n + 1
      <3>1. e \in DOMAIN tree /\ Parent(e) = d /\ e \in Paths
        BY <2>2, <2>4, <2>5, TreeIsGrown, FrameIsFrame DEF Dirs
      <3>2. CASE p \in DOMAIN saver.image
        <4>1. p \in Paths /\ Way(p) \subseteq DOMAIN saver.image
          BY <3>2, TreeIsGrown DEF Grown
        <4>2. e \in Way(p)
          BY <3>1, <4>1, WayIsPaths, WayOfParent
        <4>. QED BY <1>8, <3>1, <4>1, <4>2
      <3>3. CASE p \in DOMAIN Archived(d)
        BY <1>9, <2>4, <3>1, <3>3
      <3>. QED BY <1>10, <3>2, <3>3
    <2>6. CASE k \in 1..n
      <3>1. e \in saver.walk[k].left
        BY <2>2, <2>6
      <3>2. CASE p \in DOMAIN saver.image
        BY <1>3, <2>1, <2>6, <3>1, <3>2 DEF Unentered
      <3>3. CASE p \in DOMAIN Archived(d)
        <4>1. e = d
          BY <1>9, <3>3
        <4>2. k # n
          BY <2>3, <4>1
        <4>3. Parent(d) = saver.walk[k].dir
          BY <1>3, <2>1, <2>6, <3>1, <4>1 DEF Within
        <4>4. Len(saver.walk[k].dir) = k - 1 /\ Len(saver.walk[n].dir) = n - 1
          <5>1. k \in DOMAIN saver.walk /\ n \in DOMAIN saver.walk
            BY <2>1, <2>6
          <5>. QED BY <1>3, <5>1 DEF Chain
        <4>. QED BY <2>1, <2>4, <2>6, <4>2, <4>3, <4>4
      <3>. QED BY <1>10, <3>2, <3>3
    <2>. QED BY <2>1, <2>2, <2>5, <2>6
  <1>18. used' \in Used
    BY <1>2 DEF IInv, TypeInv
  <1>19. \A p \in DOMAIN disk'.image :
           \E t \in Trees : p \in DOMAIN t /\ t[p].id = disk'.image[p].id
    BY <1>2 DEF Trees
  <1>20. LockInv'
    <2>1. /\ Len(g) = Len(saver.walk) + 1 /\ Len(saver.walk) \in Nat
          /\ \A k \in 1..Len(saver.walk) : g[k].dir = saver.walk[k].dir
          /\ g[Len(g)].dir = d
      BY <1>3, <1>4, <1>7, TreeIsGrown, EnteredWalk, FrameIsFrame DEF Dirs
    <2>2. DOMAIN saver.walk = 1..Len(saver.walk) /\ DOMAIN g = 1..(Len(saver.walk) + 1)
      BY <1>3, <1>7, <2>1
    <2>3. \A k \in DOMAIN g : g[k].dir = d \/ SaverHolds(g[k].dir)
      BY <2>1, <2>2 DEF SaverHolds
    <2>4. gc.locked => Top(gc.walk).dir # d
      BY <1>1, <1>7, WayOfDir, WayIsPaths DEF Open
    <2>. QED BY <1>2, <1>6, <2>3, <2>4 DEF IInv, LockInv, SaverHolds, Top
  <1>21. SavedInv'
    <2>1. d \in Dirs /\ Way(d) \subseteq DOMAIN saver.image
      BY <1>7, <1>8, TreeIsGrown DEF Dirs, Grown
    <2>2. /\ \A q \in DOMAIN i : \A p \in Way(q) :
               i[p].deleted => Quiet(i[q].id, i[p].tick)'
          /\ \A q \in DOMAIN tree : \A p \in Way(q) \intersect DOMAIN i :
               i[p].deleted => Quiet(tree[q].id, i[p].tick)'
      BY <1>2, <1>10, <2>1, TreeIsGrown, ArchivedIsQuiet
    <2>3. /\ undone' \intersect VisibleIds(tree)' = {}
          /\ \A q \in DOMAIN disk.image : \A p \in Way(q) :
               disk.image[p].deleted => Quiet(disk.image[q].id, disk.image[p].tick)'
      BY <1>2 DEF IInv, SavedInv, Quiet, VisibleIds, Visible
    <2>. QED BY <1>2, <1>6, <2>2, <2>3 DEF SavedInv
  <1>22. fresh' \subseteq Ids
    BY <1>2 DEF IInv, TypeInv
  <1>. QED BY <1>2, <1>6, <1>7, <1>12, <1>13, <1>15, <1>16, <1>17, <1>18, <1>19,
              <1>20, <1>21, <1>22, TreeIsGrown, SaverWalks

LEMMA LeaveSaveIInv ==
  ASSUME IInv, LeaveSave
  PROVE  IInv'
  <1>1. /\ UNCHANGED <<now, tree, used, index, gc, lister, reporter, cleaned,
                      seen, fresh, undone>>
        /\ saver.walk # <<>>
    BY DEF LeaveSave
  <1>2. used' \in Used
    BY <1>1 DEF IInv, TypeInv
  <1>3. /\ saver.walk \in Seq(Frames) /\ Chain(saver.walk)
        /\ Within(saver.walk, tree) /\ Within(saver.walk, saver.image)
        /\ Unentered(saver.walk, saver.image) /\ DOMAIN saver = {"walk", "image"}
    BY DEF IInv, TypeInv, WalkInv
  <1>4. \A t \in Trees : \A p \in DOMAIN t :
          \E u \in Trees : p \in DOMAIN u /\ u[p].id = t[p].id
    OBVIOUS
  <1>7. fresh' \subseteq Ids
    BY <1>1 DEF IInv, TypeInv
  <1>5. CASE Len(saver.walk) = 1
    <2>1. saver' = NoSave /\ disk'.image = saver.image
      BY <1>5 DEF LeaveSave, Whole
    <2>2. /\ DOMAIN saver' = {"walk", "image"}
          /\ saver'.walk = <<>> /\ saver'.image = <<>>
      BY <2>1 DEF NoSave
    <2>3. /\ saver'.walk \in Seq(Frames) /\ Chain(saver'.walk)
          /\ Within(saver'.walk, tree) /\ Within(saver'.walk, saver'.image)
          /\ Unentered(saver'.walk, saver'.image)
      BY <2>2 DEF Chain, Within, Unentered
    <2>4. \A p \in DOMAIN disk'.image :
            \E t \in Trees : p \in DOMAIN t /\ t[p].id = disk'.image[p].id
      BY <2>1 DEF Trees
    <2>5. LockInv'
      BY <1>1, <2>2 DEF IInv, LockInv, SaverHolds, Top
    <2>6. SavedInv'
      <3>. PICK t : t = saver.image
        OBVIOUS
      <3>1. disk'.image = t /\ saver'.image = <<>>
        BY <2>1, <2>2
      <3>2. /\ undone' \intersect VisibleIds(tree)' = {}
            /\ \A q \in DOMAIN t : \A p \in Way(q) :
                 t[p].deleted => Quiet(t[q].id, t[p].tick)'
        BY <1>1 DEF IInv, SavedInv, Quiet, VisibleIds, Visible
      <3>. QED BY <3>1, <3>2, NoTree DEF SavedInv
    <2>. QED BY <1>1, <1>2, <1>7, <2>1, <2>2, <2>3, <2>4, <2>5, <2>6, NoTree, TreeIsGrown,
                SaverWalks
  <1>6. CASE Len(saver.walk) # 1
    <2>1. PICK g : g = Pop(saver.walk)
      OBVIOUS
    <2>2. saver' = [saver EXCEPT !.walk = g] /\ disk' = disk
      BY <1>6, <2>1 DEF LeaveSave
    <2>3. DOMAIN saver' = {"walk", "image"} /\ saver'.walk = g /\ saver'.image = saver.image
      BY <1>3, <2>2
    <2>4. /\ g \in Seq(Frames) /\ Chain(g)
          /\ Within(g, tree) /\ Within(g, saver.image) /\ Unentered(g, saver.image)
      BY <1>1, <1>3, <2>1, PoppedWalk
    <2>5. /\ \A p \in DOMAIN disk'.image :
               \E t \in Trees : p \in DOMAIN t /\ t[p].id = disk'.image[p].id
          /\ \A p \in DOMAIN saver'.image :
               \E t \in Trees : p \in DOMAIN t /\ t[p].id = saver'.image[p].id
      BY <2>2, <2>3 DEF Trees
    <2>6. LockInv'
      <3>1. Len(saver.walk) \in Nat \ {0} /\ DOMAIN saver.walk = 1..Len(saver.walk)
        BY <1>1, <1>3, EmptySeq
      <3>2. /\ Len(g) = Len(saver.walk) - 1 /\ \A k \in 1..Len(g) : g[k] = saver.walk[k]
            /\ DOMAIN g = 1..Len(g)
        BY <1>1, <1>3, <2>1, <2>4, PoppedWalk
      <3>3. DOMAIN g \subseteq DOMAIN saver.walk
        BY <3>1, <3>2
      <3>4. \A x : SaverHolds(x)' => SaverHolds(x)
        BY <2>3, <3>2, <3>3 DEF SaverHolds
      <3>. QED BY <1>1, <3>4 DEF IInv, LockInv, Top
    <2>7. SavedInv'
      BY <1>1, <2>2, <2>3 DEF IInv, SavedInv, Quiet, VisibleIds, Visible
    <2>. QED BY <1>1, <1>2, <1>7, <2>2, <2>3, <2>4, <2>5, <2>6, <2>7, TreeIsGrown, SaverWalks
  <1>. QED BY <1>5, <1>6

-----------------------------------------------------------------------------
\* What was quiet stays so, or is got back.
LEMMA QuietKept ==
  ASSUME IInv, See, NEW i \in Ids, NEW k, Quiet(i, k)
  PROVE  Quiet(i, k)'
  <1>. SUFFICES ASSUME i \notin fresh', i \notin undone'
                PROVE  i \notin VisibleIds(tree') /\ seen'[i] <= k
    BY DEF Quiet, VisibleIds, Visible
  <1>1. /\ fresh' = fresh \union (VisibleIds(tree') \ VisibleIds(tree))
        /\ undone' = undone \ VisibleIds(tree')
        /\ seen'[i] = IF i \in VisibleIds(tree) \union VisibleIds(tree') THEN now' ELSE seen[i]
    BY DEF See, Seen
  <1>2. i \notin fresh /\ (i \in VisibleIds(tree') => i \in VisibleIds(tree))
    BY <1>1
  <1>3. i \notin undone
    BY <1>1, <1>2 DEF IInv, SavedInv
  <1>4. i \notin VisibleIds(tree) /\ seen[i] <= k
    BY <1>2, <1>3 DEF Quiet
  <1>. QED BY <1>1, <1>2, <1>4

\* What See records fits the removals: a step removes what was visible, or leaves
\* it as it was removed before.
LEMMA SeenKept ==
  ASSUME IInv, See, now' \in 1..MaxTick, now <= now', Grown(tree'),
         \A p \in DOMAIN tree' : \A q \in DOMAIN tree' :
           tree'[p].id = tree'[q].id => p = q,
         \A q \in DOMAIN tree' : \A p \in Way(q) : tree'[p].deleted =>
           \/ tree'[p].tick = now'
           \/ /\ q \in DOMAIN tree /\ tree[q].id = tree'[q].id
              /\ tree[p].deleted /\ tree[p].tick = tree'[p].tick
  PROVE  /\ seen' \in [Ids -> 0..MaxTick]
         /\ \A i \in Ids : seen'[i] <= now'
         /\ fresh' \subseteq Ids /\ undone' \subseteq Ids
         /\ SeenInv'
  <1>1. /\ now \in 1..MaxTick /\ seen \in [Ids -> 0..MaxTick]
        /\ \A i \in Ids : seen[i] <= now
        /\ fresh \subseteq Ids /\ undone \subseteq Ids
    BY DEF IInv, TypeInv, HeldInv
  <1>2. /\ \A i \in Ids :
             seen'[i] = IF i \in VisibleIds(tree) \union VisibleIds(tree') THEN now' ELSE seen[i]
        /\ fresh' = fresh \union (VisibleIds(tree') \ VisibleIds(tree))
        /\ undone' = undone \ VisibleIds(tree')
    BY DEF See, Seen
  <1>3. seen' \in [Ids -> 0..MaxTick]
    <2>1. now' \in 0..MaxTick
      OBVIOUS
    <2>. QED BY <1>1, <2>1 DEF See, Seen
  <1>4. \A i \in Ids : seen'[i] <= now'
    <2>1. \A i \in Ids : seen[i] \in Int
      BY <1>1
    <2>2. \A i \in Ids : seen[i] <= now'
      BY <1>1, <2>1
    <2>. QED BY <1>2, <2>2
  <1>5. ASSUME NEW q \in DOMAIN tree', NEW p \in Way(q), tree'[p].deleted,
               tree'[q].id \notin undone'
        PROVE  seen'[tree'[q].id] <= tree'[p].tick
    <2>1. tree'[q].id \in Ids
      BY DEF Grown, Nodes
    <2>2. CASE tree'[p].tick = now'
      BY <1>4, <2>1, <2>2
    <2>3. CASE /\ q \in DOMAIN tree /\ tree[q].id = tree'[q].id
               /\ tree[p].deleted /\ tree[p].tick = tree'[p].tick
      <3>1. tree'[q].id \notin VisibleIds(tree)
        BY <2>3, RemovedIsQuiet
      <3>2. tree'[q].id \notin VisibleIds(tree')
        BY <1>5 DEF VisibleIds, Visible
      <3>3. seen'[tree'[q].id] = seen[tree[q].id]
        BY <1>2, <2>1, <2>3, <3>1, <3>2
      <3>4. tree[q].id \notin undone
        BY <1>2, <1>5, <2>3, <3>2
      <3>. QED BY <2>3, <3>3, <3>4, RemovedIsQuiet
    <2>. QED BY <1>5, <2>2, <2>3
  <1>6. fresh' \subseteq Ids /\ undone' \subseteq Ids
    <2>1. VisibleIds(tree') \subseteq Ids
      BY DEF VisibleIds, Grown, Nodes
    <2>. QED BY <1>1, <1>2, <2>1
  <1>7. SeenInv'
    BY <1>5 DEF SeenInv
  <1>. QED BY <1>3, <1>4, <1>6, <1>7

\* A node that comes is visible at once: the saver, who did not have it, will.
LEMMA SavedKept ==
  ASSUME IInv, See, saver' = saver, disk' = disk, Grown(tree'),
         \A q \in DOMAIN tree' :
           \/ q \in DOMAIN tree /\ tree[q].id = tree'[q].id
           \/ tree'[q].id \in VisibleIds(tree') \ VisibleIds(tree)
  PROVE  SavedInv'
  <1>1. /\ fresh' = fresh \union (VisibleIds(tree') \ VisibleIds(tree))
        /\ undone' = undone \ VisibleIds(tree')
    BY DEF See
  <1>2. \A t \in {disk.image, saver.image} : \A q \in DOMAIN t : t[q].id \in Ids
    BY TreeIsGrown DEF Grown, Nodes
  <1>3. ASSUME NEW t \in {disk.image, saver.image}, NEW q \in DOMAIN t, NEW p \in Way(q),
               t[p].deleted
        PROVE  Quiet(t[q].id, t[p].tick)'
    <2>1. PICK i \in Ids : i = t[q].id
      BY <1>2, <1>3
    <2>2. PICK k : k = t[p].tick
      OBVIOUS
    <2>3. Quiet(i, k)
      BY <1>3, <2>1, <2>2 DEF IInv, SavedInv
    <2>4. Quiet(i, k)'
      BY <2>3, QuietKept
    <2>5. t' = t /\ t[q].id = i /\ t[p].tick = k
      BY <2>1, <2>2
    <2>. QED BY <2>4, <2>5 DEF Quiet
  <1>4. ASSUME NEW q \in DOMAIN tree', NEW p \in Way(q) \intersect DOMAIN saver.image,
               saver.image[p].deleted
        PROVE  Quiet(tree[q].id, saver.image[p].tick)'
    <2>1. CASE q \in DOMAIN tree /\ tree[q].id = tree'[q].id
      <3>1. PICK i \in Ids : i = tree[q].id
        BY <2>1, TreeIsGrown DEF Grown, Nodes
      <3>2. PICK k : k = saver.image[p].tick
        OBVIOUS
      <3>3. Quiet(i, k)
        BY <1>4, <2>1, <3>1, <3>2 DEF IInv, SavedInv
      <3>4. Quiet(i, k)'
        BY <3>3, QuietKept
      <3>5. tree'[q].id = i /\ saver'.image[p].tick = k
        BY <2>1, <3>1, <3>2
      <3>. QED BY <3>4, <3>5 DEF Quiet
    <2>2. CASE tree'[q].id \in VisibleIds(tree') \ VisibleIds(tree)
      <3>1. tree'[q].id \in fresh'
        BY <1>1, <2>2
      <3>. QED BY <3>1 DEF Quiet
    <2>. QED BY <2>1, <2>2
  <1>5. undone' \intersect VisibleIds(tree)' = {}
    BY <1>1 DEF VisibleIds, Visible
  <1>. QED BY <1>3, <1>4, <1>5 DEF SavedInv

\* What is held stays held while no node it is on the way to goes, but those
\* removed now.
LEMMA HeldKept ==
  ASSUME IInv, lister' = lister, gc'.now <= now', now' = now,
         \A i \in Ids : seen'[i] <= now',
         lister.held # {} => \A q \in DOMAIN tree :
           (\A p \in Way(q) : tree[p].deleted => tree[p].tick >= lister.at) =>
             /\ q \in DOMAIN tree' /\ tree'[q].id = tree[q].id
             /\ \A p \in Way(q) : tree'[p].deleted =>
                  tree'[p].tick = now \/ (tree[p].deleted /\ tree'[p].tick = tree[p].tick)
  PROVE  HeldInv'
  <1>1. lister.held # {} => lister.at <= now /\ now <= lister.at + Expire
    BY DEF IInv, HeldInv
  <1>2. ASSUME NEW i \in lister.held
        PROVE  \E q \in DOMAIN tree' :
                 /\ tree'[q].id = i
                 /\ \A p \in Way(q) : tree'[p].deleted => tree'[p].tick >= lister.at
    <2>1. PICK q \in DOMAIN tree :
            /\ tree[q].id = i
            /\ \A p \in Way(q) : tree[p].deleted => tree[p].tick >= lister.at
      BY DEF IInv, HeldInv
    <2>2. /\ q \in DOMAIN tree' /\ tree'[q].id = i
          /\ \A p \in Way(q) : tree'[p].deleted =>
               tree'[p].tick = now \/ (tree[p].deleted /\ tree'[p].tick = tree[p].tick)
      BY <2>1
    <2>3. now >= lister.at
      BY <1>1 DEF IInv, TypeInv
    <2>. QED BY <2>1, <2>2, <2>3
  <1>. QED BY <1>1, <1>2 DEF HeldInv

LEMMA TickIInv ==
  ASSUME IInv, Tick
  PROVE  IInv'
  <1>1. /\ UNCHANGED <<tree, used, index, gc, saver, disk, lister, reporter, cleaned>>
        /\ now' = now + 1 /\ now < MaxTick /\ See
        /\ lister.held # {} => now < lister.at + Expire
    BY DEF Tick
  <1>2. now \in 1..MaxTick /\ now' \in 1..MaxTick /\ now <= now'
    BY <1>1, Bounds DEF IInv, TypeInv
  <1>3. Trees' = Trees
    BY <1>1 DEF Trees
  <1>4. TreesInv' /\ IdsInv' /\ IndexInv'
    BY <1>1, <1>3 DEF IInv, TreesInv, IdsInv, IndexInv
  <1>5. WalkInv'
    BY <1>1 DEF IInv, WalkInv
  <1>6. /\ seen' \in [Ids -> 0..MaxTick] /\ \A i \in Ids : seen'[i] <= now'
        /\ fresh' \subseteq Ids /\ undone' \subseteq Ids /\ SeenInv'
    <2>1. \A p \in DOMAIN tree' : \A q \in DOMAIN tree' :
            tree'[p].id = tree'[q].id => p = q
      BY <1>1 DEF IInv, IdsInv, Trees
    <2>2. \A q \in DOMAIN tree' : \A p \in Way(q) : tree'[p].deleted =>
            /\ q \in DOMAIN tree /\ tree[q].id = tree'[q].id
            /\ tree[p].deleted /\ tree[p].tick = tree'[p].tick
      BY <1>1
    <2>. QED BY <1>1, <1>2, <2>1, <2>2, TreeIsGrown, SeenKept
  <1>7. TypeInv'
    BY <1>1, <1>2, <1>6 DEF IInv, TypeInv
  <1>8. HeldInv'
    <2>1. /\ gc.now \in Int /\ gc.now <= now
          /\ lister.at \in Int
          /\ lister.held # {} => lister.at <= now /\ now <= lister.at + Expire
      BY DEF IInv, TypeInv, HeldInv, Collectors
    <2>2. /\ gc.now <= now'
          /\ lister.held # {} => lister.at <= now' /\ now' <= lister.at + Expire
      BY <1>1, <1>2, <2>1, Bounds
    <2>3. \A i \in lister.held : \E q \in DOMAIN tree :
            /\ tree[q].id = i
            /\ \A p \in Way(q) : tree[p].deleted => tree[p].tick >= lister.at
      BY DEF IInv, HeldInv
    <2>. QED BY <1>1, <1>6, <2>2, <2>3 DEF HeldInv
  <1>9. LockInv'
    BY <1>1 DEF IInv, LockInv, SaverHolds, Top
  <1>10. SavedInv'
    BY <1>1, TreeIsGrown, SavedKept
  <1>. QED BY <1>4, <1>5, <1>6, <1>7, <1>8, <1>9, <1>10 DEF IInv

\* What removes nodes, or marks them, or recovers them, and makes none.
LEMMA OldNodes ==
  ASSUME IInv, UNCHANGED <<now, used, index, saver, disk, lister, reporter, cleaned>>, See,
         gc' \in Collectors, gc'.now <= now, LockInv',
         Chain(gc'.walk), Within(gc'.walk, tree'), Within(saver.walk, tree'),
         Grown(tree'),
         \A q \in DOMAIN tree' : q \in DOMAIN tree /\ tree'[q].id = tree[q].id,
         \A q \in DOMAIN tree' : tree'[q].deleted =>
           tree'[q].tick = now \/ (tree[q].deleted /\ tree'[q].tick = tree[q].tick),
         lister.held # {} => \A q \in DOMAIN tree :
           (\A p \in Way(q) : tree[p].deleted => tree[p].tick >= lister.at) =>
             q \in DOMAIN tree'
  PROVE  IInv'
  <1>1. Trees' = {tree', disk.image, saver.image}
    BY DEF Trees
  <1>2. TreesInv'
    BY <1>1, TreeIsGrown DEF TreesInv
  <1>3. \A t \in Trees' : \A p \in DOMAIN t :
          \E u \in Trees : p \in DOMAIN u /\ u[p].id = t[p].id
    BY <1>1 DEF Trees
  <1>4. /\ used.dirs \in Nat /\ used.files \in Nat
        /\ \A t \in Trees : \A p \in DOMAIN t : t[p].id \in Int
    BY IdsAreNumbers
  <1>5. IdsInv'
    BY <1>3, <1>4, IdsKept DEF IInv
  <1>6. WalkInv'
    BY DEF IInv, WalkInv
  <1>7. now' \in 1..MaxTick /\ now <= now'
    BY DEF IInv, TypeInv
  <1>8. \A q \in DOMAIN tree' : Way(q) \subseteq DOMAIN tree'
    BY DEF Grown
  <1>9. /\ seen' \in [Ids -> 0..MaxTick] /\ \A i \in Ids : seen'[i] <= now'
        /\ fresh' \subseteq Ids /\ undone' \subseteq Ids /\ SeenInv'
    <2>1. \A p \in DOMAIN tree' : \A q \in DOMAIN tree' :
            tree'[p].id = tree'[q].id => p = q
      BY DEF IInv, IdsInv, Trees
    <2>2. \A q \in DOMAIN tree' : \A p \in Way(q) : tree'[p].deleted =>
            \/ tree'[p].tick = now'
            \/ /\ q \in DOMAIN tree /\ tree[q].id = tree'[q].id
               /\ tree[p].deleted /\ tree[p].tick = tree'[p].tick
      BY <1>8
    <2>. QED BY <1>7, <2>1, <2>2, SeenKept
  <1>10. TypeInv'
    BY <1>9 DEF IInv, TypeInv
  <1>11. HeldInv'
    BY <1>8, <1>9, HeldKept
  <1>12. IndexInv'
    <2>1. \A t \in Trees' : FileIds(t) \subseteq index
      BY <1>3 DEF IInv, IndexInv, FileIds, NodeIds
    <2>. QED BY <2>1 DEF IInv, IndexInv
  <1>13. SavedInv'
    BY SavedKept
  <1>. QED BY <1>2, <1>5, <1>6, <1>9, <1>10, <1>11, <1>12, <1>13 DEF IInv

\* One node marked or recovered: the others stay, and it does with its id.
LEMMA OneNode ==
  ASSUME IInv, UNCHANGED <<now, used, index, gc, saver, disk, lister, reporter, cleaned>>, See,
         NEW p \in DOMAIN tree, NEW x \in Nodes, tree' = [tree EXCEPT ![p] = x],
         x.id = tree[p].id, x.deleted => x.tick = now
  PROVE  IInv'
  <1>1. /\ DOMAIN tree' = DOMAIN tree /\ tree'[p] = x
        /\ \A q \in DOMAIN tree : q # p => tree'[q] = tree[q]
    OBVIOUS
  <1>2. \A q \in DOMAIN tree : tree'[q] \in Nodes /\ tree'[q].id = tree[q].id
    BY <1>1, TreeIsGrown DEF Grown
  <1>3. Grown(tree')
    <2>. PICK u : u = tree'
      OBVIOUS
    <2>. QED BY <1>1, <1>2, TreeIsGrown, PartOfTree
  <1>4. /\ Chain(gc.walk) /\ Within(gc.walk, tree) /\ Within(saver.walk, tree)
        /\ gc \in Collectors /\ gc.now <= now
    BY DEF IInv, WalkInv, TypeInv, HeldInv
  <1>5. \A w : Within(w, tree) => Within(w, tree')
    BY <1>1, <1>2 DEF Within
  <1>6. \A q \in DOMAIN tree' : tree'[q].deleted =>
          tree'[q].tick = now \/ (tree[q].deleted /\ tree'[q].tick = tree[q].tick)
    BY <1>1
  <1>7. LockInv'
    BY <1>1 DEF IInv, LockInv, SaverHolds, Top
  <1>. QED BY <1>1, <1>2, <1>3, <1>4, <1>5, <1>6, <1>7, OldNodes

LEMMA RemoveIInv ==
  ASSUME IInv, NEW p \in Paths, Remove(p)
  PROVE  IInv'
  <1>1. p \in DOMAIN tree
    BY WayIsPaths DEF Remove, Visible
  <1>2. tree[p] \in Nodes
    BY <1>1, TreeIsGrown DEF Grown
  <1>3. PICK x : x = [tree[p] EXCEPT !.deleted = TRUE, !.tick = now]
    OBVIOUS
  <1>4. now \in 0..MaxTick
    BY DEF IInv, TypeInv
  <1>5. x \in Nodes /\ x.id = tree[p].id /\ x.tick = now
    BY <1>2, <1>3, <1>4 DEF Nodes
  <1>6. tree' = [tree EXCEPT ![p] = x]
    BY <1>3 DEF Remove, Marked
  <1>. QED BY <1>1, <1>5, <1>6, OneNode DEF Remove

LEMMA RecoverIInv ==
  ASSUME IInv, UNCHANGED <<now, used, index, gc, saver, disk, lister, reporter, cleaned>>, See,
         NEW p \in DOMAIN tree, tree' = [tree EXCEPT ![p] = Recovered(@)]
  PROVE  IInv'
  <1>1. tree[p] \in Nodes
    BY TreeIsGrown DEF Grown
  <1>2. PICK x : x = [tree[p] EXCEPT !.deleted = FALSE]
    OBVIOUS
  <1>3. x \in Nodes /\ x.id = tree[p].id /\ ~x.deleted
    BY <1>1, <1>2 DEF Nodes
  <1>4. tree' = [tree EXCEPT ![p] = x]
    BY <1>2 DEF Recovered
  <1>. QED BY <1>3, <1>4, OneNode

\* A new node, whose id is none of those given out before.
LEMMA NewNodeIInv ==
  ASSUME IInv, UNCHANGED <<now, gc, saver, disk, lister, reporter, cleaned>>, See,
         NEW d \in Dirs, NEW n \in Name, Len(d) < MaxDepth, Visible(tree, d), IsDir(tree, d),
         NEW p, p = Append(d, n), p \notin DOMAIN tree,
         NEW id \in Ids, tree' = With(tree, [q \in {p} |-> NewNode(id)]),
         used' \in Used,
         \/ /\ used'.files = used.files /\ used'.dirs = used.dirs + 1
            /\ id = -used'.dirs /\ index' = index
         \/ /\ used'.dirs = used.dirs /\ used'.files = used.files + 1
            /\ id = used'.files /\ index' = index \union {id}
  PROVE  IInv'
  <1>1. /\ p \in Paths /\ Parent(p) = d /\ Way(p) = Way(d) \union {p}
    BY WayOfEntry
  <1>2. /\ DOMAIN tree' = DOMAIN tree \union {p}
        /\ \A q \in DOMAIN tree : tree'[q] = tree[q]
        /\ tree'[p] = NewNode(id)
    BY DEF With
  <1>3. /\ NewNode(id) \in Nodes /\ NewNode(id).id = id /\ ~NewNode(id).deleted
    BY Bounds DEF NewNode, Nodes
  <1>4. /\ used.dirs \in Nat /\ used.files \in Nat /\ used'.dirs \in Nat /\ used'.files \in Nat
        /\ used.dirs <= used'.dirs /\ used.files <= used'.files
    <2>1. /\ used.dirs \in Nat /\ used.files \in Nat
          /\ used'.dirs \in Nat /\ used'.files \in Nat
      BY Bounds DEF IInv, TypeInv, Used
    <2>2. used.dirs <= used.dirs + 1 /\ used.files <= used.files + 1
      BY <2>1
    <2>3. /\ used'.dirs = used.dirs \/ used'.dirs = used.dirs + 1
          /\ used'.files = used.files \/ used'.files = used.files + 1
      OBVIOUS
    <2>. QED BY <2>1, <2>2, <2>3
  <1>5. d # Root => d \in DOMAIN tree /\ tree[d].id < 0
    BY WayOfDir DEF Visible, IsDir
  <1>6. Grown(tree')
    <2>1. PICK u : u = tree'
      OBVIOUS
    <2>2. \A q \in {p} : q \in Paths /\ Parent(q) = d /\ u[q] \in Nodes
      BY <1>1, <1>2, <1>3, <2>1
    <2>3. PICK new : new = {p}
      OBVIOUS
    <2>4. /\ DOMAIN u = DOMAIN tree \union new /\ \A q \in DOMAIN tree : u[q] = tree[q]
          /\ \A q \in new : q \in Paths /\ Parent(q) = d /\ u[q] \in Nodes
      BY <1>2, <2>1, <2>2, <2>3
    <2>5. Grown(u)
      BY <1>5, <2>4, TreeIsGrown, MoreOfTree
    <2>. QED BY <2>1, <2>5
  <1>7. Trees' = {tree', disk.image, saver.image}
    BY DEF Trees
  <1>8. \A t \in Trees' : \A q \in DOMAIN t :
          \/ t = tree' /\ q = p /\ t[q].id = id
          \/ \E u \in Trees : q \in DOMAIN u /\ u[q].id = t[q].id
    <2>1. ASSUME NEW q \in DOMAIN tree'
          PROVE  \/ q = p /\ tree'[q].id = id
                 \/ q \in DOMAIN tree /\ tree[q].id = tree'[q].id
      BY <1>2, <1>3
    <2>2. tree \in Trees /\ disk.image \in Trees /\ saver.image \in Trees
      BY DEF Trees
    <2>3. ASSUME NEW t \in Trees', NEW q \in DOMAIN t
          PROVE  \/ t = tree' /\ q = p /\ t[q].id = id
                 \/ \E u \in Trees : q \in DOMAIN u /\ u[q].id = t[q].id
      <3>1. CASE t = tree'
        BY <2>1, <2>2, <2>3, <3>1
      <3>2. CASE t \in {disk.image, saver.image}
        BY <2>2, <2>3, <3>2
      <3>. QED BY <1>7, <2>3, <3>1, <3>2
    <2>. QED BY <2>3
  <1>9. \A u \in Trees : \A q \in DOMAIN u : u[q].id # id /\ u[q].id \in Int
    <2>1. ASSUME NEW u \in Trees, NEW q \in DOMAIN u
          PROVE  u[q].id \in Int /\ -used.dirs <= u[q].id /\ u[q].id <= used.files
      BY TreeIsGrown DEF IInv, IdsInv, Trees, Grown, Nodes, Ids, Files
    <2>2. id \in Int /\ (id = -(used.dirs + 1) \/ id = used.files + 1)
      BY <1>4
    <2>3. ASSUME NEW u \in Trees, NEW q \in DOMAIN u
          PROVE  u[q].id # id
      BY <1>4, <2>1, <2>2
    <2>. QED BY <2>1, <2>3
  <1>10. IdsInv'
    <2>1. ASSUME NEW t \in Trees', NEW q \in DOMAIN t
          PROVE  -used'.dirs <= t[q].id /\ t[q].id <= used'.files
      <3>1. CASE t[q].id = id
        BY <1>4, <3>1
      <3>2. CASE \E u \in Trees : q \in DOMAIN u /\ u[q].id = t[q].id
        <4>1. PICK u \in Trees : q \in DOMAIN u /\ u[q].id = t[q].id
          BY <3>2
        <4>2. -used.dirs <= u[q].id /\ u[q].id <= used.files /\ u[q].id \in Int
          BY <1>9, <4>1 DEF IInv, IdsInv
        <4>. QED BY <1>4, <4>1, <4>2
      <3>. QED BY <1>8, <3>1, <3>2
    <2>2. ASSUME NEW t1 \in Trees', NEW t2 \in Trees', NEW q1 \in DOMAIN t1,
                 NEW q2 \in DOMAIN t2, t1[q1].id = t2[q2].id
          PROVE  q1 = q2
      <3>1. CASE q1 = p /\ t1[q1].id = id
        BY <1>8, <1>9, <2>2, <3>1
      <3>2. CASE q2 = p /\ t2[q2].id = id
        BY <1>8, <1>9, <2>2, <3>2
      <3>3. CASE /\ \E u \in Trees : q1 \in DOMAIN u /\ u[q1].id = t1[q1].id
                 /\ \E u \in Trees : q2 \in DOMAIN u /\ u[q2].id = t2[q2].id
        BY <2>2, <3>3 DEF IInv, IdsInv
      <3>. QED BY <1>8, <3>1, <3>2, <3>3
    <2>. QED BY <2>1, <2>2 DEF IdsInv
  <1>11. TreesInv'
    BY <1>6, <1>7, TreeIsGrown DEF TreesInv
  <1>12. WalkInv'
    <2>1. \A w : Within(w, tree) => Within(w, tree')
      BY <1>2 DEF Within
    <2>. QED BY <2>1 DEF IInv, WalkInv
  <1>13. /\ seen' \in [Ids -> 0..MaxTick] /\ \A i \in Ids : seen'[i] <= now'
         /\ fresh' \subseteq Ids /\ undone' \subseteq Ids /\ SeenInv'
    <2>1. \A q1 \in DOMAIN tree' : \A q2 \in DOMAIN tree' :
            tree'[q1].id = tree'[q2].id => q1 = q2
      BY <1>7, <1>10 DEF IdsInv
    <2>2. \A q \in DOMAIN tree' : \A o \in Way(q) : tree'[o].deleted =>
            /\ q \in DOMAIN tree /\ tree[q].id = tree'[q].id
            /\ tree[o].deleted /\ tree[o].tick = tree'[o].tick
      <3>1. ASSUME NEW o \in Way(p) PROVE ~tree'[o].deleted
        BY <1>1, <1>2, <1>3 DEF Visible
      <3>2. \A q \in DOMAIN tree : Way(q) \subseteq DOMAIN tree
        BY TreeIsGrown
      <3>. QED BY <1>2, <3>1, <3>2
    <2>3. now' \in 1..MaxTick /\ now <= now'
      BY DEF IInv, TypeInv
    <2>4. \A q \in DOMAIN tree' : \A o \in Way(q) : tree'[o].deleted =>
            \/ tree'[o].tick = now'
            \/ /\ q \in DOMAIN tree /\ tree[q].id = tree'[q].id
               /\ tree[o].deleted /\ tree[o].tick = tree'[o].tick
      BY <2>2
    <2>. QED BY <1>6, <2>1, <2>3, <2>4, SeenKept
  <1>14. TypeInv'
    BY <1>13 DEF IInv, TypeInv
  <1>15. HeldInv'
    <2>1. \A q \in DOMAIN tree : /\ q \in DOMAIN tree' /\ tree'[q].id = tree[q].id
                                 /\ \A o \in Way(q) : tree'[o] = tree[o]
      BY <1>2, TreeIsGrown
    <2>2. gc'.now <= now'
      BY DEF IInv, HeldInv
    <2>. QED BY <1>13, <2>1, <2>2, HeldKept
  <1>16. IndexInv'
    <2>1. index \subseteq index' /\ index' \subseteq index \union {id}
      OBVIOUS
    <2>2. /\ index \subseteq Files /\ index \intersect cleaned = {}
          /\ cleaned \subseteq 1..used.files
      BY DEF IInv, IndexInv
    <2>3. id \in Files => id \in index' /\ id \notin 1..used.files
      BY <1>4 DEF Files
    <2>4. \A t \in Trees' : FileIds(t) \subseteq index'
      <3>1. \A u \in Trees : \A q \in DOMAIN u : u[q].id \in Files => u[q].id \in index
        BY DEF IInv, IndexInv, FileIds, NodeIds
      <3>2. \A t \in Trees' : \A q \in DOMAIN t : t[q].id \in Files => t[q].id \in index'
        BY <1>8, <2>1, <2>3, <3>1
      <3>. QED BY <3>2 DEF FileIds, NodeIds
    <2>5. index' \subseteq Files /\ index' \intersect cleaned = {}
      <3>1. index' = index \/ (index' = index \union {id} /\ id = used.files + 1 /\ id \in Files)
        <4>1. id = used.files + 1 => id \in Files
          BY <1>4 DEF Ids, Files
        <4>. QED BY <4>1
      <3>. QED BY <1>4, <2>2, <3>1
    <2>6. cleaned \subseteq 1..used'.files
      BY <1>4, <2>2
    <2>. QED BY <2>4, <2>5, <2>6 DEF IndexInv
  <1>17. LockInv'
    BY <1>2 DEF IInv, LockInv, SaverHolds, Top
  <1>18. SavedInv'
    <2>1. id \notin VisibleIds(tree)
      BY <1>9 DEF VisibleIds, Trees
    <2>2. Visible(tree', p)
      BY <1>1, <1>2, <1>3 DEF Visible
    <2>3. id \in VisibleIds(tree')
      BY <1>2, <1>3, <2>2 DEF VisibleIds
    <2>4. \A q \in DOMAIN tree' :
            \/ q \in DOMAIN tree /\ tree[q].id = tree'[q].id
            \/ tree'[q].id \in VisibleIds(tree') \ VisibleIds(tree)
      BY <1>2, <1>3, <2>1, <2>3
    <2>. QED BY <1>6, <2>4, SavedKept
  <1>. QED BY <1>10, <1>11, <1>12, <1>13, <1>14, <1>15, <1>16, <1>17, <1>18 DEF IInv

LEMMA CreateIInv ==
  ASSUME IInv, NEW d \in Dirs, NEW n \in Name, NEW dir \in BOOLEAN, Create(d, n, dir)
  PROVE  IInv'
  <1>1. PICK p : p = Append(d, n)
    OBVIOUS
  <1>2. /\ Visible(tree, d) /\ IsDir(tree, d) /\ Len(d) < MaxDepth
        /\ UNCHANGED <<now, gc, saver, disk, lister, reporter, cleaned>> /\ See
    BY DEF Create
  <1>3. used \in Used /\ used.dirs \in Nat /\ used.files \in Nat
    BY Bounds DEF IInv, TypeInv, Used
  <1>4. CASE /\ p \notin DOMAIN tree /\ dir /\ used.dirs < MaxDirs
             /\ used' = [used EXCEPT !.dirs = @ + 1]
             /\ tree' = With(tree, [q \in {p} |-> NewNode(-used'.dirs)])
             /\ index' = index
    <2>1. /\ used' \in Used /\ used'.files = used.files /\ used'.dirs = used.dirs + 1
      BY <1>3, <1>4, OneMore DEF Used
    <2>2. PICK id : id = -used'.dirs
      OBVIOUS
    <2>3. used'.dirs \in 1..MaxDirs
      BY <1>3, <1>4, <2>1, Bounds
    <2>4. id \in Ids
      BY <2>2, <2>3, Bounds DEF Ids
    <2>. QED BY <1>1, <1>2, <1>4, <2>1, <2>2, <2>4, NewNodeIInv
  <1>5. CASE /\ p \notin DOMAIN tree /\ ~dir /\ used.files < MaxFiles
             /\ used' = [used EXCEPT !.files = @ + 1]
             /\ tree' = With(tree, [q \in {p} |-> NewNode(used'.files)])
             /\ index' = index \union {used'.files}
    <2>1. /\ used' \in Used /\ used'.dirs = used.dirs /\ used'.files = used.files + 1
      BY <1>3, <1>5, OneMore DEF Used
    <2>2. PICK id : id = used'.files
      OBVIOUS
    <2>3. used'.files \in 1..MaxFiles
      BY <1>3, <1>5, <2>1, Bounds
    <2>4. id \in Ids
      BY <2>2, <2>3 DEF Ids, Files
    <2>. QED BY <1>1, <1>2, <1>5, <2>1, <2>2, <2>4, NewNodeIInv
  <1>6. CASE /\ p \in DOMAIN tree /\ tree' = [tree EXCEPT ![p] = Recovered(@)]
             /\ UNCHANGED <<index, used>>
    BY <1>2, <1>6, RecoverIInv
  <1>. QED BY <1>1, <1>4, <1>5, <1>6 DEF Create

-----------------------------------------------------------------------------
\* What the saver is in or has still to enter is not below a directory that it
\* does not hold.
LEMMA SaverProtects ==
  ASSUME IInv, NEW d \in Dirs, ~SaverHolds(d), NEW p \in Paths, Parent(p) = d,
         NEW i \in DOMAIN saver.walk
  PROVE  /\ p \notin Way(saver.walk[i].dir)
         /\ \A e \in saver.walk[i].left : p \notin Way(e)
  <1>. DEFINE w == saver.walk
              x == w[i].dir
  <1>1. /\ w \in Seq(Frames) /\ Chain(w) /\ Within(w, tree)
        /\ DOMAIN w = 1..Len(w) /\ Len(w) \in Nat
    BY DEF IInv, TypeInv, WalkInv
  <1>2. \A j \in DOMAIN w : w[j].dir # d /\ Len(w[j].dir) = j - 1
    BY <1>1 DEF SaverHolds, Chain
  <1>3. Len(p) \in 1..MaxDepth /\ Len(d) = Len(p) - 1 /\ Way(p) = Way(d) \union {p}
    BY PathIsSeq, WayOfParent
  <1>4. x \in Dirs
    <2>1. w[i] \in Frames
      BY <1>1
    <2>. QED BY <2>1 DEF Frames
  <1>5. p \notin Way(x)
    <2>. SUFFICES ASSUME p \in Way(x) PROVE FALSE
      OBVIOUS
    <2>1. x \in Paths
      BY <1>4, DirIsSeq, WayOfRoot
    <2>2. Len(p) <= Len(x) /\ Len(x) = i - 1
      BY <1>2, <2>1, OnTheWay
    <2>3. PICK j : j = Len(d) + 1
      OBVIOUS
    <2>4. j \in 1..(i - 1) /\ j \in DOMAIN w
      BY <1>1, <1>3, <2>2, <2>3, Bounds
    <2>5. w[j].dir \in Way(x) \union {Root} /\ Len(w[j].dir) = Len(d)
      <3>1. Len(w[j].dir) = j - 1 /\ j - 1 = Len(d)
        BY <1>2, <1>3, <2>3, <2>4, Bounds
      <3>. QED BY <1>1, <2>4, <3>1 DEF Chain
    <2>6. CASE d = Root
      <3>1. Len(w[j].dir) = 0 /\ w[j].dir \in Dirs
        <4>1. Len(d) = 0
          BY <2>6 DEF Root
        <4>. QED BY <1>1, <2>4, <2>5, <4>1 DEF Frames
      <3>. QED BY <1>2, <2>4, <2>6, <3>1, DirIsSeq
    <2>7. CASE d # Root
      <3>1. d \in Way(x)
        BY <1>3, <2>1, <2>7, WayOfDir, WayTransitive
      <3>2. w[j].dir # Root
        BY <2>5, <2>7, DirIsSeq DEF Root
      <3>. QED BY <1>2, <2>1, <2>4, <2>5, <3>1, <3>2, OneOfEachLength
    <2>. QED BY <2>6, <2>7
  <1>6. ASSUME NEW e \in w[i].left PROVE p \notin Way(e)
    <2>1. e \in Paths /\ Parent(e) = x
      BY <1>1, <1>6, TreeIsGrown DEF Within
    <2>2. Way(e) = Way(x) \union {e}
      BY <2>1, WayOfParent
    <2>. QED BY <1>2, <1>5, <2>1, <2>2
  <1>. QED BY <1>5, <1>6

\* The entries of d that Sweep deletes, and all that goes with them.
Doomed(d) == {p \in Children(tree, d) \ gc.inUse : Due(p) /\ ~tree[p].stuck}
Freed(d) == UNION {Subtree(tree, p) : p \in Doomed(d)}

\* What a sweep frees is below an entry whose time is over.
LEMMA WhatIsFreed ==
  ASSUME IInv, NEW d
  PROVE  /\ \A p \in Doomed(d) : /\ p \in DOMAIN tree /\ p \in Paths /\ Parent(p) = d
                                 /\ tree[p].deleted
                                 /\ gc.now > tree[p].tick + Expire
         /\ \A q \in DOMAIN tree :
              q \in Freed(d) <=> \E p \in Doomed(d) : p \in Way(q)
  <1>1. \A p \in Doomed(d) : /\ p \in DOMAIN tree /\ p \in Paths /\ Parent(p) = d
                             /\ tree[p].deleted
                             /\ gc.now > tree[p].tick + Expire
    BY TreeIsGrown DEF Doomed, Children, Due
  <1>2. \A q \in DOMAIN tree : \A p \in Doomed(d) :
          q \in Subtree(tree, p) <=> p \in Way(q)
    BY <1>1, TreeIsGrown, PrefixIsOnWay DEF Subtree
  <1>3. \A q \in DOMAIN tree : q \in Freed(d) <=> \E p \in Doomed(d) : q \in Subtree(tree, p)
    BY DEF Freed
  <1>. QED BY <1>1, <1>2, <1>3

LEMMA SweepIInv ==
  ASSUME IInv, Sweep
  PROVE  IInv'
  <1>. DEFINE w == gc.walk
  <1>1. PICK d : d = Top(gc.walk).dir
    OBVIOUS
  <1>2. /\ UNCHANGED <<now, used, index, saver, disk, lister, reporter, cleaned>> /\ See
        /\ w # <<>> /\ ~SaverHolds(d)
    BY <1>1 DEF Sweep, IInv, LockInv
  <1>3. /\ w \in Seq(Frames) /\ Chain(w) /\ Within(w, tree) /\ Within(saver.walk, tree)
        /\ DOMAIN w = 1..Len(w) /\ Len(w) \in Nat \ {0}
    BY <1>2, EmptySeq DEF IInv, TypeInv, WalkInv, Collectors
  <1>4. d = w[Len(w)].dir /\ d \in Dirs /\ Len(d) = Len(w) - 1
    <2>1. Len(w) \in DOMAIN w
      BY <1>3
    <2>2. w[Len(w)] \in Frames
      BY <1>3, <2>1
    <2>. QED BY <1>1, <1>3, <2>1, <2>2 DEF Top, Chain, Frames
  <1>5. PICK stuck \in BOOLEAN :
          tree' = [q \in DOMAIN tree \ Freed(d) |->
                     IF q = d THEN [tree[q] EXCEPT !.stuck = stuck] ELSE tree[q]]
    <2>1. (gc.inUse # {}) \in BOOLEAN
      OBVIOUS
    <2>. QED BY <1>1, <2>1 DEF Sweep, Freed, Doomed
  <1>6. /\ DOMAIN tree' = DOMAIN tree \ Freed(d)
        /\ \A q \in DOMAIN tree' :
             /\ q \in DOMAIN tree /\ tree'[q] \in Nodes /\ tree'[q].id = tree[q].id
             /\ tree'[q].deleted = tree[q].deleted /\ tree'[q].tick = tree[q].tick
    <2>1. \A q \in DOMAIN tree : tree[q] \in Nodes
      BY TreeIsGrown DEF Grown
    <2>2. \A q \in DOMAIN tree : \A x : x = [tree[q] EXCEPT !.stuck = stuck] =>
            /\ x \in Nodes /\ x.id = tree[q].id
            /\ x.deleted = tree[q].deleted /\ x.tick = tree[q].tick
      BY <2>1 DEF Nodes
    <2>. QED BY <1>5, <2>1, <2>2
  <1>7. Grown(tree')
    <2>1. ASSUME NEW q \in DOMAIN tree', NEW o \in Way(q) PROVE o \in DOMAIN tree'
      <3>1. q \in Paths /\ o \in DOMAIN tree
        BY <1>6, <2>1, TreeIsGrown
      <3>2. \A p \in Way(o) : p \in Way(q)
        BY <3>1, WayTransitive
      <3>. QED BY <1>6, <3>1, <3>2, WhatIsFreed
    <2>2. PICK u : u = tree'
      OBVIOUS
    <2>. QED BY <1>6, <2>1, <2>2, TreeIsGrown, PartOfTree
  <1>8. \A p \in Doomed(d) : p \in Paths /\ Parent(p) = d /\ Len(p) = Len(w)
    <2>1. ASSUME NEW p \in Doomed(d)
          PROVE  p \in Paths /\ Parent(p) = d /\ Len(p) \in Nat /\ Len(d) = Len(p) - 1
      BY WhatIsFreed, PathIsSeq, WayOfParent, Bounds
    <2>. QED BY <1>3, <1>4, <2>1
  <1>9. PICK g : g = Pop(w)
    OBVIOUS
  <1>10. /\ g \in Seq(Frames) /\ Chain(g) /\ Within(g, tree)
         /\ Len(g) = Len(w) - 1 /\ DOMAIN g = 1..Len(g)
    BY <1>2, <1>3, <1>9, PoppedWalk
  <1>11. Within(g, tree')
    <2>1. ASSUME NEW x \in DOMAIN tree, Len(x) < Len(w) PROVE x \in DOMAIN tree'
      <3>1. x \in Paths /\ Len(x) \in Nat
        BY TreeIsGrown, PathIsSeq, Bounds
      <3>2. \A p \in Way(x) : Len(p) <= Len(x) /\ Len(p) \in Nat
        BY <3>1, OnTheWay, PathIsSeq, Bounds
      <3>3. \A p \in Way(x) : p \notin Doomed(d)
        BY <1>3, <1>8, <2>1, <3>1, <3>2
      <3>. QED BY <1>6, <3>3, WhatIsFreed
    <2>2. ASSUME NEW i \in DOMAIN g
          PROVE  /\ g[i].dir # Root => g[i].dir \in DOMAIN tree /\ Len(g[i].dir) < Len(w)
                 /\ \A e \in g[i].left : e \in DOMAIN tree /\ Len(e) < Len(w)
      <3>1. Len(g[i].dir) = i - 1 /\ i \in Nat /\ i < Len(w)
        BY <1>3, <1>10, <2>2 DEF Chain
      <3>2. ASSUME NEW e \in g[i].left PROVE e \in DOMAIN tree /\ Len(e) = i
        <4>1. e \in DOMAIN tree /\ Parent(e) = g[i].dir /\ e \in Paths
          BY <1>10, <3>2, TreeIsGrown DEF Within
        <4>2. Len(e) \in Nat /\ Len(Parent(e)) = Len(e) - 1
          BY <4>1, PathIsSeq, WayOfParent, Bounds
        <4>. QED BY <3>1, <4>1, <4>2
      <3>. QED BY <1>3, <1>10, <3>1, <3>2 DEF Within
    <2>. QED BY <1>6, <1>10, <2>1, <2>2, WithinKept
  <1>12. /\ gc' \in Collectors /\ gc'.now <= now
         /\ Chain(gc'.walk) /\ Within(gc'.walk, tree')
         /\ ~gc'.locked /\ gc'.inUse = {}
    <2>1. gc \in Collectors /\ gc.now <= now /\ now \in 1..MaxTick
      BY DEF IInv, TypeInv, HeldInv
    <2>2. CASE Len(w) = 1
      <3>1. gc' = [walk |-> <<>>, now |-> 0, locked |-> FALSE, inUse |-> {}]
        BY <2>2 DEF Sweep, NoWalk
      <3>. QED BY <2>1, <3>1, Bounds DEF Chain, Within, Collectors
    <2>3. CASE Len(w) # 1
      <3>1. gc' = [gc EXCEPT !.walk = g, !.locked = FALSE, !.inUse = {}]
        BY <1>9, <2>3 DEF Sweep
      <3>2. /\ gc'.walk = g /\ gc'.now = gc.now /\ gc' \in Collectors
            /\ ~gc'.locked /\ gc'.inUse = {}
        BY <1>10, <2>1, <3>1 DEF Collectors
      <3>. QED BY <1>10, <1>11, <2>1, <3>2
    <2>. QED BY <2>2, <2>3
  <1>13. Within(saver.walk, tree')
    <2>1. ASSUME NEW i \in DOMAIN saver.walk
          PROVE  /\ \A p \in Doomed(d) : p \notin Way(saver.walk[i].dir)
                 /\ \A p \in Doomed(d) : \A e \in saver.walk[i].left : p \notin Way(e)
      BY <1>2, <1>4, <1>8, SaverProtects
    <2>2. ASSUME NEW i \in DOMAIN saver.walk
          PROVE  /\ saver.walk[i].dir # Root => saver.walk[i].dir \in DOMAIN tree'
                 /\ \A e \in saver.walk[i].left : e \in DOMAIN tree'
      BY <1>3, <1>6, <2>1, WhatIsFreed DEF Within
    <2>. QED BY <1>3, <1>6, <2>2, WithinKept
  <1>14. lister.held # {} => \A q \in DOMAIN tree :
           (\A p \in Way(q) : tree[p].deleted => tree[p].tick >= lister.at) =>
             q \in DOMAIN tree'
    <2>. SUFFICES ASSUME lister.held # {}, NEW q \in DOMAIN tree, q \in Freed(d),
                         \A p \in Way(q) : tree[p].deleted => tree[p].tick >= lister.at
                  PROVE  FALSE
      BY <1>6
    <2>1. PICK p \in Doomed(d) : p \in Way(q)
      BY WhatIsFreed
    <2>2. p \in DOMAIN tree /\ tree[p].deleted /\ gc.now > tree[p].tick + Expire
      BY WhatIsFreed
    <2>3. tree[p].tick \in Nat
      BY <2>2, TreeIsGrown, Bounds DEF Grown, Nodes
    <2>4. /\ gc.now \in Nat /\ now \in Nat /\ lister.at \in Nat /\ Expire \in Nat
          /\ gc.now <= now /\ now <= lister.at + Expire
      BY Bounds DEF IInv, TypeInv, HeldInv, Collectors
    <2>5. tree[p].tick >= lister.at
      BY <2>1, <2>2
    <2>. QED BY <2>2, <2>3, <2>4, <2>5
  <1>15. LockInv'
    BY <1>12 DEF LockInv
  <1>. QED BY <1>2, <1>6, <1>7, <1>12, <1>13, <1>14, <1>15, OldNodes

LEMMA RestartIInv ==
  ASSUME IInv, Restart
  PROVE  IInv'
  <1>1. /\ tree' = disk.image /\ index' = FileIds(disk.image)
        /\ gc' = [walk |-> <<>>, now |-> 0, locked |-> FALSE, inUse |-> {}]
        /\ saver' = [walk |-> <<>>, image |-> <<>>]
        /\ lister' = [held |-> {}, at |-> 0] /\ reporter' = 0
        /\ seen' = [i \in Ids |-> IF i \in VisibleIds(tree) \union VisibleIds(disk.image)
                                  THEN now' ELSE seen[i]]
        /\ fresh' = {}
        /\ undone' = ((undone \union fresh) \intersect NodeIds(disk.image))
                       \ VisibleIds(disk.image)
        /\ UNCHANGED <<now, used, disk, cleaned>>
    BY DEF Restart, Indexed, NoWalk, NoSave, NoList, Seen
  <1>2. Trees' = {disk.image, <<>>}
    BY <1>1 DEF Trees
  <1>3. now \in 1..MaxTick /\ now \in 0..MaxTick /\ 0 \in 0..MaxTick
    BY Bounds DEF IInv, TypeInv
  <1>4. /\ seen' \in [Ids -> 0..MaxTick] /\ \A i \in Ids : seen'[i] <= now
        /\ fresh' \subseteq Ids /\ undone' \subseteq Ids
    <2>1. seen \in [Ids -> 0..MaxTick] /\ \A i \in Ids : seen[i] <= now
      BY DEF IInv, TypeInv, HeldInv
    <2>2. fresh' \subseteq Ids /\ undone' \subseteq Ids
      BY <1>1 DEF IInv, TypeInv
    <2>. QED BY <1>1, <1>3, <2>1, <2>2
  <1>5. TypeInv'
    BY <1>1, <1>3, <1>4 DEF IInv, TypeInv, Collectors
  <1>6. TreesInv'
    BY <1>2, NoTree, TreeIsGrown DEF TreesInv
  <1>7. IdsInv'
    <2>1. \A t \in Trees' : \A p \in DOMAIN t :
            \E u \in Trees : p \in DOMAIN u /\ u[p].id = t[p].id
      BY <1>2, NoTree DEF Trees
    <2>2. /\ used.dirs \in Nat /\ used.files \in Nat
          /\ \A t \in Trees : \A p \in DOMAIN t : t[p].id \in Int
      BY IdsAreNumbers
    <2>. QED BY <1>1, <2>1, <2>2, IdsKept DEF IInv
  <1>8. WalkInv'
    <2>1. gc'.walk = <<>> /\ saver'.walk = <<>>
      BY <1>1
    <2>. QED BY <2>1 DEF WalkInv, Chain, Within, Unentered
  <1>9. HeldInv'
    BY <1>1, <1>3, <1>4 DEF HeldInv
  <1>10. ASSUME NEW q \in DOMAIN disk.image, NEW p \in Way(q), disk.image[p].deleted
         PROVE  /\ disk.image[q].id \notin VisibleIds(disk.image)
                /\ disk.image[q].id \notin undone' =>
                     seen'[disk.image[q].id] <= disk.image[p].tick
    <2>. PICK i : i = disk.image[q].id
      OBVIOUS
    <2>1. i \in Ids /\ i \in NodeIds(disk.image)
      BY TreeIsGrown DEF Grown, Nodes, NodeIds
    <2>2. i \notin VisibleIds(disk.image)
      BY <1>10 DEF VisibleIds, Visible, IInv, IdsInv, Trees
    <2>3. ASSUME i \notin undone' PROVE seen'[i] <= disk.image[p].tick
      <3>1. i \notin fresh \union undone
        BY <1>1, <2>1, <2>2, <2>3
      <3>2. i \notin VisibleIds(tree) /\ seen[i] <= disk.image[p].tick
        BY <1>10, <3>1 DEF IInv, SavedInv, Quiet
      <3>3. seen'[i] = seen[i]
        BY <1>1, <2>1, <2>2, <3>2
      <3>. QED BY <3>2, <3>3
    <2>. QED BY <2>2, <2>3
  <1>12. SeenInv'
    BY <1>1, <1>10 DEF SeenInv
  <1>13. SavedInv'
    <2>1. undone' \intersect VisibleIds(tree)' = {}
      BY <1>1 DEF VisibleIds, Visible
    <2>2. \A q \in DOMAIN disk.image : \A p \in Way(q) : disk.image[p].deleted =>
            Quiet(disk.image[q].id, disk.image[p].tick)'
      BY <1>1, <1>10 DEF Quiet, VisibleIds, Visible
    <2>3. disk'.image = disk.image /\ saver'.image = <<>>
      BY <1>1
    <2>. QED BY <2>1, <2>2, <2>3, NoTree DEF SavedInv
  <1>14. LockInv'
    BY <1>1 DEF LockInv
  <1>11. IndexInv'
    <2>1. FileIds(disk.image) \subseteq index /\ FileIds(disk.image) \subseteq Files
      BY DEF IInv, IndexInv, Trees, FileIds
    <2>2. FileIds(<<>>) = {}
      BY NoTree DEF FileIds, NodeIds
    <2>. QED BY <1>1, <1>2, <2>1, <2>2 DEF IInv, IndexInv
  <1>. QED BY <1>5, <1>6, <1>7, <1>8, <1>9, <1>11, <1>12, <1>13, <1>14 DEF IInv

LEMMA NextIInv == IInv /\ [Next]_vars => IInv'
  <1>. SUFFICES ASSUME IInv, [Next]_vars PROVE IInv'
    OBVIOUS
  <1>1. CASE Tick
    BY <1>1, TickIInv
  <1>2. CASE Listed \/ Release
    BY <1>2, ListedIInv, ReleaseIInv
  <1>3. CASE Restart
    BY <1>3, RestartIInv
  <1>4. CASE \E d \in Paths \union {Root}, n \in Name, dir \in BOOLEAN : Create(d, n, dir)
    BY <1>4, CreateIInv DEF Dirs
  <1>5. CASE \E p \in Paths : Remove(p)
    BY <1>5, RemoveIInv
  <1>6. CASE \E p \in Paths \union {Root} : List(p)
    BY <1>6, ListIInv DEF Dirs
  <1>7. CASE \E f \in Files : Report(f)
    BY <1>7, ReportIInv
  <1>8. CASE StartGC \/ EnterGC \/ Inspect \/ Sweep
    BY <1>8, StartGCIInv, EnterGCIInv, InspectIInv, SweepIInv
  <1>9. CASE StartSave \/ EnterSave \/ LeaveSave
    BY <1>9, StartSaveIInv, EnterSaveIInv, LeaveSaveIInv
  <1>10. CASE UNCHANGED vars
    <2>1. UNCHANGED <<now, tree, used, index, gc, saver, disk, lister, reporter, cleaned,
                      seen, fresh, undone>>
      BY <1>10 DEF vars
    <2>2. TreesInv' /\ IdsInv' /\ WalkInv' /\ LockInv' /\ SeenInv' /\ SavedInv'
      BY <2>1, Undisturbed
    <2>3. TypeInv' /\ HeldInv'
      BY <2>1 DEF IInv, TypeInv, HeldInv
    <2>4. IndexInv'
      BY <2>1 DEF IInv, IndexInv, Trees
    <2>. QED BY <2>2, <2>3, <2>4 DEF IInv
  <1>. QED BY <1>1, <1>2, <1>3, <1>4, <1>5, <1>6, <1>7, <1>8, <1>9, <1>10 DEF Next

\* The trees, the ids, the walks and what is held fit together in every state
\* (ofs/master/file).
THEOREM NamespaceInvariant == Spec => []IInv
  <1>. QED BY InitIInv, NextIInv, PTL DEF Spec

-----------------------------------------------------------------------------
(***************************************************************************)
(* What it is for.                                                         *)
(***************************************************************************)
\* The tree in memory and those that are archived while clients and the collector
\* go on are trees, without an id twice; no walk is in a directory that was freed
\* (Directory::StartGC and Directory::Archive under their locks).
THEOREM TreesStayTrees == Spec => []TypeOK
  <1>1. IInv => TypeOK
    <2>. SUFFICES ASSUME IInv PROVE TypeOK
      OBVIOUS
    <2>1. ASSUME NEW t \in Trees PROVE IsTree(t)
      <3>1. Grown(t)
        BY DEF IInv, TreesInv
      <3>2. \A p \in DOMAIN t : Parent(p) # Root =>
              Parent(p) \in DOMAIN t /\ IsDir(t, Parent(p))
        <4>1. ASSUME NEW p \in DOMAIN t, Parent(p) # Root PROVE Parent(p) \in Way(p)
          <5>1. p \in Paths
            BY <3>1 DEF Grown
          <5>. QED BY <4>1, <5>1, WayOfParent, WayOfDir
        <4>. QED BY <3>1, <4>1 DEF Grown, IsDir
      <3>3. \A p, q \in DOMAIN t : t[p].id = t[q].id => p = q
        BY DEF IInv, IdsInv
      <3>. QED BY <3>1, <3>2, <3>3 DEF IsTree, Grown, Nodes
    <2>2. IsTree(tree) /\ IsTree(disk.image) /\ IsTree(saver.image)
      BY <2>1 DEF Trees
    <2>3. ASSUME NEW w, Within(w, tree), NEW i \in DOMAIN w
          PROVE  /\ w[i].dir \in DOMAIN tree \union {Root}
                 /\ w[i].left \subseteq SubDirs(tree, w[i].dir)
      BY <2>3 DEF Within, SubDirs, Children, IsDir
    <2>4. now \in 0..MaxTick
      BY DEF IInv, TypeInv
    <2>5. /\ used \in [files : 0..MaxFiles, dirs : 0..MaxDirs,
                       lists : 0..MaxLists, saves : 0..MaxSaves]
          /\ lister.held \subseteq Ids /\ reporter \in Files \union {0}
      BY DEF IInv, TypeInv, Used
    <2>6. index \subseteq Files /\ cleaned \subseteq Files
      <3>1. used.files \in Nat /\ used.files <= MaxFiles
        BY Bounds DEF IInv, TypeInv, Used
      <3>2. 1..used.files \subseteq Files
        BY <3>1, Bounds DEF Files
      <3>. QED BY <3>2 DEF IInv, IndexInv
    <2>7. Within(gc.walk, tree) /\ Within(saver.walk, tree)
      BY DEF IInv, WalkInv
    <2>8. gc.inUse \subseteq DOMAIN tree /\ fresh \union undone \subseteq Ids
      BY DEF IInv, LockInv, TypeInv
    <2>. QED BY <2>2, <2>3, <2>4, <2>5, <2>6, <2>7, <2>8 DEF TypeOK
  <1>. QED BY <1>1, NamespaceInvariant, PTL

\* What ClientService::List has taken out of the tree is not freed before it has
\* answered, whatever is removed, recovered and collected meanwhile.
THEOREM HeldNodesStayLive == Spec => []HeldNodesLive
  <1>1. IInv => HeldNodesLive
    BY DEF IInv, HeldInv, HeldNodesLive, NodeIds
  <1>. QED BY <1>1, NamespaceInvariant, PTL

\* The data nodes are never told to clean a block of a file that exists or may be
\* recovered (DataNodeService::OnReport), across restarts from an archive.
THEOREM FilesAlwaysKeepBlocks == Spec => []FilesKeepBlocks
  <1>1. IInv => FilesKeepBlocks
    BY DEF IInv, IndexInv, FilesKeepBlocks, Trees
  <1>. QED BY <1>1, NamespaceInvariant, PTL

\* The collector frees only what no client could see for longer than the time of
\* expiry (Directory::StartGC), also after restarts, but for what clients had got
\* back since the save that a restart has loaded (FileSystem::LoadFromFile).
THEOREM FreedOnlyAfterExpiry == Spec => FreedAfterExpiry
  <1>1. ASSUME IInv, [Next]_vars, Sweep
        PROVE  \A i \in (NodeIds(tree) \ NodeIds(tree')) \ undone :
                 now > seen[i] + Expire
    <2>. SUFFICES ASSUME NEW q \in DOMAIN tree, tree[q].id \notin NodeIds(tree'),
                         tree[q].id \notin undone
                  PROVE  now > seen[tree[q].id] + Expire
      BY DEF NodeIds
    <2>1. PICK d : d = Top(gc.walk).dir
      OBVIOUS
    <2>2. PICK stuck :
            tree' = [p \in DOMAIN tree \ Freed(d) |->
                       IF p = d THEN [tree[p] EXCEPT !.stuck = stuck] ELSE tree[p]]
      BY <1>1, <2>1 DEF Sweep, Freed, Doomed
    <2>3. q \in Freed(d)
      <3>1. ASSUME q \notin Freed(d) PROVE q \in DOMAIN tree' /\ tree'[q].id = tree[q].id
        <4>1. tree[q] \in Nodes
          BY <1>1, TreeIsGrown DEF Grown
        <4>2. \A x : x = [tree[q] EXCEPT !.stuck = stuck] => x.id = tree[q].id
          BY <4>1 DEF Nodes
        <4>. QED BY <2>2, <3>1, <4>2
      <3>. QED BY <3>1 DEF NodeIds
    <2>4. PICK p \in Doomed(d) : p \in Way(q)
      BY <1>1, <2>3, WhatIsFreed
    <2>5. p \in DOMAIN tree /\ tree[p].deleted /\ gc.now > tree[p].tick + Expire
      BY <1>1, WhatIsFreed
    <2>6. seen[tree[q].id] <= tree[p].tick
      BY <1>1, <2>4, <2>5 DEF IInv, SeenInv
    <2>7. tree[p].tick \in Nat /\ tree[q].id \in Ids
      BY <1>1, <2>5, TreeIsGrown, Bounds DEF Grown, Nodes
    <2>8. /\ gc.now \in Nat /\ now \in Nat /\ gc.now <= now
          /\ seen[tree[q].id] \in Nat /\ Expire \in Nat
      BY <1>1, <2>7, Bounds DEF IInv, TypeInv, HeldInv, Collectors
    <2>. QED BY <2>5, <2>6, <2>7, <2>8
  <1>2. IInv /\ [Next]_vars =>
          [Sweep => \A i \in (NodeIds(tree) \ NodeIds(tree')) \ undone :
                      now > seen[i] + Expire]_vars
    BY <1>1
  <1>. QED BY <1>2, NamespaceInvariant, PTL DEF Spec, FreedAfterExpiry
=============================================================================
