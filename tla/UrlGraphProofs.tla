---------------------------- MODULE UrlGraphProofs ----------------------------
(***************************************************************************)
(* Proofs about UrlGraph, for any pages and links, any number of           *)
(* coroutines that read, any limit and channels of any size.               *)
(***************************************************************************)
EXTENDS UrlGraph, FiniteSetTheorems, SequenceTheorems, TLAPS

Mark == "##END##"
Event == [url : Url, status : {"open", "done"}]
Page == [good : BOOLEAN, links : Seq(Url)]

Reading == [pc : {"take", "emit", "links", "quit"}, url : Url, links : Seq(Url)]

TypeInv ==
  /\ limit \in Nat
  /\ evts \in Seq(Event) /\ waitDoing \in Seq(Url) /\ tofile \in Seq(Url \cup {Mark})
  /\ main \in [pc : {"event", "send", "insert", "finish", "over"}, url : Url]
  /\ pendings \in SUBSET Url /\ IsFiniteSet(pendings)
  /\ worker \in [Worker -> Reading]
  /\ pages \in [DOMAIN pages -> Page]
  /\ outfile \in [open : BOOLEAN, urls : SUBSET Url]

\* The page is being read, or its links are being sent.
Busy(w) == worker[w].pc \in {"emit", "links"}

LinksOf(u) == {pages[u].links[i] : i \in DOMAIN pages[u].links}
IsFound(l) == l = Entry \/ \E u \in DOMAIN pages : l \in LinksOf(u)
Opening == main.pc \in {"send", "insert"}
Opened == pendings \cup (IF main.pc = "insert" THEN {main.url} ELSE {})

\* What is about to be opened may be; the search is over when all is done.
MainInv ==
  /\ Opening => /\ main.url \notin pendings
                /\ limit = 0 \/ Cardinality(pendings) < limit
                /\ \A l \in Url : main.url = l => IsFound(l)
  /\ limit # 0 => Cardinality(pendings) <= limit
  /\ Closed => dones = pendings

\* Each url that has been opened is at one place: it waits, or one coroutine
\* reads it, or it is reported as done, or it is done.
WaitInv ==
  \A i \in 1..Len(waitDoing) :
    /\ waitDoing[i] \in Opened \ DOMAIN pages
    /\ \A j \in 1..Len(waitDoing) : waitDoing[j] = waitDoing[i] => j = i

BusyInv ==
  \A w \in Worker : Busy(w) =>
    /\ worker[w].url \in DOMAIN pages \ dones
    /\ \A v \in Worker : Busy(v) /\ worker[v].url = worker[w].url => v = w
    /\ \A i \in 1..Len(evts) : evts[i].status = "done" => evts[i].url # worker[w].url

DoneInv ==
  \A i \in 1..Len(evts) : evts[i].status = "done" =>
    /\ evts[i].url \in DOMAIN pages \ dones
    /\ \A j \in 1..Len(evts) : evts[j] = evts[i] => j = i

PlaceInv == /\ dones \subseteq DOMAIN pages /\ DOMAIN pages \subseteq Opened
            /\ WaitInv /\ BusyInv /\ DoneInv

\* What is sent as a link is one.
LinkInv ==
  /\ \A i \in 1..Len(evts) : \A l \in Url : evts[i] = Open(l) => IsFound(l)
  /\ \A w \in Worker : \A u \in Url : Busy(w) /\ worker[w].url = u =>
       \A i \in 1..Len(worker[w].links) : worker[w].links[i] \in LinksOf(u)

\* A link is opened, or is being opened, or need not be as there are enough.
Full == limit # 0 /\ Cardinality(pendings) >= limit
Settled(l) == l \in pendings \/ (Opening /\ main.url = l) \/ Full

\* It is on its way ahead of the report that its page is done, or to be sent.
Ahead(u, l) ==
  \E j \in 1..Len(evts) : /\ evts[j] = Open(l)
                          /\ \A i \in 1..j : evts[i] # Done(u)
Unsent(u, l) ==
  \E w \in Worker : /\ Busy(w) /\ worker[w].url = u
                    /\ \E i \in 1..Len(worker[w].links) : worker[w].links[i] = l

\* No link of a page is left behind when the page is done.
CoverInv ==
  /\ Settled(Entry) \/ (main.pc = "event" /\ evts # <<>> /\ evts[1] = Open(Entry))
  /\ \A u \in DOMAIN pages : \A l \in LinksOf(u) :
       Settled(l) \/ (u \notin dones /\ (Ahead(u, l) \/ Unsent(u, l)))

\* A result has been written, or is on its way, or is about to be sent.
Given(u) == /\ u \in DOMAIN pages /\ pages[u].good
InFile(u) == u \in outfile.urls \/ \E i \in 1..Len(tofile) : tofile[i] = u
ToEmit(u) == \E w \in Worker : worker[w].pc = "emit" /\ worker[w].url = u

\* The mark is sent after all results, and nothing is after it.
FileInv ==
  /\ \A u \in Url : Given(u) <=> InFile(u) \/ ToEmit(u)
  /\ \A i \in 1..Len(tofile) : tofile[i] = Mark =>
       main.pc = "over" /\ i = Len(tofile) /\ outfile.open
  /\ ~outfile.open => main.pc = "over" /\ tofile = <<>>

IInv == TypeInv /\ MainInv /\ PlaceInv /\ LinkInv /\ CoverInv /\ FileInv

-----------------------------------------------------------------------------
(***************************************************************************)
(* Lemmas about channels and what is in them.                              *)
(***************************************************************************)
LEMMA Added ==
  ASSUME NEW S, NEW s \in Seq(S), NEW x \in S, NEW t, t = Append(s, x)
  PROVE  /\ t \in Seq(S) /\ t # <<>> /\ Len(s) \in Nat /\ Len(t) = Len(s) + 1
         /\ \A i \in 1..Len(s) : i \in 1..Len(t) /\ t[i] = s[i]
         /\ Len(s) + 1 \in 1..Len(t) /\ t[Len(s) + 1] = x
         /\ \A i \in 1..Len(t) : i \in 1..Len(s) \/ i = Len(s) + 1
<1>1. /\ t \in Seq(S) /\ Len(s) \in Nat /\ Len(t) = Len(s) + 1
      /\ \A i \in 1..Len(s) : t[i] = s[i]
      /\ t[Len(s) + 1] = x
  BY LenProperties, AppendProperties
<1>2. t # <<>>
  BY <1>1, EmptySeq
<1> QED BY <1>1, <1>2

LEMMA Removed ==
  ASSUME NEW S, NEW s \in Seq(S), s # <<>>, NEW t, t = Tail(s)
  PROVE  /\ t \in Seq(S) /\ Len(s) \in Nat /\ Len(t) = Len(s) - 1
         /\ Head(s) = s[1] /\ s[1] \in S /\ 1 \in 1..Len(s)
         /\ \A i \in 1..Len(t) : i + 1 \in 1..Len(s) /\ t[i] = s[i + 1]
         /\ \A i \in 1..Len(s) : i # 1 => i - 1 \in 1..Len(t) /\ t[i - 1] = s[i]
<1>1. /\ t \in Seq(S) /\ Len(s) \in Nat /\ Len(t) = Len(s) - 1 /\ Len(s) # 0
      /\ Head(s) = s[1] /\ s[1] \in S
      /\ \A i \in 1..Len(t) : t[i] = s[i + 1]
  BY LenProperties, HeadTailProperties, EmptySeq
<1>2. \A i \in 1..Len(s) : i # 1 => i - 1 \in 1..Len(t) /\ (i - 1) + 1 = i
  BY <1>1
<1> QED BY <1>1, <1>2

LEMMA Events ==
  /\ \A u \in Url : /\ Open(u) \in Event /\ Open(u).url = u /\ Open(u).status = "open"
                    /\ Done(u) \in Event /\ Done(u).url = u /\ Done(u).status = "done"
  /\ \A e \in Event : /\ e.url \in Url
                      /\ e.status = "open" => e = Open(e.url)
                      /\ e.status # "open" => e.status = "done" /\ e = Done(e.url)
BY DEF Event, Open, Done

LEMMA OtherReading ==
  ASSUME NEW x \in Reading
  PROVE  /\ [x EXCEPT !.pc = "links"] \in Reading
         /\ \A l \in Seq(Url) : [x EXCEPT !.links = l] \in Reading
BY DEF Reading

\* What has been found changes with the pages only.
LEMMA SameFound ==
  ASSUME pages' = pages
  PROVE  /\ \A u : LinksOf(u)' = LinksOf(u) /\ Given(u)' = Given(u)
         /\ \A l : IsFound(l)' = IsFound(l)
BY DEF LinksOf, IsFound, Given

\* A link that is ahead of the report of its page stays so when an event is added,
\* and when the first one is taken, unless it is that one.
LEMMA LaterEvent ==
  ASSUME TypeInv, NEW e \in Event, evts' = Append(evts, e), NEW u, NEW l, Ahead(u, l)
  PROVE  Ahead(u, l)'
<1>1. evts \in Seq(Event)
  BY DEF TypeInv
<1>2. PICK j \in 1..Len(evts) : evts[j] = Open(l) /\ \A i \in 1..j : evts[i] # Done(u)
  BY DEF Ahead
<1>3. /\ j \in 1..Len(evts') /\ evts'[j] = evts[j]
      /\ \A i \in 1..j : i \in 1..Len(evts) /\ evts'[i] = evts[i]
  BY <1>1, <1>2, Added
<1> QED BY <1>2, <1>3 DEF Ahead

LEMMA NextEvent ==
  ASSUME TypeInv, evts # <<>>, evts' = Tail(evts), NEW u, NEW l, Ahead(u, l)
  PROVE  evts[1] # Done(u) /\ (evts[1] = Open(l) \/ Ahead(u, l)')
<1>1. evts \in Seq(Event) /\ Len(evts) \in Nat /\ Len(evts') = Len(evts) - 1
  BY Removed DEF TypeInv
<1>2. PICK j \in 1..Len(evts) : evts[j] = Open(l) /\ \A i \in 1..j : evts[i] # Done(u)
  BY DEF Ahead
<1>3. CASE j = 1
  BY <1>2, <1>3
<1>4. CASE j # 1
  <2>1. j - 1 \in 1..Len(evts') /\ evts'[j - 1] = evts[j]
    BY <1>1, <1>2, <1>4, Removed
  <2>2. ASSUME NEW i \in 1..(j - 1) PROVE evts'[i] # Done(u)
    <3>1. i \in 1..Len(evts') /\ i + 1 \in 1..j
      BY <1>1, <1>2
    <3>2. evts'[i] = evts[i + 1]
      BY <1>1, <3>1, Removed
    <3> QED BY <1>2, <3>1, <3>2
  <2>3. 1 \in 1..j
    BY <1>2
  <2> QED BY <1>2, <2>1, <2>2, <2>3 DEF Ahead
<1> QED BY <1>3, <1>4

\* What is reported as done is so once, when the first event is taken as well.
LEMMA TakenOnce ==
  ASSUME TypeInv, DoneInv, evts # <<>>, evts' = Tail(evts), pages' = pages,
         dones' \subseteq dones \cup {evts[1].url},
         dones' = dones \/ evts[1].status = "done"
  PROVE  DoneInv'
<1>1. /\ evts \in Seq(Event) /\ Len(evts) \in Nat /\ Len(evts') = Len(evts) - 1
      /\ 1 \in 1..Len(evts)
      /\ \A i \in 1..Len(evts') : i + 1 \in 1..Len(evts) /\ evts'[i] = evts[i + 1]
  BY Removed DEF TypeInv
<1> SUFFICES ASSUME NEW i \in 1..Len(evts'), evts'[i].status = "done"
             PROVE  /\ evts'[i].url \in DOMAIN pages \ dones'
                    /\ \A j \in 1..Len(evts') : evts'[j] = evts'[i] => j = i
  BY DEF DoneInv
<1>2. /\ i + 1 \in 1..Len(evts) /\ evts'[i] = evts[i + 1] /\ i \in Nat /\ i + 1 # 1
      /\ evts[i + 1].url \in DOMAIN pages \ dones
      /\ \A j \in 1..Len(evts) : evts[j] = evts[i + 1] => j = i + 1
  BY <1>1 DEF DoneInv
<1>3. \A j \in 1..Len(evts') : evts'[j] = evts'[i] => j = i
  BY <1>1, <1>2
<1>4. evts[1].status = "done" => evts[1].url # evts[i + 1].url
  BY <1>1, <1>2, Events
<1> QED BY <1>2, <1>3, <1>4

-----------------------------------------------------------------------------
(***************************************************************************)
(* The inductive invariant, action by action.                              *)
(***************************************************************************)
LEMMA OnOpenStep == ASSUME IInv, OnOpen PROVE IInv'
<1> USE DEF IInv
<1> DEFINE u == evts[1].url
<1>1. /\ main.pc = "event" /\ evts \in Seq(Event) /\ evts # <<>>
      /\ UNCHANGED <<limit, waitDoing, tofile, pendings, dones, worker, pages, outfile>>
      /\ evts' \in Seq(Event) /\ Len(evts) \in Nat /\ 1 \in 1..Len(evts)
      /\ \A i \in 1..Len(evts') : i + 1 \in 1..Len(evts) /\ evts'[i] = evts[i + 1]
      /\ \A i \in 1..Len(evts) : i # 1 => i - 1 \in 1..Len(evts') /\ evts'[i - 1] = evts[i]
      /\ evts[1] = Open(u) /\ u \in Url
      /\ main' = IF Wanted(u) THEN [pc |-> "send", url |-> u] ELSE main
  BY Removed, Events DEF OnOpen, TypeInv
<1>2. evts' = Tail(evts)
  BY DEF OnOpen
<1>3. TypeInv'
  BY <1>1 DEF TypeInv
<1>4. MainInv'
  BY <1>1, SameFound DEF MainInv, LinkInv, TypeInv, Opening, Wanted, Closed
<1>5. PlaceInv'
  <2>1. Opened' = Opened /\ \A w : Busy(w)' = Busy(w)
    BY <1>1 DEF Opened, Busy
  <2>2. WaitInv'
    BY <1>1, <2>1 DEF PlaceInv, WaitInv
  <2>3. BusyInv'
    BY <1>1, <2>1 DEF PlaceInv, BusyInv
  <2>4. DoneInv'
    <3>1. dones' = dones /\ pages' = pages /\ DoneInv
      BY <1>1 DEF PlaceInv
    <3> QED BY <1>1, <1>2, <3>1, TakenOnce
  <2> QED BY <1>1, <2>1, <2>2, <2>3, <2>4 DEF PlaceInv
<1>6. LinkInv'
  <2>1. ASSUME NEW i \in 1..Len(evts'), NEW l \in Url, evts'[i] = Open(l)
        PROVE  IsFound(l)'
    <3>1. i + 1 \in 1..Len(evts) /\ evts[i + 1] = Open(l)
      BY <1>1, <2>1
    <3> QED BY <1>1, <3>1, SameFound DEF LinkInv
  <2>2. \A w \in Worker : \A v \in Url : Busy(w)' /\ worker'[w].url = v =>
          \A i \in 1..Len(worker'[w].links) : worker'[w].links[i] \in LinksOf(v)'
    BY <1>1, SameFound DEF LinkInv, Busy
  <2>3. \A i \in 1..Len(evts') : \A l \in Url : evts'[i] = Open(l)' => IsFound(l)'
    BY <2>1 DEF Open
  <2> QED BY <2>2, <2>3 DEF LinkInv
<1>7. CoverInv'
  <2>1. ASSUME NEW l, Settled(l) \/ l = u PROVE Settled(l)'
    <3>1. CASE l \in pendings \/ Full
      BY <1>1, <3>1 DEF Settled, Full
    <3>2. CASE l = u /\ Wanted(u)
      BY <1>1, <3>2 DEF Settled, Opening
    <3>3. CASE l = u /\ ~Wanted(u) /\ l \notin pendings
      <4>1. limit \in Nat /\ Cardinality(pendings) \in Nat
        BY FS_CardinalityType DEF TypeInv
      <4> QED BY <1>1, <3>3, <4>1 DEF Settled, Full, Wanted
    <3> QED BY <1>1, <2>1, <3>1, <3>2, <3>3 DEF Settled, Opening
  <2>2. ASSUME NEW v, NEW l, Ahead(v, l) PROVE Ahead(v, l)' \/ l = u
    <3>1. evts[1] = Open(l) \/ Ahead(v, l)'
      BY <1>1, <1>3, <2>2, NextEvent
    <3> QED BY <1>1, <3>1 DEF Open
  <2>3. \A v, l : Unsent(v, l)' = Unsent(v, l)
    BY <1>1 DEF Unsent, Busy
  <2> QED BY <1>1, <2>1, <2>2, <2>3, SameFound, UrlGraphAssumption, Events DEF CoverInv
<1>8. FileInv'
  BY <1>1, SameFound DEF FileInv, InFile, ToEmit
<1> QED BY <1>3, <1>4, <1>5, <1>6, <1>7, <1>8

LEMMA SendWaitingStep == ASSUME IInv, SendWaiting PROVE IInv'
<1> USE DEF IInv
<1> DEFINE u == main.url
<1>1. /\ main.pc = "send" /\ u \in Url \ pendings
      /\ UNCHANGED <<limit, evts, tofile, pendings, dones, worker, pages, outfile>>
      /\ main' = [main EXCEPT !.pc = "insert"] /\ main'.pc = "insert" /\ main'.url = u
      /\ waitDoing' \in Seq(Url) /\ waitDoing' # <<>> /\ Len(waitDoing) \in Nat
      /\ Len(waitDoing') = Len(waitDoing) + 1
      /\ \A i \in 1..Len(waitDoing) : waitDoing'[i] = waitDoing[i]
      /\ waitDoing'[Len(waitDoing) + 1] = u
      /\ \A i \in 1..Len(waitDoing') : i \in 1..Len(waitDoing) \/ i = Len(waitDoing) + 1
  BY Added DEF SendWaiting, TypeInv, MainInv, Opening
<1>2. TypeInv'
  BY <1>1 DEF TypeInv
<1>3. MainInv'
  BY <1>1, SameFound DEF MainInv, Opening, Closed
<1>4. PlaceInv'
  <2>1. Opened = pendings /\ Opened' = pendings \cup {u} /\ \A w : Busy(w)' = Busy(w)
    BY <1>1 DEF Opened, Busy
  <2>2. WaitInv'
    BY <1>1, <2>1 DEF PlaceInv, WaitInv
  <2>3. BusyInv' /\ DoneInv'
    BY <1>1, <2>1 DEF PlaceInv, BusyInv, DoneInv
  <2> QED BY <1>1, <2>1, <2>2, <2>3 DEF PlaceInv
<1>5. LinkInv'
  BY <1>1, SameFound DEF LinkInv, Busy
<1>6. CoverInv'
  <2>1. /\ \A l : Settled(l)' = Settled(l)
        /\ \A v, l : Ahead(v, l)' = Ahead(v, l) /\ Unsent(v, l)' = Unsent(v, l)
    BY <1>1 DEF Settled, Full, Opening, Ahead, Unsent, Busy
  <2> QED BY <1>1, <2>1, SameFound, UrlGraphAssumption DEF CoverInv
<1>7. FileInv'
  BY <1>1, SameFound DEF FileInv, InFile, ToEmit
<1> QED BY <1>2, <1>3, <1>4, <1>5, <1>6, <1>7

LEMMA InsertStep == ASSUME IInv, Insert PROVE IInv'
<1> USE DEF IInv
<1> DEFINE u == main.url
<1>1. /\ main.pc = "insert" /\ u \in Url \ pendings /\ main'.pc = "event"
      /\ UNCHANGED <<limit, evts, waitDoing, tofile, dones, worker, pages, outfile>>
      /\ pendings' = pendings \cup {u}
  BY DEF Insert, TypeInv, MainInv, Opening
<1>2. /\ IsFiniteSet(pendings') /\ Cardinality(pendings) \in Nat /\ limit \in Nat
      /\ Cardinality(pendings') = Cardinality(pendings) + 1
  BY <1>1, FS_CardinalityType, FS_AddElement DEF TypeInv
<1>3. TypeInv'
  BY <1>1, <1>2, UrlGraphAssumption DEF TypeInv, Insert
<1>4. MainInv'
  BY <1>1, <1>2 DEF MainInv, Opening, Closed
<1>5. PlaceInv'
  <2>1. Opened' = Opened /\ \A w : Busy(w)' = Busy(w)
    BY <1>1 DEF Opened, Busy
  <2> QED BY <1>1, <2>1 DEF PlaceInv, WaitInv, BusyInv, DoneInv
<1>6. LinkInv'
  BY <1>1, SameFound DEF LinkInv, Busy
<1>7. CoverInv'
  <2>1. \A l : Settled(l) => Settled(l)'
    BY <1>1, <1>2 DEF Settled, Full, Opening
  <2>2. \A v, l : Ahead(v, l)' = Ahead(v, l) /\ Unsent(v, l)' = Unsent(v, l)
    BY <1>1 DEF Ahead, Unsent, Busy
  <2> QED BY <1>1, <2>1, <2>2, SameFound, UrlGraphAssumption DEF CoverInv
<1>8. FileInv'
  BY <1>1, SameFound DEF FileInv, InFile, ToEmit
<1> QED BY <1>3, <1>4, <1>5, <1>6, <1>7, <1>8

LEMMA OnDoneStep == ASSUME IInv, OnDone PROVE IInv'
<1> USE DEF IInv
<1> DEFINE u == evts[1].url
<1>1. /\ main.pc = "event" /\ evts \in Seq(Event) /\ evts # <<>>
      /\ UNCHANGED <<limit, waitDoing, tofile, pendings, worker, pages, outfile>>
      /\ evts' \in Seq(Event) /\ Len(evts) \in Nat /\ 1 \in 1..Len(evts)
      /\ \A i \in 1..Len(evts') : i + 1 \in 1..Len(evts) /\ evts'[i] = evts[i + 1]
      /\ evts[1].status = "done" /\ evts[1] = Done(u) /\ u \in Url
      /\ dones' = dones \cup {u}
      /\ main' = IF dones' = pendings THEN [main EXCEPT !.pc = "finish"] ELSE main
      /\ main'.pc = IF dones' = pendings THEN "finish" ELSE "event"
  BY Removed, Events DEF OnDone, AllDone, TypeInv
<1>2. evts' = Tail(evts) /\ u \in DOMAIN pages \ dones
  BY <1>1 DEF OnDone, PlaceInv, DoneInv
<1>3. TypeInv'
  BY <1>1 DEF TypeInv
<1>4. MainInv'
  BY <1>1 DEF MainInv, Opening, Closed
<1>5. PlaceInv'
  <2>1. Opened' = Opened /\ \A w : Busy(w)' = Busy(w)
    BY <1>1 DEF Opened, Busy
  <2>2. WaitInv'
    BY <1>1, <2>1 DEF PlaceInv, WaitInv
  <2>3. BusyInv'
    BY <1>1, <2>1 DEF PlaceInv, BusyInv
  <2>4. DoneInv'
    <3>1. dones' \subseteq dones \cup {evts[1].url} /\ pages' = pages /\ DoneInv
      BY <1>1 DEF PlaceInv
    <3> QED BY <1>1, <1>2, <3>1, TakenOnce
  <2> QED BY <1>1, <1>2, <2>1, <2>2, <2>3, <2>4 DEF PlaceInv
<1>6. LinkInv'
  BY <1>1, SameFound DEF LinkInv, Busy
<1>7. CoverInv'
  <2>1. \A l : Settled(l) => Settled(l)'
    BY <1>1 DEF Settled, Full, Opening
  <2>2. ASSUME NEW v, NEW l, Ahead(v, l) PROVE Ahead(v, l)' /\ v # u
    <3>1. evts[1] # Done(v) /\ (evts[1] = Open(l) \/ Ahead(v, l)')
      BY <1>1, <1>2, <2>2, NextEvent
    <3> QED BY <1>1, <3>1 DEF Open
  <2>3. ASSUME NEW v, NEW l, Unsent(v, l) PROVE Unsent(v, l)' /\ v # u
    BY <1>1, <2>3 DEF Unsent, Busy, PlaceInv, BusyInv
  <2>4. evts[1] # Open(Entry)
    BY <1>1 DEF Open
  <2> QED BY <1>1, <2>1, <2>2, <2>3, <2>4, SameFound DEF CoverInv
<1>8. FileInv'
  BY <1>1, SameFound DEF FileInv, InFile, ToEmit
<1> QED BY <1>3, <1>4, <1>5, <1>6, <1>7, <1>8

LEMMA FinishStep == ASSUME IInv, Finish PROVE IInv'
<1> USE DEF IInv
<1>1. /\ main.pc = "finish" /\ main'.pc = "over" /\ main' = [main EXCEPT !.pc = "over"]
      /\ UNCHANGED <<limit, evts, waitDoing, pendings, dones, worker, pages, outfile>>
      /\ tofile' \in Seq(Url \cup {Mark}) /\ tofile' # <<>> /\ Len(tofile) \in Nat
      /\ Len(tofile') = Len(tofile) + 1
      /\ \A i \in 1..Len(tofile) : i \in 1..Len(tofile') /\ tofile'[i] = tofile[i]
      /\ tofile'[Len(tofile) + 1] = Mark
      /\ \A i \in 1..Len(tofile') : i \in 1..Len(tofile) \/ i = Len(tofile) + 1
  <2>1. /\ tofile \in Seq(Url \cup {Mark}) /\ Mark \in Url \cup {Mark}
        /\ tofile' = Append(tofile, Mark)
    BY DEF Finish, TypeInv, Mark
  <2>2. /\ main.pc = "finish" /\ main'.pc = "over" /\ main' = [main EXCEPT !.pc = "over"]
        /\ UNCHANGED <<limit, evts, waitDoing, pendings, dones, worker, pages, outfile>>
    BY DEF Finish, TypeInv
  <2> QED BY <2>1, <2>2, Added
<1>2. TypeInv'
  BY <1>1 DEF TypeInv
<1>3. MainInv'
  BY <1>1 DEF MainInv, Opening, Closed
<1>4. PlaceInv'
  <2>1. Opened' = Opened /\ \A w : Busy(w)' = Busy(w)
    BY <1>1 DEF Opened, Busy
  <2> QED BY <1>1, <2>1 DEF PlaceInv, WaitInv, BusyInv, DoneInv
<1>5. LinkInv'
  BY <1>1, SameFound DEF LinkInv, Busy
<1>6. CoverInv'
  <2>1. /\ \A l : Settled(l)' = Settled(l)
        /\ \A v, l : Ahead(v, l)' = Ahead(v, l) /\ Unsent(v, l)' = Unsent(v, l)
    BY <1>1 DEF Settled, Full, Opening, Ahead, Unsent, Busy
  <2> QED BY <1>1, <2>1, SameFound, UrlGraphAssumption DEF CoverInv
<1>7. FileInv'
  <2>1. \A v \in Url : InFile(v)' = InFile(v) /\ ToEmit(v)' = ToEmit(v)
    BY <1>1, UrlGraphAssumption DEF InFile, ToEmit, Mark
  <2>2. outfile.open /\ \A i \in 1..Len(tofile) : tofile[i] # Mark
    BY <1>1 DEF FileInv
  <2> QED BY <1>1, <2>1, <2>2, SameFound DEF FileInv
<1> QED BY <1>2, <1>3, <1>4, <1>5, <1>6, <1>7

\* Once all is done no coroutine is busy.
LEMMA NoneBusy ==
  ASSUME MainInv, PlaceInv, Closed PROVE \A w \in Worker : ~Busy(w)
<1>1. Opened = dones
  BY DEF MainInv, Opened, Closed
<1> QED BY <1>1 DEF PlaceInv, BusyInv

\* Whatever is found on a page, its links are urls.
LEMMA FoundIsPage ==
  ASSUME NEW found \in [good : {TRUE}, links : LinkLists]
                         \cup {[good |-> FALSE, links |-> <<>>]}
  PROVE  found \in Page
<1>1. <<>> \in Seq(Url)
  OBVIOUS
<1>2. \A f \in [good : {TRUE}, links : LinkLists] : f \in Page
  BY UrlGraphAssumption DEF Page
<1>3. [good |-> FALSE, links |-> <<>>] \in Page
  BY <1>1 DEF Page
<1> QED BY <1>2, <1>3

LEMMA TakeStep == ASSUME IInv, NEW w \in Worker, Take(w) PROVE IInv'
<1> USE DEF IInv
<1>1. PICK u \in Url : u = waitDoing[1]
  BY Removed DEF Take, TypeInv
<1>2. PICK found \in [good : {TRUE}, links : LinkLists]
                        \cup {[good |-> FALSE, links |-> <<>>]} :
        /\ pages' = [v \in DOMAIN pages \cup {u} |-> IF v = u THEN found ELSE pages[v]]
        /\ worker' = [worker EXCEPT ![w] =
             [pc |-> IF found.good THEN "emit" ELSE "links", url |-> u, links |-> found.links]]
  <2>1. Head(waitDoing) = u
    BY <1>1, Removed DEF Take, TypeInv
  <2> QED BY <2>1 DEF Take
<1>3. found \in Page
  BY FoundIsPage
<1>4. /\ worker[w].pc = "take" /\ ~Closed
      /\ UNCHANGED <<limit, evts, tofile, main, pendings, dones, outfile>>
      /\ waitDoing \in Seq(Url) /\ Len(waitDoing) \in Nat /\ 1 \in 1..Len(waitDoing)
      /\ u = waitDoing[1] /\ waitDoing' \in Seq(Url)
      /\ \A i \in 1..Len(waitDoing') : /\ i + 1 \in 1..Len(waitDoing)
                                       /\ waitDoing'[i] = waitDoing[i + 1]
  BY <1>1, Removed DEF Take, TypeInv
<1>5. u \in Opened \ DOMAIN pages /\ DOMAIN pages' = DOMAIN pages \cup {u}
  BY <1>2, <1>4 DEF PlaceInv, WaitInv
<1>6. /\ \A v \in Worker : v # w => worker'[v] = worker[v]
      /\ worker'[w].url = u /\ worker'[w].links = found.links
      /\ worker'[w].pc = IF found.good THEN "emit" ELSE "links"
      /\ \A v \in Worker : v # w => Busy(v)' = Busy(v)
      /\ ~Busy(w) /\ Busy(w)'
  BY <1>2, <1>4 DEF TypeInv, Busy
<1>7. /\ \A v \in DOMAIN pages : LinksOf(v)' = LinksOf(v)
      /\ LinksOf(u)' = {found.links[i] : i \in DOMAIN found.links}
      /\ \A l : IsFound(l) => IsFound(l)'
  <2>1. \A v \in DOMAIN pages : v \in DOMAIN pages' /\ pages'[v] = pages[v]
    BY <1>2, <1>5
  <2>2. pages'[u] = found
    BY <1>2, <1>5
  <2>3. \A v \in DOMAIN pages : LinksOf(v)' = LinksOf(v)
    BY <2>1 DEF LinksOf
  <2>4. \A l : IsFound(l) => IsFound(l)'
    BY <2>1, <2>3 DEF IsFound
  <2> QED BY <2>2, <2>3, <2>4 DEF LinksOf
<1>8. TypeInv'
  BY <1>2, <1>3, <1>4, <1>5 DEF TypeInv, Reading, Page
<1>9. MainInv'
  BY <1>4, <1>7 DEF MainInv, Opening, Closed
<1>10. PlaceInv'
  <2>1. Opened' = Opened
    BY <1>4 DEF Opened
  <2>2. WaitInv'
    <3> SUFFICES ASSUME NEW i \in 1..Len(waitDoing')
                 PROVE  /\ waitDoing'[i] \in Opened \ DOMAIN pages'
                        /\ \A j \in 1..Len(waitDoing') :
                             waitDoing'[j] = waitDoing'[i] => j = i
      BY <2>1 DEF WaitInv
    <3>1. i + 1 \in 1..Len(waitDoing) /\ waitDoing'[i] = waitDoing[i + 1] /\ i + 1 # 1
      BY <1>4
    <3>2. /\ waitDoing[i + 1] \in Opened \ DOMAIN pages
          /\ \A j \in 1..Len(waitDoing) : waitDoing[j] = waitDoing[i + 1] => j = i + 1
      BY <3>1 DEF PlaceInv, WaitInv
    <3>3. waitDoing[i + 1] # u
      BY <1>4, <3>1, <3>2
    <3>4. \A j \in 1..Len(waitDoing') : waitDoing'[j] = waitDoing'[i] => j = i
      BY <1>4, <3>1, <3>2
    <3> QED BY <1>5, <3>1, <3>2, <3>3, <3>4
  <2>3. BusyInv'
    <3>1. \A v \in Worker : Busy(v) => worker[v].url \in DOMAIN pages \ dones
      BY DEF PlaceInv, BusyInv
    <3>2. u \notin dones /\ u \notin DOMAIN pages
      BY <1>5 DEF PlaceInv
    <3>3. \A i \in 1..Len(evts) : evts[i].status = "done" => evts[i].url # u
      BY <3>2 DEF PlaceInv, DoneInv
    <3> SUFFICES ASSUME NEW v \in Worker, Busy(v)'
                 PROVE  /\ worker'[v].url \in DOMAIN pages' \ dones'
                        /\ \A x \in Worker :
                             Busy(x)' /\ worker'[x].url = worker'[v].url => x = v
                        /\ \A i \in 1..Len(evts') :
                             evts'[i].status = "done" => evts'[i].url # worker'[v].url
      BY DEF BusyInv
    <3>4. CASE v = w
      BY <1>4, <1>5, <1>6, <3>1, <3>2, <3>3, <3>4
    <3>5. CASE v # w
      <4>1. Busy(v) /\ worker'[v] = worker[v] /\ worker[v].url # u
        BY <1>6, <3>1, <3>2, <3>5
      <4> QED BY <1>4, <1>5, <1>6, <4>1 DEF PlaceInv, BusyInv
    <3> QED BY <3>4, <3>5
  <2>4. DoneInv'
    BY <1>4, <1>5 DEF PlaceInv, DoneInv
  <2> QED BY <1>4, <1>5, <2>1, <2>2, <2>3, <2>4 DEF PlaceInv
<1>11. LinkInv'
  <2>1. \A i \in 1..Len(found.links) : found.links[i] \in LinksOf(u)'
    BY <1>3, <1>7, LenProperties DEF Page
  <2>2. \A v \in Worker : Busy(v) => worker[v].url \in DOMAIN pages
    BY DEF PlaceInv, BusyInv
  <2>3. \A i \in 1..Len(evts') : \A l \in Url : evts'[i] = Open(l) => IsFound(l)'
    BY <1>4, <1>7 DEF LinkInv
  <2>4. ASSUME NEW v \in Worker, NEW x \in Url, Busy(v)', worker'[v].url = x,
               NEW i \in 1..Len(worker'[v].links)
        PROVE  worker'[v].links[i] \in LinksOf(x)'
    <3>1. CASE v = w
      BY <1>6, <2>1, <2>4, <3>1
    <3>2. CASE v # w
      <4>1. Busy(v) /\ worker'[v] = worker[v] /\ x \in DOMAIN pages
        BY <1>6, <2>2, <2>4, <3>2
      <4>2. worker[v].links[i] \in LinksOf(x)
        BY <2>4, <4>1 DEF LinkInv
      <4> QED BY <1>7, <4>1, <4>2
    <3> QED BY <3>1, <3>2
  <2> QED BY <2>3, <2>4 DEF LinkInv
<1>12. CoverInv'
  <2>1. /\ \A l : Settled(l)' = Settled(l)
        /\ \A v, l : Ahead(v, l)' = Ahead(v, l)
    BY <1>4 DEF Settled, Full, Opening, Ahead
  <2>2. \A v, l : Unsent(v, l) => Unsent(v, l)'
    BY <1>6 DEF Unsent
  <2>3. u \notin dones
    BY <1>5 DEF PlaceInv
  <2>4. ASSUME NEW l \in LinksOf(u)' PROVE Unsent(u, l)'
    <3>1. PICK i \in DOMAIN found.links : found.links[i] = l
      BY <1>7, <2>4
    <3>2. i \in 1..Len(found.links)
      BY <1>3, <3>1, LenProperties DEF Page
    <3>3. /\ Busy(w)' /\ worker'[w].url = u /\ i \in 1..Len(worker'[w].links)
          /\ worker'[w].links[i] = l
      BY <1>6, <3>1, <3>2
    <3> QED BY <3>3 DEF Unsent
  <2>5. Settled(Entry)' \/ (main'.pc = "event" /\ evts' # <<>> /\ evts'[1] = Open(Entry))
    BY <1>4, <2>1, UrlGraphAssumption DEF CoverInv
  <2>6. ASSUME NEW v \in DOMAIN pages, NEW l \in LinksOf(v)'
        PROVE  Settled(l)' \/ (v \notin dones' /\ (Ahead(v, l)' \/ Unsent(v, l)'))
    <3>1. l \in LinksOf(v)
      BY <1>7
    <3> QED BY <1>4, <2>1, <2>2, <3>1 DEF CoverInv
  <2> QED BY <1>4, <1>5, <2>3, <2>4, <2>5, <2>6 DEF CoverInv
<1>13. FileInv'
  <2>1. /\ \A v \in Url : InFile(v)' = InFile(v)
        /\ \A v \in Url : v # u => ToEmit(v)' = ToEmit(v) /\ Given(v)' = Given(v)
    BY <1>2, <1>4, <1>5, <1>6 DEF InFile, ToEmit, Given
  <2>2. ~InFile(u) /\ ~ToEmit(u)
    BY <1>4, <1>5 DEF FileInv, Given
  <2>3. (Given(u)' <=> found.good) /\ (ToEmit(u)' <=> found.good)
    <3>1. pages'[u] = found /\ u \in DOMAIN pages' /\ found.good \in BOOLEAN
      BY <1>2, <1>3, <1>5 DEF Page
    <3>2. Given(u)' <=> found.good
      BY <3>1 DEF Given
    <3>3. found.good => ToEmit(u)'
      BY <1>6 DEF ToEmit
    <3>4. ToEmit(u)' => found.good
      BY <1>6, <2>2 DEF ToEmit
    <3> QED BY <3>1, <3>2, <3>3, <3>4
  <2>4. ASSUME NEW v \in Url PROVE Given(v)' <=> InFile(v)' \/ ToEmit(v)'
    BY <2>1, <2>2, <2>3 DEF FileInv
  <2> QED BY <1>4, <2>4 DEF FileInv
<1> QED BY <1>8, <1>9, <1>10, <1>11, <1>12, <1>13

LEMMA QuitStep == ASSUME IInv, NEW w \in Worker, Quit(w) PROVE IInv'
<1> USE DEF IInv
<1>1. /\ worker[w].pc = "take" /\ worker' = [worker EXCEPT ![w].pc = "quit"]
      /\ UNCHANGED <<limit, evts, waitDoing, tofile, main, pendings, dones, pages, outfile>>
  BY DEF Quit
<1>2. TypeInv'
  BY <1>1 DEF TypeInv, Reading
<1>3. \A v \in Worker : /\ Busy(v)' = Busy(v)
                        /\ (worker'[v].pc = "emit") = (worker[v].pc = "emit")
                        /\ worker'[v].url = worker[v].url /\ worker'[v].links = worker[v].links
  BY <1>1 DEF TypeInv, Busy
<1>4. MainInv'
  BY <1>1, SameFound DEF MainInv, Opening, Closed
<1>5. PlaceInv'
  BY <1>1, <1>3 DEF PlaceInv, WaitInv, BusyInv, DoneInv, Opened
<1>6. LinkInv'
  BY <1>1, <1>3, SameFound DEF LinkInv
<1>7. CoverInv'
  <2>1. /\ \A l : Settled(l)' = Settled(l)
        /\ \A v, l : Ahead(v, l)' = Ahead(v, l) /\ Unsent(v, l)' = Unsent(v, l)
    BY <1>1, <1>3 DEF Settled, Full, Opening, Ahead, Unsent
  <2> QED BY <1>1, <2>1, SameFound DEF CoverInv
<1>8. FileInv'
  BY <1>1, <1>3, SameFound DEF FileInv, InFile, ToEmit
<1> QED BY <1>2, <1>4, <1>5, <1>6, <1>7, <1>8

LEMMA EmitStep == ASSUME IInv, NEW w \in Worker, Emit(w) PROVE IInv'
<1> USE DEF IInv
<1>1. PICK u \in Url : u = worker[w].url
  BY DEF TypeInv, Reading
<1>2. /\ worker[w].pc = "emit" /\ worker' = [worker EXCEPT ![w].pc = "links"]
      /\ UNCHANGED <<limit, evts, waitDoing, main, pendings, dones, pages, outfile>>
      /\ tofile' = Append(tofile, u)
  BY <1>1 DEF Emit
<1>3. /\ tofile' \in Seq(Url \cup {Mark}) /\ tofile' # <<>> /\ Len(tofile) \in Nat
      /\ Len(tofile) + 1 \in 1..Len(tofile') /\ tofile'[Len(tofile) + 1] = u
      /\ \A i \in 1..Len(tofile) : i \in 1..Len(tofile') /\ tofile'[i] = tofile[i]
      /\ \A i \in 1..Len(tofile') : i \in 1..Len(tofile) \/ i = Len(tofile) + 1
  <2>1. tofile \in Seq(Url \cup {Mark}) /\ u \in Url \cup {Mark}
    BY DEF TypeInv
  <2> QED BY <1>2, <2>1, Added
<1>4. TypeInv'
  <2>1. PICK r : r = [worker[w] EXCEPT !.pc = "links"]
    OBVIOUS
  <2>2. worker' = [worker EXCEPT ![w] = r]
    BY <1>2, <2>1
  <2>3. r \in Reading
    BY <2>1, OtherReading DEF TypeInv
  <2> QED BY <1>2, <1>3, <2>2, <2>3 DEF TypeInv
<1>5. \A v \in Worker : /\ Busy(v)' = Busy(v)
                        /\ v # w => worker'[v] = worker[v]
                        /\ worker'[v].url = worker[v].url /\ worker'[v].links = worker[v].links
  BY <1>2 DEF TypeInv, Busy
<1>6. MainInv'
  BY <1>2, SameFound DEF MainInv, Opening, Closed
<1>7. PlaceInv'
  BY <1>2, <1>5 DEF PlaceInv, WaitInv, BusyInv, DoneInv, Opened
<1>8. LinkInv'
  BY <1>2, <1>5, SameFound DEF LinkInv
<1>9. CoverInv'
  <2>1. /\ \A l : Settled(l)' = Settled(l)
        /\ \A v, l : Ahead(v, l)' = Ahead(v, l) /\ Unsent(v, l)' = Unsent(v, l)
    BY <1>2, <1>5 DEF Settled, Full, Opening, Ahead, Unsent
  <2> QED BY <1>2, <2>1, SameFound DEF CoverInv
<1>10. FileInv'
  <2>1. main.pc # "over" /\ outfile.open
    BY <1>2, NoneBusy DEF Busy, Closed, FileInv
  <2>2. \A i \in 1..Len(tofile') : tofile'[i] # Mark
    BY <1>3, <2>1, UrlGraphAssumption DEF FileInv, Mark
  <2>3. \A v \in Url : InFile(v)' <=> InFile(v) \/ v = u
    BY <1>2, <1>3 DEF InFile
  <2>4. \A v \in Url : ToEmit(v) \/ v = u <=> ToEmit(v)' \/ v = u
    BY <1>1, <1>2, <1>5 DEF ToEmit, TypeInv
  <2>5. ToEmit(u)
    BY <1>1, <1>2 DEF ToEmit
  <2> QED BY <1>2, <2>1, <2>2, <2>3, <2>4, <2>5, SameFound DEF FileInv
<1> QED BY <1>4, <1>6, <1>7, <1>8, <1>9, <1>10

LEMMA SendLinkStep == ASSUME IInv, NEW w \in Worker, SendLink(w) PROVE IInv'
<1> USE DEF IInv
<1>1. PICK u \in Url : u = worker[w].url
  BY DEF TypeInv, Reading
<1>2. /\ worker[w].links \in Seq(Url) /\ worker[w].links # <<>>
      /\ worker' = [worker EXCEPT ![w].links = Tail(@)] /\ worker[w].pc = "links"
      /\ UNCHANGED <<limit, tofile, waitDoing, main, pendings, dones, pages, outfile>>
  BY DEF SendLink, TypeInv, Reading
<1>3. PICK h \in Url : h = worker[w].links[1] /\ evts' = Append(evts, Open(h))
  BY <1>2, Removed DEF SendLink
<1>4. /\ evts \in Seq(Event) /\ evts' \in Seq(Event) /\ evts' # <<>> /\ Len(evts) \in Nat
      /\ Len(evts) + 1 \in 1..Len(evts') /\ evts'[Len(evts) + 1] = Open(h)
      /\ \A i \in 1..Len(evts) : i \in 1..Len(evts') /\ evts'[i] = evts[i]
      /\ \A i \in 1..Len(evts') : i \in 1..Len(evts) \/ i = Len(evts) + 1
  <2>1. evts \in Seq(Event) /\ Open(h) \in Event /\ evts' = Append(evts, Open(h))
    BY <1>3, Events DEF TypeInv
  <2> QED BY <2>1, Added
<1>5. /\ \A v \in Worker : /\ Busy(v)' = Busy(v) /\ worker'[v].url = worker[v].url
                           /\ worker'[v].pc = worker[v].pc
                           /\ v # w => worker'[v] = worker[v]
      /\ worker'[w].links = Tail(worker[w].links) /\ Busy(w)
  BY <1>2 DEF TypeInv, Busy
<1>6. /\ worker'[w].links \in Seq(Url) /\ 1 \in 1..Len(worker[w].links)
      /\ \A i \in 1..Len(worker'[w].links) :
           i + 1 \in 1..Len(worker[w].links) /\ worker'[w].links[i] = worker[w].links[i + 1]
      /\ \A i \in 1..Len(worker[w].links) : i # 1 =>
           i - 1 \in 1..Len(worker'[w].links) /\ worker'[w].links[i - 1] = worker[w].links[i]
  <2> DEFINE s == worker[w].links  t == worker'[w].links
  <2>1. s \in Seq(Url) /\ s # <<>> /\ t = Tail(s)
    BY <1>2, <1>5
  <2> HIDE DEF s, t
  <2>2. /\ t \in Seq(Url) /\ 1 \in 1..Len(s)
        /\ \A i \in 1..Len(t) : i + 1 \in 1..Len(s) /\ t[i] = s[i + 1]
        /\ \A i \in 1..Len(s) : i # 1 => i - 1 \in 1..Len(t) /\ t[i - 1] = s[i]
    BY <2>1, Removed
  <2> QED BY <2>2 DEF s, t
<1>7. u \in DOMAIN pages /\ h \in LinksOf(u)
  BY <1>1, <1>3, <1>5, <1>6 DEF PlaceInv, BusyInv, LinkInv
<1>8. TypeInv'
  <2>1. PICK r : r = [worker[w] EXCEPT !.links = Tail(@)]
    OBVIOUS
  <2>2. worker' = [worker EXCEPT ![w] = r] /\ worker'[w] = r
    BY <1>2, <2>1 DEF TypeInv
  <2>3. r.links \in Seq(Url)
    BY <1>6, <2>2
  <2>4. r \in Reading
    <3>1. worker[w] \in Reading /\ r.links = Tail(worker[w].links)
      BY <2>1 DEF TypeInv, Reading
    <3> QED BY <2>1, <2>3, <3>1, OtherReading
  <2> QED BY <1>2, <1>4, <2>2, <2>4 DEF TypeInv
<1>9. MainInv'
  BY <1>2, SameFound DEF MainInv, Opening, Closed
<1>10. PlaceInv'
  <2>1. Opened' = Opened /\ Open(h).status # "done"
    BY <1>2 DEF Opened, Open
  <2>2. WaitInv'
    BY <1>2, <2>1 DEF PlaceInv, WaitInv
  <2>3. BusyInv'
    BY <1>2, <1>4, <1>5, <2>1, SMTT(30) DEF PlaceInv, BusyInv
  <2>4. DoneInv'
    BY <1>2, <1>4, <2>1 DEF PlaceInv, DoneInv
  <2> QED BY <1>2, <2>1, <2>2, <2>3, <2>4 DEF PlaceInv
<1>11. LinkInv'
  <2>1. IsFound(h) /\ \A l \in Url : Open(h) = Open(l) => l = h
    BY <1>7 DEF IsFound, Open
  <2>2. \A i \in 1..Len(evts') : \A l \in Url : evts'[i] = Open(l) => IsFound(l)'
    BY <1>2, <1>4, <2>1, SameFound DEF LinkInv
  <2>3. ASSUME NEW v \in Worker, NEW x \in Url, Busy(v)', worker'[v].url = x,
               NEW i \in 1..Len(worker'[v].links)
        PROVE  worker'[v].links[i] \in LinksOf(x)'
    <3>1. Busy(v) /\ worker[v].url = x
      BY <1>5, <2>3
    <3>2. CASE v = w
      BY <1>2, <1>6, <2>3, <3>1, <3>2, SameFound DEF LinkInv
    <3>3. CASE v # w
      BY <1>2, <1>5, <2>3, <3>1, <3>3, SameFound DEF LinkInv
    <3> QED BY <3>2, <3>3
  <2> QED BY <2>2, <2>3 DEF LinkInv
<1>12. CoverInv'
  <2>1. \A l : Settled(l)' = Settled(l)
    BY <1>2 DEF Settled, Full, Opening
  <2>2. \A v, l : Ahead(v, l) => Ahead(v, l)'
    BY <1>3, LaterEvent, Events
  <2>3. Ahead(u, h)'
    <3>1. \A i \in 1..Len(evts) : evts'[i] # Done(u)
      BY <1>1, <1>4, <1>5, Events DEF PlaceInv, BusyInv
    <3>2. Open(h) # Done(u)
      BY DEF Open, Done
    <3>3. \A i \in 1..(Len(evts) + 1) : i \in 1..Len(evts) \/ i = Len(evts) + 1
      BY <1>4
    <3> QED BY <1>4, <3>1, <3>2, <3>3 DEF Ahead
  <2>4. ASSUME NEW v, NEW l, Unsent(v, l) PROVE Unsent(v, l)' \/ Ahead(v, l)'
    <3>1. PICK x \in Worker : /\ Busy(x) /\ worker[x].url = v
                              /\ \E i \in 1..Len(worker[x].links) : worker[x].links[i] = l
      BY <2>4 DEF Unsent
    <3>2. CASE x # w
      BY <1>5, <3>1, <3>2 DEF Unsent
    <3>3. CASE x = w
      <4>1. PICK i \in 1..Len(worker[w].links) : worker[w].links[i] = l
        BY <3>1, <3>3
      <4>2. CASE i = 1
        BY <1>1, <1>3, <2>3, <3>1, <3>3, <4>1, <4>2
      <4>3. CASE i # 1
        BY <1>5, <1>6, <3>1, <3>3, <4>1, <4>3 DEF Unsent
      <4> QED BY <4>2, <4>3
    <3> QED BY <3>2, <3>3
  <2>5. evts # <<>> => evts'[1] = evts[1]
    BY <1>4, EmptySeq
  <2> QED BY <1>2, <1>4, <2>1, <2>2, <2>4, <2>5, SameFound DEF CoverInv
<1>13. FileInv'
  BY <1>2, <1>5, SameFound DEF FileInv, InFile, ToEmit
<1> QED BY <1>8, <1>9, <1>10, <1>11, <1>12, <1>13

LEMMA SendDoneStep == ASSUME IInv, NEW w \in Worker, SendDone(w) PROVE IInv'
<1> USE DEF IInv
<1>1. PICK u \in Url : u = worker[w].url /\ evts' = Append(evts, Done(u))
  BY DEF SendDone, TypeInv, Reading
<1>2. /\ worker[w].links = <<>> /\ worker' = [worker EXCEPT ![w] = Idle]
      /\ worker[w].pc = "links"
      /\ UNCHANGED <<limit, tofile, waitDoing, main, pendings, dones, pages, outfile>>
  BY DEF SendDone
<1>3. /\ evts \in Seq(Event) /\ evts' \in Seq(Event) /\ evts' # <<>> /\ Len(evts) \in Nat
      /\ Len(evts) + 1 \in 1..Len(evts') /\ evts'[Len(evts) + 1] = Done(u)
      /\ \A i \in 1..Len(evts) : i \in 1..Len(evts') /\ evts'[i] = evts[i]
      /\ \A i \in 1..Len(evts') : i \in 1..Len(evts) \/ i = Len(evts) + 1
  BY <1>1, Added, Events DEF TypeInv
<1>4. /\ \A v \in Worker : v # w => worker'[v] = worker[v] /\ Busy(v)' = Busy(v)
      /\ worker'[w].pc = "take" /\ ~Busy(w)' /\ Busy(w)
  BY <1>2 DEF TypeInv, Busy, Idle
<1>5. TypeInv'
  <2>1. Idle \in Reading
    BY UrlGraphAssumption, EmptySeq DEF Idle, Reading
  <2> QED BY <1>2, <1>3, <2>1 DEF TypeInv, Reading
<1>6. MainInv'
  BY <1>2, SameFound DEF MainInv, Opening, Closed
<1>7. PlaceInv'
  <2>1. Opened' = Opened
    BY <1>2 DEF Opened
  <2>2. WaitInv'
    BY <1>2, <2>1 DEF PlaceInv, WaitInv
  <2>3. /\ u \in DOMAIN pages \ dones
        /\ \A i \in 1..Len(evts) : evts[i].status = "done" => evts[i].url # u
        /\ \A v \in Worker : v # w /\ Busy(v) => worker[v].url # u
    BY <1>1, <1>4 DEF PlaceInv, BusyInv
  <2>4. BusyInv'
    BY <1>2, <1>3, <1>4, <2>3, Events DEF PlaceInv, BusyInv
  <2>5. DoneInv'
    BY <1>2, <1>3, <2>3, Events DEF PlaceInv, DoneInv
  <2> QED BY <1>2, <2>1, <2>2, <2>4, <2>5 DEF PlaceInv
<1>8. LinkInv'
  <2>1. \A l \in Url : Done(u) # Open(l)
    BY DEF Open, Done
  <2> QED BY <1>2, <1>3, <1>4, <2>1, SameFound, SMTT(30) DEF LinkInv
<1>9. CoverInv'
  <2>1. \A l : Settled(l)' = Settled(l)
    BY <1>2 DEF Settled, Full, Opening
  <2>2. \A v, l : Ahead(v, l) => Ahead(v, l)'
    BY <1>1, LaterEvent, Events
  <2>3. \A v, l : Unsent(v, l) => Unsent(v, l)'
    BY <1>2, <1>4 DEF Unsent
  <2>4. evts # <<>> => evts'[1] = evts[1]
    BY <1>3, EmptySeq
  <2> QED BY <1>2, <1>3, <2>1, <2>2, <2>3, <2>4, SameFound DEF CoverInv
<1>10. FileInv'
  <2>1. \A v \in Url : InFile(v)' = InFile(v) /\ ToEmit(v)' = ToEmit(v)
    BY <1>2, <1>4 DEF InFile, ToEmit
  <2> QED BY <1>2, <2>1, SameFound DEF FileInv
<1> QED BY <1>5, <1>6, <1>7, <1>8, <1>9, <1>10

LEMMA WriteStep == ASSUME IInv, Write PROVE IInv'
<1> USE DEF IInv
<1>1. PICK r \in Url \cup {Mark} : r = Head(tofile) /\ r = tofile[1]
  BY Removed DEF Write, TypeInv
<1>2. /\ outfile.open
      /\ outfile' = IF r = Mark THEN [outfile EXCEPT !.open = FALSE]
                    ELSE [outfile EXCEPT !.urls = @ \cup {r}]
      /\ UNCHANGED <<limit, evts, waitDoing, main, pendings, dones, worker, pages>>
      /\ tofile' \in Seq(Url \cup {Mark}) /\ Len(tofile) \in Nat /\ 1 \in 1..Len(tofile)
      /\ Len(tofile') = Len(tofile) - 1
      /\ \A i \in 1..Len(tofile') : i + 1 \in 1..Len(tofile) /\ tofile'[i] = tofile[i + 1]
      /\ \A i \in 1..Len(tofile) : i # 1 => i - 1 \in 1..Len(tofile')
                                            /\ tofile'[i - 1] = tofile[i]
  BY <1>1, Removed DEF Write, TypeInv, Mark
<1>3. TypeInv'
  BY <1>2 DEF TypeInv
<1>4. MainInv'
  BY <1>2, SameFound DEF MainInv, Opening, Closed
<1>5. PlaceInv'
  BY <1>2 DEF PlaceInv, WaitInv, BusyInv, DoneInv, Opened, Busy
<1>6. LinkInv'
  BY <1>2, SameFound DEF LinkInv, Busy
<1>7. CoverInv'
  <2>1. /\ \A l : Settled(l)' = Settled(l)
        /\ \A v, l : Ahead(v, l)' = Ahead(v, l) /\ Unsent(v, l)' = Unsent(v, l)
    BY <1>2 DEF Settled, Full, Opening, Ahead, Unsent, Busy
  <2> QED BY <1>2, <2>1, SameFound DEF CoverInv
<1>8. FileInv'
  <2>1. \A v : ToEmit(v)' = ToEmit(v)
    BY <1>2 DEF ToEmit
  <2>2. CASE r = Mark
    <3>1. main.pc = "over" /\ Len(tofile) = 1
      BY <1>1, <1>2, <2>2 DEF FileInv
    <3>2. Len(tofile') = 0 /\ tofile' = <<>> /\ ~outfile'.open /\ outfile'.urls = outfile.urls
      BY <1>2, <2>2, <3>1, EmptySeq DEF TypeInv
    <3>3. \A v \in Url : InFile(v)' = InFile(v)
      BY <1>1, <1>2, <2>2, <3>1, <3>2, UrlGraphAssumption DEF InFile, Mark
    <3> QED BY <1>2, <2>1, <3>1, <3>2, <3>3, SameFound DEF FileInv
  <2>3. CASE r # Mark
    <3>1. outfile'.open /\ outfile'.urls = outfile.urls \cup {r}
      BY <1>2, <2>3 DEF TypeInv
    <3>2. \A v \in Url : InFile(v)' <=> InFile(v)
      BY <1>1, <1>2, <3>1 DEF InFile
    <3>3. \A i \in 1..Len(tofile') : tofile'[i] = Mark => main'.pc = "over" /\ i = Len(tofile')
      BY <1>2 DEF FileInv
    <3> QED BY <1>2, <2>1, <3>1, <3>2, <3>3, SameFound DEF FileInv
  <2> QED BY <2>2, <2>3
<1> QED BY <1>3, <1>4, <1>5, <1>6, <1>7, <1>8

LEMMA IInvInit == Init => IInv
<1> SUFFICES ASSUME Init PROVE IInv
  OBVIOUS
<1>1. /\ evts \in Seq(Event) /\ evts # <<>> /\ Len(evts) = 1 /\ evts[1] = Open(Entry)
      /\ <<>> \in Seq(Url) /\ <<>> \in Seq(Url \cup {Mark}) /\ Len(<<>>) = 0
      /\ DOMAIN pages = {}
  BY UrlGraphAssumption, Events DEF Init
<1>2. /\ IsFiniteSet(pendings) /\ Cardinality(pendings) = 0
  BY FS_EmptySet DEF Init
<1>3. TypeInv
  <2>1. pages \in [DOMAIN pages -> Page]
    BY <1>1 DEF Init
  <2>2. worker \in [Worker -> Reading]
    BY <1>1, UrlGraphAssumption DEF Init, Idle, Reading
  <2> QED BY <1>1, <1>2, <2>1, <2>2, UrlGraphAssumption DEF Init, TypeInv
<1>4. \A w \in Worker : ~Busy(w)
  BY DEF Init, Busy, Idle
<1>5. MainInv
  BY <1>2, UrlGraphAssumption DEF Init, MainInv, Opening, Closed
<1>6. PlaceInv
  BY <1>1, <1>4 DEF Init, PlaceInv, WaitInv, BusyInv, DoneInv, Open
<1>7. LinkInv
  BY <1>1, <1>4 DEF LinkInv, IsFound, Open
<1>8. CoverInv
  BY <1>1 DEF Init, CoverInv
<1>9. FileInv
  BY <1>1, <1>4 DEF Init, FileInv, Given, InFile, ToEmit, Busy
<1> QED BY <1>3, <1>5, <1>6, <1>7, <1>8, <1>9 DEF IInv

LEMMA IInvNext == IInv /\ [Next]_vars => IInv'
<1> SUFFICES ASSUME IInv, [Next]_vars PROVE IInv'
  OBVIOUS
<1>1. CASE Main
  BY <1>1, OnOpenStep, SendWaitingStep, InsertStep, OnDoneStep, FinishStep DEF Main
<1>2. ASSUME NEW w \in Worker, Work(w) PROVE IInv'
  BY <1>2, TakeStep, QuitStep, EmitStep, SendLinkStep, SendDoneStep DEF Work
<1>3. CASE Write
  BY <1>3, WriteStep
<1>4. CASE UNCHANGED vars
  BY <1>4 DEF vars, IInv, TypeInv, MainInv, PlaceInv, WaitInv, BusyInv, DoneInv,
     LinkInv, CoverInv, FileInv, Busy, LinksOf, IsFound, Opening, Opened, Closed,
     Full, Settled, Ahead, Unsent, Given, InFile, ToEmit
<1> QED BY <1>1, <1>2, <1>3, <1>4 DEF Next, Ended

-----------------------------------------------------------------------------
(***************************************************************************)
(* Theorems.                                                               *)
(***************************************************************************)
LEMMA Invariant == Spec => []IInv
BY IInvInit, IInvNext, PTL DEF Spec

\* The file that start() closes has the result of each page that gave one, for
\* any capacity of tofile: the mark is sent after evts and waitDoing are closed,
\* when no coroutine is left that has a result to send.
THEOREM FileIsCompleteAlways == Spec => []FileIsComplete
<1>1. IInv => FileIsComplete
  <2> SUFFICES ASSUME IInv, ~outfile.open
               PROVE  outfile.urls = {u \in DOMAIN pages : pages[u].good}
    BY DEF FileIsComplete
  <2>1. Closed /\ Len(tofile) = 0
    BY DEF IInv, FileInv, Closed
  <2>2. \A u : ~ToEmit(u)
    BY <2>1, NoneBusy DEF IInv, ToEmit, Busy
  <2>3. \A u \in Url : Given(u) <=> u \in outfile.urls
    BY <2>1, <2>2 DEF IInv, FileInv, InFile
  <2>4. outfile.urls \subseteq Url /\ DOMAIN pages \subseteq Url
    BY DEF IInv, TypeInv, PlaceInv, Opened
  <2> QED BY <2>3, <2>4 DEF Given
<1> QED BY <1>1, Invariant, PTL

-----------------------------------------------------------------------------
(***************************************************************************)
(* The refinement: a step of the search is a step of Crawl or none.        *)
(***************************************************************************)
LEMMA CrawlInit == Init => C!Init
<1> SUFFICES ASSUME Init PROVE C!Init
  OBVIOUS
<1>1. DOMAIN pages = {}
  BY DEF Init
<1>2. [u \in DOMAIN pages |-> {pages[u].links[i] : i \in DOMAIN pages[u].links}] = <<>>
  BY <1>1
<1> QED BY <1>2, UrlGraphAssumption DEF Init, C!Init, Closed

LEMMA CrawlCardinality == \A S : C!Cardinality(S) = Cardinality(S)
BY DEF C!Cardinality, Cardinality, C!IsFiniteSet, IsFiniteSet

LEMMA CrawlStutters ==
  ASSUME UNCHANGED <<limit, pages, dones>>, Opened' = Opened, Closed' = Closed
  PROVE  UNCHANGED C!vars
BY DEF C!vars, Opened

LEMMA CrawlFound == ASSUME NEW l PROVE IsFound(l) <=> l \in C!Found
BY DEF IsFound, LinksOf, C!Found

LEMMA CrawlOpens == ASSUME IInv, SendWaiting PROVE ~Closed /\ C!Next
<1> USE DEF IInv
<1>1. PICK u \in Url : u = main.url
  BY DEF TypeInv
<1>2. /\ main.pc = "send" /\ main'.pc = "insert" /\ main'.url = u
      /\ UNCHANGED <<limit, pendings, dones, pages>>
  BY <1>1 DEF SendWaiting, TypeInv
<1>3. Opened = pendings /\ Opened' = pendings \cup {u} /\ ~Closed /\ ~Closed'
  BY <1>2 DEF Opened, Closed
<1>4. u \in C!Found \ pendings /\ (limit = 0 \/ Cardinality(pendings) < limit)
  BY <1>1, <1>2, CrawlFound DEF MainInv, Opening
<1>5. C!Open(u)
  <2>1. Closed' = Closed
    BY <1>2 DEF Closed
  <2>2. u \in C!Found \ Opened /\ (limit = 0 \/ Cardinality(Opened) < limit)
    BY <1>3, <1>4
  <2>3. Opened' = Opened \cup {u}
    BY <1>3
  <2> QED BY <1>2, <2>1, <2>2, <2>3, CrawlCardinality DEF C!Open, Opened
<1> QED BY <1>3, <1>5 DEF C!Next

LEMMA CrawlReads == ASSUME IInv, NEW w \in Worker, Take(w) PROVE ~Closed /\ C!Next
<1> USE DEF IInv
<1>1. PICK u \in Url : u = waitDoing[1] /\ u = Head(waitDoing) /\ 1 \in 1..Len(waitDoing)
  BY Removed DEF Take, TypeInv
<1>2. PICK found \in [good : {TRUE}, links : LinkLists]
                        \cup {[good |-> FALSE, links |-> <<>>]} :
        /\ pages' = [v \in DOMAIN pages \cup {u} |-> IF v = u THEN found ELSE pages[v]]
        /\ worker' = [worker EXCEPT ![w] =
             [pc |-> IF found.good THEN "emit" ELSE "links", url |-> u, links |-> found.links]]
  <2>1. Head(waitDoing) = u
    BY <1>1
  <2> QED BY <2>1 DEF Take
<1>3. UNCHANGED <<limit, main, pendings, dones>> /\ ~Closed
  BY DEF Take
<1>4. u \in Opened \ DOMAIN pages
  BY <1>1 DEF PlaceInv, WaitInv
<1> DEFINE links == {found.links[i] : i \in DOMAIN found.links}
<1>5. links \in SUBSET Url
  <2>1. found.links \in Seq(Url)
    BY FoundIsPage DEF Page
  <2> QED BY <2>1
<1>6. C!Read(u, links)
  BY <1>2, <1>3, <1>4 DEF C!Read, Opened, Closed
<1>7. u \in Url /\ \E ls \in SUBSET Url : C!Read(u, ls)
  BY <1>5, <1>6
<1> HIDE DEF links
<1>8. C!Next
  BY ONLY <1>7 DEF C!Next
<1> QED BY <1>3, <1>8

\* When all that is opened is done, all that was found is opened, or there are
\* as many as the limit.
LEMMA AllIsFound ==
  ASSUME IInv, OnDone, dones' = pendings
  PROVE  C!Found \subseteq pendings \/ Cardinality(pendings) = limit
<1> USE DEF IInv
<1> DEFINE u == evts[1].url
<1>1. /\ main.pc = "event" /\ evts # <<>> /\ evts[1].status = "done" /\ 1 \in 1..Len(evts)
      /\ dones' = dones \cup {u} /\ evts[1] = Done(u)
  BY Removed, Events DEF OnDone, TypeInv
<1>2. limit \in Nat /\ Cardinality(pendings) \in Nat
  BY FS_CardinalityType DEF TypeInv
<1>3. CASE Full
  BY <1>2, <1>3 DEF Full, MainInv
<1>4. CASE ~Full
  <2> SUFFICES ASSUME NEW l, IsFound(l) PROVE l \in pendings
    BY CrawlFound
  <2>1. Settled(l) => l \in pendings
    BY <1>1, <1>4 DEF Settled, Opening
  <2>2. CASE l = Entry
    BY <1>1, <2>1, <2>2 DEF CoverInv, Open
  <2>3. CASE l # Entry
    <3>1. PICK v \in DOMAIN pages : l \in LinksOf(v)
      BY <2>3 DEF IsFound
    <3>2. v \in pendings
      BY <1>1 DEF PlaceInv, Opened
    <3>3. CASE v \in dones
      BY <2>1, <3>1, <3>3 DEF CoverInv
    <3>4. CASE v = u
      <4>1. ~Ahead(v, l)
        <5> SUFFICES ASSUME NEW j \in 1..Len(evts), \A i \in 1..j : evts[i] # Done(v)
                     PROVE  FALSE
          BY DEF Ahead
        <5> QED BY <1>1, <3>4
      <4>2. ~Unsent(v, l)
        BY <1>1, <3>4 DEF Unsent, PlaceInv, BusyInv
      <4> QED BY <2>1, <3>1, <4>1, <4>2 DEF CoverInv
    <3> QED BY <1>1, <3>2, <3>3, <3>4
  <2> QED BY <2>2, <2>3
<1> QED BY <1>3, <1>4

LEMMA CrawlFinishes == ASSUME IInv, OnDone PROVE ~Closed /\ C!Next
<1> USE DEF IInv
<1>1. PICK u \in Url : u = evts[1].url /\ evts[1].status = "done" /\ u = Head(evts).url
                       /\ 1 \in 1..Len(evts)
  BY Removed, Events DEF OnDone, TypeInv
<1>2. /\ main.pc = "event" /\ dones' = dones \cup {u}
      /\ main'.pc = IF dones' = pendings THEN "finish" ELSE "event"
      /\ UNCHANGED <<limit, pendings, pages>>
  BY <1>1 DEF OnDone, AllDone, TypeInv
<1>3. u \in DOMAIN pages \ dones
  BY <1>1 DEF PlaceInv, DoneInv
<1>4. Opened = pendings /\ Opened' = pendings /\ ~Closed
  BY <1>2 DEF Opened, Closed
<1>5. CASE dones' = pendings
  <2>1. Closed'
    BY <1>2, <1>5 DEF Closed
  <2>2. C!End(u)
    BY <1>2, <1>3, <1>4, <1>5, <2>1, AllIsFound, CrawlCardinality DEF C!End, Opened
  <2> QED BY <1>4, <2>2 DEF C!Next
<1>6. CASE dones' # pendings
  <2>1. Closed' = Closed /\ Opened' = Opened
    BY <1>2, <1>4, <1>6 DEF Closed
  <2>2. C!Finish(u)
    BY <1>2, <1>3, <2>1 DEF C!Finish, Opened
  <2> QED BY <1>4, <2>2 DEF C!Next
<1> QED BY <1>5, <1>6

LEMMA CrawlNext == IInv /\ [Next]_vars => [~Closed /\ C!Next]_(C!vars)
<1> SUFFICES ASSUME IInv, [Next]_vars PROVE (~Closed /\ C!Next) \/ UNCHANGED C!vars
  OBVIOUS
<1>1. CASE SendWaiting
  BY <1>1, CrawlOpens
<1>2. ASSUME NEW w \in Worker, Take(w) PROVE ~Closed /\ C!Next
  BY <1>2, CrawlReads
<1>3. CASE OnDone
  BY <1>3, CrawlFinishes
<1>4. CASE OnOpen
  <2>1. UNCHANGED <<limit, pages, dones, pendings>> /\ main'.pc \in {"event", "send"}
    BY <1>4 DEF OnOpen
  <2>2. Opened' = Opened /\ Closed' = Closed
    BY <1>4, <2>1 DEF OnOpen, Opened, Closed
  <2> QED BY <2>1, <2>2, CrawlStutters
<1>5. CASE Insert
  <2>1. UNCHANGED <<limit, pages, dones>> /\ Opened' = Opened /\ Closed' = Closed
    BY <1>5 DEF Insert, Opened, Closed
  <2> QED BY <2>1, CrawlStutters
<1>6. CASE Finish
  <2>1. UNCHANGED <<limit, pages, dones, pendings>> /\ main'.pc = "over"
    BY <1>6 DEF Finish, IInv, TypeInv
  <2>2. Opened' = Opened /\ Closed' = Closed
    BY <1>6, <2>1 DEF Finish, Opened, Closed
  <2> QED BY <2>1, <2>2, CrawlStutters
<1>7. ASSUME UNCHANGED <<limit, pages, dones, pendings, main>> PROVE UNCHANGED C!vars
  BY <1>7, CrawlStutters DEF Opened, Closed
<1>8. ASSUME NEW w \in Worker, Quit(w) \/ Emit(w) \/ SendLink(w) \/ SendDone(w)
      PROVE  UNCHANGED C!vars
  BY <1>7, <1>8 DEF Quit, Emit, SendLink, SendDone
<1>9. CASE Write \/ Ended \/ UNCHANGED vars
  BY <1>7, <1>9 DEF Write, Ended, vars
<1> QED BY <1>1, <1>2, <1>3, <1>4, <1>5, <1>6, <1>8, <1>9 DEF Next, Main, Work

\* The spider does what Crawl promises, for any pages, any number of coroutines
\* that read them and any capacity of waitDoing: Search opens and reads each page
\* once, up to the limit, and dones.size() == pendings.size() holds only when no
\* link of any page is left that should have been opened.
THEOREM SearchImplementsCrawl == Spec => ImplementsCrawl
BY Invariant, CrawlInit, CrawlNext, PTL DEF Spec, ImplementsCrawl, C!Spec
=============================================================================
