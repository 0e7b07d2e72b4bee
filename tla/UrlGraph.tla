------------------------------- MODULE UrlGraph -------------------------------
(***************************************************************************)
(* The spider: UrlGraph::Search with the coroutines that read pages, what  *)
(* start() of main.cpp does with a page, and the coroutine that writes the *)
(* results to a file.  They share three channels: evts, which is           *)
(* unbounded, waitDoing and tofile, whose senders wait when it is full.    *)
(*                                                                         *)
(* Channels are those of hnet: first in, first out, each with one reader   *)
(* that a value goes to.                                                   *)
(***************************************************************************)
EXTENDS Naturals, Sequences, FiniteSets

CONSTANTS Url, Entry,
          LinkLists,   \* the links that a page can have
          Worker,      \* processorCount of them
          Limits,      \* the limits that Search is called with
          WaitSize,    \* capacities of waitDoing
          FileSize     \* and of tofile

\* A result ends with a line break, so none is the mark that ends the file.
ASSUME UrlGraphAssumption ==
  /\ "##END##" \notin Url
  /\ Entry \in Url /\ LinkLists \subseteq Seq(Url)
  /\ Limits \subseteq Nat
  /\ WaitSize \in Nat \ {0} /\ FileSize \in Nat \ {0}

VARIABLES limit,
          evts, waitDoing, tofile,
          main,      \* Search: [pc, url]
          pendings, dones,
          worker,    \* [pc, url, links], links still to be sent
          pages,     \* what was found on each page
          outfile    \* [open, urls], the results that have been written

vars == <<limit, evts, waitDoing, tofile, main, pendings, dones, worker, pages,
          outfile>>

Open(u) == [url |-> u, status |-> "open"]
Done(u) == [url |-> u, status |-> "done"]

Idle == [pc |-> "take", url |-> Entry, links |-> <<>>]

Init == /\ limit \in Limits
        /\ evts = <<Open(Entry)>>
        /\ waitDoing = <<>>
        /\ tofile = <<>>
        /\ main = [pc |-> "event", url |-> Entry]
        /\ pendings = {}
        /\ dones = {}
        /\ worker = [w \in Worker |-> Idle]
        /\ pages = <<>>
        /\ outfile = [open |-> TRUE, urls |-> {}]

-----------------------------------------------------------------------------
(***************************************************************************)
(* The loop of Search, and the end of start().                             *)
(***************************************************************************)
\* Mutant: a url that is still being read is opened again.
WantedAgain(u) == /\ limit = 0 \/ Cardinality(pendings) < limit
                  /\ u \notin dones

Wanted(u) == /\ limit = 0 \/ Cardinality(pendings) < limit
             /\ u \notin pendings

OnOpen ==
  /\ main.pc = "event" /\ evts # <<>> /\ Head(evts).status = "open"
  /\ main' = IF Wanted(Head(evts).url)
             THEN [pc |-> "send", url |-> Head(evts).url] ELSE main
  /\ evts' = Tail(evts)
  /\ UNCHANGED <<limit, waitDoing, tofile, pendings, dones, worker, pages, outfile>>

\* A reader may take it before it is among the pendings.
SendWaiting ==
  /\ main.pc = "send" /\ Len(waitDoing) < WaitSize
  /\ waitDoing' = Append(waitDoing, main.url)
  /\ main' = [main EXCEPT !.pc = "insert"]
  /\ UNCHANGED <<limit, evts, tofile, pendings, dones, worker, pages, outfile>>

Insert ==
  /\ main.pc = "insert"
  /\ pendings' = pendings \cup {main.url}
  /\ main' = [pc |-> "event", url |-> Entry]
  /\ UNCHANGED <<limit, evts, waitDoing, tofile, dones, worker, pages, outfile>>

\* Mutant: the search is over when no event is left.
NoneLeft == Len(evts) = 1

AllDone == dones' = pendings

OnDone ==
  /\ main.pc = "event" /\ evts # <<>> /\ Head(evts).status = "done"
  /\ dones' = dones \cup {Head(evts).url}
  /\ main' = IF AllDone THEN [main EXCEPT !.pc = "finish"] ELSE main
  /\ evts' = Tail(evts)
  /\ UNCHANGED <<limit, waitDoing, tofile, pendings, worker, pages, outfile>>

\* The channels are closed; start() sends the mark that ends the file.
Closed == main.pc \in {"finish", "over"}

Finish ==
  /\ main.pc = "finish" /\ Len(tofile) < FileSize
  /\ tofile' = Append(tofile, "##END##")
  /\ main' = [main EXCEPT !.pc = "over"]
  /\ UNCHANGED <<limit, evts, waitDoing, pendings, dones, worker, pages, outfile>>

-----------------------------------------------------------------------------
(***************************************************************************)
(* A coroutine that reads pages.                                           *)
(***************************************************************************)
\* The next url is taken and read.  A page that is bad or not as expected gives
\* neither a result nor links.
Take(w) ==
  LET u == Head(waitDoing)
  IN  /\ worker[w].pc = "take" /\ ~Closed /\ waitDoing # <<>>
      /\ waitDoing' = Tail(waitDoing)
      /\ \E found \in [good : {TRUE}, links : LinkLists]
                        \cup {[good |-> FALSE, links |-> <<>>]} :
           /\ pages' = [v \in DOMAIN pages \cup {u} |->
                          IF v = u THEN found ELSE pages[v]]
           /\ worker' = [worker EXCEPT ![w] =
                [pc |-> IF found.good THEN "emit" ELSE "links",
                 url |-> u, links |-> found.links]]
      /\ UNCHANGED <<limit, evts, tofile, main, pendings, dones, outfile>>

\* hn_channel_close_exception.
Quit(w) ==
  /\ worker[w].pc = "take" /\ Closed
  /\ worker' = [worker EXCEPT ![w].pc = "quit"]
  /\ UNCHANGED <<limit, evts, waitDoing, tofile, main, pendings, dones, pages, outfile>>

Emit(w) ==
  /\ worker[w].pc = "emit" /\ Len(tofile) < FileSize
  /\ tofile' = Append(tofile, worker[w].url)
  /\ worker' = [worker EXCEPT ![w].pc = "links"]
  /\ UNCHANGED <<limit, evts, waitDoing, main, pendings, dones, pages, outfile>>

\* Mutant: evts is as long as waitDoing.
RoomAsWaiting == Len(evts) < WaitSize

\* evts takes any number.
Room == TRUE

SendLink(w) ==
  /\ worker[w].pc = "links" /\ worker[w].links # <<>> /\ Room
  /\ evts' = Append(evts, Open(Head(worker[w].links)))
  /\ worker' = [worker EXCEPT ![w].links = Tail(@)]
  /\ UNCHANGED <<limit, waitDoing, tofile, main, pendings, dones, pages, outfile>>

SendDone(w) ==
  /\ worker[w].pc = "links" /\ worker[w].links = <<>> /\ Room
  /\ evts' = Append(evts, Done(worker[w].url))
  /\ worker' = [worker EXCEPT ![w] = Idle]
  /\ UNCHANGED <<limit, waitDoing, tofile, main, pendings, dones, pages, outfile>>

-----------------------------------------------------------------------------
(***************************************************************************)
(* The coroutine that writes the file.                                     *)
(***************************************************************************)
Write ==
  /\ outfile.open /\ tofile # <<>>
  /\ outfile' = IF Head(tofile) = "##END##"
                THEN [outfile EXCEPT !.open = FALSE]
                ELSE [outfile EXCEPT !.urls = @ \cup {Head(tofile)}]
  /\ tofile' = Tail(tofile)
  /\ UNCHANGED <<limit, evts, waitDoing, main, pendings, dones, worker, pages>>

Main == OnOpen \/ SendWaiting \/ Insert \/ OnDone \/ Finish

Work(w) == Take(w) \/ Quit(w) \/ Emit(w) \/ SendLink(w) \/ SendDone(w)

\* The program has come to its end.
Ended == /\ ~outfile.open
         /\ \A w \in Worker : worker[w].pc = "quit"
         /\ UNCHANGED vars

Next == Main \/ (\E w \in Worker : Work(w)) \/ Write \/ Ended

\* Coroutines are scheduled, and a request that takes too long is bad.
Spec == /\ Init /\ [][Next]_vars
        /\ WF_vars(Main) /\ WF_vars(Write) /\ \A w \in Worker : WF_vars(Work(w))

-----------------------------------------------------------------------------
(***************************************************************************)
(* Properties.                                                             *)
(***************************************************************************)
C == INSTANCE Crawl
       WITH opened <- pendings \cup (IF main.pc = "insert" THEN {main.url} ELSE {}),
            page <- [u \in DOMAIN pages |-> {pages[u].links[i] : i \in DOMAIN pages[u].links}],
            done <- dones,
            over <- Closed

\* dones.size() == pendings.size() finds the end of the search: each url is read
\* once, by whichever coroutine takes it, no more of them than the limit, and
\* when the search ends all that was found has been read.
ImplementsCrawl == C!Spec

\* The mark comes after all results: the file that is closed has one for each
\* page that gave one.
FileIsComplete ==
  ~outfile.open => outfile.urls = {u \in DOMAIN pages : pages[u].good}

\* The search ends and the file is closed, although reader, loop and writer wait
\* for each other at three channels.
SearchEnds == <>(main.pc = "over" /\ ~outfile.open)
=============================================================================
