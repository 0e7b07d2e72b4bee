-------------------------------- MODULE Crawl --------------------------------
(***************************************************************************)
(* What a search through pages promises: from an entry on, a page that is  *)
(* linked from a page read before is opened once and read once, up to a    *)
(* limit, and the search is over when nothing is left.                     *)
(***************************************************************************)
EXTENDS Naturals, FiniteSets

CONSTANTS Url, Entry

VARIABLES limit,  \* how many may be opened, 0 for any number
          opened,
          page,   \* the links of each page that has been read
          done,
          over

vars == <<limit, opened, page, done, over>>

Init == limit \in Nat /\ opened = {} /\ page = <<>> /\ done = {} /\ over = FALSE

Found == {Entry} \cup UNION {page[u] : u \in DOMAIN page}

Open(u) == /\ u \in Found \ opened
           /\ limit = 0 \/ Cardinality(opened) < limit
           /\ opened' = opened \cup {u}
           /\ UNCHANGED <<limit, page, done, over>>

Read(u, links) == /\ u \in opened \ DOMAIN page
                  /\ page' = [v \in DOMAIN page \cup {u} |->
                                IF v = u THEN links ELSE page[v]]
                  /\ UNCHANGED <<limit, opened, done, over>>

Finish(u) == /\ u \in DOMAIN page \ done
             /\ done' = done \cup {u}
             /\ UNCHANGED <<limit, opened, page, over>>

\* Finishing the last page ends it.
End(u) == /\ ~over
          /\ u \in DOMAIN page \ done
          /\ done' = done \cup {u}
          /\ done' = opened
          /\ Found \subseteq opened \/ Cardinality(opened) = limit
          /\ over' = TRUE
          /\ UNCHANGED <<limit, opened, page>>

Next == \E u \in Url : \/ Open(u) \/ Finish(u) \/ End(u)
                       \/ \E links \in SUBSET Url : Read(u, links)

Spec == Init /\ [][~over /\ Next]_vars
=============================================================================
