---------------------------- MODULE MCPlacement ----------------------------
(***************************************************************************)
(* An instance of Placement for TLC: see MCPlacement.cfg.                  *)
(***************************************************************************)
EXTENDS Placement

Cluster(racks, centers) ==
  [rack |-> [s \in Server |-> racks[s]], dc |-> centers]

\* One center of two racks; two centers of which one has two racks; two
\* centers of one rack each.
MCLayouts == {Cluster(<<1, 1, 1, 2, 2>>, <<1, 1>>),
              Cluster(<<1, 1, 2, 3, 3>>, <<1, 1, 2>>),
              Cluster(<<1, 1, 1, 2, 2>>, <<1, 2>>)}

\* At most two servers are in trouble: not usable, or with a copy that does not
\* count.
TwoBad == Cardinality((registered \ usable)
             \cup {r.server : r \in {x \in Range(replicas) : ~IsGood(x)}}) <= 2
=============================================================================
