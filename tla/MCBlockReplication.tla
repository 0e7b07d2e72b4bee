------------------------- MODULE MCBlockReplication -------------------------
(***************************************************************************)
(* The instances of BlockReplication that TLC checks.                      *)
(***************************************************************************)
EXTENDS BlockReplication, TLC

CONSTANTS n1, n2, c1, c2

\* Nodes and coroutines differ by nothing but their identity.
Symmetry == Permutations(Server) \cup Permutations(Client)

\* The default configuration of a cluster.
OneRack == [n \in Server |-> 1]

Budget(ticks, writes, checks) ==
  [what \in Kinds |-> CASE what = "ticks" -> ticks
                       [] what = "writes" -> writes
                       [] what = "checks" -> checks
                       [] OTHER -> 0]

\* Three writes and a report; or two writes, two repairs and a lost connection.
RepairBudgets == {[Budget(1, 3, 0) EXCEPT !.reports = 1],
                  [Budget(2, 2, 2) EXCEPT !.drops = 1]}

\* Three writes and a repair; or two writes and a repair, with a crash and a
\* failed disk write, a lost connection, or a restart of the master.
CrashBudgets == {Budget(0, 3, 1),
                 [Budget(1, 2, 1) EXCEPT !.stops = 1, !.faults = 1],
                 [Budget(2, 2, 1) EXCEPT !.drops = 1],
                 [Budget(1, 2, 1) EXCEPT !.restarts = 1]}
=============================================================================
