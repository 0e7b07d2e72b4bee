--------------------------- MODULE MCMasterBlock ----------------------------
(***************************************************************************)
(* The instance of MasterBlock that TLC checks.                            *)
(***************************************************************************)
EXTENDS MasterBlock, TLC

CONSTANTS s1, s2

\* Servers differ by nothing but their identity.
ServerSymmetry == Permutations(Server)

\* The default configuration of a cluster.
OneRack == [s \in Server |-> 1]
=============================================================================
