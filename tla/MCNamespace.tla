----------------------------- MODULE MCNamespace -----------------------------
(***************************************************************************)
(* Bounds for TLC: see MCNamespace.cfg.                                    *)
(***************************************************************************)
EXTENDS Namespace, TLC
CONSTANTS a, b
MCName == {a, b}
MCSymmetry == Permutations(MCName)

\* A listing and the saves do not meet: both only read the tree.
ListsOrSaves == used.lists = 0 \/ used.saves = 0
=============================================================================
