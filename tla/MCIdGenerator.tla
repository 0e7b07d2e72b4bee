---------------------------- MODULE MCIdGenerator ----------------------------
(***************************************************************************)
(* The instance of IdGenerator that TLC checks.                            *)
(***************************************************************************)
EXTENDS IdGenerator, TLC

CONSTANTS c1, c2, c3

\* Threads differ by nothing but their identity.
CallerSymmetry == Permutations(Caller)
=============================================================================
