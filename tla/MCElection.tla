------------------------------ MODULE MCElection ------------------------------
(***************************************************************************)
(* Bounds for TLC: see MCElection.cfg.                                     *)
(***************************************************************************)
EXTENDS Election
MCServer == 1..3

\* Two servers that have a leader are a quorum.
TwoClaims == Cardinality(DOMAIN otherVote) <= 2
=============================================================================
