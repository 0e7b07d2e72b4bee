---------------------------- MODULE MCRegistration ----------------------------
(***************************************************************************)
(* Bounds for TLC: see the MCRegistration*.cfg.                            *)
(***************************************************************************)
EXTENDS Registration
MCTwo == 1..2
MCThree == 1..3

\* The third node is there for gossip, in which heartbeats and reports have no
\* part: they are sent as long as it has not connected.
TwoWhileSending == sends > 0 => \A c \in DOMAIN owner : owner[c] \in MCTwo
=============================================================================
