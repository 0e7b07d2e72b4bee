-------------------------------- MODULE MCRpc --------------------------------
(***************************************************************************)
(* An instance of Rpc for TLC: see MCRpc.cfg.                              *)
(***************************************************************************)
EXTENDS Rpc

CONSTANTS beat, other
=============================================================================
