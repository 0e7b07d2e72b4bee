------------------------------ MODULE MCUrlGraph ------------------------------
(***************************************************************************)
(* An instance of UrlGraph for TLC: see MCUrlGraph.cfg.                    *)
(***************************************************************************)
EXTENDS UrlGraph

CONSTANTS w1, w2

\* No link, two others, or another one and back to the first page.
MCLinks == {<<>>, <<"b", "c">>, <<"d", "a">>}
=============================================================================
