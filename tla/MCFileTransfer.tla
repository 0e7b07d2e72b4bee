---------------------------- MODULE MCFileTransfer ----------------------------
(***************************************************************************)
(* Two uploads: of two batches, and of less than one.                      *)
(***************************************************************************)
EXTENDS FileTransfer

CONSTANTS c1, c2

MCLocal == [c \in Client |-> IF c = c1 THEN [full |-> 2, part |-> FALSE]
                                       ELSE [full |-> 0, part |-> TRUE]]
=============================================================================
