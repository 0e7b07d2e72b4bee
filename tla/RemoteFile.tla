------------------------------ MODULE RemoteFile ------------------------------
(***************************************************************************)
(* What a file of OFS is to those that put and get it: a sequence of       *)
(* batches which only grows at its end, batches of which may be replaced,  *)
(* and a size which goes up, up to what is stored.                         *)
(***************************************************************************)
EXTENDS Naturals, Sequences

CONSTANT Batch

VARIABLES content, size

Init == content = <<>> /\ size = 0

Add == /\ \E x \in Batch : content' = Append(content, x)
       /\ UNCHANGED size

Replace == /\ \E i \in DOMAIN content, x \in Batch :
                content' = [content EXCEPT ![i] = x]
           /\ UNCHANGED size

Announce == /\ size' \in size + 1 .. Len(content)
            /\ UNCHANGED content

Next == Add \/ Replace \/ Announce

Spec == Init /\ [][Next]_<<content, size>>
=============================================================================
