----------------------------- MODULE MCGraphAlloc -----------------------------
(* A small instance of GraphAlloc. *)
EXTENDS GraphAlloc

Frame(n, ext, size) == [leafs |-> n, ext |-> ext, size |-> size]

\* One input and three nodes of one size; an input and a weight with three
\* nodes of different sizes. With an alignment of 2, size 3 takes 4 bytes.
MCFrames == {Frame(1, {}, <<2, 2, 2, 2>>), Frame(2, {2}, <<2, 3, 3, 2, 3>>)}
=============================================================================
