----------------------------- MODULE MCThreadPool -----------------------------
(* A small instance of ThreadPool. *)
EXTENDS ThreadPool

\* A graph whose products are cut by thread, with an empty node between them,
\* and one with a product of more chunks than threads.
MCGraphs == {<<1, 0, 1>>, <<8, 0>>}
=============================================================================
