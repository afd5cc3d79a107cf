------------------------------ MODULE MCKvCache ------------------------------
(* Small instances of KvCache. *)
EXTENDS KvCache
=============================================================================
