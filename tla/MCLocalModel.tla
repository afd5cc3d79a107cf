----------------------------- MODULE MCLocalModel -----------------------------
(* Small instances of LocalModel. *)
EXTENDS LocalModel
=============================================================================
