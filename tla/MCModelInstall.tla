---------------------------- MODULE MCModelInstall ----------------------------
(* Small instances of ModelInstall. *)
EXTENDS ModelInstall
=============================================================================
