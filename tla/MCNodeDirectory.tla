--------------------------- MODULE MCNodeDirectory ---------------------------
(* Small instances of NodeDirectory. *)
EXTENDS NodeDirectory
=============================================================================
