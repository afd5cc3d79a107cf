------------------------- MODULE MCNetworkLifecycle -------------------------
(* The runs of NetworkLifecycle: MaxStarts is set in each .cfg. *)
EXTENDS NetworkLifecycle
=============================================================================
