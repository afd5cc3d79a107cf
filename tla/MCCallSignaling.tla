--------------------------- MODULE MCCallSignaling ---------------------------
(* A small instance of CallSignaling.  The two devices are alike. *)
EXTENDS CallSignaling, TLC

Swap == Permutations(Peers)
=============================================================================
