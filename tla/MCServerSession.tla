---------------------------- MODULE MCServerSession ----------------------------
(* A small instance of ServerSession. *)
EXTENDS ServerSession
=============================================================================
