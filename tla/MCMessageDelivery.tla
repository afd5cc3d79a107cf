------------------------- MODULE MCMessageDelivery -------------------------
(* Small instances of MessageDelivery for TLC. *)
EXTENDS MessageDelivery

CONSTANTS hash, phone  \* a peer known by its identity hash, a bare number

MCPhoneLike == {phone} \cap Peers

\* Rows the writers of dht_nodes store. An address or a key may be missing and
\* a key may be unusable; server rows have a blank phone or a number. Adding a
\* contact by hand (SettingsScreen) stores NoNode, whose phone is null, and a
\* later packet of that peer adds its address and key.
Reachable == [ip |-> TRUE, phone |-> "blank", key |-> "good"]
SmsOnly == [ip |-> FALSE, phone |-> "number", key |-> "none"]
Both == [ip |-> TRUE, phone |-> "number", key |-> "good"]
Broken == [ip |-> TRUE, phone |-> "blank", key |-> "bad"]
Unreachable == [ip |-> FALSE, phone |-> "blank", key |-> "good"]
Learnt == [ip |-> TRUE, phone |-> "null", key |-> "good"]

ManyRows == {Reachable, SmsOnly, Both, Broken, Unreachable, NoNode}
AllRows == ManyRows \cup {Learnt}
=============================================================================
