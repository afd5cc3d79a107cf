--------------------------- MODULE ChunkedDownload ---------------------------
(***************************************************************************)
(* What downloadFileP2P promises its callers, whatever the network does:   *)
(* chunks reach the output file one by one and are never taken out again,  *)
(* a call ends once, and it ends with the file only when every chunk of    *)
(* the seeded file is in it.                                               *)
(***************************************************************************)

CONSTANTS
    Parts,      \* the chunks a caller asks for
    Calls       \* calls of downloadFileP2P

VARIABLES
    stored,     \* chunks whose seeded bytes are in the output file
    outcome     \* what each call returned, or "none"

Init == stored = {} /\ outcome = [d \in Calls |-> "none"]

Store(c) == stored' = stored \cup {c} /\ UNCHANGED outcome

Succeed(d) == /\ outcome[d] = "none"
              /\ stored = Parts
              /\ outcome' = [outcome EXCEPT ![d] = "file"]
              /\ UNCHANGED stored

GiveUp(d) == /\ outcome[d] = "none"
             /\ outcome' = [outcome EXCEPT ![d] = "null"]
             /\ UNCHANGED stored

Next == \/ \E c \in Parts : Store(c)
        \/ \E d \in Calls : Succeed(d) \/ GiveUp(d)

Spec == Init /\ [][Next]_<<stored, outcome>>
=============================================================================
