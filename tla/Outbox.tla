------------------------------- MODULE Outbox -------------------------------
(***************************************************************************)
(* What the digest promises about each listing of a chat: at-least-once    *)
(* delivery.  A listing is queued when it is discovered, posted to the     *)
(* chat only while it is queued, settled only after it was posted, and     *)
(* forgotten only when it is settled or when the operator asks for it.     *)
(***************************************************************************)
EXTENDS Naturals

CONSTANT Keys

VARIABLES
    status,     \* what is known of each listing
    copies,     \* how often the chat got it since it was queued
    forgetting  \* the operator's request to forget listings is being served

vars == <<status, copies>>

Init ==
    /\ status = [k \in Keys |-> "unknown"]
    /\ copies = [k \in Keys |-> 0]

Become(S, s) == status' = [k \in Keys |-> IF k \in S THEN s ELSE status[k]]

Queue(S) ==
    /\ \A k \in S : status[k] = "unknown"
    /\ Become(S, "queued")
    /\ UNCHANGED copies

Post(S) ==
    /\ \A k \in S : status[k] = "queued"
    /\ copies' = [k \in Keys |-> IF k \in S THEN copies[k] + 1 ELSE copies[k]]
    /\ UNCHANGED status

Settle(S) ==
    /\ \A k \in S : status[k] = "queued" /\ copies[k] > 0
    /\ Become(S, "settled")
    /\ UNCHANGED copies

Forget(S) ==
    /\ forgetting \/ \A k \in S : status[k] = "settled"
    /\ Become(S, "unknown")
    /\ copies' = [k \in Keys |-> IF k \in S THEN 0 ELSE copies[k]]

Next == \E S \in SUBSET Keys : Queue(S) \/ Post(S) \/ Settle(S) \/ Forget(S)

Spec == Init /\ [][Next]_vars
=============================================================================
