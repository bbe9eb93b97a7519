------------------------------ MODULE ReplyLog ------------------------------
(***************************************************************************)
(* What the customer is promised: a reply answers the messages that came   *)
(* since the last one, so a conversation never gets a reply that answers   *)
(* nothing new.  AgentService.handle_incoming_message promises it, and     *)
(* Responder is shown to implement it.                                     *)
(***************************************************************************)
EXTENDS Naturals

VARIABLES
    arrived,     \* messages of the customer so far
    frontier,    \* the last message that has been answered
    replies      \* replies so far

vars == <<arrived, frontier, replies>>

Init == arrived = 0 /\ frontier = 0 /\ replies = 0

Arrive ==
    /\ arrived' = arrived + 1
    /\ UNCHANGED <<frontier, replies>>

Reply ==
    /\ frontier' \in (frontier + 1) .. arrived
    /\ replies' = replies + 1
    /\ UNCHANGED arrived

Next == Arrive \/ Reply

Spec == Init /\ [][Next]_vars
=============================================================================
