--------------------------- MODULE MCFrontOffice ----------------------------
(***************************************************************************)
(* The customer side of the system beside the orders and the responder:    *)
(* messages in and out, addresses, stories, cards, the catalogue.          *)
(* The parts share no variable, so that their interleavings show nothing   *)
(* new: each behaviour moves one of Parts and leaves the others at their   *)
(* initial states.                                                         *)
(***************************************************************************)
EXTENDS Inbox, Outbox, Checkout, Stories, Cards, Catalog, TLC

CONSTANTS Parts, p1, p2, m1, m2, m3, m4, city, far, branch, ring, set, v1, v2

VARIABLE part

\* A payload of two messages and one of one.
EventsOf == p1 :> <<"a", "b">> @@ p2 :> <<"c">>

Message(channel, kind, chunks) == [channel |-> channel, kind |-> kind, chunks |-> chunks]
Shapes == m1 :> Message("telegram", "text", 2) @@ m2 :> Message("instagram", "image", 2)
          @@ m3 :> Message("instagram", "carousel", 1) @@ m4 :> Message("telegram", "notice", 1)

BranchNearby == city :> branch @@ far :> branch

OwnerOf == v1 :> ring @@ v2 :> set

frontOffice == <<part, inboxVars, outboxVars, checkoutVars, storyVars, cardVars, catalogVars>>

Init ==
    /\ part \in Parts
    /\ InboxInit /\ OutboxInit /\ CheckoutInit /\ StoriesInit /\ CardsInit /\ CatalogInit

Next ==
    \/ /\ part = "inbox" /\ InboxNext
       /\ UNCHANGED <<part, outboxVars, checkoutVars, storyVars, cardVars, catalogVars>>
    \/ /\ part = "outbox" /\ OutboxNext
       /\ UNCHANGED <<part, inboxVars, checkoutVars, storyVars, cardVars, catalogVars>>
    \/ /\ part = "checkout" /\ CheckoutNext
       /\ UNCHANGED <<part, inboxVars, outboxVars, storyVars, cardVars, catalogVars>>
    \/ /\ part = "stories" /\ StoriesNext
       /\ UNCHANGED <<part, inboxVars, outboxVars, checkoutVars, cardVars, catalogVars>>
    \/ /\ part = "cards" /\ CardsNext
       /\ UNCHANGED <<part, inboxVars, outboxVars, checkoutVars, storyVars, catalogVars>>
    \/ /\ part = "catalog" /\ CatalogNext
       /\ UNCHANGED <<part, inboxVars, outboxVars, checkoutVars, storyVars, cardVars>>

Spec == Init /\ [][Next]_frontOffice /\ InboxFairness

\* Every variable keeps its type: a combo holds plain variants only, a parcel's branch is one that can be chosen.
TypeOK ==
    /\ InboxTypeOK /\ OutboxTypeOK /\ CheckoutTypeOK
    /\ StoriesTypeOK /\ CardsTypeOK /\ CatalogTypeOK
=============================================================================
