---------------------------- MODULE MCBackOffice ----------------------------
(***************************************************************************)
(* What runs behind the customer: Access, Sessions, Configuration, the     *)
(* scheduled Reengagement, the prices of Offer and the bills of Sale.      *)
(* They share no variable, so that their interleavings show nothing new:   *)
(* each behaviour of this instance moves one of them and leaves the others *)
(* at their initial states.                                                *)
(***************************************************************************)
EXTENDS Access, Sessions, Configuration, Reengagement, Offer, Sale

VARIABLE part

backOffice == <<part, accessVars, sessionVars, configVars, reengagementVars, offerVars, saleVars>>

Codes == {<<"roles", "manage_roles">>, <<"employees", "manage_employees">>, <<"orders", "view">>}

\* An empty matrix, and one that keeps the rights to repair it.
Checkboxes == {{}, {<<"roles", "manage_roles">>, <<"employees", "manage_employees">>}}

Piece(price, discount, own, sized) ==
    [price |-> price, discount |-> discount, engravable |-> TRUE, engraving |-> own, letters |-> own, sized |-> sized]

\* As the category asks for sizes or not, with and without a discount and an engraving of its own.
Jewellery == {Piece(2, Unset, 1, TRUE), Piece(2, 1, Unset, FALSE),
              [Piece(2, Unset, 1, FALSE) EXCEPT !.engravable = FALSE]}

Policies == {[engravings |-> on, engraving |-> 2, letters |-> 0, boxes |-> on] : on \in BOOLEAN}

\* The rows of Offer while it does not move.
Unmoved == <<Piece(2, Unset, 1, TRUE), [engravings |-> TRUE, engraving |-> 2, letters |-> 0, boxes |-> TRUE],
             [c \in Colour |-> [active |-> FALSE, price |-> 1, left |-> 0]]>>

ValueOf == <<1, 2, 4>>

Init ==
    /\ part \in {"access", "sessions", "configuration", "reengagement", "offer", "sale"}
    /\ AccessInit /\ SessionsInit /\ ConfigurationInit /\ ReengagementInit /\ OfferInit /\ SaleInit
    /\ part = "offer" \/ <<product, general, colour>> = Unmoved

Next ==
    \/ /\ part = "access" /\ AccessNext
       /\ UNCHANGED <<part, sessionVars, configVars, reengagementVars, offerVars, saleVars>>
    \/ /\ part = "sessions" /\ SessionsNext
       /\ UNCHANGED <<part, accessVars, configVars, reengagementVars, offerVars, saleVars>>
    \/ /\ part = "configuration" /\ ConfigurationNext
       /\ UNCHANGED <<part, accessVars, sessionVars, reengagementVars, offerVars, saleVars>>
    \/ /\ part = "reengagement" /\ ReengagementNext
       /\ UNCHANGED <<part, accessVars, sessionVars, configVars, offerVars, saleVars>>
    \/ /\ part = "offer" /\ OfferNext
       /\ UNCHANGED <<part, accessVars, sessionVars, configVars, reengagementVars, saleVars>>
    \/ /\ part = "sale" /\ SaleNext
       /\ UNCHANGED <<part, accessVars, sessionVars, configVars, reengagementVars, offerVars>>

Spec == Init /\ [][Next]_backOffice /\ AccessFairness /\ SessionsFairness /\ ReengagementFairness

\* Every variable of the parts keeps its type, and a role that is gone is held by nobody.
TypeOK == /\ AccessTypeOK /\ SessionsTypeOK /\ ConfigurationTypeOK /\ ReengagementTypeOK
          /\ OfferTypeOK /\ SaleTypeOK
=============================================================================
