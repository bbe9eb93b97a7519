------------------------------ MODULE MCOrders ------------------------------
(***************************************************************************)
(* Small shops for Orders: one ring variant and one box, both checked, and *)
(* a made-to-order ring, which is not.                                     *)
(***************************************************************************)
EXTENDS Orders

CONSTANTS
    ring, ringToOrder, box,    \* stock rows
    plain, boxed, made         \* baskets: a ring, a ring in a box, a ring made to order

Units(rows) == [s \in Stock |-> IF s \in rows THEN 1 ELSE 0]

OneOfEach == Units(Stock)
TwoOfEach == [s \in Stock |-> 2]

Rows == [b \in Basket |->
            CASE b = plain -> {ring}
              [] b = boxed -> {ring, box}
              [] b = made -> {ringToOrder}]

Catalog == [b \in Basket |-> [need |-> Units(Rows[b]), sellable |-> TRUE]]

NoEdits == [b \in Basket |-> {}]

\* The combo behind a basket may double a component, and its box may be deleted.
SomeEdits == [b \in Basket |->
                {Catalog[b]} \cup
                IF b = boxed THEN {[need |-> Units({ring}), sellable |-> FALSE]}
                             ELSE {[need |-> [s \in Stock |-> 2 * Units(Rows[b])[s]], sellable |-> TRUE]}]

\* The variant is booked before the size, engraving and box checks of the same item.  Bound: a row
\* that is not checked is never left booked, since repeating that has no limit.
Prefixes == [b \in Basket |-> {{}, (Rows[b] \cap Checked) \ {box}}]

Restock == {1}
NoCorrection == {}

\* The fulfilment steps of the board, one column after the other.
Forward == {<<"confirmed", "preparing">>, <<"preparing", "packed">>, <<"packed", "shipping">>,
            <<"shipping", "delivered">>, <<"delivered", "completed">>}

\* Moves that reopen and moves that skip the payment.
AnyMove == Status \X {"pending", "shipping"}

NoMove == {}
=============================================================================
