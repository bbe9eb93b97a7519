------------------------------- MODULE Orders -------------------------------
(***************************************************************************)
(* Orders, payments and the stock reservation they share.                  *)
(*                                                                         *)
(* OrdersService, PaymentService and the status writes of DeliveryService  *)
(* are modelled at the grain of one database transaction: an action is one *)
(* handler up to its commit, and a handler that raises AppError changes    *)
(* nothing.  The one exception is in the code: the create_order tool of    *)
(* the AI agent catches AppError and leaves the session as the failed      *)
(* handler left it, so that the commit of the agent's reply keeps the half *)
(* that was done (AiCreateFails).                                          *)
(*                                                                         *)
(* A basket stands for the list of items of a request.  All that orders,   *)
(* payments and stock can tell of it is how many units of which stock row  *)
(* (variant or box) it takes, and whether every row it names can be sold   *)
(* today.  Both are looked up in the catalogue at every use, as            *)
(* resolve_stock_targets does: an order keeps the basket, never the units. *)
(***************************************************************************)
EXTENDS Integers, FiniteSets

CONSTANTS
    MaxOrders,       \* bound: how many orders are ever created
    Customer,
    Stock,           \* stock rows: variants and boxes
    Checked,         \* the rows whose availability is checked: boxes and "stocked" variants
    Basket,          \* what an order may contain
    MaxNeed,         \* bound: units of one row that a basket takes
    MaxStock,        \* bound: units of one row after a restock
    InitialStock,    \* stock_qty of each row at the start
    InitialCatalog,  \* the catalogue entry of each basket at the start
    Edits,           \* the entries an administrator may give a basket
    Prefix,          \* per basket: the sets of rows already booked when an item is refused
    Deltas,          \* the corrections of adjust_stock
    KanbanMoves,     \* the <<from, to>> moves that staff make on the board
    OwnerEdits,      \* whether staff ever change the customer of an order
    AiPath           \* whether the AI agent also places orders

Order == 1 .. MaxOrders    \* in the order of created_at

Active == {"draft", "pending", "waiting_payment", "payment_review"}
Cancellable == Active \cup {"confirmed", "preparing"}
Fulfilment == {"confirmed", "preparing", "packed", "shipping", "delivered", "completed"}
InContext == (Active \ {"draft"}) \cup (Fulfilment \ {"completed"})
BoardStatus == Active \cup Fulfilment    \* the statuses that set_status accepts
Status == BoardStatus \cup {"cancelled"}

PaymentStatus == {"pending", "approved", "rejected"}

Entry == [need : [Stock -> 0 .. MaxNeed], sellable : BOOLEAN]

ASSUME OrdersAssumption ==
    /\ MaxOrders \in Nat
    /\ MaxNeed \in Nat
    /\ MaxStock \in Nat
    /\ Customer # {} /\ Basket # {}
    /\ Checked \subseteq Stock
    /\ InitialStock \in [Stock -> 0 .. MaxStock]
    /\ InitialCatalog \in [Basket -> Entry]
    /\ Edits \in [Basket -> SUBSET Entry]
    /\ Prefix \in [Basket -> SUBSET SUBSET Stock]
    /\ Deltas \subseteq Int
    /\ KanbanMoves \subseteq Status \X BoardStatus
    /\ OwnerEdits \in BOOLEAN
    /\ AiPath \in BOOLEAN

VARIABLES
    status,      \* order.status; "none" while there is no such order
    owner,       \* order.customer_id
    basket,      \* the items of the order
    payment,     \* payment.status of the order; "none" while there is no payment
    stock,       \* stock_qty of each row
    reserved,    \* reserved_qty of each row
    catalog      \* what each basket takes today

vars == <<status, owner, basket, payment, stock, reserved, catalog>>

\* Every variable keeps its type: stock_qty and reserved_qty are never negative (the clamps of
\* approve, reject and cancel, the check of adjust_stock).
TypeOK ==
    /\ status \in [Order -> Status \cup {"none"}]
    /\ owner \in [Order -> Customer]
    /\ basket \in [Order -> Basket]
    /\ payment \in [Order -> PaymentStatus \cup {"none"}]
    /\ stock \in [Stock -> Nat]
    /\ reserved \in [Stock -> Nat]
    /\ catalog \in [Basket -> Entry]

-----------------------------------------------------------------------------
(* What the handlers are built from.                                       *)

Created == {o \in Order : status[o] # "none"}

\* Mutant of ActiveOf: the customer is left out of the query.
ActiveOfAnyone(c) == {o \in Order : status[o] \in Active}

\* Mutant of ActiveOf: an order whose receipt is under review is not superseded.
ActiveNotReviewed(c) == {o \in Order : status[o] \in Active \ {"payment_review"} /\ owner[o] = c}

ActiveOf(c) == {o \in Order : status[o] \in Active /\ owner[o] = c}
Need(o) == catalog[basket[o]].need

\* The units of row s that the orders in S take together.
Demand(S, s) == Cardinality({u \in S \X (1 .. MaxNeed) : u[2] <= Need(u[1])[s]})

\* Mutant of Less: the clamp is forgotten.
LessUnclamped(n, k) == n - k

\* max(0, n - k)
Less(n, k) == IF n > k THEN n - k ELSE 0

\* reserved_qty after the reservations of the orders in S are released, one after another.
Released(S) == [s \in Stock |-> Less(reserved[s], Demand(S, s))]

\* Mutant of Fits: stock_qty is looked at instead of available.
FitsStock(need, r) == \A s \in Checked : need[s] > 0 => need[s] <= stock[s]

\* Every checked row that is needed has that many units neither sold nor booked in r.
Fits(need, r) == \A s \in Checked : need[s] > 0 => need[s] <= stock[s] - r[s]

Booked(need, r) == [s \in Stock |-> r[s] + need[s]]

Only(need, rows) == [s \in Stock |-> IF s \in rows THEN need[s] ELSE 0]

\* The orders in the domain of f go to the status f gives them.
Become(f) == status' = [o \in Order |-> IF o \in DOMAIN f THEN f[o] ELSE status[o]]

-----------------------------------------------------------------------------
(* Orders.                                                                 *)

\* A new order ends every active order of its customer and takes over their units.
CreateOrder(o, c, b) ==
    LET old == ActiveOf(c) IN
    /\ o \notin Created
    /\ 1 .. (o - 1) \subseteq Created
    /\ catalog[b].sellable
    /\ Fits(catalog[b].need, Released(old))
    /\ Become([p \in old \cup {o} |-> IF p = o THEN "pending" ELSE "cancelled"])
    /\ owner' = [owner EXCEPT ![o] = c]
    /\ basket' = [basket EXCEPT ![o] = b]
    /\ reserved' = Booked(catalog[b].need, Released(old))
    /\ UNCHANGED <<payment, stock, catalog>>

\* The AI tool asks for a basket one of whose items is refused: the active orders are already
\* cancelled, the items before the refused one are booked, and the reply commits both.
AiCreateFails(c, b) ==
    LET old == ActiveOf(c) IN
    \E rows \in Prefix[b] :
        LET part == Only(catalog[b].need, rows) IN
        /\ AiPath
        /\ Fits(part, Released(old))
        /\ Become([p \in old |-> "cancelled"])
        /\ reserved' = Booked(part, Released(old))
        /\ UNCHANGED <<owner, basket, payment, stock, catalog>>

\* Mutant of ReplaceItems: the units of the old items are not given back.
ReplaceWithoutRelease(o, b) ==
    /\ status[o] \in Active
    /\ catalog[b].sellable
    /\ Fits(catalog[b].need, reserved)
    /\ basket' = [basket EXCEPT ![o] = b]
    /\ reserved' = Booked(catalog[b].need, reserved)
    /\ UNCHANGED <<status, owner, payment, stock, catalog>>

ReplaceItems(o, b) ==
    /\ status[o] \in Active
    /\ catalog[b].sellable
    /\ Fits(catalog[b].need, Released({o}))
    /\ basket' = [basket EXCEPT ![o] = b]
    /\ reserved' = Booked(catalog[b].need, Released({o}))
    /\ UNCHANGED <<status, owner, payment, stock, catalog>>

CancelOrder(o) ==
    /\ status[o] \in Cancellable
    /\ Become([p \in {o} |-> "cancelled"])
    /\ reserved' = Released({o})
    /\ UNCHANGED <<owner, basket, payment, stock, catalog>>

\* A drag on the board.  The code accepts any move to a board status; KanbanMoves is what staff do.
SetStatus(o, to) ==
    /\ o \in Created
    /\ <<status[o], to>> \in KanbanMoves
    /\ status[o] # to
    /\ Become([p \in {o} |-> to])
    /\ UNCHANGED <<owner, basket, payment, stock, reserved, catalog>>

\* The customer says the parcel arrived: the agent completes the newest open order.
CompleteOrder(o) ==
    /\ status[o] \in {"shipping", "delivered"}
    /\ \A p \in Order : p > o /\ owner[p] = owner[o] => status[p] \notin InContext
    /\ Become([p \in {o} |-> "completed"])
    /\ UNCHANGED <<owner, basket, payment, stock, reserved, catalog>>

UpdateOrder(o, c) ==
    /\ OwnerEdits
    /\ o \in Created
    /\ owner' = [owner EXCEPT ![o] = c]
    /\ UNCHANGED <<status, basket, payment, stock, reserved, catalog>>

-----------------------------------------------------------------------------
(* Delivery and payments.                                                  *)

\* Mutant of AddressSet: a late address reopens the order.
AddressReopens(o) ==
    /\ o \in Created
    /\ Become([p \in {o} |-> "waiting_payment"])
    /\ UNCHANGED <<owner, basket, payment, stock, reserved, catalog>>

\* confirm_location and set_text_address: the address of an order is known.
AddressSet(o) ==
    /\ status[o] = "pending"
    /\ Become([p \in {o} |-> "waiting_payment"])
    /\ UNCHANGED <<owner, basket, payment, stock, reserved, catalog>>

\* A receipt is accepted for an order in any status, as long as it is not paid.
SubmitPayment(o) ==
    /\ o \in Created
    /\ payment[o] # "approved"
    /\ payment' = [payment EXCEPT ![o] = "pending"]
    /\ Become([p \in {q \in {o} : status[q] \in {"waiting_payment", "pending"}} |-> "payment_review"])
    /\ UNCHANGED <<owner, basket, stock, reserved, catalog>>

\* Mutant of Approve: a second press of the button is not recognised.
ApproveAgain(o) ==
    /\ payment[o] # "none"
    /\ payment' = [payment EXCEPT ![o] = "approved"]
    /\ stock' = [s \in Stock |-> Less(stock[s], Demand({o}, s))]
    /\ reserved' = Released({o})
    /\ Become([p \in {o} |-> "confirmed"])
    /\ UNCHANGED <<owner, basket, catalog>>

\* Whatever became of the order meanwhile, its units are sold and it is confirmed.
Approve(o) ==
    /\ payment[o] \in {"pending", "rejected"}
    /\ payment' = [payment EXCEPT ![o] = "approved"]
    /\ stock' = [s \in Stock |-> Less(stock[s], Demand({o}, s))]
    /\ reserved' = Released({o})
    /\ Become([p \in {o} |-> "confirmed"])
    /\ UNCHANGED <<owner, basket, catalog>>

\* Mutant of Reject: an approved payment can be rejected.
RejectApproved(o) ==
    /\ payment[o] # "none"
    /\ payment' = [payment EXCEPT ![o] = "rejected"]
    /\ reserved' = Released({o})
    /\ UNCHANGED <<status, owner, basket, stock, catalog>>

\* The reservation is released, also when an earlier rejection did; the order stays where it is.
Reject(o) ==
    /\ payment[o] \in {"pending", "rejected"}
    /\ payment' = [payment EXCEPT ![o] = "rejected"]
    /\ reserved' = Released({o})
    /\ UNCHANGED <<status, owner, basket, stock, catalog>>

-----------------------------------------------------------------------------
(* Catalogue.                                                              *)

\* adjust_stock and adjust_box_stock look at stock_qty alone, never at reserved_qty.
AdjustStock(s, delta) ==
    /\ stock[s] + delta \in 0 .. MaxStock
    /\ stock' = [stock EXCEPT ![s] = stock[s] + delta]
    /\ UNCHANGED <<status, owner, basket, payment, reserved, catalog>>

\* A combo gets or loses a component, a variant or a box is deleted or switched off.
EditCatalog(b, entry) ==
    /\ catalog' = [catalog EXCEPT ![b] = entry]
    /\ UNCHANGED <<status, owner, basket, payment, stock, reserved>>

-----------------------------------------------------------------------------

Init ==
    /\ status = [o \in Order |-> "none"]
    /\ owner = [o \in Order |-> CHOOSE c \in Customer : TRUE]
    /\ basket = [o \in Order |-> CHOOSE b \in Basket : TRUE]
    /\ payment = [o \in Order |-> "none"]
    /\ stock = InitialStock
    /\ reserved = [s \in Stock |-> 0]
    /\ catalog = InitialCatalog

OrderStep(o) ==
    \/ \E c \in Customer, b \in Basket : CreateOrder(o, c, b)
    \/ \E b \in Basket : ReplaceItems(o, b)
    \/ CancelOrder(o)
    \/ \E to \in BoardStatus : SetStatus(o, to)
    \/ CompleteOrder(o)
    \/ \E c \in Customer : UpdateOrder(o, c)

PaymentStep(o) == AddressSet(o) \/ SubmitPayment(o) \/ Approve(o) \/ Reject(o)

CatalogStep ==
    \/ \E s \in Stock, delta \in Deltas : AdjustStock(s, delta)
    \/ \E b \in Basket : \E entry \in Edits[b] : EditCatalog(b, entry)

Next ==
    \/ \E o \in Order : OrderStep(o) \/ PaymentStep(o)
    \/ \E c \in Customer, b \in Basket : AiCreateFails(c, b)
    \/ CatalogStep

Spec == Init /\ [][Next]_vars
-----------------------------------------------------------------------------
(* Properties.                                                             *)

\* No checked row is ever booked beyond what is in stock, however creations, rejections,
\* retries, late approvals, board moves, catalogue edits and half-done AI orders follow
\* one another (the availability check of _process_items against the clamped
\* subtractions of approve, reject and cancel).  It is stated for restocks: a
\* write-off by adjust_stock does not look at reserved_qty.
ReservedWithinStock == \A s \in Checked : reserved[s] <= stock[s]

\* No reservation leaks: every booked unit belongs to an order that is not cancelled, so
\* supersede, replace_items and cancel give back what create_order took.
ReservedIsBacked == \A s \in Stock : reserved[s] <= Demand({o \in Created : status[o] # "cancelled"}, s)

\* A customer has at most one order that waits for an address or a payment, which is what
\* lets the agent, the checkout link and the receipt speak of "the" order.
OneActiveOrder ==
    \A o, p \in Order :
        status[o] \in Active /\ status[p] \in Active /\ owner[o] = owner[p] => o = p

\* Nothing is prepared, packed or shipped before its payment is approved.
ShippedIsPaid == \A o \in Order : status[o] \in Fulfilment => payment[o] = "approved"

\* A paid order has left the statuses in which its items may be replaced or a new order supersedes
\* it, also when the address, a second receipt or a second approval comes late.
PaidIsClosed == \A o \in Order : payment[o] = "approved" => status[o] \notin Active \cup {"none"}

\* A unit leaves stock_qty at most once for each unit of an approved order: a second press
\* of the approval button, a rejection after it and a cancellation take nothing more.
StockFallsOnlyForSales ==
    \A s \in Stock : InitialStock[s] <= stock[s] + Demand({o \in Order : payment[o] = "approved"}, s)

\* An active order ends cancelled only when somebody cancels it or when a new order of the
\* same customer takes its place in the same commit.
SupersededIsReplaced ==
    [][\A o \in Order : status[o] \in Active /\ status'[o] = "cancelled" =>
            \/ CancelOrder(o)
            \/ \E p \in Order \ Created : status'[p] = "pending" /\ owner'[p] = owner[o]]_vars

\* A cancelled order is over: no later step makes it an order again.
CancelledIsTerminal == [][\A o \in Order : status[o] = "cancelled" => status'[o] = "cancelled"]_vars

\* An active order holds the units of its basket, unless its receipt has been rejected: what
\* repository.py says of _ACTIVE_STATUSES.
ActiveHoldsUnits ==
    \A s \in Checked :
        Demand({o \in Order : status[o] \in Active /\ payment[o] # "rejected"}, s) <= reserved[s]
=============================================================================
